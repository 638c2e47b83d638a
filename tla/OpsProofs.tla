------------------------------ MODULE OpsProofs ------------------------------
(****************************************************************************)
(* What the builders of ops.rs, and those of comb.rs on top of them,        *)
(* compute, for words of every width: for every FSM they extend and every   *)
(* valuation that respects its gates, the word they return says the number  *)
(* that the operator makes of what its operands say.  The loops of the      *)
(* builders are followed by LoopRuns and Climbs, on the numbers themselves. *)
(****************************************************************************)
EXTENDS Ops, CombGates, Runtime, FsmProofs

(* Induction up to n, and over all naturals, for what a set collects.       *)
LEMMA Climbs ==
  ASSUME NEW n \in Nat, NEW S, 0 \in S, \A k \in 1 .. n : k - 1 \in S => k \in S
  PROVE  \A k \in 0 .. n : k \in S
<1> DEFINE Bad == {k \in 0 .. n : k \notin S}
<1>1. SUFFICES ASSUME Bad # {} PROVE FALSE
  OBVIOUS
<1>2. PICK k \in Bad : \A j \in Bad : k <= j
  <2>1. Bad \subseteq Nat
    OBVIOUS
  <2> HIDE DEF Bad
  <2> QED
    BY <1>1, <2>1, LeastNatural
<1>3. k \in 1 .. n /\ k - 1 \in 0 .. n
  BY <1>2
<1>4. k - 1 \notin Bad
  BY <1>2, <1>3
<1> QED
  BY <1>2, <1>3, <1>4

(* And over all naturals.                                                   *)
LEMMA ClimbsOn ==
  ASSUME NEW S, 0 \in S, \A k \in Nat : k \in S => k + 1 \in S
  PROVE  \A k \in Nat : k \in S
<1> SUFFICES ASSUME NEW n \in Nat PROVE n \in S
  OBVIOUS
<1>1. \A k \in 1 .. n : k - 1 \in S => k \in S
  <2> SUFFICES ASSUME NEW k \in 1 .. n, k - 1 \in S PROVE k \in S
    OBVIOUS
  <2>1. k - 1 \in Nat /\ (k - 1) + 1 = k
    OBVIOUS
  <2> QED
    BY <2>1
<1>2. \A k \in 0 .. n : k \in S
  BY <1>1, Climbs
<1> QED
  BY <1>2

(* A loop whose step takes what V holds for a number to what it holds for   *)
(* the next defines a sequence of states.                                   *)
Runs(n, V, base, F, g) ==
  /\ g = [k \in 0 .. n |-> IF k = 0 THEN base ELSE F[<<g[k - 1], k>>]]
  /\ \A k \in 0 .. n : g[k] \in V[k]
LEMMA LoopRuns ==
  ASSUME NEW n \in Nat, NEW V, NEW base, base \in V[0], NEW F,
         \A k \in 1 .. n : \A x \in V[k - 1] : F[<<x, k>>] \in V[k]
  PROVE  \E g : Runs(n, V, base, F, g)
<1> DEFINE S == UNION {V[k] : k \in 0 .. n}
           p == [k \in Nat |-> k - 1]
           stop == {k \in Nat : k = 0 \/ k > n}
           first == [k \in Nat |-> base]
           ext == [y \in Nat \X S |-> IF y[2] \in V[y[1] - 1] THEN F[<<y[2], y[1]>>] ELSE base]
<1>1. base \in S
  BY 0 \in 0 .. n
<1>2. \A k \in Nat \ stop : k \in 1 .. n /\ p[k] \in Nat /\ p[k] < k
  OBVIOUS
<1>3. \A k \in Nat \ stop : \A x \in S : ext[<<k, x>>] \in S
  <2> SUFFICES ASSUME NEW k \in Nat \ stop, NEW x \in S PROVE ext[<<k, x>>] \in S
    OBVIOUS
  <2>1. ext[<<k, x>>] = IF x \in V[k - 1] THEN F[<<x, k>>] ELSE base
    OBVIOUS
  <2>2. k \in 1 .. n /\ k \in 0 .. n
    BY <1>2
  <2>3. V[k] \subseteq S
    BY <2>2
  <2> HIDE DEF S, ext
  <2> QED
    BY <1>1, <2>1, <2>2, <2>3
<1>4. Descends(S, p, stop, first, ext)
  <2>1. \A k \in Nat \cap stop : first[k] \in S
    BY <1>1
  <2> HIDE DEF S, ext, p, stop, first
  <2> QED
    BY <1>2, <1>3, <2>1 DEF Descends
<1>5. PICK h : Recurs(S, p, stop, first, ext, h)
  <2> HIDE DEF S, ext, p, stop, first
  <2> QED
    BY <1>4, RecursionDefines
<1>6. h[0] = base
  <2>1. 0 \in stop /\ first[0] = base
    OBVIOUS
  <2> HIDE DEF S, ext, p, stop, first
  <2> QED
    BY <1>5, <2>1 DEF Recurs
<1>7. \A k \in 1 .. n : h[k - 1] \in V[k - 1] => h[k] = F[<<h[k - 1], k>>] /\ h[k] \in V[k]
  <2> SUFFICES ASSUME NEW k \in 1 .. n, h[k - 1] \in V[k - 1]
               PROVE  h[k] = F[<<h[k - 1], k>>] /\ h[k] \in V[k]
    OBVIOUS
  <2>1. k \in Nat /\ k \notin stop /\ p[k] = k - 1 /\ k - 1 \in 0 .. n
    OBVIOUS
  <2>2. h[k - 1] \in S
    BY <2>1
  <2>3. h[k] = ext[<<k, h[k - 1]>>]
    <3> HIDE DEF S, ext, p, stop, first
    <3> QED
      BY <1>5, <2>1 DEF Recurs
  <2>4. ext[<<k, h[k - 1]>>] = F[<<h[k - 1], k>>]
    <3> HIDE DEF S
    <3> QED
      BY <2>1, <2>2
  <2> HIDE DEF S, ext, p, stop, first
  <2> QED
    BY <2>3, <2>4
<1> DEFINE T == {k \in 0 .. n : h[k] \in V[k]}
<1>8. \A k \in 0 .. n : k \in T
  <2>1. 0 \in T
    BY <1>6
  <2>2. \A k \in 1 .. n : k - 1 \in T => k \in T
    <3> SUFFICES ASSUME NEW k \in 1 .. n, h[k - 1] \in V[k - 1] PROVE h[k] \in V[k] /\ k \in 0 .. n
      OBVIOUS
    <3>1. k \in 0 .. n
      OBVIOUS
    <3> HIDE DEF S, p, stop, first, ext, T
    <3> QED
      BY <1>7, <3>1
  <2> HIDE DEF T
  <2> QED
    BY <2>1, <2>2, Climbs
<1> DEFINE g == [k \in 0 .. n |-> h[k]]
<1>9. g = [k \in 0 .. n |-> IF k = 0 THEN base ELSE F[<<g[k - 1], k>>]]
  <2> SUFFICES ASSUME NEW k \in 0 .. n PROVE h[k] = IF k = 0 THEN base ELSE F[<<g[k - 1], k>>]
    OBVIOUS
  <2>1. CASE k = 0
    BY <1>6, <2>1
  <2>2. CASE k # 0
    <3>1. k \in 1 .. n /\ k - 1 \in 0 .. n
      BY <2>2
    <3>2. h[k] = F[<<h[k - 1], k>>]
      BY <1>7, <1>8, <3>1
    <3> QED
      BY <2>2, <3>1, <3>2
  <2> QED
    BY <2>1, <2>2
<1>10. \A k \in 0 .. n : g[k] \in V[k]
  BY <1>8
<1>11. Runs(n, V, base, F, g)
  <2> HIDE DEF g
  <2> QED
    BY <1>9, <1>10 DEF Runs
<1> QED
  BY <1>11

(* Pow2 is defined on every natural.                                        *)
LEMMA Powers ==
  /\ Pow2 \in [Nat -> Nat] /\ Pow2[0] = 1
  /\ \A k \in Nat : Pow2[k + 1] = 2 * Pow2[k] /\ Pow2[k] >= 1
<1> DEFINE p == [k \in Nat |-> k - 1]
           stop == {0}
           first == [k \in Nat |-> 1]
           ext == [y \in Nat \X Nat |-> 2 * y[2]]
<1>1. PICK h : Recurs(Nat, p, stop, first, ext, h)
  <2>1. \A k \in Nat \ stop : p[k] \in Nat /\ p[k] < k
    OBVIOUS
  <2>2. \A k \in Nat \cap stop : first[k] \in Nat
    OBVIOUS
  <2>3. \A k \in Nat \ stop : \A x \in Nat : ext[<<k, x>>] \in Nat
    OBVIOUS
  <2> HIDE DEF p, stop, first, ext
  <2> QED
    BY <2>1, <2>2, <2>3, RecursionDefines DEF Descends
<1>2. h \in [Nat -> Nat] /\ \A k \in Nat : h[k] = IF k = 0 THEN 1 ELSE 2 * h[k - 1]
  <2>1. \A k \in Nat : h[k] = IF k \in stop THEN first[k] ELSE ext[<<k, h[p[k]]>>]
    <3> HIDE DEF p, stop, first, ext
    <3> QED
      BY <1>1 DEF Recurs
  <2>2. h \in [Nat -> Nat]
    BY <1>1 DEF Recurs
  <2> SUFFICES ASSUME NEW k \in Nat PROVE h[k] = IF k = 0 THEN 1 ELSE 2 * h[k - 1]
    BY <2>2
  <2>3. CASE k = 0
    BY <2>1, <2>3
  <2>4. CASE k # 0
    <3>1. k \notin stop /\ p[k] = k - 1 /\ h[k - 1] \in Nat
      BY <2>2, <2>4
    <3>2. ext[<<k, h[k - 1]>>] = 2 * h[k - 1]
      BY <3>1
    <3> HIDE DEF p, stop, first, ext
    <3> QED
      BY <2>1, <2>4, <3>1, <3>2
  <2> QED
    BY <2>3, <2>4
<1> DEFINE Rec(f) == [k \in Nat |-> IF k = 0 THEN 1 ELSE 2 * f[k - 1]]
<1>3. h = Rec(h)
  BY <1>2
<1>4. Pow2 = CHOOSE f : f = Rec(f)
  BY DEF Pow2
<1>5. Pow2 = Rec(Pow2)
  <2> HIDE DEF Rec
  <2> QED
    BY <1>3, <1>4
<1>6. Pow2[0] = 1 /\ \A k \in Nat : Pow2[k + 1] = 2 * Pow2[k]
  <2>1. \A k \in Nat : Pow2[k] = IF k = 0 THEN 1 ELSE 2 * Pow2[k - 1]
    BY <1>5
  <2>2. \A k \in Nat : k + 1 \in Nat /\ k + 1 # 0 /\ (k + 1) - 1 = k
    OBVIOUS
  <2> HIDE DEF Rec
  <2> QED
    BY <2>1, <2>2
<1> DEFINE S == {k \in Nat : Pow2[k] \in Nat /\ Pow2[k] >= 1}
<1>7. \A k \in Nat : k \in S
  <2>1. 0 \in S /\ \A k \in Nat : k \in S => k + 1 \in S
    BY <1>6
  <2> HIDE DEF S
  <2> QED
    BY <2>1, ClimbsOn
<1>8. Pow2 \in [Nat -> Nat]
  <2>1. Pow2 = [k \in Nat |-> Pow2[k]]
    BY <1>5
  <2>2. \A k \in Nat : Pow2[k] \in Nat
    BY <1>7
  <2> HIDE DEF Rec, S
  <2> QED
    BY <2>1, <2>2
<1> QED
  BY <1>6, <1>7, <1>8

(* Powers of sums, and of greater exponents.                                *)
LEMMA PowersAdd ==
  \A i, j \in Nat : Pow2[i + j] = Pow2[i] * Pow2[j]
<1> SUFFICES ASSUME NEW i \in Nat PROVE \A j \in Nat : Pow2[i + j] = Pow2[i] * Pow2[j]
  OBVIOUS
<1> DEFINE S == {j \in Nat : Pow2[i + j] = Pow2[i] * Pow2[j]}
<1>1. 0 \in S
  BY Powers
<1>2. ASSUME NEW j \in Nat, j \in S PROVE j + 1 \in S
  <2>1. Pow2[(i + j) + 1] = 2 * Pow2[i + j] /\ Pow2[j + 1] = 2 * Pow2[j]
    BY Powers
  <2>2. i + (j + 1) = (i + j) + 1
    OBVIOUS
  <2>3. Pow2[i] \in Nat /\ Pow2[j] \in Nat
    BY Powers
  <2>4. 2 * (Pow2[i] * Pow2[j]) = Pow2[i] * (2 * Pow2[j])
    BY <2>3
  <2> QED
    BY <1>2, <2>1, <2>2, <2>4
<1> HIDE DEF S
<1>3. \A j \in Nat : j \in S
  BY <1>1, <1>2, ClimbsOn
<1> QED
  BY <1>3 DEF S

LEMMA PowersGrow ==
  ASSUME NEW i \in Nat, NEW j \in Nat, i <= j
  PROVE  Pow2[j] = Pow2[i] * Pow2[j - i] /\ Pow2[i] <= Pow2[j] /\ (i < j => 2 * Pow2[i] <= Pow2[j])
<1>1. j - i \in Nat /\ i + (j - i) = j
  OBVIOUS
<1>2. Pow2[j] = Pow2[i] * Pow2[j - i]
  BY <1>1, PowersAdd
<1>3. Pow2[i] \in Nat /\ Pow2[j - i] \in Nat /\ Pow2[i] >= 1 /\ Pow2[j - i] >= 1
  BY <1>1, Powers
<1>4. Pow2[i] * Pow2[j - i] >= Pow2[i]
  BY <1>3
<1>5. ASSUME i < j PROVE 2 * Pow2[i] <= Pow2[j]
  <2>1. j - i - 1 \in Nat /\ (j - i - 1) + 1 = j - i
    BY <1>5
  <2>2. Pow2[j - i] = 2 * Pow2[j - i - 1] /\ Pow2[j - i - 1] >= 1 /\ Pow2[j - i - 1] \in Nat
    BY <2>1, Powers
  <2>3. \A x, y \in Nat : y >= 1 => x * (2 * y) >= 2 * x
    OBVIOUS
  <2> QED
    BY <1>2, <1>3, <2>2, <2>3
<1> QED
  BY <1>2, <1>3, <1>4, <1>5

(* The number that the low bits of a word are: Worth(x)[k] for the low k.   *)
Worth(x) ==
  CHOOSE f : f = [k \in Nat |-> IF k = 0 THEN 0 ELSE f[k - 1] + (IF x[k] THEN Pow2[k - 1] ELSE 0)]
LEMMA WorthDefined ==
  \A x : /\ Worth(x) \in [Nat -> Nat] /\ Worth(x)[0] = 0
         /\ \A k \in Nat : Worth(x)[k + 1] = Worth(x)[k] + (IF x[k + 1] THEN Pow2[k] ELSE 0)
<1> SUFFICES ASSUME NEW x
             PROVE  /\ Worth(x) \in [Nat -> Nat] /\ Worth(x)[0] = 0
                    /\ \A k \in Nat : Worth(x)[k + 1] = Worth(x)[k] + (IF x[k + 1] THEN Pow2[k] ELSE 0)
  OBVIOUS
<1> DEFINE p == [k \in Nat |-> k - 1]
           stop == {0}
           first == [k \in Nat |-> 0]
           ext == [y \in Nat \X Nat |-> y[2] + (IF x[y[1]] THEN Pow2[y[1] - 1] ELSE 0)]
<1>0. \A k \in Nat \ stop : \A y \in Nat :
        k - 1 \in Nat /\ ext[<<k, y>>] = y + (IF x[k] THEN Pow2[k - 1] ELSE 0) /\ ext[<<k, y>>] \in Nat
  <2> SUFFICES ASSUME NEW k \in Nat \ stop, NEW y \in Nat
               PROVE  k - 1 \in Nat /\ ext[<<k, y>>] = y + (IF x[k] THEN Pow2[k - 1] ELSE 0) /\ ext[<<k, y>>] \in Nat
    OBVIOUS
  <2>1. k - 1 \in Nat
    OBVIOUS
  <2>2. Pow2[k - 1] \in Nat
    BY <2>1, Powers
  <2>3. ext[<<k, y>>] = y + (IF x[k] THEN Pow2[k - 1] ELSE 0)
    OBVIOUS
  <2> HIDE DEF ext
  <2> QED
    BY <2>1, <2>2, <2>3
<1>1. PICK h : Recurs(Nat, p, stop, first, ext, h)
  <2>1. \A k \in Nat \ stop : p[k] \in Nat /\ p[k] < k
    OBVIOUS
  <2>2. \A k \in Nat \cap stop : first[k] \in Nat
    OBVIOUS
  <2> HIDE DEF p, stop, first, ext
  <2> QED
    BY <1>0, <2>1, <2>2, RecursionDefines DEF Descends
<1>2. h \in [Nat -> Nat] /\ \A k \in Nat : h[k] = IF k = 0 THEN 0 ELSE h[k - 1] + (IF x[k] THEN Pow2[k - 1] ELSE 0)
  <2>1. \A k \in Nat : h[k] = IF k \in stop THEN first[k] ELSE ext[<<k, h[p[k]]>>]
    <3> HIDE DEF p, stop, first, ext
    <3> QED
      BY <1>1 DEF Recurs
  <2>2. h \in [Nat -> Nat]
    BY <1>1 DEF Recurs
  <2> SUFFICES ASSUME NEW k \in Nat PROVE h[k] = IF k = 0 THEN 0 ELSE h[k - 1] + (IF x[k] THEN Pow2[k - 1] ELSE 0)
    BY <2>2
  <2>3. CASE k = 0
    BY <2>1, <2>3
  <2>4. CASE k # 0
    <3>1. k \notin stop /\ p[k] = k - 1 /\ h[k - 1] \in Nat
      BY <2>2, <2>4
    <3>2. ext[<<k, h[k - 1]>>] = h[k - 1] + (IF x[k] THEN Pow2[k - 1] ELSE 0)
      BY <1>0, <3>1
    <3> HIDE DEF p, stop, first, ext
    <3> QED
      BY <2>1, <2>4, <3>1, <3>2
  <2> QED
    BY <2>3, <2>4
<1> DEFINE Rec(f) == [k \in Nat |-> IF k = 0 THEN 0 ELSE f[k - 1] + (IF x[k] THEN Pow2[k - 1] ELSE 0)]
<1>3. h = Rec(h)
  BY <1>2
<1>4. Worth(x) = CHOOSE f : f = Rec(f)
  BY DEF Worth
<1>5. Worth(x) = Rec(Worth(x))
  <2> HIDE DEF Rec
  <2> QED
    BY <1>3, <1>4
<1> DEFINE W == Worth(x)
<1>6. \A k \in Nat : W[k] = IF k = 0 THEN 0 ELSE W[k - 1] + (IF x[k] THEN Pow2[k - 1] ELSE 0)
  BY <1>5
<1>7. W = [k \in Nat |-> W[k]]
  BY <1>5
<1> HIDE DEF W
<1>8. W[0] = 0 /\ \A k \in Nat : W[k + 1] = W[k] + (IF x[k + 1] THEN Pow2[k] ELSE 0)
  <2>2. \A k \in Nat : k + 1 \in Nat /\ k + 1 # 0 /\ (k + 1) - 1 = k
    OBVIOUS
  <2> HIDE DEF Rec
  <2> QED
    BY <1>6, <2>2
<1> DEFINE S == {k \in Nat : W[k] \in Nat}
<1>9. \A k \in Nat : k \in S
  <2>1. 0 \in S /\ \A k \in Nat : k \in S => k + 1 \in S
    BY <1>8, Powers
  <2> HIDE DEF S
  <2> QED
    BY <2>1, ClimbsOn
<1> QED
  BY <1>7, <1>8, <1>9 DEF W

(* It has as many bits, and depends on no others.                           *)
LEMMA WorthBounded ==
  \A x : \A k \in Nat : Worth(x)[k] \in 0 .. Pow2[k] - 1
<1> SUFFICES ASSUME NEW x PROVE \A k \in Nat : Worth(x)[k] \in 0 .. Pow2[k] - 1
  OBVIOUS
<1> DEFINE W == Worth(x)
           S == {k \in Nat : W[k] \in 0 .. Pow2[k] - 1}
<1>0. W[0] = 0 /\ \A k \in Nat : W[k + 1] = W[k] + (IF x[k + 1] THEN Pow2[k] ELSE 0)
  BY WorthDefined
<1>1. 0 \in S
  BY <1>0, Powers
<1>2. ASSUME NEW k \in S PROVE k + 1 \in S
  <2>1. Pow2[k + 1] = 2 * Pow2[k] /\ Pow2[k] \in Nat /\ k + 1 \in Nat
    BY Powers
  <2> HIDE DEF W
  <2> QED
    BY <1>0, <2>1
<1> HIDE DEF S
<1>3. \A k \in Nat : k \in S
  BY <1>1, <1>2, ClimbsOn
<1> QED
  BY <1>3 DEF S

LEMMA WorthOfEqual ==
  ASSUME NEW x, NEW y, NEW n \in Nat, \A k \in 1 .. n : x[k] <=> y[k]
  PROVE  \A k \in 0 .. n : Worth(x)[k] = Worth(y)[k]
<1> DEFINE V == Worth(x)
           W == Worth(y)
           S == {k \in 0 .. n : V[k] = W[k]}
<1>0. /\ V[0] = 0 /\ \A k \in Nat : V[k + 1] = V[k] + (IF x[k + 1] THEN Pow2[k] ELSE 0)
      /\ W[0] = 0 /\ \A k \in Nat : W[k + 1] = W[k] + (IF y[k + 1] THEN Pow2[k] ELSE 0)
  BY WorthDefined
<1> HIDE DEF V, W
<1>1. 0 \in S
  BY <1>0
<1>2. ASSUME NEW k \in 1 .. n, k - 1 \in S PROVE k \in S
  <2>1. k - 1 \in Nat /\ (k - 1) + 1 = k /\ k \in 0 .. n
    OBVIOUS
  <2>2. (IF x[k] THEN Pow2[k - 1] ELSE 0) = (IF y[k] THEN Pow2[k - 1] ELSE 0)
    OBVIOUS
  <2>3. V[k - 1] = W[k - 1]
    BY <1>2
  <2>4. V[k] = V[k - 1] + (IF x[k] THEN Pow2[k - 1] ELSE 0) /\ W[k] = W[k - 1] + (IF y[k] THEN Pow2[k - 1] ELSE 0)
    BY <1>0, <2>1
  <2> QED
    BY <2>1, <2>2, <2>3, <2>4
<1> HIDE DEF S
<1>3. \A k \in 0 .. n : k \in S
  BY <1>1, <1>2, Climbs
<1> QED
  BY <1>3 DEF S, V, W

--------------------------------------------------------------------------------
(* What a driver or a word is made of, and the FSMs that the builders extend:*)
(* each gate has been ordered and reads drivers before it.                  *)
Signals == [index : Int, sign : BOOLEAN]
Vectors == {ds \in Seq(UNION {Drivers(n) : n \in Nat}) :
              \A k \in DOMAIN ds : ds[k].kind = "gate" =>
                ds[k] \in GateDrivers(k - 1) /\ Precedes(ds[k].a, ds[k].b)}
Words(w, n) == [1 .. w -> Values(n)]

(* What a literal, a gate and a vector of drivers say under a valuation.    *)
Says(val, v) == IF v.index = NoVar THEN v.sign ELSE val[v.index] = v.sign
Joins(type, a, b) == IF type = "And" THEN a /\ b ELSE a \/ b
Computes(val, d) == d.sign = Joins(d.type, Says(val, d.a), Says(val, d.b))
Respects(val, ds) == \A k \in DOMAIN ds : ds[k].kind = "gate" => val[k - 1] = Computes(val, ds[k])

(* The builders only append gates; so values stay valid, and a valuation that*)
(* respects the larger FSM respects the smaller one.                        *)
Grows(ds, new) == /\ Len(ds) <= Len(new)
                  /\ \A k \in 1 .. Len(ds) : new[k] = ds[k]
                  /\ \A k \in Len(ds) + 1 .. Len(new) : new[k].kind = "gate"
Follows(val, ds, new) == /\ ds \in Vectors /\ new \in Vectors
                         /\ Grows(ds, new)
                         /\ Values(Len(ds)) \subseteq Values(Len(new))
                         /\ Respects(val, new) => Respects(val, ds)

(* Vectors of drivers are sequences.                                        *)
LEMMA VectorLength == \A ds \in Vectors : Len(ds) \in Nat /\ DOMAIN ds = 1 .. Len(ds)
BY DEF Vectors

(* Constants and inverted literals are values, and stay so in a larger FSM. *)
LEMMA ValuesAre ==
  ASSUME NEW n \in Nat
  PROVE  /\ Values(n) \subseteq Signals
         /\ \A b \in BOOLEAN : Const(b) \in Values(n) /\ \A v \in Values(n) : Xor(v, b) \in Values(n)
         /\ False \in Values(n) /\ True \in Values(n)
         /\ \A v \in Values(n) : Not(v) \in Values(n)
         /\ \A m \in Nat : n <= m => Values(n) \subseteq Values(m)
<1>1. Values(n) \subseteq Signals
  BY DEF Values, Signals, NoVar
<1>2. \A b \in BOOLEAN : Const(b) \in Values(n)
  BY DEF Values, Const, NoVar
<1>3. ASSUME NEW b \in BOOLEAN, NEW v \in Values(n) PROVE Xor(v, b) \in Values(n)
  BY DEF Values, Xor
<1>4. ASSUME NEW m \in Nat, n <= m PROVE Values(n) \subseteq Values(m)
  <2>1. 0 .. n - 1 \subseteq 0 .. m - 1
    BY <1>4
  <2> QED
    BY <2>1 DEF Values
<1>5. False \in Values(n) /\ True \in Values(n) /\ \A v \in Values(n) : Not(v) \in Values(n)
  BY <1>2, <1>3 DEF False, True, Not
<1> QED
  BY <1>1, <1>2, <1>3, <1>4, <1>5

(* Growth is transitive, and says all that Follows does.                    *)
LEMMA FollowsGrowth ==
  ASSUME NEW val, NEW ds \in Vectors, NEW new \in Vectors, Grows(ds, new)
  PROVE  Follows(val, ds, new)
<1>1. Len(ds) \in Nat /\ Len(new) \in Nat /\ DOMAIN ds = 1 .. Len(ds) /\ DOMAIN new = 1 .. Len(new)
  BY VectorLength
<1>2. Values(Len(ds)) \subseteq Values(Len(new))
  BY <1>1, ValuesAre DEF Grows
<1>3. Respects(val, new) => Respects(val, ds)
  BY <1>1 DEF Grows, Respects
<1> QED
  BY <1>2, <1>3 DEF Follows

LEMMA FollowsItself ==
  ASSUME NEW val, NEW ds \in Vectors PROVE Follows(val, ds, ds)
<1>1. Len(ds) \in Nat
  BY VectorLength
<1>2. Grows(ds, ds)
  BY <1>1 DEF Grows
<1> QED
  BY <1>2, FollowsGrowth

LEMMA FollowsOn ==
  ASSUME NEW val, NEW d, NEW e, NEW f, Follows(val, d, e), Follows(val, e, f)
  PROVE  Follows(val, d, f)
<1>1. Len(d) \in Nat /\ Len(e) \in Nat /\ Len(f) \in Nat /\ d \in Vectors /\ f \in Vectors
  BY VectorLength DEF Follows
<1>2. Grows(d, e) /\ Grows(e, f)
  BY DEF Follows
<1>3. Grows(d, f)
  BY <1>1, <1>2 DEF Grows
<1> QED
  BY <1>1, <1>3, FollowsGrowth

--------------------------------------------------------------------------------
(* Inverting a literal inverts what it says; a constant says itself.        *)
LEMMA SaysInverse ==
  ASSUME NEW val \in [Nat -> BOOLEAN], NEW n \in Nat, NEW v \in Values(n)
  PROVE  /\ Says(val, v) \in BOOLEAN
         /\ \A b \in BOOLEAN : Says(val, Xor(v, b)) <=> (Says(val, v) # b)
         /\ Says(val, Not(v)) <=> ~Says(val, v)
<1>1. v.sign \in BOOLEAN /\ (v.index = NoVar \/ v.index \in Nat) /\ v = [index |-> v.index, sign |-> v.sign]
  BY DEF Values
<1>2. v.index # NoVar => val[v.index] \in BOOLEAN
  BY <1>1
<1>3. \A b \in BOOLEAN : /\ Xor(v, b).index = v.index /\ Xor(v, b).sign = (v.sign # b)
                         /\ (v.sign # b) \in BOOLEAN
  BY <1>1 DEF Xor
<1>4. Says(val, v) \in BOOLEAN
  BY <1>1, <1>2 DEF Says
<1>5. \A b \in BOOLEAN : Says(val, Xor(v, b)) <=> (Says(val, v) # b)
  <2> SUFFICES ASSUME NEW b \in BOOLEAN PROVE Says(val, Xor(v, b)) <=> (Says(val, v) # b)
    OBVIOUS
  <2>1. Says(val, Xor(v, b)) <=> IF v.index = NoVar THEN (v.sign # b) ELSE val[v.index] = (v.sign # b)
    BY <1>3 DEF Says
  <2>2. Says(val, v) <=> IF v.index = NoVar THEN v.sign ELSE val[v.index] = v.sign
    BY DEF Says
  <2> QED
    BY <1>1, <1>2, <2>1, <2>2, <1>4
<1> QED
  BY <1>4, <1>5 DEF Not

LEMMA SaysConst ==
  ASSUME NEW val PROVE (\A b : Says(val, Const(b)) = b) /\ Says(val, False) = FALSE /\ Says(val, True) = TRUE
BY DEF Says, Const, NoVar, False, True

(* A builder that returns one bit.                                          *)
BuildsBit(val, ds, g, b) ==
  /\ g \in [ds : Vectors, out : Signals]
  /\ Follows(val, ds, g.ds)
  /\ g.out \in Values(Len(g.ds))
  /\ Respects(val, g.ds) => (Says(val, g.out) <=> b)

(* What is built is a value of the grown FSM that says b.                   *)
LEMMA BuiltBit ==
  ASSUME NEW val, NEW ds \in Vectors, NEW v \in Values(Len(ds)), NEW b, Says(val, v) <=> b
  PROVE  BuildsBit(val, ds, Built(ds, v), b)
<1>1. Follows(val, ds, ds) /\ v \in Signals
  BY FollowsItself, VectorLength, ValuesAre
<1> QED
  BY <1>1 DEF BuildsBit, Built

(* Fsm::gate: folding of constants and ordering of operands keep the meaning.*)
LEMMA GateBuilds ==
  ASSUME NEW val \in [Nat -> BOOLEAN], NEW ds \in Vectors, NEW type \in {"And", "Or"},
         NEW a \in Values(Len(ds)), NEW b \in Values(Len(ds))
  PROVE  BuildsBit(val, ds, Gate(ds, type, a, b), Joins(type, Says(val, a), Says(val, b)))
<1> DEFINE n == Len(ds)
           gate == GateDriver(TRUE, type, a, b)
           new == Append(ds, gate)
<1>1. n \in Nat /\ DOMAIN ds = 1 .. n
  BY VectorLength
<1>2. /\ gate \in GateDrivers(n) /\ gate.kind = "gate" /\ gate.sign = TRUE /\ gate.type = type
      /\ Precedes(gate.a, gate.b) /\ ((gate.a = a /\ gate.b = b) \/ (gate.a = b /\ gate.b = a))
  <2>1. gate.kind = "gate" /\ gate.sign = TRUE /\ gate.type = type
        /\ ((gate.a = a /\ gate.b = b) \/ (gate.a = b /\ gate.b = a))
    <3> DEFINE raw == [kind |-> "gate", sign |-> TRUE, type |-> type, a |-> a, b |-> b]
    <3>1. gate = raw \/ gate = [raw EXCEPT !.a = raw.b, !.b = raw.a]
      BY DEF GateDriver, SortInputs
    <3> QED
      BY <3>1
  <2>2. gate \in GateDrivers(n) /\ Precedes(gate.a, gate.b)
    BY <1>1, GateDriverSorts
  <2> QED
    BY <2>1, <2>2
<1> HIDE DEF gate
<1>3. /\ new \in Seq(UNION {Drivers(m) : m \in Nat}) /\ Len(new) = n + 1
      /\ DOMAIN new = 1 .. n + 1 /\ new[n + 1] = gate
      /\ \A k \in 1 .. n : new[k] = ds[k]
  <2>1. gate \in UNION {Drivers(m) : m \in Nat}
    BY <1>1, <1>2 DEF Drivers
  <2>2. ds \in Seq(UNION {Drivers(m) : m \in Nat})
    BY DEF Vectors
  <2> QED
    BY <2>1, <2>2
<1>4. new \in Vectors
  <2> SUFFICES ASSUME NEW k \in 1 .. n + 1, new[k].kind = "gate"
               PROVE  new[k] \in GateDrivers(k - 1) /\ Precedes(new[k].a, new[k].b)
    BY <1>3 DEF Vectors
  <2>1. CASE k = n + 1
    <3>1. k - 1 = n
      BY <2>1, <1>1
    <3> QED
      BY <2>1, <3>1, <1>2, <1>3
  <2>2. CASE k \in 1 .. n
    BY <2>2, <1>1, <1>3 DEF Vectors
  <2> QED
    BY <2>1, <2>2, <1>1
<1>5. Grows(ds, new)
  <2>1. \A k \in n + 1 .. n + 1 : k = n + 1
    BY <1>1
  <2> QED
    BY <1>1, <1>2, <1>3, <2>1 DEF Grows
<1>6. Follows(val, ds, new)
  BY <1>4, <1>5, FollowsGrowth
<1> DEFINE v == Lit(n, TRUE)
<1>7. Gate(ds, type, a, b) = [ds |-> new, out |-> v]
  BY DEF Gate, Built, gate
<1>8. v \in Values(n + 1) /\ v \in Signals
  <2>1. n \in 0 .. (n + 1) - 1 /\ n \in Int
    BY <1>1
  <2> QED
    BY <2>1 DEF Values, Lit, Signals
<1>9. Respects(val, new) => (Says(val, v) <=> Joins(type, Says(val, a), Says(val, b)))
  <2> SUFFICES ASSUME Respects(val, new) PROVE Says(val, v) <=> Joins(type, Says(val, a), Says(val, b))
    OBVIOUS
  <2>1. val[n] = Computes(val, gate)
    <3>1. n + 1 \in 1 .. n + 1 /\ (n + 1) - 1 = n
      BY <1>1
    <3> QED
      BY <1>2, <1>3, <3>1 DEF Respects
  <2>2. Says(val, v) <=> val[n] = TRUE
    <3>1. v.index = n /\ v.sign = TRUE /\ n # NoVar
      BY <1>1 DEF Lit, NoVar
    <3> QED
      BY <3>1 DEF Says
  <2>3. Computes(val, gate) <=> Joins(type, Says(val, gate.a), Says(val, gate.b))
    BY <1>2 DEF Computes, Joins
  <2>4. Joins(type, Says(val, gate.a), Says(val, gate.b)) <=> Joins(type, Says(val, a), Says(val, b))
    BY <1>2 DEF Joins
  <2>5. val[n] \in BOOLEAN
    BY <1>1
  <2> QED
    BY <2>1, <2>2, <2>3, <2>4, <2>5
<1> HIDE DEF v, new
<1> QED
  BY <1>3, <1>4, <1>6, <1>7, <1>8, <1>9 DEF BuildsBit

(* What the parts of BuildsBit give to the next gate.                       *)
LEMMA BitBuilt ==
  ASSUME NEW val, NEW ds, NEW g, NEW b, BuildsBit(val, ds, g, b)
  PROVE  /\ g.ds \in Vectors /\ Len(g.ds) \in Nat /\ g.out \in Values(Len(g.ds)) /\ g.out \in Signals
         /\ Follows(val, ds, g.ds) /\ Values(Len(ds)) \subseteq Values(Len(g.ds))
         /\ Respects(val, g.ds) => Respects(val, ds) /\ (Says(val, g.out) <=> b)
<1>1. g.ds \in Vectors /\ Len(g.ds) \in Nat
  BY VectorLength DEF BuildsBit
<1> QED
  BY <1>1 DEF BuildsBit, Follows

LEMMA BitAfter ==
  ASSUME NEW val, NEW ds, NEW e, Follows(val, ds, e), NEW g, NEW b, BuildsBit(val, e, g, b),
         NEW c, Respects(val, e) => (b <=> c)
  PROVE  BuildsBit(val, ds, g, c)
<1>1. Follows(val, ds, g.ds)
  BY FollowsOn DEF BuildsBit
<1>2. Respects(val, g.ds) => Respects(val, e)
  BY DEF BuildsBit, Follows
<1> QED
  BY <1>1, <1>2 DEF BuildsBit

(* gate_xor and gate_mux of utils.rs.                                       *)
LEMMA XorBuilds ==
  ASSUME NEW val \in [Nat -> BOOLEAN], NEW ds \in Vectors,
         NEW a \in Values(Len(ds)), NEW b \in Values(Len(ds))
  PROVE  BuildsBit(val, ds, XorGate(ds, a, b), Says(val, a) # Says(val, b))
<1> DEFINE n == Len(ds)
           A == Says(val, a)
           B == Says(val, b)
           out == A # B
<1> SUFFICES BuildsBit(val, ds, XorGate(ds, a, b), out)
  OBVIOUS
<1>1. n \in Nat
  BY VectorLength
<1>2. A \in BOOLEAN /\ B \in BOOLEAN
  BY <1>1, SaysInverse
<1>3. a.sign \in BOOLEAN /\ b.sign \in BOOLEAN
  BY DEF Values
<1>4. CASE a.index = NoVar
  <2>1. XorGate(ds, a, b) = Built(ds, Xor(b, a.sign))
    BY <1>4 DEF XorGate
  <2>2. Xor(b, a.sign) \in Values(n) /\ (Says(val, Xor(b, a.sign)) <=> (B # a.sign))
    BY <1>1, <1>3, ValuesAre, SaysInverse
  <2>3. A = a.sign
    BY <1>4 DEF Says
  <2>4. Says(val, Xor(b, a.sign)) <=> out
    BY <2>2, <2>3, <1>2
  <2> HIDE DEF out
  <2> QED
    BY <2>1, <2>2, <2>4, BuiltBit
<1>5. CASE a.index # NoVar /\ b.index = NoVar
  <2>1. XorGate(ds, a, b) = Built(ds, Xor(a, b.sign))
    BY <1>5 DEF XorGate
  <2>2. Xor(a, b.sign) \in Values(n) /\ (Says(val, Xor(a, b.sign)) <=> (A # b.sign))
    BY <1>1, <1>3, ValuesAre, SaysInverse
  <2>3. B = b.sign
    BY <1>5 DEF Says
  <2>4. Says(val, Xor(a, b.sign)) <=> out
    BY <2>2, <2>3, <1>2
  <2> HIDE DEF out
  <2> QED
    BY <2>1, <2>2, <2>4, BuiltBit
<1>6. CASE a.index # NoVar /\ b.index # NoVar /\ a.index = b.index
  <2>1. XorGate(ds, a, b) = Built(ds, Const(a # b))
    BY <1>6 DEF XorGate
  <2>2. (a # b) \in BOOLEAN
    OBVIOUS
  <2>3. Const(a # b) \in Values(n) /\ Says(val, Const(a # b)) = (a # b)
    BY <1>1, <2>2, ValuesAre, SaysConst
  <2>4. (a # b) <=> (a.sign # b.sign)
    BY <1>6 DEF Values
  <2>5. A = (val[a.index] = a.sign) /\ B = (val[a.index] = b.sign)
    BY <1>6 DEF Says
  <2>6. val[a.index] \in BOOLEAN
    <3>1. a.index \in Nat
      BY <1>1, <1>6 DEF Values
    <3> QED
      BY <3>1
  <2>7. Says(val, Const(a # b)) <=> out
    BY <2>3, <2>4, <2>5, <2>6, <1>3
  <2> HIDE DEF out
  <2> QED
    BY <2>1, <2>3, <2>7, BuiltBit
<1>7. CASE a.index # NoVar /\ b.index # NoVar /\ a.index # b.index
  <2> DEFINE and == Gate(ds, "And", a, b)
             or == Gate(and.ds, "Or", a, b)
             xor == Gate(or.ds, "And", or.out, Not(and.out))
  <2>1. XorGate(ds, a, b) = xor
    BY <1>7 DEF XorGate, Then
  <2>2. BuildsBit(val, ds, and, A /\ B)
    BY GateBuilds, "And" \in {"And", "Or"} DEF Joins
  <2> HIDE DEF and
  <2>3. BuildsBit(val, and.ds, or, A \/ B)
    <3>1. and.ds \in Vectors /\ a \in Values(Len(and.ds)) /\ b \in Values(Len(and.ds))
      BY <2>2, BitBuilt
    <3>2. BuildsBit(val, and.ds, or, Joins("Or", Says(val, a), Says(val, b)))
      BY <3>1, GateBuilds
    <3> HIDE DEF or
    <3> QED
      BY <3>2 DEF Joins
  <2> HIDE DEF or
  <2>4. /\ or.ds \in Vectors /\ or.out \in Values(Len(or.ds)) /\ Not(and.out) \in Values(Len(or.ds))
        /\ Follows(val, ds, or.ds)
        /\ Respects(val, or.ds) => /\ Says(val, or.out) <=> (A \/ B)
                                   /\ Says(val, Not(and.out)) <=> ~(A /\ B)
    <3>1. Not(and.out) \in Values(Len(and.ds)) /\ (Says(val, Not(and.out)) <=> ~Says(val, and.out))
      BY <2>2, BitBuilt, ValuesAre, SaysInverse
    <3>2. Not(and.out) \in Values(Len(or.ds))
      BY <2>3, <3>1, BitBuilt
    <3>3. Respects(val, or.ds) => (Says(val, and.out) <=> (A /\ B)) /\ (Says(val, or.out) <=> (A \/ B))
      <4> HIDE DEF A, B
      <4> QED
        BY <2>2, <2>3, BitBuilt
    <3>4. Follows(val, ds, or.ds)
      BY <2>2, <2>3, BitBuilt, FollowsOn
    <3> HIDE DEF A, B
    <3> QED
      BY <2>3, <3>1, <3>2, <3>3, <3>4, BitBuilt
  <2>5. BuildsBit(val, or.ds, xor, Joins("And", Says(val, or.out), Says(val, Not(and.out))))
    BY <2>4, GateBuilds
  <2>6. Respects(val, or.ds) => (Joins("And", Says(val, or.out), Says(val, Not(and.out))) <=> out)
    <3> HIDE DEF A, B
    <3> QED
      BY <2>4, <1>2 DEF Joins
  <2> HIDE DEF xor, out
  <2> QED
    BY <2>1, <2>4, <2>5, <2>6, BitAfter
<1> QED
  BY <1>4, <1>5, <1>6, <1>7

LEMMA MuxBuilds ==
  ASSUME NEW val \in [Nat -> BOOLEAN], NEW ds \in Vectors,
         NEW a \in Values(Len(ds)), NEW b \in Values(Len(ds)), NEW select \in Values(Len(ds))
  PROVE  BuildsBit(val, ds, MuxGate(ds, a, b, select),
                   IF Says(val, select) THEN Says(val, b) ELSE Says(val, a))
<1> DEFINE n == Len(ds)
           A == Says(val, a)
           B == Says(val, b)
           S == Says(val, select)
           out == IF S THEN B ELSE A
<1> SUFFICES BuildsBit(val, ds, MuxGate(ds, a, b, select), out)
  OBVIOUS
<1>1. n \in Nat
  BY VectorLength
<1>2. A \in BOOLEAN /\ B \in BOOLEAN /\ S \in BOOLEAN
  BY <1>1, SaysInverse
<1>3. a.sign \in BOOLEAN /\ b.sign \in BOOLEAN /\ select.sign \in BOOLEAN
  BY DEF Values
<1>4. Not(select) \in Values(n) /\ (Says(val, Not(select)) <=> ~S)
  BY <1>1, ValuesAre, SaysInverse
<1>5. CASE select.index = NoVar
  <2>1. MuxGate(ds, a, b, select) = Built(ds, IF select.sign THEN b ELSE a)
    BY <1>5 DEF MuxGate
  <2>2. S = select.sign
    BY <1>5 DEF Says
  <2>3. (IF select.sign THEN b ELSE a) \in Values(n)
    OBVIOUS
  <2>4. Says(val, IF select.sign THEN b ELSE a) <=> out
    BY <2>2
  <2> HIDE DEF out
  <2> QED
    BY <2>1, <2>3, <2>4, BuiltBit
<1>6. CASE select.index # NoVar /\ a = b
  <2>1. MuxGate(ds, a, b, select) = Built(ds, a)
    BY <1>6 DEF MuxGate
  <2>2. Says(val, a) <=> out
    BY <1>6
  <2> HIDE DEF out
  <2> QED
    BY <2>1, <2>2, BuiltBit
<1>7. CASE select.index # NoVar /\ a # b /\ a.index = NoVar /\ b.index = NoVar
  <2>1. MuxGate(ds, a, b, select) = Built(ds, Xor(select, a.sign))
    BY <1>7 DEF MuxGate
  <2>2. Xor(select, a.sign) \in Values(n) /\ (Says(val, Xor(select, a.sign)) <=> (S # a.sign))
    BY <1>1, <1>3, ValuesAre, SaysInverse, ZenonT(60)
  <2>3. A = a.sign /\ B = b.sign
    BY <1>7 DEF Says
  <2>4. a.sign # b.sign
    BY <1>7 DEF Values
  <2>5. Says(val, Xor(select, a.sign)) <=> out
    <3> HIDE DEF A, B, S
    <3> QED
      BY <2>2, <2>3, <2>4, <1>2, <1>3
  <2> HIDE DEF out
  <2> QED
    BY <2>1, <2>2, <2>5, BuiltBit
<1>8. CASE select.index # NoVar /\ a # b /\ ~(a.index = NoVar /\ b.index = NoVar) /\ a = select
  <2>1. MuxGate(ds, a, b, select) = Gate(ds, "And", b, select)
    BY <1>8 DEF MuxGate
  <2>2. BuildsBit(val, ds, Gate(ds, "And", b, select), Joins("And", B, S))
    BY GateBuilds
  <2>3. Joins("And", B, S) <=> out
    BY <1>8, <1>2 DEF Joins
  <2>4. Follows(val, ds, ds)
    BY FollowsItself
  <2> HIDE DEF out
  <2> QED
    BY <2>1, <2>2, <2>3, <2>4, BitAfter
<1>9. CASE select.index # NoVar /\ a # b /\ ~(a.index = NoVar /\ b.index = NoVar) /\ a # select /\ b = Not(select)
  <2>1. MuxGate(ds, a, b, select) = Gate(ds, "And", a, Not(select))
    BY <1>9 DEF MuxGate
  <2>2. BuildsBit(val, ds, Gate(ds, "And", a, Not(select)), Joins("And", A, Says(val, Not(select))))
    BY <1>4, GateBuilds
  <2>3. Joins("And", A, Says(val, Not(select))) <=> out
    BY <1>9, <1>2, <1>4 DEF Joins
  <2>4. Follows(val, ds, ds)
    BY FollowsItself
  <2> HIDE DEF out
  <2> QED
    BY <2>1, <2>2, <2>3, <2>4, BitAfter
<1>10. CASE /\ select.index # NoVar /\ a # b /\ ~(a.index = NoVar /\ b.index = NoVar)
            /\ a # select /\ b # Not(select)
  <2> DEFINE fromA == Gate(ds, "And", a, Not(select))
             fromB == Gate(fromA.ds, "And", b, select)
             mux == Gate(fromB.ds, "Or", fromA.out, fromB.out)
  <2>1. MuxGate(ds, a, b, select) = mux
    BY <1>10 DEF MuxGate, Then
  <2>2. BuildsBit(val, ds, fromA, Joins("And", A, Says(val, Not(select))))
    BY <1>4, GateBuilds
  <2> HIDE DEF fromA
  <2>3. BuildsBit(val, fromA.ds, fromB, Joins("And", B, S))
    <3>1. fromA.ds \in Vectors /\ b \in Values(Len(fromA.ds)) /\ select \in Values(Len(fromA.ds))
      BY <2>2, BitBuilt
    <3> QED
      BY <3>1, GateBuilds
  <2> HIDE DEF fromB
  <2>4. /\ fromB.ds \in Vectors /\ fromB.out \in Values(Len(fromB.ds)) /\ fromA.out \in Values(Len(fromB.ds))
        /\ Follows(val, ds, fromB.ds)
        /\ Respects(val, fromB.ds) => /\ Says(val, fromB.out) <=> (B /\ S)
                                      /\ Says(val, fromA.out) <=> (A /\ ~S)
    <3>1. Respects(val, fromB.ds) => /\ Says(val, fromA.out) <=> Joins("And", A, Says(val, Not(select)))
                                     /\ Says(val, fromB.out) <=> Joins("And", B, S)
      <4> HIDE DEF A, B, S
      <4> QED
        BY <2>2, <2>3, BitBuilt
    <3>2. Follows(val, ds, fromB.ds)
      BY <2>2, <2>3, BitBuilt, FollowsOn
    <3>3. fromB.ds \in Vectors /\ fromB.out \in Values(Len(fromB.ds)) /\ fromA.out \in Values(Len(fromB.ds))
      BY <2>2, <2>3, BitBuilt
    <3> HIDE DEF A, B, S
    <3> QED
      BY <3>1, <3>2, <3>3, <1>4 DEF Joins
  <2>5. BuildsBit(val, fromB.ds, mux, Joins("Or", Says(val, fromA.out), Says(val, fromB.out)))
    BY <2>4, GateBuilds
  <2>6. Respects(val, fromB.ds) => (Joins("Or", Says(val, fromA.out), Says(val, fromB.out)) <=> out)
    <3> HIDE DEF A, B, S
    <3> QED
      BY <2>4, <1>2 DEF Joins
  <2> HIDE DEF mux, out
  <2> QED
    BY <2>1, <2>4, <2>5, <2>6, BitAfter
<1> QED
  BY <1>5, <1>6, <1>7, <1>8, <1>9, <1>10

(* A loop keeps what its steps keep.                                        *)
LEMMA LoopKeeps ==
  ASSUME NEW n \in Nat, NEW V, NEW h, h[0] \in V[0],
         \A k \in 1 .. n : h[k - 1] \in V[k - 1] => h[k] \in V[k]
  PROVE  \A k \in 0 .. n : h[k] \in V[k]
<1> DEFINE S == {k \in 0 .. n : h[k] \in V[k]}
<1>1. 0 \in S
  OBVIOUS
<1>2. \A k \in 1 .. n : k - 1 \in S => k \in S
  OBVIOUS
<1>3. \A k \in 0 .. n : k \in S
  <2> HIDE DEF S
  <2> QED
    BY <1>1, <1>2, Climbs
<1> QED
  BY <1>3

--------------------------------------------------------------------------------
(* What a builder returns: a word, each of whose bits says x.               *)
Builds == [ds : Vectors, out : Seq(Signals)]
BuildsBits(val, ds, g, w, x) ==
  /\ Follows(val, ds, g.ds)
  /\ g.out \in Words(w, Len(g.ds))
  /\ Respects(val, g.ds) => \A k \in 1 .. w : Says(val, g.out[k]) <=> x[k]

(* Words are sequences; they stay words as the FSM grows and when bits are  *)
(* appended.                                                                *)
LEMMA WordShape ==
  ASSUME NEW w \in Nat, NEW n \in Nat, NEW x \in Words(w, n)
  PROVE  /\ x \in Seq(Values(n)) /\ x \in Seq(Signals) /\ Len(x) = w /\ DOMAIN x = 1 .. w
         /\ \A k \in 1 .. w : x[k] \in Values(n) /\ x[k] \in Signals
<1>1. x \in [1 .. w -> Values(n)] /\ Values(n) \subseteq Signals
  BY ValuesAre DEF Words
<1> QED
  BY <1>1

LEMMA WordsGrow ==
  ASSUME NEW val, NEW ds, NEW new, Follows(val, ds, new), NEW w, NEW x \in Words(w, Len(ds))
  PROVE  x \in Words(w, Len(new))
BY DEF Words, Follows

LEMMA WordAppended ==
  ASSUME NEW w \in Nat, NEW n \in Nat, NEW x \in Words(w, n), NEW v \in Values(n)
  PROVE  /\ Append(x, v) \in Words(w + 1, n) /\ Append(x, v) \in Seq(Signals)
         /\ Append(x, v)[w + 1] = v /\ \A k \in 1 .. w : Append(x, v)[k] = x[k]
<1>1. x \in Seq(Values(n)) /\ Len(x) = w
  BY WordShape
<1> HIDE DEF Words
<1>2. /\ Append(x, v) \in Seq(Values(n)) /\ Len(Append(x, v)) = w + 1
      /\ Append(x, v)[w + 1] = v /\ \A k \in 1 .. w : Append(x, v)[k] = x[k]
  BY <1>1
<1>3. Append(x, v) \in [1 .. w + 1 -> Values(n)]
  <2> DEFINE y == Append(x, v)
  <2>1. y \in Seq(Values(n)) /\ Len(y) = w + 1
    BY <1>2
  <2> HIDE DEF y
  <2>2. y \in [1 .. Len(y) -> Values(n)]
    BY <2>1, LenProperties
  <2> QED
    BY <2>1, <2>2 DEF y
<1>4. Append(x, v) \in Words(w + 1, n)
  BY <1>3 DEF Words
<1>5. Append(x, v) \in Seq(Signals)
  <2>1. w + 1 \in Nat
    OBVIOUS
  <2> QED
    BY <1>4, <2>1, WordShape
<1> QED
  BY <1>2, <1>4, <1>5

LEMMA EmptyWord ==
  ASSUME NEW n \in Nat PROVE <<>> \in Words(0, n) /\ <<>> \in Seq(Signals)
<1>1. <<>> \in [1 .. 0 -> Values(n)]
  OBVIOUS
<1> QED
  BY <1>1 DEF Words

(* A word after one more of its bits.                                       *)
LEMMA BitAdded ==
  ASSUME NEW val, NEW ds, NEW k \in Nat, NEW x, NEW s \in Builds, BuildsBits(val, ds, s, k, x),
         NEW g, NEW b, BuildsBit(val, s.ds, g, b), Respects(val, s.ds) => (b <=> x[k + 1])
  PROVE  /\ [ds |-> g.ds, out |-> Append(s.out, g.out)] \in Builds
         /\ BuildsBits(val, ds, [ds |-> g.ds, out |-> Append(s.out, g.out)], k + 1, x)
<1> DEFINE out == Append(s.out, g.out)
           n == Len(g.ds)
<1>1. /\ g.ds \in Vectors /\ n \in Nat /\ g.out \in Values(n) /\ Follows(val, s.ds, g.ds)
      /\ Respects(val, g.ds) => Respects(val, s.ds) /\ (Says(val, g.out) <=> b)
  BY BitBuilt
<1>2. s.out \in Words(k, n)
  BY <1>1, WordsGrow DEF BuildsBits
<1>3. /\ out \in Words(k + 1, n) /\ out \in Seq(Signals)
      /\ out[k + 1] = g.out /\ \A i \in 1 .. k : out[i] = s.out[i]
  BY <1>1, <1>2, WordAppended
<1> HIDE DEF out, n
<1>4. Follows(val, ds, g.ds)
  BY <1>1, FollowsOn DEF BuildsBits
<1>5. Respects(val, g.ds) => \A i \in 1 .. k + 1 : Says(val, out[i]) <=> x[i]
  <2> SUFFICES ASSUME Respects(val, g.ds), NEW i \in 1 .. k + 1 PROVE Says(val, out[i]) <=> x[i]
    OBVIOUS
  <2>1. i \in 1 .. k \/ i = k + 1
    OBVIOUS
  <2> QED
    BY <1>1, <1>3, <2>1 DEF BuildsBits
<1> DEFINE new == [ds |-> g.ds, out |-> out]
<1>6. new \in Builds /\ new.ds = g.ds /\ new.out = out
  BY <1>1, <1>3 DEF Builds
<1>7. BuildsBits(val, ds, new, k + 1, x)
  <2> HIDE DEF new
  <2> QED
    BY <1>3, <1>4, <1>5, <1>6 DEF BuildsBits, n
<1> QED
  BY <1>6, <1>7 DEF out

(* A mux of words.                                                          *)
LEMMA MuxBuildsWord ==
  ASSUME NEW val \in [Nat -> BOOLEAN], NEW ds \in Vectors, NEW w \in Nat,
         NEW a \in Words(w, Len(ds)), NEW b \in Words(w, Len(ds)), NEW select \in Values(Len(ds))
  PROVE  /\ Mux(ds, a, b, select) \in Builds
         /\ BuildsBits(val, ds, Mux(ds, a, b, select), w,
              [k \in 1 .. w |-> IF Says(val, select) THEN Says(val, b[k]) ELSE Says(val, a[k])])
<1> DEFINE x == [k \in 1 .. w |-> IF Says(val, select) THEN Says(val, b[k]) ELSE Says(val, a[k])]
           bit(s, k) == MuxGate(s.ds, a[k], b[k], select)
           step(s, k) == [ds |-> bit(s, k).ds, out |-> Append(s.out, bit(s, k).out)]
           base == [ds |-> ds, out |-> <<>>]
           V == [k \in 0 .. w |-> {s \in Builds : BuildsBits(val, ds, s, k, x)}]
<1>1. base \in V[0]
  <2>1. Len(ds) \in Nat /\ Follows(val, ds, ds)
    BY VectorLength, FollowsItself
  <2>2. <<>> \in Words(0, Len(ds)) /\ <<>> \in Seq(Signals)
    BY <2>1, EmptyWord
  <2> QED
    BY <2>1, <2>2 DEF Builds, BuildsBits
<1>2. ASSUME NEW k \in 1 .. w, NEW s \in V[k - 1] PROVE step(s, k) \in V[k]
  <2>1. k - 1 \in 0 .. w /\ k - 1 \in Nat /\ (k - 1) + 1 = k /\ k \in 0 .. w
    OBVIOUS
  <2>2. s \in Builds /\ BuildsBits(val, ds, s, k - 1, x)
    BY <2>1
  <2>3. s.ds \in Vectors /\ a[k] \in Values(Len(s.ds)) /\ b[k] \in Values(Len(s.ds)) /\ select \in Values(Len(s.ds))
    BY <2>2 DEF BuildsBits, Follows, Words
  <2>4. BuildsBit(val, s.ds, bit(s, k), IF Says(val, select) THEN Says(val, b[k]) ELSE Says(val, a[k]))
    BY <2>3, MuxBuilds
  <2>5. (IF Says(val, select) THEN Says(val, b[k]) ELSE Says(val, a[k])) <=> x[k]
    OBVIOUS
  <2> HIDE DEF bit, x
  <2>6. step(s, k) \in Builds /\ BuildsBits(val, ds, step(s, k), (k - 1) + 1, x)
    BY <2>1, <2>2, <2>4, <2>5, BitAdded
  <2> HIDE DEF step
  <2> QED
    BY <2>1, <2>6
<1> DEFINE Rec(f) == [k \in 0 .. w |-> IF k = 0 THEN base ELSE step(f[k - 1], k)]
       F == [y \in Builds \X (1 .. w) |-> step(y[1], y[2])]
       after == CHOOSE f : f = Rec(f)
<1>a1. \A k \in 1 .. w : \A s \in V[k - 1] : F[<<s, k>>] = step(s, k) /\ F[<<s, k>>] \in V[k]
  <2> SUFFICES ASSUME NEW k \in 1 .. w, NEW s \in V[k - 1] PROVE F[<<s, k>>] = step(s, k)
    <3> HIDE DEF V, step, F
    <3> QED
      BY <1>2
  <2>1. k - 1 \in 0 .. w
    OBVIOUS
  <2>2. s \in Builds
    BY <2>1
  <2> HIDE DEF V, step
  <2> QED
    BY <2>2
<1>a2. PICK run : Runs(w, V, base, F, run)
  <2> HIDE DEF V, step, F, base
  <2> QED
    BY <1>1, <1>a1, LoopRuns
<1>a3. run = Rec(run)
  <2> SUFFICES ASSUME NEW k \in 0 .. w PROVE run[k] = IF k = 0 THEN base ELSE step(run[k - 1], k)
    <3> HIDE DEF V, step, F, base
    <3> QED
      BY <1>a2 DEF Runs
  <2>1. CASE k = 0
    <3> HIDE DEF V, step, F, base
    <3> QED
      BY <2>1, <1>a2 DEF Runs
  <2>2. CASE k # 0
    <3>1. k \in 1 .. w /\ k - 1 \in 0 .. w
      BY <2>2
    <3> HIDE DEF V, step, F, base
    <3> QED
      BY <2>2, <3>1, <1>a1, <1>a2 DEF Runs
  <2> QED
    BY <2>1, <2>2
<1>a4. after = Rec(after)
  <2> HIDE DEF Rec
  <2> QED
    BY <1>a3
<1>a5. after[0] = base /\ \A k \in 1 .. w : after[k] = step(after[k - 1], k)
  <2> HIDE DEF step, base, after, V, F
  <2>1. \A k \in 0 .. w : after[k] = IF k = 0 THEN base ELSE step(after[k - 1], k)
    BY <1>a4
  <2>2. 0 \in 0 .. w /\ \A k \in 1 .. w : k \in 0 .. w /\ k # 0
    OBVIOUS
  <2> HIDE DEF Rec
  <2> QED
    BY <2>1, <2>2
<1>a6. \A k \in 0 .. w : after[k] \in V[k]
  <2> HIDE DEF V, step, F, base, after, Rec
  <2> QED
    BY <1>1, <1>a1, <1>a5, LoopKeeps, ZenonT(60)
<1>3. Mux(ds, a, b, select) = after[w]
  <2>1. Len(a) = w
    BY VectorLength, WordShape
  <2> QED
    BY <2>1 DEF Mux, BuildWord, EachBit, Then, Built
<1>4. after[w] \in Builds /\ BuildsBits(val, ds, after[w], w, x)
  <2> HIDE DEF after, x
  <2> QED
    BY <1>a6
<1> HIDE DEF after
<1> QED
  BY <1>3, <1>4

(* A chain of gates says the conjunction or the disjunction of its literals.*)
Bits == [ds : Vectors, out : Signals]
Chains(val, type, w, x) ==
  IF type = "And" THEN \A i \in 1 .. w : Says(val, x[i]) ELSE \E i \in 1 .. w : Says(val, x[i])
LEMMA ChainBuilds ==
  ASSUME NEW val \in [Nat -> BOOLEAN], NEW ds \in Vectors, NEW type \in {"And", "Or"},
         NEW w \in Nat, w > 0, NEW x \in Words(w, Len(ds))
  PROVE  BuildsBit(val, ds, GateChain(ds, type, x), Chains(val, type, w, x))
<1> DEFINE From(j) == IF type = "And" THEN \A i \in j .. w : Says(val, x[i]) ELSE \E i \in j .. w : Says(val, x[i])
<1>0. SUFFICES ASSUME NEW n \in Nat, w = n + 1
               PROVE  BuildsBit(val, ds, GateChain(ds, type, x), From(1))
  <2>1. w - 1 \in Nat /\ w = (w - 1) + 1
    OBVIOUS
  <2> HIDE DEF From
  <2> QED
    BY <2>1 DEF From, Chains
<1> DEFINE step(s, k) == Gate(s.ds, type, s.out, x[w - k])
           base == [ds |-> ds, out |-> x[w]]
           V == [k \in 0 .. n |-> {s \in Bits : BuildsBit(val, ds, s, From(w - k))}]
<1>1. base \in V[0]
  <2>1. Len(ds) \in Nat /\ x[w] \in Values(Len(ds)) /\ w - 0 = w
    BY <1>0, VectorLength DEF Words
  <2>2. From(w) <=> Says(val, x[w])
    <3>1. \A i \in w .. w : i = w
      BY <1>0
    <3>2. w \in w .. w
      BY <1>0
    <3> QED
      BY <3>1, <3>2
  <2>3. BuildsBit(val, ds, base, From(w))
    <3> HIDE DEF From
    <3> QED
      BY <2>1, <2>2, BuiltBit DEF Built
  <2>4. base \in Bits
    BY <2>1, ValuesAre DEF Bits
  <2> HIDE DEF base, From
  <2> QED
    BY <2>1, <2>3, <2>4
<1>2. ASSUME NEW k \in 1 .. n, NEW s \in V[k - 1] PROVE step(s, k) \in V[k]
  <2>1. k - 1 \in 0 .. n /\ k \in 0 .. n /\ w - k \in 1 .. w /\ w - (k - 1) = (w - k) + 1
    BY <1>0
  <2>2. s \in Bits /\ BuildsBit(val, ds, s, From((w - k) + 1))
    <3> HIDE DEF From
    <3> QED
      BY <2>1
  <2>3. /\ s.ds \in Vectors /\ s.out \in Values(Len(s.ds)) /\ x[w - k] \in Values(Len(s.ds)) /\ Follows(val, ds, s.ds)
        /\ Respects(val, s.ds) => (Says(val, s.out) <=> From((w - k) + 1))
    <3> HIDE DEF From
    <3> QED
      BY <2>1, <2>2, BitBuilt DEF Words
  <2> DEFINE r == step(s, k)
  <2>4. BuildsBit(val, s.ds, r, Joins(type, Says(val, s.out), Says(val, x[w - k])))
    BY <2>3, GateBuilds
  <2>5. From(w - k) <=> Joins(type, From((w - k) + 1), Says(val, x[w - k]))
    <3>1. \A i \in Int : i \in w - k .. w <=> i \in (w - k) + 1 .. w \/ i = w - k
      BY <2>1
    <3>2. \A i \in w - k .. w : i \in Int
      BY <2>1
    <3>3. \A i \in (w - k) + 1 .. w : i \in Int
      BY <2>1
    <3>4. w - k \in Int
      BY <2>1
    <3> QED
      BY <3>1, <3>2, <3>3, <3>4 DEF Joins
  <2> HIDE DEF r, From
  <2>6. Respects(val, s.ds) => (Joins(type, Says(val, s.out), Says(val, x[w - k])) <=> From(w - k))
    BY <2>3, <2>5 DEF Joins
  <2>7. BuildsBit(val, ds, r, From(w - k))
    BY <2>3, <2>4, <2>6, BitAfter
  <2>8. r \in Bits
    BY <2>7 DEF BuildsBit, Bits
  <2> QED
    BY <2>1, <2>7, <2>8 DEF r
<1> DEFINE Rec(f) == [k \in 0 .. n |-> IF k = 0 THEN base ELSE step(f[k - 1], k)]
       F == [y \in Bits \X (1 .. n) |-> step(y[1], y[2])]
       after == CHOOSE f : f = Rec(f)
<1>a1. \A k \in 1 .. n : \A s \in V[k - 1] : F[<<s, k>>] = step(s, k) /\ F[<<s, k>>] \in V[k]
  <2> SUFFICES ASSUME NEW k \in 1 .. n, NEW s \in V[k - 1] PROVE F[<<s, k>>] = step(s, k)
    <3> HIDE DEF V, step, F
    <3> QED
      BY <1>2
  <2>1. k - 1 \in 0 .. n
    OBVIOUS
  <2>2. s \in Bits
    BY <2>1
  <2> HIDE DEF V, step
  <2> QED
    BY <2>2
<1>a2. PICK run : Runs(n, V, base, F, run)
  <2> HIDE DEF V, step, F, base
  <2> QED
    BY <1>1, <1>a1, LoopRuns
<1>a3. run = Rec(run)
  <2> SUFFICES ASSUME NEW k \in 0 .. n PROVE run[k] = IF k = 0 THEN base ELSE step(run[k - 1], k)
    <3> HIDE DEF V, step, F, base
    <3> QED
      BY <1>a2 DEF Runs
  <2>1. CASE k = 0
    <3> HIDE DEF V, step, F, base
    <3> QED
      BY <2>1, <1>a2 DEF Runs
  <2>2. CASE k # 0
    <3>1. k \in 1 .. n /\ k - 1 \in 0 .. n
      BY <2>2
    <3> HIDE DEF V, step, F, base
    <3> QED
      BY <2>2, <3>1, <1>a1, <1>a2 DEF Runs
  <2> QED
    BY <2>1, <2>2
<1>a4. after = Rec(after)
  <2> HIDE DEF Rec
  <2> QED
    BY <1>a3
<1>a5. after[0] = base /\ \A k \in 1 .. n : after[k] = step(after[k - 1], k)
  <2> HIDE DEF step, base, after, V, F
  <2>1. \A k \in 0 .. n : after[k] = IF k = 0 THEN base ELSE step(after[k - 1], k)
    BY <1>a4
  <2>2. 0 \in 0 .. n /\ \A k \in 1 .. n : k \in 0 .. n /\ k # 0
    OBVIOUS
  <2> HIDE DEF Rec
  <2> QED
    BY <2>1, <2>2
<1>a6. \A k \in 0 .. n : after[k] \in V[k]
  <2> HIDE DEF V, step, F, base, after, Rec
  <2> QED
    BY <1>1, <1>a1, <1>a5, LoopKeeps, ZenonT(60)
<1>3. GateChain(ds, type, x) = after[n]
  <2>1. Len(x) = w /\ w - 1 = n
    BY <1>0, VectorLength, WordShape
  <2> QED
    BY <2>1 DEF GateChain, EachBit, Built
<1>4. BuildsBit(val, ds, after[n], From(1))
  <2>1. after[n] \in V[n] /\ w - n = 1 /\ n \in 0 .. n
    <3> HIDE DEF after, V
    <3> QED
      BY <1>0, <1>a6
  <2> HIDE DEF after, From
  <2> QED
    BY <2>1
<1> HIDE DEF after, From
<1> QED
  BY <1>3, <1>4

--------------------------------------------------------------------------------
(* A full adder: its outputs are the two bits of the sum of its inputs.     *)
Sums == [ds : Vectors, out : Signals, carry : Signals]
BuildsSum(val, ds, g, n) ==
  /\ g \in Sums
  /\ Follows(val, ds, g.ds)
  /\ g.out \in Values(Len(g.ds)) /\ g.carry \in Values(Len(g.ds))
  /\ Respects(val, g.ds) => Truth(Says(val, g.out)) + 2 * Truth(Says(val, g.carry)) = n

LEMMA FullAdderBuilds ==
  ASSUME NEW val \in [Nat -> BOOLEAN], NEW ds \in Vectors,
         NEW a \in Values(Len(ds)), NEW b \in Values(Len(ds)), NEW carry \in Values(Len(ds))
  PROVE  BuildsSum(val, ds, FullAdder(ds, a, b, carry),
                   Truth(Says(val, a)) + Truth(Says(val, b)) + Truth(Says(val, carry)))
<1> DEFINE A == Says(val, a)
           B == Says(val, b)
           C == Says(val, carry)
           xor == XorGate(ds, a, b)
           sum == XorGate(xor.ds, xor.out, carry)
           ab == Gate(sum.ds, "And", a, b)
           ac == Gate(ab.ds, "And", a, carry)
           bc == Gate(ac.ds, "And", b, carry)
           all == <<ab.out, ac.out, bc.out>>
           or == GateChain(bc.ds, "Or", all)
           full == [ds |-> or.ds, out |-> sum.out, carry |-> or.out]
<1>0. FullAdder(ds, a, b, carry) = full
  BY DEF FullAdder, Then
<1>1. A \in BOOLEAN /\ B \in BOOLEAN /\ C \in BOOLEAN
  BY VectorLength, SaysInverse
<1>2. BuildsBit(val, ds, xor, A # B)
  BY XorBuilds
<1> HIDE DEF xor
<1>3. BuildsBit(val, xor.ds, sum, Says(val, xor.out) # C)
  <2>1. xor.ds \in Vectors /\ xor.out \in Values(Len(xor.ds)) /\ carry \in Values(Len(xor.ds))
    BY <1>2, BitBuilt
  <2> QED
    BY <2>1, XorBuilds
<1> HIDE DEF sum
<1>4. BuildsBit(val, sum.ds, ab, Joins("And", A, B))
  <2>1. sum.ds \in Vectors /\ a \in Values(Len(sum.ds)) /\ b \in Values(Len(sum.ds))
    BY <1>2, <1>3, BitBuilt
  <2> QED
    BY <2>1, GateBuilds
<1> HIDE DEF ab
<1>5. BuildsBit(val, ab.ds, ac, Joins("And", A, C))
  <2>1. ab.ds \in Vectors /\ a \in Values(Len(ab.ds)) /\ carry \in Values(Len(ab.ds))
    BY <1>2, <1>3, <1>4, BitBuilt
  <2> QED
    BY <2>1, GateBuilds
<1> HIDE DEF ac
<1>6. BuildsBit(val, ac.ds, bc, Joins("And", B, C))
  <2>1. ac.ds \in Vectors /\ b \in Values(Len(ac.ds)) /\ carry \in Values(Len(ac.ds))
    BY <1>2, <1>3, <1>4, <1>5, BitBuilt
  <2> QED
    BY <2>1, GateBuilds
<1> HIDE DEF bc
<1>7. /\ bc.ds \in Vectors /\ Follows(val, ds, bc.ds)
      /\ sum.out \in Values(Len(bc.ds)) /\ ab.out \in Values(Len(bc.ds))
      /\ ac.out \in Values(Len(bc.ds)) /\ bc.out \in Values(Len(bc.ds))
  <2>1. Follows(val, ds, xor.ds) /\ Follows(val, xor.ds, sum.ds) /\ Follows(val, sum.ds, ab.ds)
        /\ Follows(val, ab.ds, ac.ds) /\ Follows(val, ac.ds, bc.ds)
    BY <1>2, <1>3, <1>4, <1>5, <1>6, BitBuilt
  <2>2. Follows(val, ds, sum.ds)
    BY <2>1, FollowsOn
  <2>3. Follows(val, ds, ab.ds)
    BY <2>1, <2>2, FollowsOn
  <2>4. Follows(val, ds, ac.ds)
    BY <2>1, <2>3, FollowsOn
  <2>5. Follows(val, ds, bc.ds)
    BY <2>1, <2>4, FollowsOn
  <2> HIDE DEF A, B, C
  <2> QED
    BY <1>2, <1>3, <1>4, <1>5, <1>6, <2>5, BitBuilt
<1>8. all \in Words(3, Len(bc.ds)) /\ Len(bc.ds) \in Nat
  <2>1. all \in Seq(Values(Len(bc.ds))) /\ Len(all) = 3
    BY <1>7
  <2>2. all \in [1 .. 3 -> Values(Len(bc.ds))]
    BY <2>1, LenProperties
  <2> QED
    BY <1>7, <2>2, VectorLength DEF Words
<1> DEFINE some == \E i \in 1 .. 3 : Says(val, all[i])
<1>9. BuildsBit(val, bc.ds, or, some)
  <2>1. BuildsBit(val, bc.ds, or, Chains(val, "Or", 3, all))
    <3> HIDE DEF all
    <3> QED
      BY <1>7, <1>8, ChainBuilds
  <2>2. Chains(val, "Or", 3, all) <=> some
    <3> HIDE DEF all
    <3> QED
      BY DEF Chains
  <2>3. Follows(val, bc.ds, bc.ds)
    BY <1>7, FollowsItself
  <2> HIDE DEF or, some
  <2> QED
    BY <2>1, <2>2, <2>3, BitAfter
<1>10. some <=> Says(val, ab.out) \/ Says(val, ac.out) \/ Says(val, bc.out)
  <2>1. \A i \in 1 .. 3 : i = 1 \/ i = 2 \/ i = 3
    OBVIOUS
  <2>2. 1 \in 1 .. 3 /\ 2 \in 1 .. 3 /\ 3 \in 1 .. 3
    OBVIOUS
  <2>3. all[1] = ab.out /\ all[2] = ac.out /\ all[3] = bc.out
    OBVIOUS
  <2> HIDE DEF all
  <2> QED
    BY <2>1, <2>2, <2>3
<1> HIDE DEF or, some, A, B, C
<1>11. full \in Sums
  <2>1. or.ds \in Vectors /\ or.out \in Signals /\ sum.out \in Signals
    BY <1>3, <1>9, BitBuilt
  <2> QED
    BY <2>1 DEF Sums
<1>12. /\ Follows(val, ds, or.ds)
       /\ sum.out \in Values(Len(or.ds)) /\ or.out \in Values(Len(or.ds))
  BY <1>7, <1>9, BitBuilt, FollowsOn
<1>13. ASSUME Respects(val, or.ds)
       PROVE  (Says(val, sum.out) <=> ((A # B) # C)) /\ (Says(val, or.out) <=> (A /\ B) \/ (A /\ C) \/ (B /\ C))
  <2>1. /\ Says(val, xor.out) <=> (A # B)
        /\ Says(val, sum.out) <=> (Says(val, xor.out) # C)
        /\ Says(val, ab.out) <=> Joins("And", A, B)
        /\ Says(val, ac.out) <=> Joins("And", A, C)
        /\ Says(val, bc.out) <=> Joins("And", B, C)
        /\ Says(val, or.out) <=> some
    <3>1. Respects(val, bc.ds) /\ (Says(val, or.out) <=> some)
      BY <1>9, <1>13, BitBuilt
    <3>2. Respects(val, ac.ds) /\ (Says(val, bc.out) <=> Joins("And", B, C))
      BY <1>6, <3>1, BitBuilt
    <3>3. Respects(val, ab.ds) /\ (Says(val, ac.out) <=> Joins("And", A, C))
      BY <1>5, <3>2, BitBuilt
    <3>4. Respects(val, sum.ds) /\ (Says(val, ab.out) <=> Joins("And", A, B))
      BY <1>4, <3>3, BitBuilt
    <3> DEFINE both == A # B
               odd == Says(val, xor.out) # C
    <3>5. Respects(val, xor.ds) /\ (Says(val, sum.out) <=> odd)
      <4>1. BuildsBit(val, xor.ds, sum, odd)
        BY <1>3
      <4> HIDE DEF odd
      <4> QED
        BY <3>4, <4>1, BitBuilt
    <3>6. Says(val, xor.out) <=> both
      <4>1. BuildsBit(val, ds, xor, both)
        BY <1>2
      <4> HIDE DEF both
      <4> QED
        BY <3>5, <4>1, BitBuilt
    <3> QED
      BY <3>1, <3>2, <3>3, <3>4, <3>5, <3>6
  <2>2. Says(val, xor.out) \in BOOLEAN
    <3>1. xor.ds \in Vectors /\ xor.out \in Values(Len(xor.ds)) /\ Len(xor.ds) \in Nat
      BY <1>2, BitBuilt
    <3> QED
      BY <3>1, SaysInverse
  <2>3. Says(val, sum.out) <=> ((A # B) # C)
    BY <1>1, <2>1, <2>2
  <2>4. Says(val, or.out) <=> (A /\ B) \/ (A /\ C) \/ (B /\ C)
    BY <1>10, <2>1 DEF Joins
  <2> QED
    BY <2>3, <2>4
<1>14. Respects(val, or.ds) =>
         Truth(Says(val, sum.out)) + 2 * Truth(Says(val, or.out)) = Truth(A) + Truth(B) + Truth(C)
  BY <1>1, <1>13 DEF Truth
<1> QED
  <2>1. full.ds = or.ds /\ full.out = sum.out /\ full.carry = or.out
    OBVIOUS
  <2>2. BuildsSum(val, ds, full, Truth(A) + Truth(B) + Truth(C))
    <3> HIDE DEF full
    <3> QED
      BY <1>11, <1>12, <1>14, <2>1 DEF BuildsSum
  <2> QED
    BY <1>0, <2>2 DEF A, B, C

(* Division with remainder, once for all uses of % and \div.                *)
Divides(a, b, q, r) == b \in Nat /\ b > 0 /\ q \in Int /\ r \in 0 .. b - 1 /\ a \in Int /\ a = (b * q) + r
Divided(a, b, q, r) == a % b = r /\ a \div b = q
LEMMA DivisionIs ==
  ASSUME NEW a, NEW b, NEW q, NEW r, Divides(a, b, q, r) PROVE Divided(a, b, q, r)
BY DEF Divides, Divided

--------------------------------------------------------------------------------
(* The number that the k low bits of a word say.                            *)
Spoken(val, word) == [i \in DOMAIN word |-> Says(val, word[i])]
Low(val, word, k) == Worth(Spoken(val, word))[k]

(* One more bit; and words that agree on their low bits.                    *)
LEMMA LowGrows ==
  ASSUME NEW val, NEW w \in Nat, NEW n \in Nat, NEW x \in Words(w, n)
  PROVE  /\ Low(val, x, 0) = 0
         /\ \A k \in Nat : Low(val, x, k) \in 0 .. Pow2[k] - 1
         /\ \A k \in 1 .. w : Low(val, x, k) = Low(val, x, k - 1) + (Truth(Says(val, x[k])) * Pow2[k - 1])
<1> DEFINE y == Spoken(val, x)
<1>1. DOMAIN x = 1 .. w
  BY WordShape
<1>2. /\ Worth(y)[0] = 0 /\ Worth(y) \in [Nat -> Nat]
      /\ \A k \in Nat : Worth(y)[k + 1] = Worth(y)[k] + (IF y[k + 1] THEN Pow2[k] ELSE 0)
      /\ \A k \in Nat : Worth(y)[k] \in 0 .. Pow2[k] - 1
  BY WorthDefined, WorthBounded
<1>3. ASSUME NEW k \in 1 .. w
      PROVE  Worth(y)[k] = Worth(y)[k - 1] + (Truth(Says(val, x[k])) * Pow2[k - 1])
  <2>1. k - 1 \in Nat /\ (k - 1) + 1 = k
    OBVIOUS
  <2>2. Worth(y)[k] = Worth(y)[k - 1] + (IF y[k] THEN Pow2[k - 1] ELSE 0)
    <3> HIDE DEF y
    <3> QED
      BY <1>2, <2>1
  <2>3. y[k] <=> Says(val, x[k])
    BY <1>1 DEF Spoken
  <2>4. Pow2[k - 1] \in Nat /\ Worth(y)[k - 1] \in Nat
    BY <1>2, <2>1, Powers
  <2>5. (IF y[k] THEN Pow2[k - 1] ELSE 0) = Truth(Says(val, x[k])) * Pow2[k - 1]
    <3> HIDE DEF y
    <3> QED
      BY <2>3, <2>4 DEF Truth
  <2> QED
    BY <2>2, <2>5
<1> HIDE DEF y
<1> QED
  BY <1>2, <1>3 DEF Low, y

LEMMA LowAgrees ==
  ASSUME NEW val, NEW w \in Nat, NEW n \in Nat, NEW x \in Words(w, n),
         NEW u \in Nat, NEW m \in Nat, NEW y \in Words(u, m),
         NEW j \in Nat, j <= w, j <= u, \A k \in 1 .. j : Says(val, x[k]) <=> Says(val, y[k])
  PROVE  \A k \in 0 .. j : Low(val, x, k) = Low(val, y, k)
<1> DEFINE X == Spoken(val, x)
           Y == Spoken(val, y)
<1>1. DOMAIN x = 1 .. w /\ DOMAIN y = 1 .. u
  BY WordShape
<1>2. \A k \in 1 .. j : X[k] <=> Y[k]
  <2> SUFFICES ASSUME NEW k \in 1 .. j PROVE X[k] <=> Y[k]
    OBVIOUS
  <2>1. k \in 1 .. w /\ k \in 1 .. u
    OBVIOUS
  <2>2. X[k] = Says(val, x[k]) /\ Y[k] = Says(val, y[k])
    BY <1>1, <2>1 DEF Spoken
  <2> QED
    BY <2>2
<1> HIDE DEF X, Y
<1>3. \A k \in 0 .. j : Worth(X)[k] = Worth(Y)[k]
  BY <1>2, WorthOfEqual
<1> QED
  BY <1>3 DEF Low, X, Y

LEMMA LowAgreesShort ==
  ASSUME NEW val, NEW k \in Nat, k > 0, NEW n \in Nat, NEW x \in Words(k, n), NEW y \in Words(k - 1, n),
         \A i \in 1 .. k - 1 : Says(val, x[i]) <=> Says(val, y[i])
  PROVE  \A i \in 0 .. k - 1 : Low(val, x, i) = Low(val, y, i)
<1>1. k - 1 \in Nat /\ k - 1 <= k /\ k - 1 <= k - 1
  OBVIOUS
<1> DEFINE j == k - 1
<1>2. \A i \in 0 .. j : Low(val, x, i) = Low(val, y, i)
  <2>1. j \in Nat /\ j <= k /\ j <= j /\ y \in Words(j, n) /\ \A i \in 1 .. j : Says(val, x[i]) <=> Says(val, y[i])
    BY <1>1
  <2> HIDE DEF j
  <2> QED
    BY <2>1, LowAgrees
<1> QED
  BY <1>2

(* What is built is a word of w bits that says the number n.                *)
BuildsNumber(val, ds, g, w, n) ==
  /\ g \in Builds
  /\ Follows(val, ds, g.ds)
  /\ g.out \in Words(w, Len(g.ds))
  /\ Respects(val, g.ds) => Low(val, g.out, w) = n

LEMMA NumberBuilt ==
  ASSUME NEW val, NEW ds, NEW g, NEW w, NEW n, BuildsNumber(val, ds, g, w, n)
  PROVE  /\ g.ds \in Vectors /\ Len(g.ds) \in Nat /\ g.out \in Words(w, Len(g.ds)) /\ g \in Builds
         /\ Follows(val, ds, g.ds) /\ Values(Len(ds)) \subseteq Values(Len(g.ds))
         /\ \A u : Words(u, Len(ds)) \subseteq Words(u, Len(g.ds))
         /\ Respects(val, g.ds) => Respects(val, ds) /\ Low(val, g.out, w) = n
<1>1. g.ds \in Vectors /\ Len(g.ds) \in Nat
  BY VectorLength DEF BuildsNumber, Builds
<1>2. \A u : Words(u, Len(ds)) \subseteq Words(u, Len(g.ds))
  BY WordsGrow DEF BuildsNumber
<1> QED
  BY <1>1, <1>2 DEF BuildsNumber, Follows

LEMMA NumberAfter ==
  ASSUME NEW val, NEW ds, NEW e, Follows(val, ds, e), NEW g, NEW w, NEW n, BuildsNumber(val, e, g, w, n),
         NEW m, Respects(val, e) => n = m
  PROVE  BuildsNumber(val, ds, g, w, m)
<1>1. Follows(val, ds, g.ds)
  BY FollowsOn DEF BuildsNumber
<1>2. Respects(val, g.ds) => Respects(val, e)
  BY DEF BuildsNumber, Follows
<1> QED
  BY <1>1, <1>2 DEF BuildsNumber

--------------------------------------------------------------------------------
(* The adder computes the sum modulo Pow2[w], for words of every width.     *)
Carries == [ds : Vectors, out : Seq(Signals), carry : Signals]

THEOREM RippleAdderBuilds ==
  ASSUME NEW val \in [Nat -> BOOLEAN], NEW ds \in Vectors, NEW w \in Nat,
         NEW a \in Words(w, Len(ds)), NEW b \in Words(w, Len(ds)), NEW carry \in Values(Len(ds))
  PROVE  BuildsNumber(val, ds, RippleAdder(ds, a, b, carry), w,
           (Low(val, a, w) + Low(val, b, w) + Truth(Says(val, carry))) % Pow2[w])
<1> DEFINE Added(s, k) ==
             /\ Follows(val, ds, s.ds)
             /\ s.out \in Words(k, Len(s.ds)) /\ s.carry \in Values(Len(s.ds))
             /\ Respects(val, s.ds) =>
                  Low(val, s.out, k) + (Truth(Says(val, s.carry)) * Pow2[k])
                    = Low(val, a, k) + Low(val, b, k) + Truth(Says(val, carry))
           step(s, k) == [FullAdder(s.ds, a[k], b[k], s.carry) EXCEPT !.out = Append(s.out, @)]
           base == [ds |-> ds, out |-> <<>>, carry |-> carry]
           V == [k \in 0 .. w |-> {s \in Carries : Added(s, k)}]
<1>0. Len(ds) \in Nat /\ DOMAIN a = 1 .. w /\ DOMAIN b = 1 .. w /\ Len(a) = w
  BY VectorLength, WordShape
<1>1. base \in V[0]
  <2>1. Follows(val, ds, ds) /\ carry \in Signals
    BY <1>0, FollowsItself, ValuesAre
  <2>2. <<>> \in Words(0, Len(ds)) /\ <<>> \in Seq(Signals)
    BY <1>0, EmptyWord
  <2>3. Low(val, <<>>, 0) = 0 /\ Low(val, a, 0) = 0 /\ Low(val, b, 0) = 0 /\ Pow2[0] = 1
    BY <1>0, <2>2, LowGrows, Powers, ZenonT(60)
  <2>4. Truth(Says(val, carry)) \in Nat
    BY DEF Truth
  <2>5. Added(base, 0)
    BY <2>1, <2>2, <2>3, <2>4
  <2>6. base \in Carries
    BY <2>1, <2>2 DEF Carries
  <2> HIDE DEF base, Added
  <2> QED
    BY <2>5, <2>6
<1>2. ASSUME NEW k \in 1 .. w, NEW s \in V[k - 1] PROVE step(s, k) \in V[k]
  <2>1. k - 1 \in 0 .. w /\ k - 1 \in Nat /\ (k - 1) + 1 = k /\ k \in 0 .. w /\ k \in Nat /\ k > 0
    OBVIOUS
  <2>2. s \in Carries /\ Added(s, k - 1)
    <3> HIDE DEF Added
    <3> QED
      BY <2>1
  <2>3. /\ s.ds \in Vectors /\ Len(s.ds) \in Nat /\ a[k] \in Values(Len(s.ds)) /\ b[k] \in Values(Len(s.ds))
        /\ s.carry \in Values(Len(s.ds))
    BY <2>2, VectorLength DEF Follows, Words
  <2> HIDE DEF V, base, step
  <2> DEFINE g == FullAdder(s.ds, a[k], b[k], s.carry)
             out == Append(s.out, g.out)
             n == Len(g.ds)
  <2>4. BuildsSum(val, s.ds, g, Truth(Says(val, a[k])) + Truth(Says(val, b[k])) + Truth(Says(val, s.carry)))
    BY <2>3, FullAdderBuilds
  <2> HIDE DEF g
  <2>5. step(s, k) = [ds |-> g.ds, out |-> out, carry |-> g.carry]
    <3> HIDE DEF Added
    <3>1. \A h \in Sums : [h EXCEPT !.out = Append(s.out, @)]
                              = [ds |-> h.ds, out |-> Append(s.out, h.out), carry |-> h.carry]
      BY DEF Sums
    <3>2. g \in Sums
      BY <2>4 DEF BuildsSum
    <3>3. step(s, k) = [g EXCEPT !.out = Append(s.out, @)]
      BY DEF g, step
    <3> QED
      BY <3>1, <3>2, <3>3
  <2>6. /\ g.ds \in Vectors /\ n \in Nat /\ g.out \in Values(n) /\ g.carry \in Values(n) /\ g.carry \in Signals
        /\ Follows(val, s.ds, g.ds) /\ (Respects(val, g.ds) => Respects(val, s.ds))
    BY <2>4, VectorLength DEF BuildsSum, Sums, Follows
  <2>7. s.out \in Words(k - 1, n)
    BY <2>2, <2>6, WordsGrow
  <2>8. /\ out \in Words(k, n) /\ out \in Seq(Signals) /\ out[k] = g.out
        /\ \A i \in 1 .. k - 1 : out[i] = s.out[i]
    <3> DEFINE j == k - 1
    <3>1. j \in Nat /\ k = j + 1 /\ s.out \in Words(j, n)
      BY <2>1, <2>7
    <3>2. /\ out \in Words(k, n) /\ out \in Seq(Signals) /\ out[k] = g.out
          /\ \A i \in 1 .. j : out[i] = s.out[i]
      <4> HIDE DEF n, Added, j
      <4> DEFINE y == s.out
                 v == g.out
      <4>1. y \in Words(j, n) /\ v \in Values(n) /\ n \in Nat /\ j \in Nat
        BY <2>6, <3>1
      <4> HIDE DEF y, v
      <4>2. /\ Append(y, v) \in Words(j + 1, n) /\ Append(y, v) \in Seq(Signals)
            /\ Append(y, v)[j + 1] = v /\ \A i \in 1 .. j : Append(y, v)[i] = y[i]
        BY <4>1, WordAppended, ZenonT(60)
      <4> QED
        BY <3>1, <4>2 DEF y, v
    <3> QED
      BY <3>2
  <2>9. Follows(val, ds, g.ds)
    BY <2>2, <2>6, FollowsOn
  <2> HIDE DEF out, n
  <2> HIDE DEF Added
  <2>10. ASSUME Respects(val, g.ds)
         PROVE  Low(val, out, k) + (Truth(Says(val, g.carry)) * Pow2[k])
                  = Low(val, a, k) + Low(val, b, k) + Truth(Says(val, carry))
    <3> DEFINE ta == Truth(Says(val, a[k]))
               tb == Truth(Says(val, b[k]))
               tc == Truth(Says(val, s.carry))
               to == Truth(Says(val, g.out))
               tg == Truth(Says(val, g.carry))
               P == Pow2[k - 1]
    <3>1. to + 2 * tg = ta + tb + tc
      BY <2>4, <2>10 DEF BuildsSum
    <3>2. Low(val, s.out, k - 1) + (tc * P) = Low(val, a, k - 1) + Low(val, b, k - 1) + Truth(Says(val, carry))
      BY <2>2, <2>6, <2>10 DEF Added
    <3>3. \A i \in 0 .. k - 1 : Low(val, out, i) = Low(val, s.out, i)
      <4>1. \A i \in 1 .. k - 1 : Says(val, out[i]) <=> Says(val, s.out[i])
        BY <2>8
      <4>2. k - 1 <= k /\ k - 1 <= k - 1 /\ k \in Nat
        BY <2>1
      <4> QED
        BY <2>1, <2>6, <2>7, <2>8, <4>1, <4>2, LowAgreesShort
    <3>4. Low(val, out, k) = Low(val, s.out, k - 1) + (to * P)
      <4>1. k \in 1 .. k /\ k \in Nat /\ k - 1 \in 0 .. k - 1
        BY <2>1
      <4>2. Low(val, out, k) = Low(val, out, k - 1) + (to * P)
        BY <2>6, <2>8, <4>1, LowGrows
      <4> QED
        BY <3>3, <4>1, <4>2
    <3>5. Low(val, a, k) = Low(val, a, k - 1) + (ta * P) /\ Low(val, b, k) = Low(val, b, k - 1) + (tb * P)
      BY <1>0, LowGrows, ZenonT(60)
    <3>6. P \in Nat /\ Pow2[k] = 2 * P
      BY <2>1, Powers
    <3>7. /\ Low(val, s.out, k - 1) \in Nat /\ Low(val, a, k - 1) \in Nat /\ Low(val, b, k - 1) \in Nat
      <4>1. /\ Low(val, s.out, k - 1) \in 0 .. Pow2[k - 1] - 1 /\ Low(val, a, k - 1) \in 0 .. Pow2[k - 1] - 1
            /\ Low(val, b, k - 1) \in 0 .. Pow2[k - 1] - 1
        BY <1>0, <2>1, <2>6, <2>7, LowGrows
      <4> QED
        BY <4>1, <3>6
    <3>8. ta \in {0, 1} /\ tb \in {0, 1} /\ tc \in {0, 1} /\ to \in {0, 1} /\ tg \in {0, 1}
          /\ Truth(Says(val, carry)) \in {0, 1}
      BY DEF Truth
    <3> HIDE DEF ta, tb, tc, to, tg, P
    <3>9. (to * P) + (tg * (2 * P)) = (ta * P) + (tb * P) + (tc * P)
      BY <3>1, <3>6, <3>8
    <3>10. Low(val, out, k) + (tg * (2 * P)) = Low(val, a, k) + Low(val, b, k) + Truth(Says(val, carry))
      <4>1. (to * P) \in Nat /\ (tg * (2 * P)) \in Nat /\ (ta * P) \in Nat /\ (tb * P) \in Nat /\ (tc * P) \in Nat
        BY <3>6, <3>8
      <4> DEFINE pa == ta * P
                 pb == tb * P
                 pc == tc * P
                 po == to * P
                 pg == tg * (2 * P)
      <4>2. /\ po + pg = pa + pb + pc /\ Low(val, out, k) = Low(val, s.out, k - 1) + po
            /\ Low(val, s.out, k - 1) + pc = Low(val, a, k - 1) + Low(val, b, k - 1) + Truth(Says(val, carry))
            /\ Low(val, a, k) = Low(val, a, k - 1) + pa /\ Low(val, b, k) = Low(val, b, k - 1) + pb
            /\ po \in Nat /\ pg \in Nat /\ pa \in Nat /\ pb \in Nat /\ pc \in Nat
        BY <3>2, <3>4, <3>5, <3>9, <4>1
      <4> HIDE DEF pa, pb, pc, po, pg
      <4>3. Low(val, out, k) + pg = Low(val, a, k) + Low(val, b, k) + Truth(Says(val, carry))
        <5> DEFINE L == Low(val, s.out, k - 1)
                   A == Low(val, a, k - 1)
                   B == Low(val, b, k - 1)
                   c == Truth(Says(val, carry))
        <5>1. L \in Int /\ A \in Int /\ B \in Int /\ c \in Int
          BY <3>7, <3>8
        <5>2. /\ po + pg = pa + pb + pc /\ L + pc = A + B + c
              /\ Low(val, out, k) = L + po /\ Low(val, a, k) = A + pa /\ Low(val, b, k) = B + pb
              /\ po \in Int /\ pg \in Int /\ pa \in Int /\ pb \in Int /\ pc \in Int
          BY <4>2
        <5>3. (L + po) + pg = (A + pa) + (B + pb) + c
          <6> HIDE DEF L, A, B, c
          <6> QED
            BY <5>1, <5>2, SMTT(30)
        <5> QED
          BY <5>2, <5>3
      <4> QED
        BY <4>3 DEF pg
    <3> QED
      BY <3>6, <3>10 DEF tg
  <2> DEFINE r == [ds |-> g.ds, out |-> out, carry |-> g.carry]
  <2>11. Added(r, k)
    BY <2>6, <2>8, <2>9, <2>10 DEF n, Added
  <2>12. r \in Carries
    BY <2>6, <2>8 DEF Carries
  <2> HIDE DEF Added
  <2>13. r \in V[k]
    BY <2>1, <2>11, <2>12 DEF V
  <2> QED
    BY <2>5, <2>13
<1> HIDE DEF Added
<1> DEFINE Rec(f) == [k \in 0 .. w |-> IF k = 0 THEN base ELSE step(f[k - 1], k)]
       F == [y \in Carries \X (1 .. w) |-> step(y[1], y[2])]
       after == CHOOSE f : f = Rec(f)
<1>a1. \A k \in 1 .. w : \A s \in V[k - 1] : F[<<s, k>>] = step(s, k) /\ F[<<s, k>>] \in V[k]
  <2> SUFFICES ASSUME NEW k \in 1 .. w, NEW s \in V[k - 1] PROVE F[<<s, k>>] = step(s, k)
    <3> HIDE DEF V, step, F
    <3> QED
      BY <1>2
  <2>1. k - 1 \in 0 .. w
    OBVIOUS
  <2>2. s \in Carries
    BY <2>1
  <2> HIDE DEF V, step
  <2> QED
    BY <2>2
<1>a2. PICK run : Runs(w, V, base, F, run)
  <2> HIDE DEF V, step, F, base
  <2> QED
    BY <1>1, <1>a1, LoopRuns
<1>a3. run = Rec(run)
  <2> SUFFICES ASSUME NEW k \in 0 .. w PROVE run[k] = IF k = 0 THEN base ELSE step(run[k - 1], k)
    <3> HIDE DEF V, step, F, base
    <3> QED
      BY <1>a2 DEF Runs
  <2>1. CASE k = 0
    <3> HIDE DEF V, step, F, base
    <3> QED
      BY <2>1, <1>a2 DEF Runs
  <2>2. CASE k # 0
    <3>1. k \in 1 .. w /\ k - 1 \in 0 .. w
      BY <2>2
    <3> HIDE DEF V, step, F, base
    <3> QED
      BY <2>2, <3>1, <1>a1, <1>a2 DEF Runs
  <2> QED
    BY <2>1, <2>2
<1>a4. after = Rec(after)
  <2> HIDE DEF Rec
  <2> QED
    BY <1>a3
<1>a5. after[0] = base /\ \A k \in 1 .. w : after[k] = step(after[k - 1], k)
  <2> HIDE DEF step, base, after, V, F
  <2>1. \A k \in 0 .. w : after[k] = IF k = 0 THEN base ELSE step(after[k - 1], k)
    BY <1>a4
  <2>2. 0 \in 0 .. w /\ \A k \in 1 .. w : k \in 0 .. w /\ k # 0
    OBVIOUS
  <2> HIDE DEF Rec
  <2> QED
    BY <2>1, <2>2
<1>a6. \A k \in 0 .. w : after[k] \in V[k]
  <2> HIDE DEF V, step, F, base, after, Rec
  <2> QED
    BY <1>1, <1>a1, <1>a5, LoopKeeps, ZenonT(60)
<1>3. RippleAdder(ds, a, b, carry) = [ds |-> after[w].ds, out |-> after[w].out]
  BY <1>0 DEF RippleAdder, EachBit, Then, Built
<1>4. after[w] \in Carries /\ Added(after[w], w)
  <2> HIDE DEF after, Added
  <2> QED
    BY <1>a6
<1> DEFINE sum == Low(val, a, w) + Low(val, b, w) + Truth(Says(val, carry))
           end == after[w]
           g == [ds |-> end.ds, out |-> end.out]
<1> HIDE DEF after
<1>5. g \in Builds /\ Len(end.ds) \in Nat
  BY <1>4, VectorLength DEF Carries, Builds
<1> USE DEF Added
<1>6. Respects(val, end.ds) => Low(val, end.out, w) = sum % Pow2[w]
  <2> SUFFICES ASSUME Respects(val, end.ds) PROVE Low(val, end.out, w) = sum % Pow2[w]
    OBVIOUS
  <2>1. Low(val, end.out, w) + (Truth(Says(val, end.carry)) * Pow2[w]) = sum
    BY <1>4
  <2>2. Low(val, end.out, w) \in 0 .. Pow2[w] - 1 /\ Pow2[w] \in Nat /\ Pow2[w] >= 1
    BY <1>4, <1>5, LowGrows, Powers
  <2>3. Truth(Says(val, end.carry)) \in {0, 1}
    BY DEF Truth
  <2>4. sum = (Pow2[w] * Truth(Says(val, end.carry))) + Low(val, end.out, w)
    BY <2>1, <2>2, <2>3
  <2>5. Truth(Says(val, end.carry)) \in Int /\ sum \in Int
    BY <2>2, <2>3, <2>4
  <2> DEFINE c == Truth(Says(val, end.carry))
             low == Low(val, end.out, w)
  <2>6. low \in 0 .. Pow2[w] - 1 /\ c \in Int /\ sum = (Pow2[w] * c) + low /\ Pow2[w] \in Nat /\ Pow2[w] > 0
    BY <2>2, <2>4, <2>5
  <2>7. low = sum % Pow2[w]
    <3> DEFINE P == Pow2[w]
    <3> HIDE DEF sum, end, c, low, Added, P
    <3>1. Divides(sum, P, c, low)
      BY <2>5, <2>6 DEF Divides, P
    <3>2. Divided(sum, P, c, low)
      BY <3>1, DivisionIs
    <3> QED
      BY <3>2 DEF Divided, P
  <2> QED
    BY <2>7
<1>7. BuildsNumber(val, ds, g, w, sum % Pow2[w])
  <2> HIDE DEF sum
  <2> QED
    BY <1>4, <1>5, <1>6 DEF BuildsNumber
<1> QED
  BY <1>3, <1>7

--------------------------------------------------------------------------------
(* The bits from d on are worth Pow2[d] times what they are worth alone.    *)
PartFrom(x, d, y, m) == \A k \in 1 .. m : y[k] <=> x[d + k]
LEMMA WorthSplits ==
  ASSUME NEW x, NEW y, NEW d \in Nat, NEW m \in Nat, PartFrom(x, d, y, m), NEW e \in Nat, e = d + m
  PROVE  Worth(x)[e] = Worth(x)[d] + (Pow2[d] * Worth(y)[m])
<1> DEFINE X == Worth(x)
           Y == Worth(y)
           S == {k \in 0 .. m : X[d + k] = X[d] + (Pow2[d] * Y[k])}
<1>0. /\ X \in [Nat -> Nat] /\ \A k \in Nat : X[k + 1] = X[k] + (IF x[k + 1] THEN Pow2[k] ELSE 0)
      /\ Y \in [Nat -> Nat] /\ Y[0] = 0 /\ \A k \in Nat : Y[k + 1] = Y[k] + (IF y[k + 1] THEN Pow2[k] ELSE 0)
  BY WorthDefined
<1> HIDE DEF X, Y
<1>1. Pow2[d] \in Nat /\ \A k \in Nat : Pow2[k] \in Nat
  BY Powers
<1>2. 0 \in S
  <2>1. d + 0 = d /\ Pow2[d] * 0 = 0 /\ X[d] \in Nat
    BY <1>0, <1>1
  <2> QED
    BY <2>1, <1>0
<1>3. ASSUME NEW k \in 1 .. m, k - 1 \in S PROVE k \in S
  <2> DEFINE j == k - 1
  <2>1. j \in Nat /\ k = j + 1 /\ d + k = (d + j) + 1 /\ d + j \in Nat /\ X[d + j] = X[d] + (Pow2[d] * Y[j])
    BY <1>3
  <2> HIDE DEF j
  <2>2. /\ X[d + k] = X[d + j] + (IF x[d + k] THEN Pow2[d + j] ELSE 0)
        /\ Y[k] = Y[j] + (IF y[k] THEN Pow2[j] ELSE 0)
    BY <1>0, <2>1
  <2>3. y[k] <=> x[d + k]
    BY DEF PartFrom
  <2>4. Pow2[d + j] = Pow2[d] * Pow2[j] /\ Pow2[j] \in Nat /\ Y[j] \in Nat /\ X[d] \in Nat /\ Pow2[d + j] \in Nat
    BY <1>0, <1>1, <2>1, PowersAdd
  <2> DEFINE P == Pow2[d]
             Q == Pow2[j]
             yj == Y[j]
             xd == X[d]
  <2>5. P * (yj + Q) = (P * yj) + (P * Q)
    <3>1. P \in Nat /\ Q \in Nat /\ yj \in Nat
      BY <1>1, <2>4
    <3> HIDE DEF P, Q, yj
    <3> QED
      BY <3>1
  <2>6. (P * yj) \in Nat /\ (P * Q) \in Nat
    BY <1>1, <2>4
  <2>7. X[d + k] = X[d] + (Pow2[d] * Y[k])
    <3>1. CASE y[k]
      <4>1. X[d + k] = (X[d] + (P * yj)) + (P * Q)
        BY <2>1, <2>2, <2>3, <2>4, <3>1
      <4>2. Y[k] = yj + Q
        BY <2>2, <3>1
      <4>3. X[d] + ((P * yj) + (P * Q)) = (X[d] + (P * yj)) + (P * Q)
        BY <2>4, <2>6
      <4> QED
        BY <2>5, <4>1, <4>2, <4>3
    <3>2. CASE ~y[k]
      <4>1. X[d + k] = X[d] + (P * yj) /\ Y[k] = yj
        BY <2>1, <2>2, <2>3, <2>4, <2>6, <3>2
      <4> QED
        BY <4>1
    <3> QED
      BY <3>1, <3>2
  <2> QED
    BY <2>7
<1>4. \A k \in 0 .. m : k \in S
  <2> HIDE DEF S
  <2> QED
    BY <1>2, <1>3, Climbs
<1>5. m \in S
  BY <1>4
<1> QED
  BY <1>5 DEF X, Y

(* The low k bits of a number are worth its remainder by Pow2[k].           *)
LEMMA WorthOfNumber ==
  ASSUME NEW n \in Int, NEW w \in Nat, NEW x, \A k \in 1 .. w : x[k] <=> BitOf(n, k - 1)
  PROVE  \A k \in 0 .. w : Worth(x)[k] = n % Pow2[k]
<1> DEFINE X == Worth(x)
           S == {k \in 0 .. w : X[k] = n % Pow2[k]}
<1>0. /\ X \in [Nat -> Nat] /\ X[0] = 0 /\ \A k \in Nat : X[k + 1] = X[k] + (IF x[k + 1] THEN Pow2[k] ELSE 0)
  BY WorthDefined
<1> HIDE DEF X
<1>1. 0 \in S
  BY <1>0, Powers
<1>2. ASSUME NEW k \in 1 .. w, k - 1 \in S PROVE k \in S
  <2> DEFINE j == k - 1
             P == Pow2[j]
             q == n \div P
             r == n % P
             h == q \div 2
             t == q % 2
  <2>1. j \in Nat /\ k = j + 1 /\ X[j] = r
    BY <1>2
  <2>2. P \in Nat /\ P >= 1 /\ Pow2[k] = 2 * P
    BY <2>1, Powers
  <2>3. X[k] = X[j] + (IF x[k] THEN P ELSE 0)
    <3> HIDE DEF j
    <3> QED
      BY <1>0, <2>1
  <2>4. x[k] <=> t = 1
    BY DEF BitOf
  <2> HIDE DEF P, j
  <2>5. n = (P * q) + r /\ q \in Int /\ r \in 0 .. P - 1
    BY <2>2
  <2> HIDE DEF q, r
  <2>6. q = (2 * h) + t /\ h \in Int /\ t \in {0, 1}
    BY <2>5
  <2> HIDE DEF h, t
  <2>7. n = ((2 * P) * h) + ((P * t) + r) /\ (P * t) + r \in 0 .. (2 * P) - 1
    <3>1. P * q = ((2 * P) * h) + (P * t)
      BY <2>2, <2>6
    <3>2. (P * t) \in {0, P}
      BY <2>2, <2>6
    <3> QED
      BY <2>2, <2>5, <2>6, <3>1, <3>2
  <2>8. n % (2 * P) = (P * t) + r
    <3> DEFINE b == 2 * P
               u == (P * t) + r
    <3>1. b \in Nat /\ b > 0 /\ u \in 0 .. b - 1 /\ n = (b * h) + u
      BY <2>2, <2>7
    <3>2. n % b = u
      <4> HIDE DEF b, u
      <4>1. Divides(n, b, h, u)
        BY <2>6, <3>1 DEF Divides
      <4>2. Divided(n, b, h, u)
        BY <4>1, DivisionIs
      <4> QED
        BY <4>2 DEF Divided
    <3> QED
      BY <3>2
  <2>9. X[k] = (P * t) + r
    <3>1. CASE t = 1
      BY <2>1, <2>2, <2>3, <2>4, <2>5, <3>1
    <3>2. CASE t = 0
      BY <2>1, <2>2, <2>3, <2>4, <2>5, <3>2
    <3> QED
      BY <2>6, <3>1, <3>2
  <2> QED
    BY <2>2, <2>8, <2>9
<1>3. \A k \in 0 .. w : k \in S
  <2> HIDE DEF S
  <2> QED
    BY <1>1, <1>2, Climbs
<1> QED
  BY <1>3 DEF X

(* What the parts of a word are worth.                                      *)
Parts(x, d, y, m, e) == /\ Worth(x)[e] % Pow2[d] = Worth(x)[d]
                        /\ Worth(x)[e] \div Pow2[d] = Worth(y)[m]
LEMMA WorthParts ==
  ASSUME NEW x, NEW y, NEW d \in Nat, NEW m \in Nat, PartFrom(x, d, y, m), NEW e \in Nat, e = d + m
  PROVE  Parts(x, d, y, m, e)
<1> DEFINE a == Worth(x)[e]
           r == Worth(x)[d]
           q == Worth(y)[m]
           b == Pow2[d]
<1>1. a = r + (b * q)
  BY WorthSplits
<1>2. r \in 0 .. b - 1 /\ q \in Nat /\ b \in Nat /\ b > 0
  BY WorthBounded, WorthDefined, Powers
<1>3. a = (b * q) + r /\ a \in Int /\ q \in Int
  <2> HIDE DEF a, r, q, b
  <2> QED
    BY <1>1, <1>2
<1>4. a % b = r /\ a \div b = q
  <2> HIDE DEF a, r, q, b
  <2>1. Divides(a, b, q, r)
    BY <1>2, <1>3 DEF Divides
  <2>2. Divided(a, b, q, r)
    BY <2>1, DivisionIs
  <2> QED
    BY <2>2 DEF Divided
<1> QED
  BY <1>4 DEF Parts

(* Each bit of a number is a bit of the word that says it.                  *)
LEMMA BitOfWorth ==
  ASSUME NEW x, NEW w \in Nat, NEW k \in 1 .. w
  PROVE  BitOf(Worth(x)[w], k - 1) <=> x[k]
<1> DEFINE j == k - 1
           m == w - j
           y == [i \in 1 .. m |-> x[j + i]]
           z == [i \in 1 .. m - 1 |-> y[1 + i]]
<1>1. j \in Nat /\ m \in Nat /\ m >= 1 /\ j + m = w /\ m - 1 \in Nat /\ 1 + (m - 1) = m /\ j + 1 = k
  OBVIOUS
<1>2. Worth(x)[w] \div Pow2[j] = Worth(y)[m]
  <2>1. PartFrom(x, j, y, m)
    BY DEF PartFrom
  <2> HIDE DEF j, m, y
  <2>2. Parts(x, j, y, m, w)
    BY <1>1, <2>1, WorthParts
  <2> QED
    BY <2>2 DEF Parts
<1>3. Worth(y)[m] % 2 = Worth(y)[1]
  <2>1. PartFrom(y, 1, z, m - 1)
    BY DEF PartFrom
  <2> DEFINE u == m - 1
  <2> HIDE DEF j, y, z, u
  <2>2. Parts(y, 1, z, u, m)
    BY <1>1, <2>1, 1 \in Nat, WorthParts DEF u
  <2>3. Pow2[1] = 2 /\ 1 + u = m
    <3>1. Pow2[0 + 1] = 2 * Pow2[0] /\ Pow2[0] = 1 /\ 0 + 1 = 1
      BY Powers
    <3> QED
      BY <1>1, <3>1 DEF u
  <2> QED
    BY <2>2, <2>3 DEF Parts
<1>4. Worth(y)[1] = IF x[k] THEN 1 ELSE 0
  <2>1. Worth(y)[0 + 1] = Worth(y)[0] + (IF y[0 + 1] THEN Pow2[0] ELSE 0) /\ Worth(y)[0] = 0
    BY WorthDefined
  <2>2. y[1] = x[k] /\ Pow2[0] = 1 /\ 0 + 1 = 1
    BY <1>1, Powers
  <2> HIDE DEF y
  <2> QED
    BY <2>1, <2>2
<1> HIDE DEF y, m
<1>5. BitOf(Worth(x)[w], k - 1) <=> Worth(y)[1] = 1
  BY <1>2, <1>3 DEF BitOf
<1> QED
  BY <1>4, <1>5

--------------------------------------------------------------------------------
(* Numbers modulo Pow2[w].                                                  *)
LEMMA WrapType ==
  ASSUME NEW n \in Int, NEW w \in Nat
  PROVE  Wrap(n, w) \in 0 .. Pow2[w] - 1 /\ Wrap(n, w) \in Nat /\ Wrap(n, w) < Pow2[w]
<1> DEFINE b == Pow2[w]
<1>1. b \in Nat /\ b > 0
  BY Powers
<1> HIDE DEF b
<1>2. n % b \in 0 .. b - 1
  BY <1>1
<1> QED
  BY <1>1, <1>2 DEF Wrap, b

LEMMA WrapSame ==
  ASSUME NEW n \in Int, NEW w \in Nat, NEW m \in Int, \E q \in Int : n = m + (Pow2[w] * q)
  PROVE  Wrap(n, w) = Wrap(m, w)
<1> PICK q \in Int : n = m + (Pow2[w] * q)
  OBVIOUS
<1> DEFINE b == Pow2[w]
           r == m % b
           p == m \div b
<1>1. b \in Nat /\ b > 0
  BY Powers
<1> HIDE DEF b
<1>2. m = (b * p) + r /\ p \in Int /\ r \in 0 .. b - 1
  BY <1>1
<1>3. n = m + (b * q)
  BY DEF b
<1> HIDE DEF p, r
<1>4. n = (b * (p + q)) + r /\ p + q \in Int
  <2>1. b * (p + q) = (b * p) + (b * q)
    BY <1>1, <1>2
  <2>2. (b * p) \in Int /\ (b * q) \in Int
    BY <1>1, <1>2
  <2> QED
    BY <1>2, <1>3, <2>1, <2>2
<1>5. n % b = r
  <2> DEFINE u == p + q
  <2>1. u \in Int /\ n = (b * u) + r
    BY <1>4
  <2> HIDE DEF u
  <2>2. Divides(n, b, u, r)
    BY <1>1, <1>2, <2>1 DEF Divides
  <2>3. Divided(n, b, u, r)
    BY <2>2, DivisionIs
  <2> QED
    BY <2>3 DEF Divided
<1> QED
  BY <1>5 DEF Wrap, b, r

LEMMA WrapSmall ==
  ASSUME NEW w \in Nat, NEW n \in 0 .. Pow2[w] - 1 PROVE Wrap(n, w) = n
<1> DEFINE b == Pow2[w]
<1>1. b \in Nat /\ b > 0
  BY Powers
<1>2. n \in 0 .. b - 1
  OBVIOUS
<1> HIDE DEF b
<1>3. n % b = n
  BY <1>1, <1>2
<1> QED
  BY <1>3 DEF Wrap, b

LEMMA WrapAway ==
  ASSUME NEW n \in Int, NEW w \in Nat
  PROVE  \E q \in Int : n = Wrap(n, w) + (Pow2[w] * q)
<1> DEFINE b == Pow2[w]
           r == n % b
           p == n \div b
<1>1. b \in Nat /\ b > 0
  BY Powers
<1> HIDE DEF b
<1>2. n = (b * p) + r /\ p \in Int /\ r \in 0 .. b - 1
  BY <1>1
<1> HIDE DEF p, r
<1>3. n = r + (b * p)
  BY <1>1, <1>2
<1> QED
  BY <1>2, <1>3 DEF Wrap, b, r

--------------------------------------------------------------------------------
(* What a word says is below Pow2[w]; zeros and the complement.             *)
LEMMA LowType ==
  ASSUME NEW val, NEW x, NEW k \in Nat
  PROVE  Low(val, x, k) \in 0 .. Pow2[k] - 1 /\ Low(val, x, k) \in Nat /\ Low(val, x, k) < Pow2[k]
<1>1. Low(val, x, k) \in 0 .. Pow2[k] - 1
  BY WorthBounded DEF Low
<1>2. Pow2[k] \in Nat
  BY Powers
<1> QED
  BY <1>1, <1>2

LEMMA LowEqual ==
  ASSUME NEW val, NEW w \in Nat, NEW n \in Nat, NEW x \in Words(w, n), NEW m \in Nat, NEW y \in Words(w, m),
         \A k \in 1 .. w : Says(val, x[k]) <=> Says(val, y[k])
  PROVE  Low(val, x, w) = Low(val, y, w)
<1> DEFINE X == Spoken(val, x)
           Y == Spoken(val, y)
<1>1. DOMAIN x = 1 .. w /\ DOMAIN y = 1 .. w
  BY WordShape
<1>2. \A k \in 1 .. w : X[k] <=> Y[k]
  BY <1>1 DEF Spoken
<1> HIDE DEF X, Y
<1>3. \A k \in 0 .. w : Worth(X)[k] = Worth(Y)[k]
  BY <1>2, WorthOfEqual
<1>4. w \in 0 .. w
  OBVIOUS
<1> QED
  BY <1>3, <1>4 DEF Low, X, Y

LEMMA ZerosLow ==
  ASSUME NEW val, NEW w \in Nat, NEW n \in Nat
  PROVE  Zeros(w) \in Words(w, n) /\ Low(val, Zeros(w), w) = 0
<1>1. Zeros(w) \in Words(w, n)
  BY ValuesAre DEF Zeros, Words
<1> DEFINE x == Zeros(w)
           S == {k \in 0 .. w : Low(val, x, k) = 0}
<1>2. 0 \in S
  BY <1>1, LowGrows
<1>3. ASSUME NEW k \in 1 .. w, k - 1 \in S PROVE k \in S
  <2>1. Low(val, x, k) = Low(val, x, k - 1) + (Truth(Says(val, x[k])) * Pow2[k - 1])
    BY <1>1, LowGrows
  <2>2. Truth(Says(val, x[k])) = 0
    BY SaysConst DEF Zeros, Truth
  <2>3. Pow2[k - 1] \in Nat
    BY Powers
  <2> QED
    BY <1>3, <2>1, <2>2, <2>3
<1>4. \A k \in 0 .. w : k \in S
  <2> HIDE DEF S
  <2> QED
    BY <1>2, <1>3, Climbs
<1> QED
  BY <1>1, <1>4

LEMMA NotAllLow ==
  ASSUME NEW val \in [Nat -> BOOLEAN], NEW w \in Nat, NEW n \in Nat, NEW x \in Words(w, n)
  PROVE  NotAll(x) \in Words(w, n) /\ Low(val, NotAll(x), w) = Pow2[w] - 1 - Low(val, x, w)
<1> DEFINE y == NotAll(x)
           S == {k \in 0 .. w : Low(val, y, k) = Pow2[k] - 1 - Low(val, x, k)}
<1>0. DOMAIN x = 1 .. w /\ \A k \in 1 .. w : x[k] \in Values(n)
  BY WordShape
<1>1. y = [k \in 1 .. w |-> Not(x[k])]
  BY <1>0 DEF NotAll
<1>2. y \in Words(w, n)
  BY <1>0, <1>1, ValuesAre DEF Words
<1> HIDE DEF y
<1>3. 0 \in S
  BY <1>2, LowGrows, Powers
<1>4. ASSUME NEW k \in 1 .. w, k - 1 \in S PROVE k \in S
  <2> DEFINE P == Pow2[k - 1]
             tx == Truth(Says(val, x[k]))
             ty == Truth(Says(val, y[k]))
             X == Low(val, x, k - 1)
             Y == Low(val, y, k - 1)
  <2>1. Low(val, y, k) = Y + (ty * P) /\ Low(val, x, k) = X + (tx * P)
    BY <1>2, LowGrows
  <2>2. ty + tx = 1 /\ tx \in {0, 1} /\ ty \in {0, 1}
    BY <1>0, <1>1, SaysInverse DEF Truth
  <2>3. P \in Nat /\ Pow2[k] = 2 * P
    <3>1. k - 1 \in Nat /\ (k - 1) + 1 = k
      OBVIOUS
    <3> QED
      BY <3>1, Powers
  <2>4. X \in Nat /\ Y \in Nat /\ Y = P - 1 - X
    BY <1>4, LowType
  <2> HIDE DEF P, tx, ty, X, Y
  <2>5. (ty * P) + (tx * P) = P /\ (ty * P) \in Nat /\ (tx * P) \in Nat
    BY <2>2, <2>3
  <2>6. Y + (ty * P) = (2 * P) - 1 - (X + (tx * P))
    BY <2>3, <2>4, <2>5
  <2> QED
    BY <2>1, <2>3, <2>6
<1>5. \A k \in 0 .. w : k \in S
  <2> HIDE DEF S
  <2> QED
    BY <1>3, <1>4, Climbs
<1> QED
  BY <1>2, <1>5 DEF y

--------------------------------------------------------------------------------
(* Addition, subtraction and negation, all on the ripple adder.             *)
LEMMA AdditionBuilds ==
  ASSUME NEW val \in [Nat -> BOOLEAN], NEW ds \in Vectors, NEW w \in Nat,
         NEW a \in Words(w, Len(ds)), NEW b \in Words(w, Len(ds))
  PROVE  BuildsNumber(val, ds, Addition(ds, a, b), w, Wrap(Low(val, a, w) + Low(val, b, w), w))
<1>1. False \in Values(Len(ds)) /\ Truth(Says(val, False)) = 0
  BY VectorLength, ValuesAre, SaysConst DEF Truth
<1>2. Low(val, a, w) + Low(val, b, w) + Truth(Says(val, False)) = Low(val, a, w) + Low(val, b, w)
  BY <1>1, LowType
<1>3. BuildsNumber(val, ds, RippleAdder(ds, a, b, False), w,
                   (Low(val, a, w) + Low(val, b, w) + Truth(Says(val, False))) % Pow2[w])
  BY <1>1, RippleAdderBuilds
<1> QED
  BY <1>2, <1>3 DEF Addition, Wrap

LEMMA SubtractionBuilds ==
  ASSUME NEW val \in [Nat -> BOOLEAN], NEW ds \in Vectors, NEW w \in Nat,
         NEW a \in Words(w, Len(ds)), NEW b \in Words(w, Len(ds))
  PROVE  BuildsNumber(val, ds, Subtraction(ds, a, b), w, Wrap(Low(val, a, w) - Low(val, b, w), w))
<1> DEFINE A == Low(val, a, w)
           B == Low(val, b, w)
           N == Low(val, NotAll(b), w)
           P == Pow2[w]
           t == Truth(Says(val, True))
<1>1. True \in Values(Len(ds)) /\ t = 1
  BY VectorLength, ValuesAre, SaysConst DEF Truth
<1>2. NotAll(b) \in Words(w, Len(ds)) /\ N = P - 1 - B
  BY VectorLength, NotAllLow
<1>3. A \in Int /\ B \in Int /\ P \in Int
  <2>1. A \in Int /\ B \in Int
    BY LowType
  <2>2. P \in Int
    BY Powers
  <2> QED
    BY <2>1, <2>2
<1>4. BuildsNumber(val, ds, RippleAdder(ds, a, NotAll(b), True), w, (A + N + t) % P)
  BY <1>1, <1>2, RippleAdderBuilds
<1>5. Wrap(A + N + t, w) = Wrap(A - B, w)
  <2> DEFINE n == A + N + t
             m == A - B
  <2>1. n \in Int /\ m \in Int /\ \E q \in Int : n = m + (P * q)
    <3> HIDE DEF A, B, N, P, t
    <3>1. n \in Int /\ m \in Int /\ n = m + (P * 1)
      BY <1>1, <1>2, <1>3
    <3> HIDE DEF n, m
    <3> QED
      BY <3>1, 1 \in Int
  <2>2. Wrap(n, w) = Wrap(m, w)
    <3> HIDE DEF n, m
    <3> QED
      BY <2>1, WrapSame
  <2> QED
    BY <2>2
<1> HIDE DEF A, B, N, t
<1> QED
  BY <1>4, <1>5 DEF Subtraction, Wrap, A, B

LEMMA NegationBuilds ==
  ASSUME NEW val \in [Nat -> BOOLEAN], NEW ds \in Vectors, NEW w \in Nat, NEW a \in Words(w, Len(ds))
  PROVE  BuildsNumber(val, ds, Negation(ds, a), w, Wrap(-Low(val, a, w), w))
<1>1. Zeros(w) \in Words(w, Len(ds)) /\ Low(val, Zeros(w), w) = 0 /\ Len(a) = w
  BY VectorLength, ZerosLow, WordShape
<1>2. 0 - Low(val, a, w) = -Low(val, a, w)
  BY LowType
<1>3. BuildsNumber(val, ds, Subtraction(ds, Zeros(w), a), w, Wrap(Low(val, Zeros(w), w) - Low(val, a, w), w))
  BY <1>1, SubtractionBuilds
<1> QED
  BY <1>1, <1>2, <1>3 DEF Negation

(* A mux of numbers, and the negation of one under a condition.             *)
LEMMA MuxBuildsNumber ==
  ASSUME NEW val \in [Nat -> BOOLEAN], NEW ds \in Vectors, NEW w \in Nat,
         NEW a \in Words(w, Len(ds)), NEW b \in Words(w, Len(ds)), NEW select \in Values(Len(ds))
  PROVE  BuildsNumber(val, ds, Mux(ds, a, b, select), w,
                      IF Says(val, select) THEN Low(val, b, w) ELSE Low(val, a, w))
<1> DEFINE g == Mux(ds, a, b, select)
           x == [k \in 1 .. w |-> IF Says(val, select) THEN Says(val, b[k]) ELSE Says(val, a[k])]
           n == IF Says(val, select) THEN Low(val, b, w) ELSE Low(val, a, w)
<1>1. g \in Builds /\ BuildsBits(val, ds, g, w, x)
  BY MuxBuildsWord
<1> HIDE DEF g
<1>2. g.ds \in Vectors /\ Len(g.ds) \in Nat /\ Len(ds) \in Nat /\ w <= w /\ w \in 0 .. w
  BY <1>1, VectorLength DEF Builds
<1>3. ASSUME Respects(val, g.ds) PROVE Low(val, g.out, w) = n
  <2> DEFINE y == g.out
  <2>0. y \in Words(w, Len(g.ds)) /\ \A k \in 1 .. w : Says(val, y[k]) <=> x[k]
    BY <1>1, <1>3 DEF BuildsBits
  <2> HIDE DEF y
  <2>1. CASE Says(val, select)
    <3>1. \A k \in 1 .. w : Says(val, y[k]) <=> Says(val, b[k])
      BY <2>0, <2>1
    <3>2. Low(val, y, w) = Low(val, b, w)
      BY <1>2, <2>0, <3>1, LowEqual
    <3> QED
      BY <2>1, <3>2 DEF y
  <2>2. CASE ~Says(val, select)
    <3>1. \A k \in 1 .. w : Says(val, y[k]) <=> Says(val, a[k])
      BY <2>0, <2>2
    <3>2. Low(val, y, w) = Low(val, a, w)
      BY <1>2, <2>0, <3>1, LowEqual
    <3> QED
      BY <2>2, <3>2 DEF y
  <2> QED
    BY <2>1, <2>2
<1>4. BuildsNumber(val, ds, g, w, n)
  <2> HIDE DEF n, x
  <2> QED
    BY <1>1, <1>3 DEF BuildsNumber, BuildsBits
<1> QED
  BY <1>4 DEF g

Negating(negate, n, w) == IF negate THEN Wrap(-n, w) ELSE n
LEMMA ConditionalNegationBuilds ==
  ASSUME NEW val \in [Nat -> BOOLEAN], NEW ds \in Vectors, NEW w \in Nat,
         NEW a \in Words(w, Len(ds)), NEW negate \in Values(Len(ds))
  PROVE  BuildsNumber(val, ds, ConditionalNegation(ds, a, negate), w,
                      Negating(Says(val, negate), Low(val, a, w), w))
<1> DEFINE g == Negation(ds, a)
           h == Mux(g.ds, a, g.out, negate)
           n == IF Says(val, negate) THEN Low(val, g.out, w) ELSE Low(val, a, w)
           m == Negating(Says(val, negate), Low(val, a, w), w)
<1>1. BuildsNumber(val, ds, g, w, Wrap(-Low(val, a, w), w))
  BY NegationBuilds
<1>2. ConditionalNegation(ds, a, negate) = h
  BY DEF ConditionalNegation, Then
<1> HIDE DEF g
<1>3. /\ g.ds \in Vectors /\ a \in Words(w, Len(g.ds)) /\ g.out \in Words(w, Len(g.ds))
      /\ negate \in Values(Len(g.ds)) /\ Follows(val, ds, g.ds)
      /\ Respects(val, g.ds) => Low(val, g.out, w) = Wrap(-Low(val, a, w), w)
  BY <1>1, NumberBuilt
<1>4. BuildsNumber(val, g.ds, h, w, n)
  BY <1>3, MuxBuildsNumber
<1>5. Respects(val, g.ds) => n = m
  BY <1>3 DEF Negating
<1>6. BuildsNumber(val, ds, h, w, m)
  <2> HIDE DEF h, n, m
  <2> QED
    BY <1>3, <1>4, <1>5, NumberAfter
<1> QED
  BY <1>2, <1>6

(* Wrap passes through sums, negations and products.                        *)
LEMMA WrapSum ==
  ASSUME NEW w \in Nat, NEW x \in Int, NEW y \in Int
  PROVE  /\ Wrap(Wrap(x, w) + Wrap(y, w), w) = Wrap(x + y, w)
         /\ Wrap(Wrap(x, w) + y, w) = Wrap(x + y, w)
         /\ Wrap(x - Wrap(y, w), w) = Wrap(x - y, w)
         /\ Wrap(-Wrap(y, w), w) = Wrap(-y, w)
<1> DEFINE P == Pow2[w]
           u == Wrap(x, w)
           v == Wrap(y, w)
<1>1. PICK q \in Int : x = u + (P * q)
  BY WrapAway
<1>2. PICK p \in Int : y = v + (P * p)
  BY WrapAway
<1>3. u \in Int /\ v \in Int /\ P \in Int
  <2>1. u \in Nat /\ v \in Nat
    BY WrapType
  <2>2. P \in Nat
    BY Powers
  <2> QED
    BY <2>1, <2>2
<1> HIDE DEF u, v
<1>4. /\ (P * q) + (P * p) = P * (q + p) /\ (P * q) \in Int /\ (P * p) \in Int
      /\ -(P * p) = P * (-p)
  <2> HIDE DEF P
  <2> QED
    BY <1>3
<1>5. Wrap(x + y, w) = Wrap(u + v, w)
  <2>1. x + y = (u + v) + (P * (q + p))
    <3> HIDE DEF P
    <3> QED
      BY <1>1, <1>2, <1>3, <1>4
  <2> DEFINE n == x + y
             m == u + v
             r == q + p
  <2>2. n \in Int /\ m \in Int /\ r \in Int /\ n = m + (Pow2[w] * r)
    BY <1>3, <2>1
  <2> HIDE DEF n, m, r
  <2>3. Wrap(n, w) = Wrap(m, w)
    BY <2>2, WrapSame
  <2> QED
    BY <2>3 DEF n, m
<1>6. Wrap(x + y, w) = Wrap(u + y, w)
  <2> DEFINE n == x + y
             m == u + y
  <2>1. n \in Int /\ m \in Int /\ n = m + (Pow2[w] * q)
    BY <1>1, <1>3, <1>4
  <2> HIDE DEF n, m
  <2>2. Wrap(n, w) = Wrap(m, w)
    BY <2>1, WrapSame
  <2> QED
    BY <2>2 DEF n, m
<1>7. Wrap(x - v, w) = Wrap(x - y, w)
  <2> DEFINE n == x - v
             m == x - y
  <2>1. n \in Int /\ m \in Int /\ n = m + (Pow2[w] * p)
    BY <1>2, <1>3, <1>4
  <2> HIDE DEF n, m
  <2>2. Wrap(n, w) = Wrap(m, w)
    BY <2>1, WrapSame
  <2> QED
    BY <2>2 DEF n, m
<1>8. Wrap(-v, w) = Wrap(-y, w)
  <2> DEFINE n == -v
             m == -y
  <2>1. n \in Int /\ m \in Int /\ n = m + (Pow2[w] * p)
    BY <1>2, <1>3, <1>4
  <2> HIDE DEF n, m
  <2>2. Wrap(n, w) = Wrap(m, w)
    BY <2>1, WrapSame
  <2> QED
    BY <2>2 DEF n, m
<1> QED
  BY <1>5, <1>6, <1>7, <1>8 DEF u, v

LEMMA WrapProduct ==
  ASSUME NEW w \in Nat, NEW x \in Int, NEW y \in Int
  PROVE  Wrap(Wrap(x, w) * y, w) = Wrap(x * y, w)
<1> DEFINE P == Pow2[w]
           u == Wrap(x, w)
<1>1. PICK q \in Int : x = u + (P * q)
  BY WrapAway
<1>2. u \in Int /\ P \in Int
  <2>1. u \in Nat
    BY WrapType
  <2>2. P \in Nat
    BY Powers
  <2> QED
    BY <2>1, <2>2
<1> HIDE DEF u
<1> DEFINE n == x * y
           m == u * y
           r == q * y
<1>3. n \in Int /\ m \in Int /\ r \in Int /\ n = m + (Pow2[w] * r)
  <2>1. (u + (P * q)) * y = (u * y) + (P * (q * y))
    <3> HIDE DEF P
    <3> QED
      BY <1>2
  <2> QED
    BY <1>1, <1>2, <2>1
<1> HIDE DEF n, m, r
<1>4. Wrap(n, w) = Wrap(m, w)
  BY <1>3, WrapSame
<1> QED
  BY <1>4 DEF n, m, u

--------------------------------------------------------------------------------
(* Bits that do not hold are worth nothing.                                 *)
LEMMA LowZero ==
  ASSUME NEW val, NEW w \in Nat, NEW n \in Nat, NEW x \in Words(w, n), NEW j \in 0 .. w,
         \A k \in 1 .. j : ~Says(val, x[k])
  PROVE  Low(val, x, j) = 0
<1> DEFINE X == Spoken(val, x)
           S == {k \in 0 .. j : Worth(X)[k] = 0}
<1>1. Worth(X)[0] = 0 /\ \A k \in Nat : Worth(X)[k + 1] = Worth(X)[k] + (IF X[k + 1] THEN Pow2[k] ELSE 0)
  BY WorthDefined
<1>2. \A k \in 1 .. j : ~X[k]
  <2>1. DOMAIN x = 1 .. w
    BY WordShape
  <2> QED
    BY <2>1 DEF Spoken
<1> HIDE DEF X
<1>3. 0 \in S
  BY <1>1
<1>4. ASSUME NEW k \in 1 .. j, k - 1 \in S PROVE k \in S
  <2>1. k - 1 \in Nat /\ (k - 1) + 1 = k
    OBVIOUS
  <2>2. Worth(X)[k] = Worth(X)[k - 1] + (IF X[k] THEN Pow2[k - 1] ELSE 0)
    BY <1>1, <2>1
  <2> QED
    BY <1>2, <1>4, <2>2
<1>5. \A k \in 0 .. j : k \in S
  <2> HIDE DEF S
  <2> QED
    BY <1>3, <1>4, Climbs
<1> QED
  BY <1>5 DEF Low, X

(* What the bits of a word are worth from a place on.                       *)
PartOfWord(val, x, d, y, m, e) ==
  /\ d \in Nat /\ m \in Nat /\ e \in Nat /\ e = d + m
  /\ \E w, n \in Nat : x \in Words(w, n) /\ e <= w
  /\ \E u, l \in Nat : y \in Words(u, l) /\ m <= u
  /\ \A k \in 1 .. m : Says(val, y[k]) <=> Says(val, x[d + k])
SplitsAt(val, x, d, y, m, e) == Low(val, x, e) = Low(val, x, d) + (Pow2[d] * Low(val, y, m))
LEMMA LowSplits ==
  ASSUME NEW val, NEW x, NEW y, NEW d, NEW m, NEW e, PartOfWord(val, x, d, y, m, e)
  PROVE  SplitsAt(val, x, d, y, m, e)
<1>0. PICK w \in Nat, n \in Nat, u \in Nat, l \in Nat :
        x \in Words(w, n) /\ e <= w /\ y \in Words(u, l) /\ m <= u
  BY DEF PartOfWord
<1>a. d \in Nat /\ m \in Nat /\ e \in Nat /\ e = d + m
  BY DEF PartOfWord
<1> DEFINE X == Spoken(val, x)
           Y == Spoken(val, y)
<1>1. PartFrom(X, d, Y, m)
  <2> SUFFICES ASSUME NEW k \in 1 .. m PROVE Y[k] <=> X[d + k]
    BY DEF PartFrom
  <2>1. k \in 1 .. u /\ d + k \in 1 .. w
    BY <1>0, <1>a
  <2>2. DOMAIN x = 1 .. w /\ DOMAIN y = 1 .. u
    BY <1>0, WordShape
  <2>3. Says(val, y[k]) <=> Says(val, x[d + k])
    BY DEF PartOfWord
  <2> QED
    BY <2>1, <2>2, <2>3 DEF Spoken
<1> HIDE DEF X, Y
<1>2. Worth(X)[e] = Worth(X)[d] + (Pow2[d] * Worth(Y)[m])
  BY <1>a, <1>1, WorthSplits
<1> QED
  BY <1>2 DEF Low, X, Y, SplitsAt

(* A word moved up by d bits.                                               *)
Upwards(val, x, d, y, w) ==
  /\ \A k \in 1 .. d : ~Says(val, y[k])
  /\ \A k \in 1 .. w - d : Says(val, y[d + k]) <=> Says(val, x[k])
LEMMA ShiftedUp ==
  ASSUME NEW val, NEW w \in Nat, NEW n \in Nat, NEW x \in Words(w, n),
         NEW m \in Nat, NEW y \in Words(w, m), NEW d \in 0 .. w, Upwards(val, x, d, y, w)
  PROVE  Low(val, y, w) = Wrap(Low(val, x, w) * Pow2[d], w)
<1> DEFINE h == w - d
<1>1. h \in Nat /\ d \in Nat /\ d + h = w /\ h + d = w /\ h <= w /\ w <= w
  OBVIOUS
<1> HIDE DEF h
<1>2. Low(val, y, d) = 0
  BY LowZero DEF Upwards
<1>3. Low(val, y, w) = Low(val, y, d) + (Pow2[d] * Low(val, x, h))
  <2>1. \A k \in 1 .. h : Says(val, x[k]) <=> Says(val, y[d + k])
    BY DEF Upwards, h
  <2>2. PartOfWord(val, y, d, x, h, w)
    BY <1>1, <2>1 DEF PartOfWord
  <2> QED
    <3>1. SplitsAt(val, y, d, x, h, w)
      BY <2>2, LowSplits
    <3> QED
      BY <3>1 DEF SplitsAt
<1> DEFINE z == [k \in 1 .. d |-> x[h + k]]
<1>4. z \in Words(d, n)
  <2>1. \A k \in 1 .. d : h + k \in 1 .. w
    BY <1>1
  <2> QED
    BY <2>1 DEF Words
<1>5. Low(val, x, w) = Low(val, x, h) + (Pow2[h] * Low(val, z, d))
  <2>1. \A k \in 1 .. d : Says(val, z[k]) <=> Says(val, x[h + k])
    OBVIOUS
  <2> HIDE DEF z
  <2>2. PartOfWord(val, x, h, z, d, w)
    BY <1>1, <1>4, <2>1 DEF PartOfWord
  <2>3. SplitsAt(val, x, h, z, d, w)
    BY <2>2, LowSplits
  <2> QED
    BY <2>3 DEF SplitsAt
<1> DEFINE X == Low(val, x, w)
           l == Low(val, x, h)
           u == Low(val, z, d)
           Y == Low(val, y, w)
           P == Pow2[d]
           Q == Pow2[h]
<1>6. /\ X \in Nat /\ l \in Nat /\ u \in Nat /\ Y \in 0 .. Pow2[w] - 1
  BY <1>1, LowType
<1>7. P \in Nat /\ Q \in Nat /\ Pow2[w] = P * Q
  BY <1>1, Powers, PowersAdd
<1>8. Y = P * l
  BY <1>2, <1>3, <1>6, <1>7
<1>9. X = l + (Q * u)
  BY <1>5
<1> DEFINE b == X * P
<1>10. b \in Int /\ Y \in Int /\ b = Y + (Pow2[w] * u)
  <2> HIDE DEF X, l, u, Y, P, Q
  <2>1. (l + (Q * u)) * P = (P * l) + ((P * Q) * u)
    BY <1>6, <1>7
  <2>2. b = Y + ((P * Q) * u)
    BY <1>8, <1>9, <2>1
  <2> QED
    BY <1>6, <1>7, <2>2
<1>11. Wrap(b, w) = Wrap(Y, w)
  <2> HIDE DEF b, Y, u
  <2> QED
    BY <1>6, <1>10, WrapSame
<1>12. Wrap(Y, w) = Y
  BY <1>6, WrapSmall
<1> QED
  BY <1>11, <1>12

(* One word of a product: a, moved up by k - 1 bits, where the bit b holds. *)
Partial(ds, a, b, k, w) ==
  BuildWord(ds, LAMBDA e, i : IF i < k THEN Built(e, False) ELSE Gate(e, "And", a[i - k + 1], b), w)
LEMMA PartialBuilds ==
  ASSUME NEW val \in [Nat -> BOOLEAN], NEW ds \in Vectors, NEW w \in Nat,
         NEW a \in Words(w, Len(ds)), NEW b \in Values(Len(ds)), NEW j \in 1 .. w
  PROVE  BuildsNumber(val, ds, Partial(ds, a, b, j, w), w,
                      IF Says(val, b) THEN Wrap(Low(val, a, w) * Pow2[j - 1], w) ELSE 0)
<1> DEFINE x == [i \in 1 .. w |-> i >= j /\ Says(val, a[i - j + 1]) /\ Says(val, b)]
           bit(s, i) == IF i < j THEN Built(s.ds, False) ELSE Gate(s.ds, "And", a[i - j + 1], b)
           step(s, i) == [ds |-> bit(s, i).ds, out |-> Append(s.out, bit(s, i).out)]
           base == [ds |-> ds, out |-> <<>>]
           V == [k \in 0 .. w |-> {s \in Builds : BuildsBits(val, ds, s, k, x)}]
<1>1. base \in V[0]
  <2>1. Len(ds) \in Nat /\ Follows(val, ds, ds)
    BY VectorLength, FollowsItself
  <2>2. <<>> \in Words(0, Len(ds)) /\ <<>> \in Seq(Signals)
    BY <2>1, EmptyWord
  <2> QED
    BY <2>1, <2>2 DEF Builds, BuildsBits
<1>2. ASSUME NEW k \in 1 .. w, NEW s \in V[k - 1] PROVE step(s, k) \in V[k]
  <2>1. k - 1 \in 0 .. w /\ k - 1 \in Nat /\ (k - 1) + 1 = k /\ k \in 0 .. w
    OBVIOUS
  <2>2. s \in Builds /\ BuildsBits(val, ds, s, k - 1, x)
    BY <2>1
  <2>3. s.ds \in Vectors /\ Len(s.ds) \in Nat /\ b \in Values(Len(s.ds)) /\ a \in Words(w, Len(s.ds)) /\ Follows(val, s.ds, s.ds)
    BY <2>2, VectorLength, FollowsItself, WordsGrow DEF BuildsBits, Follows
  <2> HIDE DEF V, base
  <2>4. BuildsBit(val, s.ds, bit(s, k), x[k])
    <3>1. CASE k < j
      <4>1. bit(s, k) = Built(s.ds, False) /\ ~x[k]
        <5>1. k \in 1 .. w /\ ~(k >= j)
          BY <3>1
        <5>2. x[k] <=> FALSE
          BY <5>1
        <5>3. bit(s, k) = Built(s.ds, False)
          BY <3>1
        <5> QED
          BY <5>2, <5>3
      <4>2. False \in Values(Len(s.ds)) /\ Says(val, False) = FALSE
        BY <2>3, ValuesAre, SaysConst
      <4> HIDE DEF bit, x
      <4>3. Says(val, False) <=> x[k]
        BY <4>1, <4>2
      <4> QED
        BY <2>3, <4>1, <4>2, <4>3, BuiltBit
    <3>2. CASE k >= j
      <4> DEFINE i == k - j + 1
                 v == a[i]
      <4>1. i \in 1 .. w /\ ~(k < j)
        BY <3>2
      <4>2. bit(s, k) = Gate(s.ds, "And", v, b) /\ (x[k] <=> Says(val, v) /\ Says(val, b))
        BY <3>2, <4>1
      <4>3. v \in Values(Len(s.ds))
        BY <2>3, <4>1, WordShape
      <4> HIDE DEF i, v, bit, x
      <4>4. BuildsBit(val, s.ds, Gate(s.ds, "And", v, b), Joins("And", Says(val, v), Says(val, b)))
        BY <2>3, <4>3, GateBuilds
      <4>5. Joins("And", Says(val, v), Says(val, b)) <=> x[k]
        BY <4>2 DEF Joins
      <4> QED
        BY <2>3, <4>2, <4>4, <4>5, BitAfter
    <3> QED
      BY <3>1, <3>2
  <2> HIDE DEF bit, x
  <2>5. step(s, k) \in Builds /\ BuildsBits(val, ds, step(s, k), (k - 1) + 1, x)
    BY <2>1, <2>2, <2>4, BitAdded
  <2> HIDE DEF step
  <2> QED
    BY <2>1, <2>5 DEF V
<1> DEFINE Rec(f) == [k \in 0 .. w |-> IF k = 0 THEN base ELSE step(f[k - 1], k)]
       F == [y \in Builds \X (1 .. w) |-> step(y[1], y[2])]
       after == CHOOSE f : f = Rec(f)
<1>a1. \A k \in 1 .. w : \A s \in V[k - 1] : F[<<s, k>>] = step(s, k) /\ F[<<s, k>>] \in V[k]
  <2> SUFFICES ASSUME NEW k \in 1 .. w, NEW s \in V[k - 1] PROVE F[<<s, k>>] = step(s, k)
    <3> HIDE DEF V, step, F
    <3> QED
      BY <1>2
  <2>1. k - 1 \in 0 .. w
    OBVIOUS
  <2>2. s \in Builds
    BY <2>1
  <2> HIDE DEF V, step
  <2> QED
    BY <2>2
<1>a2. PICK run : Runs(w, V, base, F, run)
  <2> HIDE DEF V, step, F, base
  <2> QED
    BY <1>1, <1>a1, LoopRuns
<1>a3. run = Rec(run)
  <2> SUFFICES ASSUME NEW k \in 0 .. w PROVE run[k] = IF k = 0 THEN base ELSE step(run[k - 1], k)
    <3> HIDE DEF V, step, F, base
    <3> QED
      BY <1>a2 DEF Runs
  <2>1. CASE k = 0
    <3> HIDE DEF V, step, F, base
    <3> QED
      BY <2>1, <1>a2 DEF Runs
  <2>2. CASE k # 0
    <3>1. k \in 1 .. w /\ k - 1 \in 0 .. w
      BY <2>2
    <3> HIDE DEF V, step, F, base
    <3> QED
      BY <2>2, <3>1, <1>a1, <1>a2 DEF Runs
  <2> QED
    BY <2>1, <2>2
<1>a4. after = Rec(after)
  <2> HIDE DEF Rec
  <2> QED
    BY <1>a3
<1>a5. after[0] = base /\ \A k \in 1 .. w : after[k] = step(after[k - 1], k)
  <2> HIDE DEF step, base, after, V, F
  <2>1. \A k \in 0 .. w : after[k] = IF k = 0 THEN base ELSE step(after[k - 1], k)
    BY <1>a4
  <2>2. 0 \in 0 .. w /\ \A k \in 1 .. w : k \in 0 .. w /\ k # 0
    OBVIOUS
  <2> HIDE DEF Rec
  <2> QED
    BY <2>1, <2>2
<1>a6. \A k \in 0 .. w : after[k] \in V[k]
  <2> HIDE DEF V, step, F, base, after, Rec
  <2> QED
    BY <1>1, <1>a1, <1>a5, LoopKeeps, ZenonT(60)
<1>3. Partial(ds, a, b, j, w) = after[w]
  BY DEF Partial, BuildWord, EachBit, Then, Built
<1> DEFINE g == after[w]
           y == g.out
           n == IF Says(val, b) THEN Wrap(Low(val, a, w) * Pow2[j - 1], w) ELSE 0
<1>4. g \in Builds /\ BuildsBits(val, ds, g, w, x)
  <2> HIDE DEF after, x
  <2> QED
    BY <1>a6
<1> HIDE DEF after
<1>5. /\ g.ds \in Vectors /\ Len(g.ds) \in Nat /\ Len(ds) \in Nat
      /\ y \in Words(w, Len(g.ds))
      /\ Respects(val, g.ds) => \A k \in 1 .. w : Says(val, y[k]) <=> x[k]
  BY <1>4, VectorLength DEF Builds, BuildsBits
<1>6. ASSUME Respects(val, g.ds) PROVE Low(val, y, w) = n
  <2>0. \A k \in 1 .. w : Says(val, y[k]) <=> x[k]
    BY <1>5, <1>6
  <2>1. CASE Says(val, b)
    <3> DEFINE d == j - 1
    <3>1. d \in 0 .. w
      OBVIOUS
    <3>2. Upwards(val, a, d, y, w)
      <4>1. ASSUME NEW k \in 1 .. d PROVE ~Says(val, y[k])
        <5>1. k \in 1 .. w /\ ~(k >= j)
          OBVIOUS
        <5> HIDE DEF y
        <5> QED
          BY <2>0, <5>1
      <4>2. ASSUME NEW k \in 1 .. w - d PROVE Says(val, y[d + k]) <=> Says(val, a[k])
        <5> DEFINE e == d + k
        <5>1. e \in 1 .. w /\ e >= j /\ e - j + 1 = k
          OBVIOUS
        <5> HIDE DEF y, e, d
        <5>2. x[e] <=> Says(val, a[k])
          <6>1. x[e] <=> (e >= j /\ Says(val, a[e - j + 1]) /\ Says(val, b))
            BY <5>1
          <6> HIDE DEF x
          <6> QED
            BY <2>1, <5>1, <6>1
        <5> HIDE DEF x
        <5> QED
          BY <2>0, <5>1, <5>2 DEF e
      <4> QED
        BY <4>1, <4>2 DEF Upwards
    <3> HIDE DEF y, x, d
    <3>3. Low(val, y, w) = Wrap(Low(val, a, w) * Pow2[d], w)
      BY <1>5, <3>1, <3>2, ShiftedUp
    <3> QED
      BY <2>1, <3>3 DEF d
  <2>2. CASE ~Says(val, b)
    <3>1. \A k \in 1 .. w : ~Says(val, y[k])
      BY <2>0, <2>2
    <3>2. w \in 0 .. w
      OBVIOUS
    <3> HIDE DEF y
    <3>3. Low(val, y, w) = 0
      BY <1>5, <3>1, <3>2, LowZero
    <3> QED
      BY <2>2, <3>3
  <2> QED
    BY <2>1, <2>2
<1>7. BuildsNumber(val, ds, g, w, n)
  <2> HIDE DEF n, x
  <2> QED
    BY <1>4, <1>6 DEF BuildsNumber, BuildsBits
<1> QED
  BY <1>3, <1>7

(* The shift-and-add multiplier computes the product modulo Pow2[w].        *)
THEOREM MultiplicationBuilds ==
  ASSUME NEW val \in [Nat -> BOOLEAN], NEW ds \in Vectors, NEW w \in Nat,
         NEW a \in Words(w, Len(ds)), NEW b \in Words(w, Len(ds))
  PROVE  BuildsNumber(val, ds, Multiplication(ds, a, b), w, Wrap(Low(val, a, w) * Low(val, b, w), w))
<1> DEFINE A == Low(val, a, w)
           step(s, k) == Addition(Partial(s.ds, a, b[k], k, w).ds, s.out, Partial(s.ds, a, b[k], k, w).out)
           base == [ds |-> ds, out |-> Zeros(w)]
           V == [k \in 0 .. w |-> {s \in Builds : BuildsNumber(val, ds, s, w, Wrap(A * Low(val, b, k), w))}]
<1>0. Len(ds) \in Nat /\ Len(a) = w /\ Follows(val, ds, ds) /\ A \in Nat
  BY VectorLength, WordShape, FollowsItself, LowType
<1>1. base \in V[0]
  <2>1. Zeros(w) \in Words(w, Len(ds)) /\ Low(val, Zeros(w), w) = 0
    BY <1>0, ZerosLow
  <2>2. Zeros(w) \in Seq(Signals)
    BY <1>0, <2>1, WordShape
  <2>3. Wrap(A * Low(val, b, 0), w) = 0
    <3>1. Low(val, b, 0) = 0
      BY <1>0, LowGrows, ZenonT(60)
    <3>2. A * 0 = 0
      BY <1>0
    <3>3. 0 \in 0 .. Pow2[w] - 1
      BY Powers
    <3> QED
      BY <3>1, <3>2, <3>3, WrapSmall
  <2>4. base \in Builds
    BY <2>2 DEF Builds
  <2> QED
    BY <1>0, <2>1, <2>3, <2>4 DEF BuildsNumber
<1>2. ASSUME NEW k \in 1 .. w, NEW s \in V[k - 1] PROVE step(s, k) \in V[k]
  <2> DEFINE n == Wrap(A * Low(val, b, k - 1), w)
             p == Partial(s.ds, a, b[k], k, w)
             m == IF Says(val, b[k]) THEN Wrap(A * Pow2[k - 1], w) ELSE 0
             t == Addition(p.ds, s.out, p.out)
  <2>1. k - 1 \in 0 .. w /\ k \in 0 .. w
    OBVIOUS
  <2>2. s \in Builds /\ BuildsNumber(val, ds, s, w, n)
    BY <2>1
  <2> HIDE DEF V, base
  <2>3. /\ s.ds \in Vectors /\ a \in Words(w, Len(s.ds)) /\ b[k] \in Values(Len(s.ds))
        /\ s.out \in Words(w, Len(s.ds)) /\ Follows(val, ds, s.ds)
        /\ Respects(val, s.ds) => Low(val, s.out, w) = n
    <3> HIDE DEF n
    <3>1. b[k] \in Values(Len(ds))
      BY <1>0, WordShape
    <3> QED
      BY <2>2, <3>1, NumberBuilt
  <2>4. BuildsNumber(val, s.ds, p, w, m)
    BY <2>3, PartialBuilds
  <2> HIDE DEF p, m
  <2>5. /\ p.ds \in Vectors /\ s.out \in Words(w, Len(p.ds)) /\ p.out \in Words(w, Len(p.ds)) /\ Follows(val, s.ds, p.ds)
        /\ Respects(val, p.ds) => Respects(val, s.ds) /\ Low(val, p.out, w) = m
    BY <2>3, <2>4, NumberBuilt
  <2>6. BuildsNumber(val, p.ds, t, w, Wrap(Low(val, s.out, w) + Low(val, p.out, w), w))
    BY <2>5, AdditionBuilds
  <2>7. Follows(val, ds, p.ds)
    BY <2>3, <2>5, FollowsOn
  <2>8. Wrap(n + m, w) = Wrap(A * Low(val, b, k), w)
    <3> DEFINE P == Pow2[k - 1]
               B == Low(val, b, k - 1)
    <3>1. P \in Nat /\ B \in Nat
      <4>1. k - 1 \in Nat
        OBVIOUS
      <4> QED
        BY <4>1, Powers, LowType
    <3>2. Low(val, b, k) = B + (Truth(Says(val, b[k])) * P)
      BY <1>0, LowGrows
    <3> HIDE DEF P, B
    <3>3. CASE Says(val, b[k])
      <4>1. Low(val, b, k) = B + P
        BY <3>1, <3>2, <3>3 DEF Truth
      <4> DEFINE x == A * B
                 y == A * P
      <4>2. x \in Int /\ y \in Int /\ A * (B + P) = x + y
        <5> HIDE DEF A
        <5> QED
          BY <1>0, <3>1
      <4>3. n = Wrap(x, w) /\ m = Wrap(y, w)
        BY <3>3 DEF m, P, B
      <4>4. Wrap(Wrap(x, w) + Wrap(y, w), w) = Wrap(x + y, w)
        <5> HIDE DEF x, y
        <5> QED
          BY <4>2, WrapSum
      <4> HIDE DEF x, y
      <4> QED
        BY <4>1, <4>2, <4>3, <4>4
    <3>4. CASE ~Says(val, b[k])
      <4>1. Low(val, b, k) = B
        BY <3>1, <3>2, <3>4 DEF Truth
      <4>2. m = 0
        BY <3>4 DEF m
      <4> DEFINE x == A * B
      <4>3. x \in Int
        <5> HIDE DEF A
        <5> QED
          BY <1>0, <3>1
      <4>4. n = Wrap(x, w)
        BY DEF B
      <4> HIDE DEF x, n
      <4>5. n \in 0 .. Pow2[w] - 1 /\ n \in Nat
        BY <4>3, <4>4, WrapType
      <4>6. Wrap(n, w) = n /\ n + 0 = n
        BY <4>5, WrapSmall
      <4> QED
        BY <4>1, <4>2, <4>4, <4>6 DEF x
    <3> QED
      BY <3>3, <3>4
  <2>9. Respects(val, p.ds) =>
          Wrap(Low(val, s.out, w) + Low(val, p.out, w), w) = Wrap(A * Low(val, b, k), w)
    BY <2>3, <2>5, <2>8
  <2> DEFINE u == Wrap(Low(val, s.out, w) + Low(val, p.out, w), w)
             v == Wrap(A * Low(val, b, k), w)
  <2>10. BuildsNumber(val, ds, t, w, v)
    <3> HIDE DEF t, u, v
    <3> QED
      BY <2>6, <2>7, <2>9, NumberAfter DEF u, v
  <2>11. t \in Builds /\ t = step(s, k)
    BY <2>10 DEF BuildsNumber, p
  <2> HIDE DEF t, step
  <2> QED
    BY <2>1, <2>10, <2>11 DEF V
<1> DEFINE Rec(f) == [k \in 0 .. w |-> IF k = 0 THEN base ELSE step(f[k - 1], k)]
       F == [y \in Builds \X (1 .. w) |-> step(y[1], y[2])]
       after == CHOOSE f : f = Rec(f)
<1>a1. \A k \in 1 .. w : \A s \in V[k - 1] : F[<<s, k>>] = step(s, k) /\ F[<<s, k>>] \in V[k]
  <2> SUFFICES ASSUME NEW k \in 1 .. w, NEW s \in V[k - 1] PROVE F[<<s, k>>] = step(s, k)
    <3> HIDE DEF V, step, F
    <3> QED
      BY <1>2
  <2>1. k - 1 \in 0 .. w
    OBVIOUS
  <2>2. s \in Builds
    BY <2>1
  <2> HIDE DEF V, step
  <2> QED
    BY <2>2
<1>a2. PICK run : Runs(w, V, base, F, run)
  <2> HIDE DEF V, step, F, base
  <2> QED
    BY <1>1, <1>a1, LoopRuns
<1>a3. run = Rec(run)
  <2> SUFFICES ASSUME NEW k \in 0 .. w PROVE run[k] = IF k = 0 THEN base ELSE step(run[k - 1], k)
    <3> HIDE DEF V, step, F, base
    <3> QED
      BY <1>a2 DEF Runs
  <2>1. CASE k = 0
    <3> HIDE DEF V, step, F, base
    <3> QED
      BY <2>1, <1>a2 DEF Runs
  <2>2. CASE k # 0
    <3>1. k \in 1 .. w /\ k - 1 \in 0 .. w
      BY <2>2
    <3> HIDE DEF V, step, F, base
    <3> QED
      BY <2>2, <3>1, <1>a1, <1>a2 DEF Runs
  <2> QED
    BY <2>1, <2>2
<1>a4. after = Rec(after)
  <2> HIDE DEF Rec
  <2> QED
    BY <1>a3
<1>a5. after[0] = base /\ \A k \in 1 .. w : after[k] = step(after[k - 1], k)
  <2> HIDE DEF step, base, after, V, F
  <2>1. \A k \in 0 .. w : after[k] = IF k = 0 THEN base ELSE step(after[k - 1], k)
    BY <1>a4
  <2>2. 0 \in 0 .. w /\ \A k \in 1 .. w : k \in 0 .. w /\ k # 0
    OBVIOUS
  <2> HIDE DEF Rec
  <2> QED
    BY <2>1, <2>2
<1>a6. \A k \in 0 .. w : after[k] \in V[k]
  <2> HIDE DEF V, step, F, base, after, Rec
  <2> QED
    BY <1>1, <1>a1, <1>a5, LoopKeeps, ZenonT(60)
<1>3. Multiplication(ds, a, b) = after[w]
  BY <1>0, ZenonT(60) DEF Multiplication, Partial, EachBit, Then, Built
<1>4. BuildsNumber(val, ds, after[w], w, Wrap(A * Low(val, b, w), w))
  <2> HIDE DEF after
  <2> QED
    BY <1>a6
<1> HIDE DEF after
<1> QED
  BY <1>3, <1>4

(* How the highest bit decides a comparison.                                *)
LEMMA HighestDecides ==
  ASSUME NEW val, NEW w \in Nat, NEW n \in Nat, NEW a \in Words(w, n), NEW b \in Words(w, n), NEW k \in 1 .. w
  PROVE  /\ Low(val, a, k) = Low(val, b, k)
              <=> Low(val, a, k - 1) = Low(val, b, k - 1) /\ (Says(val, a[k]) <=> Says(val, b[k]))
         /\ Low(val, a, k) < Low(val, b, k)
              <=> \/ Low(val, a, k - 1) < Low(val, b, k - 1) /\ (Says(val, a[k]) <=> Says(val, b[k]))
                  \/ ~Says(val, a[k]) /\ Says(val, b[k])
<1> DEFINE A == Low(val, a, k - 1)
           B == Low(val, b, k - 1)
           P == Pow2[k - 1]
<1>1. k - 1 \in Nat
  OBVIOUS
<1>2. A \in Nat /\ B \in Nat /\ A < P /\ B < P
  BY <1>1, LowType
<1>3. P \in Nat
  BY <1>1, Powers
<1>4. Low(val, a, k) = A + (Truth(Says(val, a[k])) * P) /\ Low(val, b, k) = B + (Truth(Says(val, b[k])) * P)
  BY LowGrows
<1> HIDE DEF A, B, P
<1>5. /\ Low(val, a, k) = IF Says(val, a[k]) THEN A + P ELSE A
      /\ Low(val, b, k) = IF Says(val, b[k]) THEN B + P ELSE B
  BY <1>2, <1>3, <1>4 DEF Truth
<1>6. /\ Low(val, a, k) = Low(val, b, k) <=> A = B /\ (Says(val, a[k]) <=> Says(val, b[k]))
      /\ Low(val, a, k) < Low(val, b, k) <=> \/ A < B /\ (Says(val, a[k]) <=> Says(val, b[k]))
                                             \/ ~Says(val, a[k]) /\ Says(val, b[k])
  BY <1>2, <1>3, <1>5
<1> QED
  BY <1>6 DEF A, B

(* The equality and less-than chains, and every predicate on top of them.   *)
LEMMA EqualsBuilds ==
  ASSUME NEW val \in [Nat -> BOOLEAN], NEW ds \in Vectors, NEW w \in Nat,
         NEW a \in Words(w, Len(ds)), NEW b \in Words(w, Len(ds))
  PROVE  BuildsBit(val, ds, Equals(ds, a, b), Low(val, a, w) = Low(val, b, w))
<1> DEFINE Same(k) == Low(val, a, k) = Low(val, b, k)
           xor(s, k) == XorGate(s.ds, a[k], b[k])
           step(s, k) == Gate(xor(s, k).ds, "And", s.out, Not(xor(s, k).out))
           base == [ds |-> ds, out |-> True]
           V == [k \in 0 .. w |-> {s \in Bits : BuildsBit(val, ds, s, Same(k))}]
<1>0. Len(ds) \in Nat /\ Len(a) = w /\ Follows(val, ds, ds) /\ \A k \in 1 .. w : a[k] \in Values(Len(ds)) /\ b[k] \in Values(Len(ds))
  BY VectorLength, WordShape, FollowsItself
<1>1. base \in V[0]
  <2>1. True \in Values(Len(ds)) /\ True \in Signals /\ Says(val, True) = TRUE
    BY <1>0, ValuesAre, SaysConst
  <2>2. Low(val, a, 0) = 0 /\ Low(val, b, 0) = 0
    BY <1>0, LowGrows
  <2>3. Says(val, True) <=> Same(0)
    BY <2>1, <2>2
  <2> HIDE DEF Same
  <2>4. BuildsBit(val, ds, base, Same(0))
    BY <2>1, <2>3, BuiltBit DEF Built
  <2>5. base \in Bits
    BY <2>1 DEF Bits
  <2> HIDE DEF base
  <2> QED
    BY <2>4, <2>5
<1>2. ASSUME NEW k \in 1 .. w, NEW s \in V[k - 1] PROVE step(s, k) \in V[k]
  <2> DEFINE j == k - 1
             x == xor(s, k)
             r == step(s, k)
             odd == Says(val, a[k]) # Says(val, b[k])
             before == Same(j)
             after0 == Same(k)
  <2>1. j \in 0 .. w /\ k \in 0 .. w
    OBVIOUS
  <2>2. s \in Bits /\ BuildsBit(val, ds, s, before)
    <3> HIDE DEF Same
    <3> QED
      BY <2>1
  <2> HIDE DEF V, base, j
  <2>3. /\ s.ds \in Vectors /\ Len(s.ds) \in Nat /\ s.out \in Values(Len(s.ds))
        /\ a[k] \in Values(Len(s.ds)) /\ b[k] \in Values(Len(s.ds)) /\ Follows(val, ds, s.ds)
        /\ Respects(val, s.ds) => (Says(val, s.out) <=> before)
    <3> HIDE DEF before
    <3> QED
      BY <1>0, <2>2, BitBuilt
  <2>4. BuildsBit(val, s.ds, x, odd)
    BY <2>3, XorBuilds
  <2> HIDE DEF x, odd, before, after0
  <2>5. /\ x.ds \in Vectors /\ Len(x.ds) \in Nat /\ x.out \in Values(Len(x.ds)) /\ s.out \in Values(Len(x.ds))
        /\ Follows(val, s.ds, x.ds)
        /\ Respects(val, x.ds) => Respects(val, s.ds) /\ (Says(val, x.out) <=> odd)
    BY <2>3, <2>4, BitBuilt
  <2>6. Not(x.out) \in Values(Len(x.ds)) /\ (Says(val, Not(x.out)) <=> ~Says(val, x.out))
    BY <2>5, ValuesAre, SaysInverse
  <2>7. BuildsBit(val, x.ds, r, Joins("And", Says(val, s.out), Says(val, Not(x.out))))
    BY <2>5, <2>6, GateBuilds DEF x
  <2>8. after0 <=> before /\ ~odd
    <3>1. Says(val, a[k]) \in BOOLEAN /\ Says(val, b[k]) \in BOOLEAN
      BY <1>0, SaysInverse
    <3>2. after0 <=> before /\ (Says(val, a[k]) <=> Says(val, b[k]))
      BY <1>0, HighestDecides DEF after0, before, j
    <3> QED
      BY <3>1, <3>2 DEF odd
  <2>9. Respects(val, x.ds) => (Joins("And", Says(val, s.out), Says(val, Not(x.out))) <=> after0)
    BY <2>3, <2>5, <2>6, <2>8 DEF Joins
  <2>10. Follows(val, ds, x.ds)
    BY <2>3, <2>5, FollowsOn
  <2> HIDE DEF r
  <2>11. BuildsBit(val, ds, r, after0)
    BY <2>7, <2>9, <2>10, BitAfter
  <2>12. r \in Bits
    BY <2>11 DEF BuildsBit, Bits
  <2>13. r \in V[k]
    <3>1. BuildsBit(val, ds, r, Same(k))
      BY <2>11 DEF after0
    <3> HIDE DEF Same
    <3> QED
      BY <2>1, <2>12, <3>1 DEF V
  <2> QED
    BY <2>13 DEF r
<1> HIDE DEF Same
<1> DEFINE Rec(f) == [k \in 0 .. w |-> IF k = 0 THEN base ELSE step(f[k - 1], k)]
       F == [y \in Bits \X (1 .. w) |-> step(y[1], y[2])]
       after == CHOOSE f : f = Rec(f)
<1>a1. \A k \in 1 .. w : \A s \in V[k - 1] : F[<<s, k>>] = step(s, k) /\ F[<<s, k>>] \in V[k]
  <2> SUFFICES ASSUME NEW k \in 1 .. w, NEW s \in V[k - 1] PROVE F[<<s, k>>] = step(s, k)
    <3> HIDE DEF V, step, F
    <3> QED
      BY <1>2
  <2>1. k - 1 \in 0 .. w
    OBVIOUS
  <2>2. s \in Bits
    BY <2>1
  <2> HIDE DEF V, step
  <2> QED
    BY <2>2
<1>a2. PICK run : Runs(w, V, base, F, run)
  <2> HIDE DEF V, step, F, base
  <2> QED
    BY <1>1, <1>a1, LoopRuns
<1>a3. run = Rec(run)
  <2> SUFFICES ASSUME NEW k \in 0 .. w PROVE run[k] = IF k = 0 THEN base ELSE step(run[k - 1], k)
    <3> HIDE DEF V, step, F, base
    <3> QED
      BY <1>a2 DEF Runs
  <2>1. CASE k = 0
    <3> HIDE DEF V, step, F, base
    <3> QED
      BY <2>1, <1>a2 DEF Runs
  <2>2. CASE k # 0
    <3>1. k \in 1 .. w /\ k - 1 \in 0 .. w
      BY <2>2
    <3> HIDE DEF V, step, F, base
    <3> QED
      BY <2>2, <3>1, <1>a1, <1>a2 DEF Runs
  <2> QED
    BY <2>1, <2>2
<1>a4. after = Rec(after)
  <2> HIDE DEF Rec
  <2> QED
    BY <1>a3
<1>a5. after[0] = base /\ \A k \in 1 .. w : after[k] = step(after[k - 1], k)
  <2> HIDE DEF step, base, after, V, F
  <2>1. \A k \in 0 .. w : after[k] = IF k = 0 THEN base ELSE step(after[k - 1], k)
    BY <1>a4
  <2>2. 0 \in 0 .. w /\ \A k \in 1 .. w : k \in 0 .. w /\ k # 0
    OBVIOUS
  <2> HIDE DEF Rec
  <2> QED
    BY <2>1, <2>2
<1>a6. \A k \in 0 .. w : after[k] \in V[k]
  <2> HIDE DEF V, step, F, base, after, Rec
  <2> QED
    BY <1>1, <1>a1, <1>a5, LoopKeeps, ZenonT(60)
<1>3. Equals(ds, a, b) = after[w]
  BY <1>0 DEF Equals, EachBit, Then, Built
<1>4. BuildsBit(val, ds, after[w], Same(w))
  <2> HIDE DEF after
  <2> QED
    BY <1>a6
<1> HIDE DEF after
<1> QED
  BY <1>3, <1>4 DEF Same

LEMMA LessThanBuilds ==
  ASSUME NEW val \in [Nat -> BOOLEAN], NEW ds \in Vectors, NEW w \in Nat,
         NEW a \in Words(w, Len(ds)), NEW b \in Words(w, Len(ds))
  PROVE  BuildsBit(val, ds, LessThan(ds, a, b), Low(val, a, w) < Low(val, b, w))
<1> DEFINE Less(k) == Low(val, a, k) < Low(val, b, k)
           xor(s, k) == XorGate(s.ds, a[k], b[k])
           lower(s, k) == Gate(xor(s, k).ds, "And", Not(xor(s, k).out), s.out)
           here(s, k) == Gate(lower(s, k).ds, "And", Not(a[k]), b[k])
           step(s, k) == Gate(here(s, k).ds, "Or", lower(s, k).out, here(s, k).out)
           base == [ds |-> ds, out |-> False]
           V == [k \in 0 .. w |-> {s \in Bits : BuildsBit(val, ds, s, Less(k))}]
<1>0. Len(ds) \in Nat /\ Len(a) = w /\ Follows(val, ds, ds) /\ \A k \in 1 .. w : a[k] \in Values(Len(ds)) /\ b[k] \in Values(Len(ds))
  BY VectorLength, WordShape, FollowsItself
<1>1. base \in V[0]
  <2>1. False \in Values(Len(ds)) /\ False \in Signals /\ Says(val, False) = FALSE
    BY <1>0, ValuesAre, SaysConst
  <2>2. Low(val, a, 0) = 0 /\ Low(val, b, 0) = 0
    BY <1>0, LowGrows
  <2>3. Says(val, False) <=> Less(0)
    BY <2>1, <2>2
  <2> HIDE DEF Less
  <2>4. BuildsBit(val, ds, base, Less(0))
    BY <2>1, <2>3, BuiltBit DEF Built
  <2>5. base \in Bits
    BY <2>1 DEF Bits
  <2> HIDE DEF base
  <2> QED
    BY <2>4, <2>5
<1>2. ASSUME NEW k \in 1 .. w, NEW s \in V[k - 1] PROVE step(s, k) \in V[k]
  <2> DEFINE j == k - 1
             x == xor(s, k)
             l == lower(s, k)
             h == here(s, k)
             r == step(s, k)
             A == Says(val, a[k])
             B == Says(val, b[k])
             odd == A # B
             before == Less(j)
             after0 == Less(k)
  <2>1. j \in 0 .. w /\ k \in 0 .. w
    OBVIOUS
  <2>2. s \in Bits /\ BuildsBit(val, ds, s, before)
    <3> HIDE DEF Less
    <3> QED
      BY <2>1
  <2> HIDE DEF V, base, j
  <2>3. /\ s.ds \in Vectors /\ Len(s.ds) \in Nat /\ s.out \in Values(Len(s.ds))
        /\ a[k] \in Values(Len(s.ds)) /\ b[k] \in Values(Len(s.ds)) /\ Follows(val, ds, s.ds)
        /\ Respects(val, s.ds) => (Says(val, s.out) <=> before)
    <3> HIDE DEF before
    <3> QED
      BY <1>0, <2>2, BitBuilt
  <2>4. BuildsBit(val, s.ds, x, odd)
    BY <2>3, XorBuilds
  <2> HIDE DEF x, odd, before, after0
  <2>5. /\ x.ds \in Vectors /\ Len(x.ds) \in Nat /\ x.out \in Values(Len(x.ds)) /\ s.out \in Values(Len(x.ds))
        /\ a[k] \in Values(Len(x.ds)) /\ b[k] \in Values(Len(x.ds)) /\ Follows(val, s.ds, x.ds)
        /\ Respects(val, x.ds) => Respects(val, s.ds) /\ (Says(val, x.out) <=> odd)
    BY <2>3, <2>4, BitBuilt
  <2>6. Not(x.out) \in Values(Len(x.ds)) /\ (Says(val, Not(x.out)) <=> ~Says(val, x.out))
    BY <2>5, ValuesAre, SaysInverse
  <2>7. BuildsBit(val, x.ds, l, Joins("And", Says(val, Not(x.out)), Says(val, s.out)))
    BY <2>5, <2>6, GateBuilds DEF x
  <2> HIDE DEF l
  <2>8. /\ l.ds \in Vectors /\ Len(l.ds) \in Nat /\ l.out \in Values(Len(l.ds))
        /\ a[k] \in Values(Len(l.ds)) /\ b[k] \in Values(Len(l.ds)) /\ Follows(val, x.ds, l.ds)
        /\ Respects(val, l.ds) => /\ Respects(val, x.ds)
                                  /\ Says(val, l.out) <=> Joins("And", Says(val, Not(x.out)), Says(val, s.out))
    BY <2>5, <2>7, BitBuilt
  <2>9. Not(a[k]) \in Values(Len(l.ds)) /\ (Says(val, Not(a[k])) <=> ~A)
    BY <2>8, ValuesAre, SaysInverse
  <2>10. BuildsBit(val, l.ds, h, Joins("And", Says(val, Not(a[k])), B))
    BY <2>8, <2>9, GateBuilds DEF l
  <2> HIDE DEF h, A, B
  <2>11. /\ h.ds \in Vectors /\ Len(h.ds) \in Nat /\ h.out \in Values(Len(h.ds)) /\ l.out \in Values(Len(h.ds))
         /\ Follows(val, l.ds, h.ds)
         /\ Respects(val, h.ds) => Respects(val, l.ds) /\ (Says(val, h.out) <=> Joins("And", Says(val, Not(a[k])), B))
    BY <2>8, <2>10, BitBuilt
  <2>12. BuildsBit(val, h.ds, r, Joins("Or", Says(val, l.out), Says(val, h.out)))
    BY <2>11, GateBuilds DEF h, l
  <2>13. after0 <=> (before /\ ~odd) \/ (~A /\ B)
    <3>1. A \in BOOLEAN /\ B \in BOOLEAN
      BY <1>0, SaysInverse DEF A, B
    <3>2. after0 <=> (before /\ (A <=> B)) \/ (~A /\ B)
      BY <1>0, HighestDecides DEF after0, before, j, A, B
    <3> QED
      BY <3>1, <3>2 DEF odd
  <2>14. Respects(val, h.ds) => (Joins("Or", Says(val, l.out), Says(val, h.out)) <=> after0)
    <3> SUFFICES ASSUME Respects(val, h.ds) PROVE Joins("Or", Says(val, l.out), Says(val, h.out)) <=> after0
      OBVIOUS
    <3>1. Says(val, h.out) <=> (~A /\ B)
      BY <2>9, <2>11 DEF Joins
    <3>2. Says(val, l.out) <=> (~odd /\ before)
      BY <2>3, <2>5, <2>6, <2>8, <2>11 DEF Joins
    <3> QED
      BY <2>13, <3>1, <3>2 DEF Joins
  <2>15. Follows(val, ds, h.ds)
    <3>1. Follows(val, ds, x.ds)
      BY <2>3, <2>5, FollowsOn
    <3>2. Follows(val, ds, l.ds)
      BY <2>8, <3>1, FollowsOn
    <3> QED
      BY <2>11, <3>2, FollowsOn
  <2> HIDE DEF r
  <2>16. BuildsBit(val, ds, r, after0)
    BY <2>12, <2>14, <2>15, BitAfter
  <2>17. r \in Bits
    BY <2>16 DEF BuildsBit, Bits
  <2>18. r \in V[k]
    <3>1. BuildsBit(val, ds, r, Less(k))
      BY <2>16 DEF after0
    <3> HIDE DEF Less
    <3> QED
      BY <2>1, <2>17, <3>1 DEF V
  <2> QED
    BY <2>18 DEF r
<1> HIDE DEF Less
<1> DEFINE Rec(f) == [k \in 0 .. w |-> IF k = 0 THEN base ELSE step(f[k - 1], k)]
       F == [y \in Bits \X (1 .. w) |-> step(y[1], y[2])]
       after == CHOOSE f : f = Rec(f)
<1>a1. \A k \in 1 .. w : \A s \in V[k - 1] : F[<<s, k>>] = step(s, k) /\ F[<<s, k>>] \in V[k]
  <2> SUFFICES ASSUME NEW k \in 1 .. w, NEW s \in V[k - 1] PROVE F[<<s, k>>] = step(s, k)
    <3> HIDE DEF V, step, F
    <3> QED
      BY <1>2
  <2>1. k - 1 \in 0 .. w
    OBVIOUS
  <2>2. s \in Bits
    BY <2>1
  <2> HIDE DEF V, step
  <2> QED
    BY <2>2
<1>a2. PICK run : Runs(w, V, base, F, run)
  <2> HIDE DEF V, step, F, base
  <2> QED
    BY <1>1, <1>a1, LoopRuns
<1>a3. run = Rec(run)
  <2> SUFFICES ASSUME NEW k \in 0 .. w PROVE run[k] = IF k = 0 THEN base ELSE step(run[k - 1], k)
    <3> HIDE DEF V, step, F, base
    <3> QED
      BY <1>a2 DEF Runs
  <2>1. CASE k = 0
    <3> HIDE DEF V, step, F, base
    <3> QED
      BY <2>1, <1>a2 DEF Runs
  <2>2. CASE k # 0
    <3>1. k \in 1 .. w /\ k - 1 \in 0 .. w
      BY <2>2
    <3> HIDE DEF V, step, F, base
    <3> QED
      BY <2>2, <3>1, <1>a1, <1>a2 DEF Runs
  <2> QED
    BY <2>1, <2>2
<1>a4. after = Rec(after)
  <2> HIDE DEF Rec
  <2> QED
    BY <1>a3
<1>a5. after[0] = base /\ \A k \in 1 .. w : after[k] = step(after[k - 1], k)
  <2> HIDE DEF step, base, after, V, F
  <2>1. \A k \in 0 .. w : after[k] = IF k = 0 THEN base ELSE step(after[k - 1], k)
    BY <1>a4
  <2>2. 0 \in 0 .. w /\ \A k \in 1 .. w : k \in 0 .. w /\ k # 0
    OBVIOUS
  <2> HIDE DEF Rec
  <2> QED
    BY <2>1, <2>2
<1>a6. \A k \in 0 .. w : after[k] \in V[k]
  <2> HIDE DEF V, step, F, base, after, Rec
  <2> QED
    BY <1>1, <1>a1, <1>a5, LoopKeeps, ZenonT(60)
<1>3. LessThan(ds, a, b) = after[w]
  BY <1>0 DEF LessThan, EachBit, Then, Built
<1>4. BuildsBit(val, ds, after[w], Less(w))
  <2> HIDE DEF after
  <2> QED
    BY <1>a6
<1> HIDE DEF after
<1> QED
  BY <1>3, <1>4 DEF Less

Predicates == {"Equals", "NotEquals", "LessThan", "GreaterThan", "LessThanOrEqual", "GreaterThanOrEqual"}
THEOREM ComparisonBuilds ==
  ASSUME NEW val \in [Nat -> BOOLEAN], NEW ds \in Vectors, NEW w \in Nat,
         NEW a \in Words(w, Len(ds)), NEW b \in Words(w, Len(ds)), NEW predicate \in Predicates
  PROVE  BuildsBit(val, ds, Comparison(ds, a, b, predicate), Compares(predicate, Low(val, a, w), Low(val, b, w)))
<1> DEFINE A == Low(val, a, w)
           B == Low(val, b, w)
           g == IF predicate \in {"Equals", "NotEquals"} THEN Equals(ds, a, b)
                ELSE IF predicate \in {"LessThan", "GreaterThanOrEqual"} THEN LessThan(ds, a, b)
                ELSE LessThan(ds, b, a)
           out == Compares(predicate, A, B)
           inverted == predicate \in {"NotEquals", "LessThanOrEqual", "GreaterThanOrEqual"}
           half == IF inverted THEN ~out ELSE out
<1>1. Comparison(ds, a, b, predicate) = IF inverted THEN Built(g.ds, Not(g.out)) ELSE g
  BY DEF Comparison, Then, Predicates, Negated
<1>2. A \in Nat /\ B \in Nat
  BY LowType
<1> HIDE DEF A, B
<1>3. /\ predicate \in {"Equals", "NotEquals"} => (half <=> A = B)
      /\ predicate \in {"LessThan", "GreaterThanOrEqual"} => (half <=> A < B)
      /\ predicate \in {"GreaterThan", "LessThanOrEqual"} => (half <=> B < A)
  <2>1. CASE predicate = "Equals"
    BY <2>1 DEF Compares
  <2>2. CASE predicate = "NotEquals"
    BY <2>2 DEF Compares
  <2>3. CASE predicate = "LessThan"
    BY <2>3 DEF Compares
  <2>4. CASE predicate = "GreaterThan"
    BY <1>2, <2>4 DEF Compares
  <2>5. CASE predicate = "LessThanOrEqual"
    BY <1>2, <2>5 DEF Compares
  <2>6. CASE predicate = "GreaterThanOrEqual"
    BY <1>2, <2>6 DEF Compares
  <2> QED
    BY <2>1, <2>2, <2>3, <2>4, <2>5, <2>6 DEF Predicates
<1>4. BuildsBit(val, ds, g, half)
  <2>0. Follows(val, ds, ds)
    BY FollowsItself
  <2>1. CASE predicate \in {"Equals", "NotEquals"}
    <3> DEFINE e == A = B
    <3>1. BuildsBit(val, ds, Equals(ds, a, b), e)
      BY EqualsBuilds DEF A, B
    <3>2. g = Equals(ds, a, b) /\ (e <=> half)
      BY <1>3, <2>1
    <3> HIDE DEF e, half, g
    <3> QED
      BY <2>0, <3>1, <3>2, BitAfter
  <2>2. CASE predicate \in {"LessThan", "GreaterThanOrEqual"}
    <3> DEFINE e == A < B
    <3>1. BuildsBit(val, ds, LessThan(ds, a, b), e)
      BY LessThanBuilds DEF A, B
    <3>2. g = LessThan(ds, a, b) /\ (e <=> half)
      BY <1>3, <2>2
    <3> HIDE DEF e, half, g
    <3> QED
      BY <2>0, <3>1, <3>2, BitAfter
  <2>3. CASE predicate \in {"GreaterThan", "LessThanOrEqual"}
    <3> DEFINE e == B < A
    <3>1. BuildsBit(val, ds, LessThan(ds, b, a), e)
      BY LessThanBuilds DEF A, B
    <3>2. g = LessThan(ds, b, a) /\ (e <=> half)
      BY <1>3, <2>3
    <3> HIDE DEF e, half, g
    <3> QED
      BY <2>0, <3>1, <3>2, BitAfter
  <2> QED
    BY <2>1, <2>2, <2>3 DEF Predicates
<1> HIDE DEF g
<1>5. BuildsBit(val, ds, IF inverted THEN Built(g.ds, Not(g.out)) ELSE g, out)
  <2>1. CASE ~inverted
    <3>1. half <=> out
      BY <2>1
    <3>2. (IF inverted THEN Built(g.ds, Not(g.out)) ELSE g) = g /\ Follows(val, ds, ds)
      BY <2>1, FollowsItself
    <3> HIDE DEF half, out
    <3> QED
      BY <1>4, <3>1, <3>2, BitAfter
  <2>2. CASE inverted
    <3>1. ~half <=> out
      BY <2>2
    <3>2. (IF inverted THEN Built(g.ds, Not(g.out)) ELSE g) = Built(g.ds, Not(g.out))
      BY <2>2
    <3> DEFINE v == Not(g.out)
               says == Says(val, v)
    <3> HIDE DEF half, out
    <3>3. /\ g.ds \in Vectors /\ Len(g.ds) \in Nat /\ g.out \in Values(Len(g.ds)) /\ Follows(val, ds, g.ds)
          /\ Respects(val, g.ds) => (Says(val, g.out) <=> half)
      BY <1>4, BitBuilt
    <3>4. v \in Values(Len(g.ds)) /\ (says <=> ~Says(val, g.out))
      BY <3>3, ValuesAre, SaysInverse
    <3>5. BuildsBit(val, g.ds, Built(g.ds, v), says)
      BY <3>3, <3>4, BuiltBit
    <3>6. Respects(val, g.ds) => (says <=> out)
      BY <3>1, <3>3, <3>4
    <3>7. BuildsBit(val, ds, Built(g.ds, v), out)
      <4> HIDE DEF v, says
      <4> QED
        BY <3>3, <3>5, <3>6, BitAfter
    <3> QED
      BY <3>2, <3>7
  <2> QED
    BY <2>1, <2>2
<1> QED
  BY <1>1, <1>5 DEF A, B

(* Words of one more bit, as the remainder of a division is.                *)
Succeeds(w, e) == e = w + 1
PutUnder(v, x, y) == y = <<v>> \o x
BelowRest(v, x, y) == y = <<v>> \o Front(x)
(* A word with one more bit below.                                          *)
LEMMA BitBelow ==
  ASSUME NEW val, NEW w \in Nat, NEW e \in Nat, Succeeds(w, e), NEW n \in Nat, NEW x \in Words(w, n),
         NEW y \in Words(e, n), NEW v, y[1] = v, \A k \in 1 .. w : y[1 + k] = x[k]
  PROVE  Low(val, y, e) = Truth(Says(val, v)) + (2 * Low(val, x, w))
<1>1. PartOfWord(val, y, 1, x, w, e)
  BY DEF PartOfWord, Succeeds
<1>2. SplitsAt(val, y, 1, x, w, e)
  BY <1>1, LowSplits
<1>3. Low(val, y, 0) = 0 /\ Low(val, y, 1) = Low(val, y, 0) + (Truth(Says(val, y[1])) * Pow2[0])
  <2>1. 1 \in 1 .. e /\ 1 - 1 = 0
    BY DEF Succeeds
  <2>2. /\ Low(val, y, 0) = 0
        /\ \A k \in 1 .. e : Low(val, y, k) = Low(val, y, k - 1) + (Truth(Says(val, y[k])) * Pow2[k - 1])
    BY LowGrows
  <2> QED
    BY <2>1, <2>2
<1>4. Pow2[0] = 1 /\ Pow2[1] = 2
  <2>1. 0 + 1 = 1
    OBVIOUS
  <2> QED
    BY <2>1, Powers
<1>5. Low(val, y, 1) = Truth(Says(val, v))
  BY <1>3, <1>4 DEF Truth
<1> QED
  BY <1>2, <1>4, <1>5 DEF SplitsAt

Lowers(val, v, x, w, y, e, n) == /\ y \in Words(e, n) /\ y \in Seq(Signals)
                                 /\ Low(val, y, e) = Truth(Says(val, v)) + (2 * Low(val, x, w))
(* The word that is divided next: the rest, moved up, with the next bit.    *)
LEMMA NextRest ==
  ASSUME NEW val, NEW w \in Nat, NEW e \in Nat, Succeeds(w, e), NEW n \in Nat, NEW x \in Words(e, n),
         NEW v \in Values(n), NEW y, BelowRest(v, x, y)
  PROVE  y \in Words(e, n) /\ (Low(val, x, e) < Pow2[w] => Lowers(val, v, x, e, y, e, n))
<1> DEFINE low == [k \in 1 .. w |-> x[k]]
<1>1. x \in Seq(Values(n)) /\ Len(x) = e /\ \A k \in 1 .. e : x[k] \in Values(n)
  BY WordShape
<1>2. Front(x) = low
  <2>1. Front(x) = [k \in 1 .. Len(x) - 1 |-> x[k]]
    BY <1>1 DEF Front
  <2> QED
    BY <1>1, <2>1 DEF Succeeds
<1>3. low \in Words(w, n)
  <2>1. \A k \in 1 .. w : x[k] \in Values(n)
    BY <1>1 DEF Succeeds
  <2> QED
    BY <2>1 DEF Words
<1>4. low \in Seq(Values(n)) /\ Len(low) = w
  BY <1>3, WordShape
<1>5. y \in Words(e, n) /\ y[1] = v /\ \A k \in 1 .. w : y[1 + k] = low[k]
  <2> HIDE DEF low
  <2>1. <<v>> \in Seq(Values(n)) /\ Len(<<v>>) = 1 /\ <<v>>[1] = v
    OBVIOUS
  <2>2. <<v>> \o low \in Seq(Values(n)) /\ Len(<<v>> \o low) = 1 + w
    BY <1>4, <2>1
  <2>3. (<<v>> \o low)[1] = v
    BY <1>4, <2>1
  <2>4. \A k \in 1 .. w : (<<v>> \o low)[1 + k] = low[k]
    BY <1>4, <2>1
  <2>5. <<v>> \o low \in [1 .. e -> Values(n)]
    <3> DEFINE z == <<v>> \o low
    <3> HIDE DEF z
    <3>1. z \in Seq(Values(n)) /\ Len(z) = e
      BY <2>2 DEF z, Succeeds
    <3>2. z \in [1 .. Len(z) -> Values(n)]
      BY <3>1
    <3> QED
      BY <3>1, <3>2 DEF z
  <2> QED
    BY <1>2, <2>3, <2>4, <2>5 DEF Words, BelowRest
<1>6. Low(val, y, e) = Truth(Says(val, v)) + (2 * Low(val, low, w))
  <2> HIDE DEF low
  <2> QED
    BY <1>3, <1>5, BitBelow
<1>7. ASSUME Low(val, x, e) < Pow2[w] PROVE Low(val, low, w) = Low(val, x, e)
  <2>1. \A k \in 0 .. w : Low(val, x, k) = Low(val, low, k)
    <3> DEFINE j == w
    <3>1. \A k \in 1 .. j : Says(val, x[k]) <=> Says(val, low[k])
      OBVIOUS
    <3>2. j <= e /\ j <= w /\ j \in Nat
      BY DEF Succeeds
    <3>3. j = w
      OBVIOUS
    <3> HIDE DEF low, j
    <3>4. \A k \in 0 .. j : Low(val, x, k) = Low(val, low, k)
      BY <1>3, <3>1, <3>2, LowAgrees
    <3> QED
      BY <3>3, <3>4
  <2>2. Low(val, x, e) = Low(val, x, w) + (Truth(Says(val, x[e])) * Pow2[w])
    <3>1. e \in 1 .. e /\ e - 1 = w
      BY DEF Succeeds
    <3>2. \A k \in 1 .. e : Low(val, x, k) = Low(val, x, k - 1) + (Truth(Says(val, x[k])) * Pow2[k - 1])
      BY LowGrows
    <3> QED
      BY <3>1, <3>2
  <2>3. Low(val, x, w) \in Nat
    BY LowType
  <2>4. Pow2[w] \in Nat
    BY Powers
  <2> DEFINE A == Low(val, x, e)
             B == Low(val, x, w)
             P == Pow2[w]
             s == Says(val, x[e])
  <2> HIDE DEF A, B, P, s
  <2>5. A = B
    <3>1. A = B + (Truth(s) * P) /\ A < P /\ B \in Nat /\ P \in Nat
      BY <1>7, <2>2, <2>3, <2>4 DEF A, B, P, s
    <3> QED
      BY <3>1 DEF Truth
  <2> QED
    BY <2>1, <2>5 DEF A, B
<1> QED
  <2>1. y \in Seq(Signals)
    BY <1>5, WordShape
  <2> HIDE DEF low
  <2> QED
    BY <1>5, <1>6, <1>7, <2>1 DEF Lowers

(* One step of the division: A is what has not been looked at yet, L, and   *)
(* P times what has been divided into Q and R.                              *)
Dividing(A, B, L, P, Q, R) == A = L + (P * ((B * Q) + R)) /\ (B > 0 => R < B)
LEMMA DividesOn ==
  ASSUME NEW A \in Nat, NEW B \in Nat, NEW L \in Nat, NEW P \in Nat, P >= 1, NEW Q \in Nat, NEW R \in Nat,
         NEW b \in {0, 1}, Dividing(A, B, L + (b * P), 2 * P, Q, R)
  PROVE  /\ b + (2 * R) >= B => Dividing(A, B, L, P, (2 * Q) + 1, (b + (2 * R)) - B)
         /\ b + (2 * R) < B => Dividing(A, B, L, P, 2 * Q, b + (2 * R))
<1> DEFINE x == B * Q
<1>1. x \in Nat
  OBVIOUS
<1>2. B * ((2 * Q) + 1) = (2 * x) + B /\ B * (2 * Q) = 2 * x
  OBVIOUS
<1>3. A = (L + (b * P)) + ((2 * P) * (x + R)) /\ (B > 0 => R < B)
  BY DEF Dividing
<1> HIDE DEF x
<1>4. /\ (P * ((2 * x) + (b + (2 * R)))) = (b * P) + ((2 * P) * (x + R))
  BY <1>1
<1>5. A = L + (P * ((2 * x) + (b + (2 * R))))
  <2> DEFINE p == b * P
             q == (2 * P) * (x + R)
             r == P * ((2 * x) + (b + (2 * R)))
  <2>1. p \in Int /\ q \in Int /\ r \in Int /\ r = p + q /\ A = (L + p) + q
    BY <1>1, <1>3, <1>4
  <2> HIDE DEF p, q, r
  <2>2. A = L + r
    BY <2>1
  <2> QED
    BY <2>2 DEF r
<1>6. ((2 * x) + B) + ((b + (2 * R)) - B) = (2 * x) + (b + (2 * R))
  BY <1>1
<1>7. ASSUME b + (2 * R) >= B PROVE Dividing(A, B, L, P, (2 * Q) + 1, (b + (2 * R)) - B)
  <2>1. B > 0 => (b + (2 * R)) - B < B
    BY <1>3
  <2> QED
    BY <1>2, <1>5, <1>6, <2>1 DEF Dividing
<1>8. ASSUME b + (2 * R) < B PROVE Dividing(A, B, L, P, 2 * Q, b + (2 * R))
  BY <1>2, <1>5, <1>8 DEF Dividing
<1> QED
  BY <1>7, <1>8

LEMMA DividesBelow ==
  ASSUME NEW A \in Nat, NEW B \in Nat, NEW L \in Nat, NEW P \in Nat, P >= 1, NEW Q \in Nat, NEW R \in Nat,
         Dividing(A, B, L, P, Q, R)
  PROVE  R <= A
<1> DEFINE y == (B * Q) + R
<1>1. y \in Nat /\ R <= y /\ A = L + (P * y)
  BY DEF Dividing
<1> HIDE DEF y
<1>2. (P - 1) * y \in Nat /\ P * y = ((P - 1) * y) + y
  BY <1>1
<1> QED
  BY <1>1, <1>2

(* The two ways a word gets one more bit: above and below.                  *)
LEMMA Widened ==
  ASSUME NEW val, NEW w \in Nat, NEW e \in Nat, Succeeds(w, e), NEW n \in Nat, NEW x \in Words(w, n)
  PROVE  Append(x, False) \in Words(e, n) /\ Low(val, Append(x, False), e) = Low(val, x, w)
<1> DEFINE y == Append(x, False)
<1>1. False \in Values(n) /\ Says(val, False) = FALSE
  BY ValuesAre, SaysConst
<1>2. y \in Words(w + 1, n) /\ y[w + 1] = False /\ \A k \in 1 .. w : y[k] = x[k]
  <2> DEFINE v == False
  <2>1. v \in Values(n)
    BY <1>1
  <2> HIDE DEF v
  <2>2. /\ Append(x, v) \in Words(w + 1, n)
        /\ Append(x, v)[w + 1] = v /\ \A k \in 1 .. w : Append(x, v)[k] = x[k]
    BY <2>1, WordAppended, ZenonT(60)
  <2> QED
    BY <2>2 DEF v
<1> HIDE DEF y
<1>3. y \in Words(e, n) /\ y[e] = False
  BY <1>2 DEF Succeeds
<1>9. \A k \in 1 .. w : Says(val, y[k]) <=> Says(val, x[k])
  BY <1>2
<1>4. Low(val, y, w) = Low(val, x, w)
  <2> DEFINE j == w
  <2>1. j <= w /\ j <= e /\ j \in Nat /\ j \in 0 .. j /\ y \in Words(e, n)
    BY <1>3 DEF Succeeds
  <2>2. \A k \in 1 .. j : Says(val, y[k]) <=> Says(val, x[k])
    BY <1>9
  <2>3. j = w
    OBVIOUS
  <2> HIDE DEF j
  <2>4. \A k \in 0 .. j : Low(val, y, k) = Low(val, x, k)
    BY <2>1, <2>2, LowAgrees
  <2> QED
    BY <2>1, <2>3, <2>4
<1>5. Low(val, y, e) = Low(val, y, w) + (Truth(Says(val, y[e])) * Pow2[w])
  <2>1. \A k \in 1 .. e : Low(val, y, k) = Low(val, y, k - 1) + (Truth(Says(val, y[k])) * Pow2[k - 1])
    BY <1>3, LowGrows
  <2>2. e \in 1 .. e /\ e - 1 = w
    BY DEF Succeeds
  <2> QED
    BY <2>1, <2>2
<1>6. Truth(Says(val, y[e])) = 0
  BY <1>1, <1>3 DEF Truth
<1>7. Pow2[w] \in Nat /\ Low(val, y, w) \in Nat
  BY Powers, LowType
<1>8. Low(val, y, e) = Low(val, y, w)
  <2> DEFINE p == Pow2[w]
             u == Low(val, y, w)
  <2> HIDE DEF p, u
  <2>1. Low(val, y, e) = u + (0 * p) /\ u \in Nat /\ p \in Nat
    BY <1>5, <1>6, <1>7 DEF p, u
  <2>2. Low(val, y, e) = u
    BY <2>1
  <2> QED
    BY <2>2 DEF u
<1> QED
  BY <1>3, <1>4, <1>8 DEF y

LEMMA Lowered ==
  ASSUME NEW val, NEW w \in Nat, NEW e \in Nat, Succeeds(w, e), NEW n \in Nat, NEW x \in Words(w, n), NEW v \in Values(n),
         NEW y, PutUnder(v, x, y)
  PROVE  Lowers(val, v, x, w, y, e, n)
<1>1. x \in Seq(Values(n)) /\ Len(x) = w
  BY WordShape
<1>2. y \in Words(e, n) /\ y[1] = v /\ \A k \in 1 .. w : y[1 + k] = x[k]
  <2>1. <<v>> \in Seq(Values(n)) /\ Len(<<v>>) = 1 /\ <<v>>[1] = v
    OBVIOUS
  <2>2. y \in Seq(Values(n)) /\ Len(y) = 1 + w
    BY <1>1, <2>1 DEF PutUnder
  <2>3. y[1] = v
    BY <1>1, <2>1 DEF PutUnder
  <2>4. \A k \in 1 .. w : y[1 + k] = x[k]
    BY <1>1, <2>1 DEF PutUnder
  <2>5. y \in [1 .. e -> Values(n)]
    <3>1. Len(y) = e /\ y \in [1 .. Len(y) -> Values(n)]
      BY <2>2 DEF Succeeds
    <3> QED
      BY <3>1
  <2> QED
    BY <2>3, <2>4, <2>5 DEF Words
<1>3. y \in Seq(Signals)
  BY <1>2, WordShape
<1>4. Low(val, y, e) = Truth(Says(val, v)) + (2 * Low(val, x, w))
  BY <1>2, BitBelow
<1> QED
  BY <1>2, <1>3, <1>4 DEF Lowers

(* What remains to be divided, and what has been.                           *)
Rests == [ds : Vectors, rest : Seq(Signals), out : Seq(Signals)]
BuildsRest(val, ds, s, dividend, divisor, w, e, k) ==
  /\ Follows(val, ds, s.ds)
  /\ s.rest \in Words(e, Len(s.ds)) /\ s.out \in Words(k, Len(s.ds))
  /\ Respects(val, s.ds) =>
       /\ Dividing(Low(val, dividend, w), Low(val, divisor, w), Low(val, dividend, w - k), Pow2[w - k],
                   Low(val, s.out, k), Low(val, s.rest, e))
       /\ Low(val, divisor, w) = 0 => Low(val, s.out, k) = Pow2[k] - 1

(* A step of the restoring division.                                        *)
RestStep(s, dividend, divisor, k, w) ==
  LET wide == Append(divisor, False)
      shifted == <<dividend[w - k + 1]>> \o Front(s.rest)
      fits == Comparison(s.ds, shifted, wide, "GreaterThanOrEqual")
      less == Subtraction(fits.ds, shifted, wide)
      rest == Mux(less.ds, shifted, less.out, fits.out)
  IN [ds |-> rest.ds, rest |-> rest.out, out |-> <<fits.out>> \o s.out]

LEMMA RestBuilds ==
  ASSUME NEW val \in [Nat -> BOOLEAN], NEW ds \in Vectors, NEW w \in Nat, NEW e \in Nat, Succeeds(w, e),
         NEW dividend \in Words(w, Len(ds)), NEW divisor \in Words(w, Len(ds)),
         NEW k \in 1 .. w, NEW j \in Nat, Succeeds(j, k),
         NEW s \in Rests, BuildsRest(val, ds, s, dividend, divisor, w, e, j)
  PROVE  /\ RestStep(s, dividend, divisor, k, w) \in Rests
         /\ BuildsRest(val, ds, RestStep(s, dividend, divisor, k, w), dividend, divisor, w, e, k)
<1> DEFINE A == Low(val, dividend, w)
           B == Low(val, divisor, w)
           l == w - k
           L == Low(val, dividend, l)
           P == Pow2[l]
           Q == Low(val, s.out, j)
           R == Low(val, s.rest, e)
           v == dividend[w - k + 1]
           b == Truth(Says(val, v))
           T == b + (2 * R)
           wide == Append(divisor, False)
           shifted == <<v>> \o Front(s.rest)
           fits == Comparison(s.ds, shifted, wide, "GreaterThanOrEqual")
           less == Subtraction(fits.ds, shifted, wide)
           rest == Mux(less.ds, shifted, less.out, fits.out)
           out == <<fits.out>> \o s.out
           t == [ds |-> rest.ds, rest |-> rest.out, out |-> out]
<1>0. RestStep(s, dividend, divisor, k, w) = t
  BY DEF RestStep
<1>1. /\ A \in Nat /\ B \in Nat /\ l \in Nat /\ L \in Nat /\ P \in Nat /\ P >= 1 /\ Q \in Nat /\ R \in Nat
      /\ b \in {0, 1} /\ A < Pow2[w]
  <2>1. l \in Nat
    OBVIOUS
  <2> HIDE DEF l
  <2>2. P \in Nat /\ P >= 1
    BY <2>1, Powers
  <2>3. A \in Nat /\ B \in Nat /\ L \in Nat /\ Q \in Nat /\ R \in Nat /\ A < Pow2[w]
    BY <2>1, LowType
  <2> QED
    BY <2>1, <2>2, <2>3 DEF Truth
<1>2. /\ s.ds \in Vectors /\ Len(s.ds) \in Nat /\ Len(ds) \in Nat /\ Follows(val, ds, s.ds)
      /\ s.rest \in Words(e, Len(s.ds)) /\ s.out \in Words(j, Len(s.ds))
      /\ dividend \in Words(w, Len(s.ds)) /\ divisor \in Words(w, Len(s.ds))
  <2>1. Follows(val, ds, s.ds) /\ s.rest \in Words(e, Len(s.ds)) /\ s.out \in Words(j, Len(s.ds)) /\ s.ds \in Vectors
    BY DEF BuildsRest, Rests
  <2> QED
    BY <2>1, VectorLength, WordsGrow
<1>3. v \in Values(Len(s.ds))
  <2>1. w - k + 1 \in 1 .. w
    OBVIOUS
  <2> QED
    BY <1>2, <2>1, WordShape
<1>4. Respects(val, s.ds) => Dividing(A, B, L + (b * P), 2 * P, Q, R) /\ (B = 0 => Q = Pow2[j] - 1)
  <2>1. w - j \in 1 .. w /\ (w - j) - 1 = l /\ w - j = w - k + 1
    BY DEF Succeeds
  <2>2. \A i \in 1 .. w : Low(val, dividend, i) = Low(val, dividend, i - 1) + (Truth(Says(val, dividend[i])) * Pow2[i - 1])
    BY <1>2, LowGrows
  <2>3. Low(val, dividend, w - j) = L + (b * P)
    BY <2>1, <2>2
  <2>4. Pow2[w - j] = 2 * P
    <3>1. l + 1 = w - j
      BY DEF Succeeds
    <3> QED
      BY <1>1, <3>1, Powers
  <2>5. Respects(val, s.ds) => Dividing(A, B, Low(val, dividend, w - j), Pow2[w - j], Q, R) /\ (B = 0 => Q = Pow2[j] - 1)
    BY DEF BuildsRest
  <2> HIDE DEF A, B, L, P, Q, R, b
  <2> QED
    BY <2>3, <2>4, <2>5
<1>5. Respects(val, s.ds) => R < Pow2[w]
  <2> DEFINE M == L + (b * P)
             N == 2 * P
  <2>1. M \in Nat /\ N \in Nat /\ N >= 1
    <3> HIDE DEF L, P, b
    <3> QED
      BY <1>1
  <2>2. Respects(val, s.ds) => Dividing(A, B, M, N, Q, R)
    BY <1>4
  <2> HIDE DEF A, B, M, N, Q, R
  <2>3. Respects(val, s.ds) => R <= A
    BY <1>1, <2>1, <2>2, DividesBelow
  <2>4. Pow2[w] \in Nat
    BY Powers
  <2> QED
    BY <1>1, <2>3, <2>4
<1>6. shifted \in Words(e, Len(s.ds)) /\ (Respects(val, s.ds) => Low(val, shifted, e) = T)
  <2> DEFINE x == s.rest
             n == Len(s.ds)
             low == Low(val, x, e)
             y == <<v>> \o Front(x)
  <2>1. x \in Words(e, n) /\ n \in Nat /\ v \in Values(n) /\ (Respects(val, s.ds) => low < Pow2[w])
    BY <1>2, <1>3, <1>5
  <2>4. BelowRest(v, x, y)
    BY DEF BelowRest
  <2> HIDE DEF v, x, n, y
  <2>2. y \in Words(e, n) /\ (Low(val, x, e) < Pow2[w] => Lowers(val, v, x, e, y, e, n))
    BY <2>1, <2>4, NextRest
  <2>3. Respects(val, s.ds) => Low(val, y, e) = Truth(Says(val, v)) + (2 * Low(val, x, e))
    BY <2>1, <2>2 DEF Lowers
  <2> QED
    BY <2>2, <2>3 DEF x, n, y
<1>7. wide \in Words(e, Len(s.ds)) /\ Low(val, wide, e) = B
  <2> DEFINE n == Len(s.ds)
  <2>1. divisor \in Words(w, n) /\ n \in Nat
    BY <1>2
  <2> HIDE DEF n
  <2>2. Append(divisor, False) \in Words(e, n) /\ Low(val, Append(divisor, False), e) = Low(val, divisor, w)
    BY <2>1, Widened, ZenonT(60)
  <2> QED
    BY <2>2 DEF n
<1> HIDE DEF shifted, wide, v
<1> DEFINE D == Low(val, shifted, e)
           E == Low(val, wide, e)
           ge == Compares("GreaterThanOrEqual", D, E)
<1>8. BuildsBit(val, s.ds, fits, ge)
  BY <1>2, <1>6, <1>7, ComparisonBuilds DEF Predicates
<1> HIDE DEF fits, ge, D
<1>9. /\ fits.ds \in Vectors /\ Len(fits.ds) \in Nat /\ fits.out \in Values(Len(fits.ds)) /\ Follows(val, s.ds, fits.ds)
      /\ Respects(val, fits.ds) => Respects(val, s.ds) /\ (Says(val, fits.out) <=> ge)
  BY <1>8, BitBuilt
<1>10. shifted \in Words(e, Len(fits.ds)) /\ wide \in Words(e, Len(fits.ds))
  BY <1>6, <1>7, <1>9, WordsGrow
<1>11. BuildsNumber(val, fits.ds, less, e, Wrap(D - E, e))
  BY <1>9, <1>10, SubtractionBuilds DEF D
<1> HIDE DEF less, E
<1> DEFINE W == Wrap(D - E, e)
<1>12. /\ less.ds \in Vectors /\ Len(less.ds) \in Nat /\ less.out \in Words(e, Len(less.ds)) /\ Follows(val, fits.ds, less.ds)
       /\ Respects(val, less.ds) => Respects(val, fits.ds) /\ Low(val, less.out, e) = W
  <2> HIDE DEF W
  <2>1. BuildsNumber(val, fits.ds, less, e, W)
    BY <1>11 DEF W
  <2> QED
    BY <2>1, NumberBuilt
<1>13. shifted \in Words(e, Len(less.ds)) /\ fits.out \in Values(Len(less.ds))
  BY <1>9, <1>10, <1>12, WordsGrow DEF Follows
<1> DEFINE m == IF Says(val, fits.out) THEN Low(val, less.out, e) ELSE Low(val, shifted, e)
<1>14. BuildsNumber(val, less.ds, rest, e, m)
  BY <1>12, <1>13, MuxBuildsNumber
<1> HIDE DEF rest, m
<1>15. /\ rest.ds \in Vectors /\ Len(rest.ds) \in Nat /\ rest.out \in Words(e, Len(rest.ds)) /\ Follows(val, less.ds, rest.ds)
       /\ rest \in Builds
       /\ Respects(val, rest.ds) => Respects(val, less.ds) /\ Low(val, rest.out, e) = m
  BY <1>14, NumberBuilt
<1>16. Follows(val, ds, rest.ds) /\ Follows(val, s.ds, rest.ds) /\ Follows(val, fits.ds, rest.ds)
  <2>1. Follows(val, fits.ds, rest.ds)
    BY <1>12, <1>15, FollowsOn
  <2>2. Follows(val, s.ds, rest.ds)
    BY <1>9, <2>1, FollowsOn
  <2> QED
    BY <1>2, <2>1, <2>2, FollowsOn
<1>17. s.out \in Words(j, Len(rest.ds)) /\ fits.out \in Values(Len(rest.ds))
  BY <1>2, <1>9, <1>16, WordsGrow DEF Follows
<1> DEFINE f == Truth(Says(val, fits.out))
<1>18. out \in Words(k, Len(rest.ds)) /\ out \in Seq(Signals) /\ Low(val, out, k) = f + (2 * Q)
  <2> DEFINE n == Len(rest.ds)
             x == s.out
             u == fits.out
  <2>1. x \in Words(j, n) /\ n \in Nat /\ u \in Values(n)
    BY <1>15, <1>17
  <2>3. PutUnder(u, x, out)
    BY DEF PutUnder
  <2> HIDE DEF n, x, u, out
  <2>2. Lowers(val, u, x, j, out, k, n)
    BY <2>1, <2>3, Lowered
  <2> QED
    BY <2>2 DEF n, x, u, Lowers
<1> HIDE DEF out
<1>19. t \in Rests
  BY <1>15, <1>18 DEF Rests, Builds
<1> DEFINE Q1 == Low(val, out, k)
           R1 == Low(val, rest.out, e)
<1>20. ASSUME Respects(val, rest.ds) PROVE Dividing(A, B, L, P, Q1, R1) /\ (B = 0 => Q1 = Pow2[k] - 1)
  <2>1. Respects(val, less.ds) /\ Respects(val, fits.ds) /\ Respects(val, s.ds)
    BY <1>9, <1>12, <1>15, <1>20
  <2>2. D = T /\ E = B /\ T \in Nat
    <3>1. D = T /\ E = B
      BY <1>6, <1>7, <2>1 DEF D, E
    <3> HIDE DEF D, E, R, b, B
    <3> QED
      BY <1>1, <3>1
  <2>3. Says(val, fits.out) <=> T >= B
    <3>1. ge <=> D >= E
      BY DEF ge, Compares
    <3> HIDE DEF T, B
    <3> QED
      BY <1>9, <2>1, <2>2, <3>1
  <2>4. Says(val, fits.out) => R1 = T - B
    <3> SUFFICES ASSUME Says(val, fits.out) PROVE R1 = T - B
      OBVIOUS
    <3>1. R1 = Wrap(T - B, e)
      <4>1. R1 = m
        BY <1>15, <1>20
      <4>2. m = W
        BY <1>12, <2>1 DEF m
      <4> HIDE DEF R1, T, B
      <4> QED
        BY <2>2, <4>1, <4>2
    <3>2. T - B \in 0 .. Pow2[e] - 1
      <4>1. D < Pow2[e]
        BY LowType DEF D
      <4>2. Pow2[e] \in Nat
        BY Powers
      <4> HIDE DEF T, B
      <4> QED
        BY <1>1, <2>2, <2>3, <4>1, <4>2
    <3> HIDE DEF T, B, R1
    <3>3. Wrap(T - B, e) = T - B
      BY <3>2, WrapSmall
    <3> QED
      BY <3>1, <3>3
  <2>5. ~Says(val, fits.out) => R1 = T
    <3> SUFFICES ASSUME ~Says(val, fits.out) PROVE R1 = T
      OBVIOUS
    <3>1. R1 = m /\ m = D
      BY <1>15, <1>20 DEF m, D
    <3> HIDE DEF T, R1
    <3> QED
      BY <2>2, <3>1
  <2>6. Dividing(A, B, L + (b * P), 2 * P, Q, R) /\ (B = 0 => Q = Pow2[j] - 1)
    BY <1>4, <2>1
  <2>7. Q1 = f + (2 * Q)
    BY <1>18
  <2>8. Pow2[k] = 2 * Pow2[j] /\ Pow2[j] \in Nat
    BY Powers DEF Succeeds
  <2> HIDE DEF A, B, L, P, Q, R, b, Q1, R1
  <2>9. CASE Says(val, fits.out)
    <3>1. Q1 = (2 * Q) + 1 /\ R1 = T - B /\ T >= B
      BY <1>1, <2>3, <2>4, <2>7, <2>9 DEF Truth
    <3>2. Dividing(A, B, L, P, (2 * Q) + 1, T - B)
      BY <1>1, <2>6, <3>1, DividesOn
    <3>3. B = 0 => Q1 = Pow2[k] - 1
      BY <1>1, <2>6, <2>8, <3>1, SMTT(30)
    <3> HIDE DEF T
    <3> QED
      BY <3>1, <3>2, <3>3
  <2>10. CASE ~Says(val, fits.out)
    <3>1. Q1 = 2 * Q /\ R1 = T /\ T < B
      BY <1>1, <2>2, <2>3, <2>5, <2>7, <2>10 DEF Truth
    <3>2. Dividing(A, B, L, P, 2 * Q, T)
      BY <1>1, <2>6, <3>1, DividesOn
    <3>3. B # 0
      BY <1>1, <2>2, <3>1
    <3> HIDE DEF T
    <3> QED
      BY <3>1, <3>2, <3>3
  <2> QED
    BY <2>9, <2>10
<1>21. BuildsRest(val, ds, t, dividend, divisor, w, e, k)
  <2> DEFINE then == Dividing(A, B, L, P, Q1, R1) /\ (B = 0 => Q1 = Pow2[k] - 1)
  <2>1. t.ds = rest.ds /\ t.rest = rest.out /\ t.out = out
    OBVIOUS
  <2>2. Respects(val, rest.ds) => then
    BY <1>20
  <2>3. then <=> /\ Dividing(Low(val, dividend, w), Low(val, divisor, w), Low(val, dividend, w - k), Pow2[w - k],
                             Low(val, out, k), Low(val, rest.out, e))
                 /\ Low(val, divisor, w) = 0 => Low(val, out, k) = Pow2[k] - 1
    OBVIOUS
  <2> HIDE DEF then, t
  <2> QED
    BY <1>15, <1>16, <1>18, <2>1, <2>2, <2>3 DEF BuildsRest
<1> QED
  BY <1>0, <1>19, <1>21

LEMMA LowNone == \A val, x : Low(val, x, 0) = 0
  BY WorthDefined DEF Low
(* A quotient by zero has all its bits set.                                 *)
Divide(a, b, w) == IF b = 0 THEN Pow2[w] - 1 ELSE a \div b

(* The unsigned divider computes the quotient, and all ones for a zero divisor.*)
THEOREM UnsignedDivisionBuilds ==
  ASSUME NEW val \in [Nat -> BOOLEAN], NEW ds \in Vectors, NEW w \in Nat,
         NEW dividend \in Words(w, Len(ds)), NEW divisor \in Words(w, Len(ds))
  PROVE  BuildsNumber(val, ds, UnsignedDivision(ds, dividend, divisor), w,
                      Divide(Low(val, dividend, w), Low(val, divisor, w), w))
<1> PICK e \in Nat : Succeeds(w, e)
  BY DEF Succeeds
<1> DEFINE A == Low(val, dividend, w)
           B == Low(val, divisor, w)
           step(s, k) == RestStep(s, dividend, divisor, k, w)
           base == [ds |-> ds, rest |-> Zeros(e), out |-> <<>>]
           V == [k \in 0 .. w |-> {s \in Rests : BuildsRest(val, ds, s, dividend, divisor, w, e, k)}]
<1>0. Len(ds) \in Nat /\ Len(dividend) = w /\ Follows(val, ds, ds) /\ A \in Nat /\ B \in Nat
  BY VectorLength, WordShape, FollowsItself, LowType
<1>1. base \in V[0]
  <2>1. Zeros(e) \in Words(e, Len(ds)) /\ Low(val, Zeros(e), e) = 0
    BY <1>0, ZerosLow
  <2>2. Zeros(e) \in Seq(Signals)
    BY <1>0, <2>1, WordShape
  <2>3. <<>> \in Words(0, Len(ds)) /\ <<>> \in Seq(Signals)
    BY <1>0, EmptyWord
  <2>4. base \in Rests
    BY <2>2, <2>3 DEF Rests
  <2>5. Low(val, <<>>, 0) = 0
    BY LowNone
  <2>6. Pow2[0] = 1 /\ Pow2[w] \in Nat /\ w - 0 = w
    BY Powers
  <2>7. Dividing(A, B, A, Pow2[w], 0, 0)
    <3> DEFINE P == Pow2[w]
    <3> HIDE DEF A, B, P
    <3>1. P * ((B * 0) + 0) = 0
      BY <1>0, <2>6 DEF P
    <3> QED
      BY <1>0, <3>1 DEF Dividing, P
  <2>8. base.ds = ds /\ base.rest = Zeros(e) /\ base.out = <<>>
    OBVIOUS
  <2>9. BuildsRest(val, ds, base, dividend, divisor, w, e, 0)
    <3>1. Dividing(A, B, Low(val, dividend, w - 0), Pow2[w - 0], Low(val, base.out, 0), Low(val, base.rest, e))
      BY <2>1, <2>5, <2>6, <2>7, <2>8
    <3>2. Low(val, base.out, 0) = Pow2[0] - 1
      BY <2>5, <2>6, <2>8
    <3> HIDE DEF base
    <3> QED
      BY <1>0, <2>1, <2>3, <2>8, <3>1, <3>2 DEF BuildsRest
  <2> QED
    BY <2>4, <2>9
<1>2. ASSUME NEW k \in 1 .. w, NEW s \in V[k - 1] PROVE step(s, k) \in V[k]
  <2> DEFINE j == k - 1
  <2>1. j \in 0 .. w /\ j \in Nat /\ Succeeds(j, k) /\ k \in 0 .. w
    BY DEF Succeeds
  <2>2. s \in Rests /\ BuildsRest(val, ds, s, dividend, divisor, w, e, j)
    BY <2>1
  <2> HIDE DEF V, base, j
  <2>3. step(s, k) \in Rests /\ BuildsRest(val, ds, step(s, k), dividend, divisor, w, e, k)
    BY <2>1, <2>2, RestBuilds
  <2> HIDE DEF step
  <2> QED
    BY <2>1, <2>3 DEF V
<1> DEFINE Rec(f) == [k \in 0 .. w |-> IF k = 0 THEN base ELSE step(f[k - 1], k)]
       F == [y \in Rests \X (1 .. w) |-> step(y[1], y[2])]
       after == CHOOSE f : f = Rec(f)
<1>a1. \A k \in 1 .. w : \A s \in V[k - 1] : F[<<s, k>>] = step(s, k) /\ F[<<s, k>>] \in V[k]
  <2> SUFFICES ASSUME NEW k \in 1 .. w, NEW s \in V[k - 1] PROVE F[<<s, k>>] = step(s, k)
    <3> HIDE DEF V, step, F
    <3> QED
      BY <1>2
  <2>1. k - 1 \in 0 .. w
    OBVIOUS
  <2>2. s \in Rests
    BY <2>1
  <2> HIDE DEF V, step
  <2> QED
    BY <2>2
<1>a2. PICK run : Runs(w, V, base, F, run)
  <2> HIDE DEF V, step, F, base
  <2> QED
    BY <1>1, <1>a1, LoopRuns
<1>a3. run = Rec(run)
  <2> SUFFICES ASSUME NEW k \in 0 .. w PROVE run[k] = IF k = 0 THEN base ELSE step(run[k - 1], k)
    <3> HIDE DEF V, step, F, base
    <3> QED
      BY <1>a2 DEF Runs
  <2>1. CASE k = 0
    <3> HIDE DEF V, step, F, base
    <3> QED
      BY <2>1, <1>a2 DEF Runs
  <2>2. CASE k # 0
    <3>1. k \in 1 .. w /\ k - 1 \in 0 .. w
      BY <2>2
    <3> HIDE DEF V, step, F, base
    <3> QED
      BY <2>2, <3>1, <1>a1, <1>a2 DEF Runs
  <2> QED
    BY <2>1, <2>2
<1>a4. after = Rec(after)
  <2> HIDE DEF Rec
  <2> QED
    BY <1>a3
<1>a5. after[0] = base /\ \A k \in 1 .. w : after[k] = step(after[k - 1], k)
  <2> HIDE DEF step, base, after, V, F
  <2>1. \A k \in 0 .. w : after[k] = IF k = 0 THEN base ELSE step(after[k - 1], k)
    BY <1>a4
  <2>2. 0 \in 0 .. w /\ \A k \in 1 .. w : k \in 0 .. w /\ k # 0
    OBVIOUS
  <2> HIDE DEF Rec
  <2> QED
    BY <2>1, <2>2
<1>a6. \A k \in 0 .. w : after[k] \in V[k]
  <2> HIDE DEF V, step, F, base, after, Rec
  <2> QED
    BY <1>1, <1>a1, <1>a5, LoopKeeps, ZenonT(60)
<1> DEFINE t == after[w]
<1>3. UnsignedDivision(ds, dividend, divisor) = [ds |-> t.ds, out |-> t.out]
  <2>1. e = w + 1
    BY DEF Succeeds
  <2> QED
    BY <1>0, <2>1 DEF UnsignedDivision, RestStep, EachBit, Then, Built
<1>4. t \in Rests /\ BuildsRest(val, ds, t, dividend, divisor, w, e, w)
  <2> HIDE DEF after
  <2> QED
    BY <1>a6
<1> HIDE DEF t
<1> DEFINE g == [ds |-> t.ds, out |-> t.out]
           Q == Low(val, t.out, w)
           R == Low(val, t.rest, e)
<1>5. Respects(val, t.ds) => Q = Divide(A, B, w)
  <2> SUFFICES ASSUME Respects(val, t.ds) PROVE Q = Divide(A, B, w)
    OBVIOUS
  <2>1. /\ Dividing(A, B, Low(val, dividend, w - w), Pow2[w - w], Q, R)
        /\ B = 0 => Q = Pow2[w] - 1
    BY <1>4 DEF BuildsRest
  <2>2. w - w = 0 /\ Low(val, dividend, 0) = 0 /\ Pow2[0] = 1
    BY LowNone, Powers
  <2>3. Q \in Nat /\ R \in Nat
    BY LowType
  <2>4. Dividing(A, B, 0, 1, Q, R)
    <3> HIDE DEF A, B, Q, R
    <3> QED
      BY <2>1, <2>2
  <2>5. CASE B = 0
    BY <2>1, <2>5 DEF Divide
  <2>6. CASE B # 0
    <3> HIDE DEF A, B, Q, R
    <3>1. Divides(A, B, Q, R)
      <4> DEFINE x == B * Q
      <4>1. x \in Nat
        BY <1>0, <2>3
      <4>2. A = 0 + (1 * (x + R)) /\ R < B
        BY <1>0, <2>4, <2>6 DEF Dividing
      <4> HIDE DEF x
      <4>3. A = x + R
        BY <2>3, <4>1, <4>2
      <4> QED
        BY <1>0, <2>3, <2>6, <4>2, <4>3 DEF Divides, x
    <3>2. Divided(A, B, Q, R)
      BY <3>1, DivisionIs
    <3> QED
      BY <2>6, <3>2 DEF Divided, Divide
  <2> QED
    BY <2>5, <2>6
<1>6. g \in Builds /\ Follows(val, ds, g.ds) /\ g.out \in Words(w, Len(g.ds))
  BY <1>4 DEF BuildsRest, Rests, Builds
<1>7. BuildsNumber(val, ds, g, w, Divide(A, B, w))
  <2>1. g.ds = t.ds /\ g.out = t.out
    OBVIOUS
  <2> HIDE DEF g, A, B
  <2> QED
    BY <1>5, <1>6, <2>1 DEF BuildsNumber
<1> QED
  BY <1>3, <1>7

(* The sign of a word is its highest bit.                                   *)
LEMMA TopBit ==
  ASSUME NEW val, NEW w \in Nat, w > 0, NEW n \in Nat, NEW x \in Words(w, n)
  PROVE  /\ Last(x) = x[w] /\ x[w] \in Values(n)
         /\ Says(val, x[w]) <=> 2 * Low(val, x, w) >= Pow2[w]
<1> DEFINE l == w - 1
           L == Low(val, x, l)
           P == Pow2[l]
           s == Says(val, x[w])
<1>1. l \in Nat /\ l + 1 = w /\ w \in 1 .. w
  OBVIOUS
<1>2. Last(x) = x[w] /\ x[w] \in Values(n)
  BY <1>1, WordShape DEF Last
<1>3. Low(val, x, w) = L + (Truth(s) * P)
  BY <1>1, LowGrows
<1>4. P \in Nat /\ Pow2[w] = 2 * P
  BY <1>1, Powers
<1>5. L \in Nat /\ L < P
  <2> HIDE DEF l
  <2> QED
    BY <1>1, LowType
<1> DEFINE A == Low(val, x, w)
<1> HIDE DEF L, P, s, A
<1>6. s <=> 2 * A >= 2 * P
  <2>1. A = L + (Truth(s) * P)
    BY <1>3 DEF A
  <2>2. CASE s
    BY <1>4, <1>5, <2>1, <2>2 DEF Truth
  <2>3. CASE ~s
    BY <1>4, <1>5, <2>1, <2>3 DEF Truth
  <2> QED
    BY <2>2, <2>3
<1> QED
  BY <1>2, <1>4, <1>6 DEF s, A

(* A number below Pow2[w], read with its sign.                              *)
LEMMA SignedParts ==
  ASSUME NEW w \in Nat, NEW n \in 0 .. Pow2[w] - 1
  PROVE  /\ SignedOf(n, w) \in Int
         /\ SignedOf(n, w) < 0 <=> 2 * n >= Pow2[w]
         /\ \E q \in Int : n = SignedOf(n, w) + (Pow2[w] * q)
         /\ Negating(SignedOf(n, w) < 0, n, w) = Magnitude(SignedOf(n, w))
         /\ Magnitude(SignedOf(n, w)) \in 0 .. Pow2[w] - 1
<1> DEFINE P == Pow2[w]
           S == SignedOf(n, w)
<1>1. P \in Nat /\ P >= 1 /\ n \in Nat /\ n < P
  BY Powers
<1>2. S = IF 2 * n >= P THEN n - P ELSE n
  BY DEF SignedOf
<1>3. S \in Int /\ (S < 0 <=> 2 * n >= P)
  <2> HIDE DEF S, P
  <2> QED
    BY <1>1, <1>2
<1>4. \E q \in Int : n = S + (P * q)
  <2> HIDE DEF S, P
  <2>1. CASE 2 * n >= P
    <3>1. n = S + (P * 1)
      BY <1>1, <1>2, <2>1
    <3> QED
      BY <3>1
  <2>2. CASE ~(2 * n >= P)
    <3>1. n = S + (P * 0)
      BY <1>1, <1>2, <2>2
    <3> QED
      BY <3>1
  <2> QED
    BY <2>1, <2>2
<1>5. Magnitude(S) \in 0 .. P - 1
  <2> HIDE DEF S, P
  <2> QED
    BY <1>1, <1>2 DEF Magnitude
<1>6. Negating(S < 0, n, w) = Magnitude(S)
  <2>1. CASE S < 0
    <3>1. \E q \in Int : -n = Magnitude(S) + (P * q)
      <4> HIDE DEF S, P
      <4>1. -n = Magnitude(S) + (P * (-1))
        BY <1>1, <1>2, <1>3, <2>1 DEF Magnitude
      <4> QED
        BY <4>1
    <3> DEFINE m == Magnitude(S)
               u == -n
    <3>2. m \in 0 .. Pow2[w] - 1 /\ m \in Int /\ u \in Int /\ \E q \in Int : u = m + (Pow2[w] * q)
      BY <1>1, <1>5, <3>1
    <3>3. Negating(S < 0, n, w) = Wrap(u, w)
      BY <2>1 DEF Negating
    <3> HIDE DEF m, u
    <3>4. Wrap(u, w) = Wrap(m, w) /\ Wrap(m, w) = m
      BY <3>2, WrapSame, WrapSmall
    <3> QED
      BY <3>3, <3>4 DEF m
  <2>2. CASE ~(S < 0)
    <3>1. Negating(S < 0, n, w) = n
      BY <2>2 DEF Negating
    <3> HIDE DEF S, P
    <3> QED
      BY <1>1, <1>2, <1>3, <2>2, <3>1 DEF Magnitude
  <2> QED
    BY <2>1, <2>2
<1> QED
  BY <1>3, <1>4, <1>5, <1>6

(* The quotient of magnitudes, negated when the signs differ, is the signed *)
(* quotient; the one of the most negative number by -1 wraps.               *)
LEMMA SignedQuotient ==
  ASSUME NEW w \in Nat, NEW a \in 0 .. Pow2[w] - 1, NEW b \in 0 .. Pow2[w] - 1
  PROVE  Negating((SignedOf(a, w) < 0) # (SignedOf(b, w) < 0),
                  Divide(Magnitude(SignedOf(a, w)), Magnitude(SignedOf(b, w)), w), w)
           = Quotient(a, b, w, TRUE)
<1> DEFINE A == SignedOf(a, w)
           B == SignedOf(b, w)
           P == Pow2[w]
           q == Magnitude(A) \div Magnitude(B)
           differ == (A < 0) # (B < 0)
<1>1. A \in Int /\ B \in Int /\ Magnitude(A) \in 0 .. P - 1 /\ Magnitude(B) \in 0 .. P - 1 /\ P \in Nat /\ P >= 1
  BY SignedParts, Powers
<1>2. Quotient(a, b, w, TRUE) = IF B = 0 THEN IF A < 0 THEN Wrap(1, w) ELSE P - 1 ELSE Wrap(TowardZero(A, B), w)
  BY DEF Quotient
<1> HIDE DEF A, B
<1>3. CASE B = 0
  <2>1. Divide(Magnitude(A), Magnitude(B), w) = P - 1 /\ (differ <=> A < 0)
    BY <1>3 DEF Divide, Magnitude
  <2>2. Wrap(-(P - 1), w) = Wrap(1, w)
    <3> DEFINE u == -(P - 1)
    <3>1. u \in Int /\ \E i \in Int : u = 1 + (Pow2[w] * i)
      <4>1. u = 1 + (P * (-1))
        <5> HIDE DEF P
        <5> QED
          BY <1>1
      <4> QED
        BY <1>1, <4>1
    <3> HIDE DEF u
    <3>2. Wrap(u, w) = Wrap(1, w)
      BY <3>1, WrapSame
    <3> QED
      BY <3>2 DEF u
  <2> HIDE DEF P, differ
  <2> QED
    BY <1>2, <1>3, <2>1, <2>2 DEF Negating, A, B, differ
<1>4. CASE B # 0
  <2>1. Magnitude(B) # 0 /\ Magnitude(A) \in Nat /\ Magnitude(B) \in Nat
    <3> HIDE DEF P
    <3> QED
      BY <1>1, <1>4 DEF Magnitude
  <2>2. Divide(Magnitude(A), Magnitude(B), w) = q
    BY <2>1 DEF Divide
  <2>3. TowardZero(A, B) = IF differ THEN -q ELSE q
    BY DEF TowardZero
  <2>4. q \in Nat /\ q <= Magnitude(A)
    <3> DEFINE x == Magnitude(A)
               y == Magnitude(B)
    <3>1. x \in Nat /\ y \in Nat /\ y >= 1
      BY <2>1
    <3> HIDE DEF x, y
    <3>2. x \div y \in Nat /\ x \div y <= x
      BY <3>1
    <3> QED
      BY <3>2 DEF x, y
  <2>5. q \in 0 .. Pow2[w] - 1
    <3> HIDE DEF q
    <3> QED
      BY <1>1, <2>4
  <2> HIDE DEF q, differ, P
  <2>6. Wrap(q, w) = q
    BY <2>5, WrapSmall
  <2>7. Negating(differ, q, w) = Wrap(TowardZero(A, B), w)
    BY <2>3, <2>6 DEF Negating
  <2> QED
    BY <1>2, <1>4, <2>2, <2>7 DEF A, B, differ
<1> QED
  BY <1>3, <1>4

(* The signed divider computes the quotient of the signed numbers.          *)
THEOREM SignedDivisionBuilds ==
  ASSUME NEW val \in [Nat -> BOOLEAN], NEW ds \in Vectors, NEW w \in Nat, w > 0,
         NEW dividend \in Words(w, Len(ds)), NEW divisor \in Words(w, Len(ds))
  PROVE  BuildsNumber(val, ds, SignedDivision(ds, dividend, divisor), w,
                      Quotient(Low(val, dividend, w), Low(val, divisor, w), w, TRUE))
<1> DEFINE A == Low(val, dividend, w)
           B == Low(val, divisor, w)
           SA == SignedOf(A, w)
           SB == SignedOf(B, w)
           u == dividend[w]
           v == divisor[w]
           above == ConditionalNegation(ds, dividend, u)
           below == ConditionalNegation(above.ds, divisor, v)
           quotient == UnsignedDivision(below.ds, above.out, below.out)
           negative == XorGate(quotient.ds, u, v)
           result == ConditionalNegation(negative.ds, quotient.out, negative.out)
<1>0. Len(ds) \in Nat /\ Follows(val, ds, ds) /\ A \in 0 .. Pow2[w] - 1 /\ B \in 0 .. Pow2[w] - 1
  BY VectorLength, FollowsItself, LowType
<1>1. /\ Last(dividend) = u /\ Last(divisor) = v /\ u \in Values(Len(ds)) /\ v \in Values(Len(ds))
      /\ Says(val, u) <=> 2 * A >= Pow2[w]
      /\ Says(val, v) <=> 2 * B >= Pow2[w]
  BY <1>0, TopBit
<1>2. SignedDivision(ds, dividend, divisor) = result
  BY <1>1 DEF SignedDivision, Then
<1> HIDE DEF u, v, A, B
<1>3. (Says(val, u) <=> SA < 0) /\ (Says(val, v) <=> SB < 0)
  BY <1>0, <1>1, SignedParts
<1>4. BuildsNumber(val, ds, above, w, Negating(Says(val, u), A, w))
  BY <1>1, ConditionalNegationBuilds DEF A
<1> DEFINE m == Negating(Says(val, u), A, w)
           n == Negating(Says(val, v), B, w)
<1>5. m = Magnitude(SA) /\ n = Magnitude(SB)
  <2>1. Negating(SA < 0, A, w) = Magnitude(SA) /\ Negating(SB < 0, B, w) = Magnitude(SB)
    BY <1>0, SignedParts
  <2>2. m = Negating(SA < 0, A, w)
    <3> HIDE DEF SA
    <3> QED
      BY <1>3 DEF Negating
  <2>3. n = Negating(SB < 0, B, w)
    <3> HIDE DEF SB
    <3> QED
      BY <1>3 DEF Negating
  <2> HIDE DEF m, n, SA, SB
  <2> QED
    BY <2>1, <2>2, <2>3
<1> HIDE DEF above, m, n
<1>6. /\ above.ds \in Vectors /\ Len(above.ds) \in Nat /\ above.out \in Words(w, Len(above.ds)) /\ Follows(val, ds, above.ds)
      /\ Respects(val, above.ds) => Low(val, above.out, w) = m
      /\ divisor \in Words(w, Len(above.ds)) /\ v \in Values(Len(above.ds))
  <2>1. BuildsNumber(val, ds, above, w, m)
    BY <1>4 DEF m
  <2> QED
    BY <1>1, <2>1, NumberBuilt
<1>7. BuildsNumber(val, above.ds, below, w, n)
  BY <1>6, ConditionalNegationBuilds DEF n, B
<1> HIDE DEF below
<1>8. /\ below.ds \in Vectors /\ Len(below.ds) \in Nat /\ below.out \in Words(w, Len(below.ds)) /\ Follows(val, above.ds, below.ds)
      /\ Respects(val, below.ds) => Respects(val, above.ds) /\ Low(val, below.out, w) = n
      /\ above.out \in Words(w, Len(below.ds))
  BY <1>6, <1>7, NumberBuilt
<1> DEFINE x == above.out
           y == below.out
           d == Divide(Low(val, x, w), Low(val, y, w), w)
<1>9. BuildsNumber(val, below.ds, quotient, w, d)
  <2> HIDE DEF x, y
  <2>1. x \in Words(w, Len(below.ds)) /\ y \in Words(w, Len(below.ds))
    BY <1>8 DEF x, y
  <2>2. quotient = UnsignedDivision(below.ds, x, y)
    BY DEF x, y
  <2> HIDE DEF quotient
  <2> QED
    BY <1>8, <2>1, <2>2, UnsignedDivisionBuilds
<1>10. Respects(val, below.ds) => d = Divide(Magnitude(SA), Magnitude(SB), w)
  <2>1. Respects(val, below.ds) => Low(val, x, w) = m /\ Low(val, y, w) = n
    BY <1>6, <1>8
  <2> HIDE DEF x, y
  <2> QED
    BY <1>5, <2>1
<1> HIDE DEF quotient, d, x, y
<1>11. /\ quotient.ds \in Vectors /\ Len(quotient.ds) \in Nat /\ quotient.out \in Words(w, Len(quotient.ds))
       /\ Follows(val, below.ds, quotient.ds)
       /\ Respects(val, quotient.ds) => Respects(val, below.ds) /\ Low(val, quotient.out, w) = d
  BY <1>9, NumberBuilt
<1>12. Follows(val, ds, quotient.ds)
  <2>1. Follows(val, ds, below.ds)
    BY <1>6, <1>8, FollowsOn
  <2> QED
    BY <1>11, <2>1, FollowsOn
<1>13. u \in Values(Len(quotient.ds)) /\ v \in Values(Len(quotient.ds))
  BY <1>1, <1>12 DEF Follows
<1> DEFINE differ == Says(val, u) # Says(val, v)
<1>14. BuildsBit(val, quotient.ds, negative, differ)
  BY <1>11, <1>13, XorBuilds
<1> HIDE DEF negative, differ
<1>15. /\ negative.ds \in Vectors /\ Len(negative.ds) \in Nat /\ negative.out \in Values(Len(negative.ds))
       /\ Follows(val, quotient.ds, negative.ds)
       /\ Respects(val, negative.ds) => Respects(val, quotient.ds) /\ (Says(val, negative.out) <=> differ)
  BY <1>14, BitBuilt
<1>16. quotient.out \in Words(w, Len(negative.ds)) /\ Follows(val, ds, negative.ds)
  BY <1>11, <1>12, <1>15, WordsGrow, FollowsOn
<1> DEFINE z == quotient.out
           s == negative.out
           r == Negating(Says(val, s), Low(val, z, w), w)
           q == Quotient(A, B, w, TRUE)
<1>17. BuildsNumber(val, negative.ds, result, w, r)
  <2>1. z \in Words(w, Len(negative.ds)) /\ s \in Values(Len(negative.ds)) /\ result = ConditionalNegation(negative.ds, z, s)
    BY <1>15, <1>16
  <2> HIDE DEF z, s, result
  <2> QED
    BY <1>15, <2>1, ConditionalNegationBuilds
<1>18. Respects(val, negative.ds) => r = q
  <2> SUFFICES ASSUME Respects(val, negative.ds) PROVE r = q
    OBVIOUS
  <2>1. Low(val, z, w) = Divide(Magnitude(SA), Magnitude(SB), w) /\ (Says(val, s) <=> differ)
    BY <1>10, <1>11, <1>15
  <2>2. Negating((SA < 0) # (SB < 0), Divide(Magnitude(SA), Magnitude(SB), w), w) = q
    BY <1>0, SignedQuotient
  <2> DEFINE D == Divide(Magnitude(SA), Magnitude(SB), w)
  <2>3. Says(val, s) <=> ((SA < 0) # (SB < 0))
    <3>1. Says(val, u) \in BOOLEAN /\ Says(val, v) \in BOOLEAN
      BY <1>0, <1>1, SaysInverse
    <3>2. Says(val, u) = (SA < 0) /\ Says(val, v) = (SB < 0)
      <4> DEFINE a == SA < 0
                 b == SB < 0
      <4>1. a \in BOOLEAN /\ b \in BOOLEAN /\ (Says(val, u) <=> a) /\ (Says(val, v) <=> b)
        BY <1>3
      <4> HIDE DEF a, b, SA, SB
      <4>2. Says(val, u) = a /\ Says(val, v) = b
        BY <3>1, <4>1
      <4> QED
        BY <4>2 DEF a, b
    <3>3. differ <=> ((SA < 0) # (SB < 0))
      <4> HIDE DEF SA, SB
      <4> QED
        BY <3>2 DEF differ
    <3> HIDE DEF SA, SB, s
    <3> QED
      BY <2>1, <3>3
  <2> HIDE DEF q, SA, SB, s, z, D
  <2> QED
    BY <2>1, <2>2, <2>3 DEF Negating, D
<1> HIDE DEF result, r, q
<1>19. BuildsNumber(val, ds, result, w, q)
  BY <1>16, <1>17, <1>18, NumberAfter
<1> QED
  BY <1>2, <1>19 DEF q, A, B

(* The remainder from the quotient.                                         *)
LEMMA RemainderBuilds ==
  ASSUME NEW val \in [Nat -> BOOLEAN], NEW ds \in Vectors, NEW w \in Nat,
         NEW dividend \in Words(w, Len(ds)), NEW divisor \in Words(w, Len(ds)),
         NEW quotient, NEW n, BuildsNumber(val, ds, quotient, w, n)
  PROVE  BuildsNumber(val, ds, Remainder(quotient, dividend, divisor), w,
                      Wrap(Low(val, dividend, w) - Wrap(n * Low(val, divisor, w), w), w))
<1> DEFINE A == Low(val, dividend, w)
           B == Low(val, divisor, w)
           z == quotient.out
           product == Multiplication(quotient.ds, z, divisor)
           result == Subtraction(product.ds, dividend, product.out)
<1>0. Remainder(quotient, dividend, divisor) = result
  BY DEF Remainder, Then
<1>1. /\ quotient.ds \in Vectors /\ Len(quotient.ds) \in Nat /\ z \in Words(w, Len(quotient.ds)) /\ Follows(val, ds, quotient.ds)
      /\ divisor \in Words(w, Len(quotient.ds)) /\ dividend \in Words(w, Len(quotient.ds))
      /\ Respects(val, quotient.ds) => Low(val, z, w) = n
  BY NumberBuilt
<1> HIDE DEF z
<1> DEFINE p == Wrap(Low(val, z, w) * B, w)
<1>2. BuildsNumber(val, quotient.ds, product, w, p)
  BY <1>1, MultiplicationBuilds
<1> HIDE DEF product, p, A
<1>3. /\ product.ds \in Vectors /\ Len(product.ds) \in Nat /\ product.out \in Words(w, Len(product.ds))
      /\ Follows(val, quotient.ds, product.ds) /\ dividend \in Words(w, Len(product.ds))
      /\ Respects(val, product.ds) => Respects(val, quotient.ds) /\ Low(val, product.out, w) = p
  BY <1>1, <1>2, NumberBuilt
<1> DEFINE r == Wrap(A - Low(val, product.out, w), w)
           q == Wrap(A - Wrap(n * B, w), w)
<1>4. BuildsNumber(val, product.ds, result, w, r)
  BY <1>3, SubtractionBuilds DEF A
<1>5. Respects(val, product.ds) => r = q
  <2>1. Respects(val, product.ds) => Low(val, product.out, w) = Wrap(n * B, w)
    <3> HIDE DEF B
    <3> QED
      BY <1>1, <1>3 DEF p
  <2> HIDE DEF B
  <2> QED
    BY <2>1
<1>6. Follows(val, ds, product.ds)
  BY <1>1, <1>3, FollowsOn
<1> HIDE DEF result, r, q
<1>7. BuildsNumber(val, ds, result, w, q)
  BY <1>4, <1>5, <1>6, NumberAfter
<1> QED
  BY <1>0, <1>7 DEF q, A, B

(* Remainders of two numbers, as their quotient gives them.                 *)
LEMMA UnsignedRemainder ==
  ASSUME NEW w \in Nat, NEW a \in 0 .. Pow2[w] - 1, NEW b \in 0 .. Pow2[w] - 1, b # 0
  PROVE  Wrap(a - Wrap(Divide(a, b, w) * b, w), w) = a % b
<1> DEFINE q == a \div b
           r == a % b
<1>1. Pow2[w] \in Nat /\ a \in Nat /\ b \in Nat /\ b > 0 /\ b < Pow2[w]
  BY Powers
<1>2. Divide(a, b, w) = q
  BY DEF Divide
<1>3. q \in Int /\ r \in 0 .. b - 1 /\ a = (b * q) + r
  BY <1>1
<1> HIDE DEF q, r
<1> DEFINE x == q * b
<1>4. x \in Int /\ a - x = r
  BY <1>1, <1>3
<1> HIDE DEF x
<1>5. Wrap(a - Wrap(x, w), w) = Wrap(a - x, w)
  <2>1. a \in Int
    BY <1>1
  <2> QED
    BY <1>4, <2>1, WrapSum
<1>6. r \in 0 .. Pow2[w] - 1
  BY <1>1, <1>3
<1>7. Wrap(r, w) = r
  BY <1>6, WrapSmall
<1> QED
  BY <1>2, <1>4, <1>5, <1>7 DEF x, r

(* The remainder has the sign of the dividend.                              *)
LEMMA SignedRemainder ==
  ASSUME NEW w \in Nat, NEW a \in 0 .. Pow2[w] - 1, NEW b \in 0 .. Pow2[w] - 1, b # 0
  PROVE  Wrap(a - Wrap(Quotient(a, b, w, TRUE) * b, w), w)
           = Wrap(RemainderOf(SignedOf(a, w), SignedOf(b, w)), w)
<1> DEFINE A == SignedOf(a, w)
           B == SignedOf(b, w)
           T == TowardZero(A, B)
<1>1. Pow2[w] \in Nat /\ a \in Int /\ b \in Int
  BY Powers
<1>2. /\ A \in Int /\ B \in Int
      /\ \E q \in Int : a = A + (Pow2[w] * q)
      /\ \E q \in Int : b = B + (Pow2[w] * q)
  BY SignedParts
<1>3. B # 0
  <2> DEFINE P == Pow2[w]
  <2>1. B = (IF 2 * b >= P THEN b - P ELSE b) /\ b < P /\ P \in Nat
    BY <1>1 DEF SignedOf
  <2> HIDE DEF B, P
  <2> QED
    BY <1>1, <2>1
<1>4. Quotient(a, b, w, TRUE) = Wrap(T, w)
  BY <1>3 DEF Quotient
<1>5. RemainderOf(A, B) = A - T * B
  BY DEF RemainderOf
<1> HIDE DEF A, B
<1>6. T \in Int
  <2> DEFINE x == Magnitude(A)
             y == Magnitude(B)
             q == x \div y
  <2>1. x \in Nat /\ y \in Nat /\ y > 0
    BY <1>2, <1>3 DEF Magnitude
  <2> HIDE DEF x, y
  <2>2. q \in Int
    BY <2>1
  <2>3. T = IF (A < 0) # (B < 0) THEN -q ELSE q
    BY DEF TowardZero, x, y
  <2> HIDE DEF q, T
  <2>4. T = -q \/ T = q
    BY <2>3
  <2> QED
    BY <2>2, <2>4
<1> HIDE DEF T
<1> DEFINE x == T * b
           y == T * B
<1>7. x \in Int /\ y \in Int
  BY <1>1, <1>2, <1>6
<1>8. Wrap(Wrap(T, w) * b, w) = Wrap(x, w)
  BY <1>1, <1>6, WrapProduct
<1>9. Wrap(a - Wrap(x, w), w) = Wrap(a - x, w)
  <2> HIDE DEF x
  <2> QED
    BY <1>1, <1>7, WrapSum
<1>10. \E q \in Int : a - x = (A - y) + (Pow2[w] * q)
  <2> DEFINE P == Pow2[w]
  <2> HIDE DEF P
  <2>1. PICK i \in Int : a = A + (P * i)
    BY <1>2 DEF P
  <2>2. PICK j \in Int : b = B + (P * j)
    BY <1>2 DEF P
  <2> DEFINE q == i - (T * j)
  <2>3. q \in Int
    BY <1>6
  <2>4. x = y + (P * (T * j))
    BY <1>1, <1>2, <1>6, <2>2 DEF P
  <2>5. P * q = (P * i) - (P * (T * j))
    BY <1>1, <1>6 DEF P
  <2> DEFINE u == P * i
             v == P * (T * j)
             z == P * q
  <2>6. u \in Int /\ v \in Int /\ z \in Int
    BY <1>1, <1>6 DEF P
  <2> HIDE DEF u, v, x, y, z, q
  <2>7. a - x = (A - y) + z
    BY <1>1, <1>2, <1>7, <2>1, <2>4, <2>5, <2>6 DEF u, v, z
  <2> QED
    BY <2>3, <2>7 DEF z, P
<1> DEFINE m == a - x
           n == A - y
<1>11. m \in Int /\ n \in Int /\ \E q \in Int : m = n + (Pow2[w] * q)
  <2> HIDE DEF x, y
  <2> QED
    BY <1>1, <1>2, <1>7, <1>10
<1> HIDE DEF m, n
<1>12. Wrap(m, w) = Wrap(n, w)
  BY <1>11, WrapSame
<1> HIDE DEF x, y
<1> QED
  BY <1>4, <1>5, <1>8, <1>9, <1>12 DEF A, B, m, n, x, y

(* A bit as a word.                                                         *)
LEMMA BitAsWord ==
  ASSUME NEW val, NEW ds, NEW g, NEW b, BuildsBit(val, ds, g, b)
  PROVE  BuildsNumber(val, ds, Built(g.ds, <<g.out>>), 1, Truth(b))
<1> DEFINE n == Len(g.ds)
           v == g.out
           x == <<v>>
           t == Built(g.ds, x)
<1>1. /\ g.ds \in Vectors /\ n \in Nat /\ v \in Values(n) /\ v \in Signals /\ Follows(val, ds, g.ds)
      /\ Respects(val, g.ds) => (Says(val, v) <=> b)
  BY BitBuilt
<1> HIDE DEF n, v
<1>2. x \in Words(1, n) /\ x \in Seq(Signals) /\ x[1] = v
  BY <1>1 DEF Words
<1> HIDE DEF x
<1>3. Low(val, x, 1) = Truth(Says(val, v))
  <2> DEFINE w == 1
  <2>6. w \in Nat /\ x \in Words(w, n)
    BY <1>2
  <2>4. w = 1
    OBVIOUS
  <2> HIDE DEF w
  <2>5. \A k \in 1 .. w : Low(val, x, k) = Low(val, x, k - 1) + (Truth(Says(val, x[k])) * Pow2[k - 1])
    BY <1>1, <2>6, LowGrows
  <2>1. \A k \in 1 .. 1 : Low(val, x, k) = Low(val, x, k - 1) + (Truth(Says(val, x[k])) * Pow2[k - 1])
    BY <2>4, <2>5
  <2>2. 1 \in 1 .. 1 /\ 1 - 1 = 0 /\ Low(val, x, 0) = 0 /\ Pow2[0] = 1
    BY LowNone, Powers
  <2>3. Low(val, x, 1) = 0 + (Truth(Says(val, v)) * 1)
    BY <1>2, <2>1, <2>2
  <2> QED
    BY <2>3 DEF Truth
<1>4. t.ds = g.ds /\ t.out = x /\ t \in Builds
  BY <1>1, <1>2 DEF Built, Builds
<1> HIDE DEF t
<1>5. Respects(val, g.ds) => Low(val, x, 1) = Truth(b)
  BY <1>1, <1>3 DEF Truth
<1>6. BuildsNumber(val, ds, t, 1, Truth(b))
  BY <1>1, <1>2, <1>4, <1>5 DEF BuildsNumber, n
<1> QED
  BY <1>6 DEF t, x, v

(* With its highest bit inverted, a word compares as if it had a sign.      *)
Biased(n, w) == SignedOf(n, w) + Pow2[w - 1]
LEMMA SignFlips ==
  ASSUME NEW val \in [Nat -> BOOLEAN], NEW w \in Nat, w > 0, NEW n \in Nat, NEW x \in Words(w, n)
  PROVE  FlipSignOf(x) \in Words(w, n) /\ Low(val, FlipSignOf(x), w) = Biased(Low(val, x, w), w)
<1> DEFINE l == w - 1
           y == FlipSignOf(x)
           v == x[w]
           j == l
<1>1. l \in Nat /\ w \in 1 .. w /\ l + 1 = w /\ j \in Nat /\ j <= w /\ j = l /\ j \in 0 .. j
  OBVIOUS
<1>2. /\ v \in Values(n) /\ Not(v) \in Values(n)
      /\ (Says(val, v) <=> 2 * Low(val, x, w) >= Pow2[w])
      /\ (Says(val, Not(v)) <=> ~Says(val, v))
      /\ Last(x) = v
  BY TopBit, ValuesAre, SaysInverse
<1>3. Len(x) = w /\ DOMAIN x = 1 .. w /\ \A k \in 1 .. w : x[k] \in Values(n)
  BY WordShape
<1>4. y = [x EXCEPT ![w] = Not(v)]
  BY <1>2, <1>3 DEF FlipSignOf
<1> HIDE DEF v, y
<1>5. y \in Words(w, n) /\ y[w] = Not(v) /\ \A k \in 1 .. l : y[k] = x[k]
  <2>1. x \in [1 .. w -> Values(n)]
    BY DEF Words
  <2> QED
    BY <1>2, <1>4, <2>1 DEF Words
<1>6. Low(val, y, l) = Low(val, x, l)
  <2>1. \A k \in 1 .. j : Says(val, y[k]) <=> Says(val, x[k])
    BY <1>5
  <2>2. j \in Nat /\ j <= w /\ y \in Words(w, n)
    BY <1>5
  <2> HIDE DEF j, l
  <2>3. \A k \in 0 .. j : Low(val, y, k) = Low(val, x, k)
    BY <2>1, <2>2, LowAgrees, SMTT(30)
  <2> QED
    BY <1>1, <2>3
<1> DEFINE A == Low(val, x, w)
           B == Low(val, y, w)
           L == Low(val, x, l)
           P == Pow2[l]
           s == Says(val, v)
<1>7. A = L + (Truth(s) * P) /\ B = L + (Truth(~s) * P)
  <2>1. /\ \A k \in 1 .. w : Low(val, x, k) = Low(val, x, k - 1) + (Truth(Says(val, x[k])) * Pow2[k - 1])
        /\ \A k \in 1 .. w : Low(val, y, k) = Low(val, y, k - 1) + (Truth(Says(val, y[k])) * Pow2[k - 1])
    BY <1>5, LowGrows
  <2>2. A = L + (Truth(Says(val, x[w])) * P) /\ B = L + (Truth(Says(val, y[w])) * P)
    BY <1>1, <1>6, <2>1
  <2>3. Truth(Says(val, x[w])) = Truth(s) /\ Truth(Says(val, y[w])) = Truth(~s)
    BY <1>2, <1>5 DEF v, Truth
  <2> HIDE DEF A, B, L, P, s
  <2> QED
    BY <2>2, <2>3
<1>8. P \in Nat /\ Pow2[w] = 2 * P
  BY <1>1, Powers
<1>9. L \in Nat
  <2> HIDE DEF l
  <2> QED
    BY <1>1, LowType
<1>10. s <=> 2 * A >= 2 * P
  BY <1>2, <1>8
<1>11. SignedOf(A, w) = IF 2 * A >= 2 * P THEN A - (2 * P) ELSE A
  <2> HIDE DEF A, P
  <2> QED
    BY <1>8 DEF SignedOf
<1> HIDE DEF A, B, L, P, s
<1>12. B = SignedOf(A, w) + P
  <2>1. CASE s
    <3>1. A = L + P /\ B = L
      BY <1>7, <1>8, <1>9, <2>1 DEF Truth
    <3>2. SignedOf(A, w) = A - (2 * P)
      BY <1>10, <1>11, <2>1
    <3> QED
      BY <1>8, <1>9, <3>1, <3>2
  <2>2. CASE ~s
    <3>1. A = L /\ B = L + P
      BY <1>7, <1>8, <1>9, <2>2 DEF Truth
    <3>2. SignedOf(A, w) = A
      BY <1>10, <1>11, <2>2
    <3> QED
      BY <1>8, <1>9, <3>1, <3>2
  <2> QED
    BY <2>1, <2>2
<1> QED
  BY <1>5, <1>12 DEF A, B, P, y, Biased

(* Comparisons of signed words flip the sign bits and compare unsigned.     *)
Reads(signed, n, w) == IF signed THEN SignedOf(n, w) ELSE n
LEMMA BiasKeepsOrder ==
  ASSUME NEW w \in Nat, w > 0, NEW a \in 0 .. Pow2[w] - 1, NEW b \in 0 .. Pow2[w] - 1, NEW predicate \in Predicates
  PROVE  Compares(predicate, Biased(a, w), Biased(b, w)) <=> Compares(predicate, SignedOf(a, w), SignedOf(b, w))
<1> DEFINE A == SignedOf(a, w)
           B == SignedOf(b, w)
           P == Pow2[w - 1]
           x == Biased(a, w)
           y == Biased(b, w)
<1>1. A \in Int /\ B \in Int
  BY SignedParts
<1>2. P \in Nat
  <2>1. w - 1 \in Nat
    OBVIOUS
  <2> QED
    BY <2>1, Powers
<1>3. x = A + P /\ y = B + P
  BY DEF Biased
<1> HIDE DEF A, B, P, x, y
<1>4. x \in Int /\ y \in Int /\ (x = y <=> A = B) /\ (x < y <=> A < B) /\ (x > y <=> A > B)
      /\ (x <= y <=> A <= B) /\ (x >= y <=> A >= B)
  BY <1>1, <1>2, <1>3
<1>5. CASE predicate = "Equals"
  BY <1>4, <1>5 DEF Compares, A, B, x, y
<1>6. CASE predicate = "NotEquals"
  BY <1>4, <1>6 DEF Compares, A, B, x, y
<1>7. CASE predicate = "LessThan"
  BY <1>4, <1>7 DEF Compares, A, B, x, y
<1>8. CASE predicate = "GreaterThan"
  BY <1>4, <1>8 DEF Compares, A, B, x, y
<1>9. CASE predicate = "LessThanOrEqual"
  BY <1>4, <1>9 DEF Compares, A, B, x, y
<1>10. CASE predicate = "GreaterThanOrEqual"
  BY <1>4, <1>10 DEF Compares, A, B, x, y
<1> QED
  BY <1>5, <1>6, <1>7, <1>8, <1>9, <1>10 DEF Predicates

(* comb.icmp with every predicate, signed and unsigned.                     *)
THEOREM ICmpBuilds ==
  ASSUME NEW val \in [Nat -> BOOLEAN], NEW ds \in Vectors, NEW w \in Nat, w > 0,
         NEW a \in Words(w, Len(ds)), NEW b \in Words(w, Len(ds)), NEW predicate \in Predicates, NEW signed \in BOOLEAN
  PROVE  BuildsNumber(val, ds, ICmpGate(ds, predicate, signed, a, b), 1,
           Truth(Compares(predicate, Reads(signed, Low(val, a, w), w), Reads(signed, Low(val, b, w), w))))
<1> DEFINE x == IF signed THEN FlipSignOf(a) ELSE a
           y == IF signed THEN FlipSignOf(b) ELSE b
           g == Comparison(ds, x, y, predicate)
           A == Low(val, a, w)
           B == Low(val, b, w)
           n == Len(ds)
           holds == Compares(predicate, Low(val, x, w), Low(val, y, w))
           means == Compares(predicate, Reads(signed, A, w), Reads(signed, B, w))
<1>1. ICmpGate(ds, predicate, signed, a, b) = Built(g.ds, <<g.out>>)
  BY DEF ICmpGate, Then
<1>2. n \in Nat /\ Follows(val, ds, ds) /\ A \in 0 .. Pow2[w] - 1 /\ B \in 0 .. Pow2[w] - 1
  BY VectorLength, FollowsItself, LowType
<1>3. x \in Words(w, n) /\ y \in Words(w, n) /\ (holds <=> means)
  <2>1. CASE ~signed
    BY <2>1 DEF Reads
  <2>2. CASE signed
    <3>1. /\ FlipSignOf(a) \in Words(w, n) /\ Low(val, FlipSignOf(a), w) = Biased(A, w)
          /\ FlipSignOf(b) \in Words(w, n) /\ Low(val, FlipSignOf(b), w) = Biased(B, w)
      <4> HIDE DEF n
      <4>1. a \in Words(w, n) /\ b \in Words(w, n)
        BY DEF n
      <4> QED
        BY <1>2, <4>1, SignFlips
    <3>2. x = FlipSignOf(a) /\ y = FlipSignOf(b) /\ Reads(signed, A, w) = SignedOf(A, w) /\ Reads(signed, B, w) = SignedOf(B, w)
      BY <2>2 DEF Reads
    <3> HIDE DEF x, y, A, B
    <3>3. Compares(predicate, Biased(A, w), Biased(B, w)) <=> Compares(predicate, SignedOf(A, w), SignedOf(B, w))
      BY <1>2, BiasKeepsOrder
    <3> QED
      BY <3>1, <3>2, <3>3
  <2> QED
    BY <2>1, <2>2
<1> HIDE DEF x, y
<1>4. BuildsBit(val, ds, g, holds)
  BY <1>3, ComparisonBuilds
<1> HIDE DEF g, holds, means
<1>5. BuildsBit(val, ds, g, means)
  BY <1>2, <1>3, <1>4, BitAfter
<1>6. BuildsNumber(val, ds, Built(g.ds, <<g.out>>), 1, Truth(means))
  BY <1>5, BitAsWord
<1> QED
  BY <1>1, <1>6 DEF means, A, B

(* comb.mux.                                                                *)
LEMMA CombMuxBuilds ==
  ASSUME NEW val \in [Nat -> BOOLEAN], NEW ds \in Vectors, NEW w \in Nat,
         NEW a \in Words(w, Len(ds)), NEW b \in Words(w, Len(ds)), NEW condition \in Words(1, Len(ds))
  PROVE  BuildsNumber(val, ds, CombMux(ds, condition, a, b), w,
                      IF Low(val, condition, 1) = 1 THEN Low(val, a, w) ELSE Low(val, b, w))
<1> DEFINE u == condition[1]
           s == Says(val, u)
           n == IF s THEN Low(val, a, w) ELSE Low(val, b, w)
           m == IF Low(val, condition, 1) = 1 THEN Low(val, a, w) ELSE Low(val, b, w)
<1>1. CombMux(ds, condition, a, b) = Mux(ds, b, a, u)
  BY DEF CombMux
<1>2. Len(ds) \in Nat /\ u \in Values(Len(ds))
  <2>1. Len(ds) \in Nat
    BY VectorLength
  <2> QED
    BY <2>1 DEF Words
<1>3. Low(val, condition, 1) = Truth(s)
  <2> DEFINE k == 1
             l == Len(ds)
  <2>1. k \in Nat /\ condition \in Words(k, l) /\ k = 1 /\ l \in Nat
    BY <1>2
  <2> HIDE DEF k, l
  <2>2. \A i \in 1 .. k : Low(val, condition, i) = Low(val, condition, i - 1) + (Truth(Says(val, condition[i])) * Pow2[i - 1])
    BY <2>1, LowGrows
  <2>3. 1 \in 1 .. k /\ 1 - 1 = 0 /\ Low(val, condition, 0) = 0 /\ Pow2[0] = 1
    BY <2>1, LowNone, Powers
  <2>4. Low(val, condition, 1) = 0 + (Truth(s) * 1)
    BY <2>2, <2>3
  <2> QED
    BY <2>4 DEF Truth
<1>4. n = m
  <2> HIDE DEF s
  <2> QED
    BY <1>3 DEF Truth
<1> HIDE DEF u
<1>5. BuildsNumber(val, ds, Mux(ds, b, a, u), w, n)
  BY <1>2, MuxBuildsNumber
<1> HIDE DEF n, m
<1> QED
  BY <1>1, <1>4, <1>5 DEF m

(* Two words with the same low bits.                                        *)
Alike(val, x, y, j) ==
  /\ j \in Nat
  /\ \E w, n \in Nat : x \in Words(w, n) /\ j <= w
  /\ \E w, n \in Nat : y \in Words(w, n) /\ j <= w
  /\ \A k \in 1 .. j : Says(val, x[k]) <=> Says(val, y[k])
LEMMA LowAlike ==
  ASSUME NEW val, NEW x, NEW y, NEW j, Alike(val, x, y, j) PROVE Low(val, x, j) = Low(val, y, j)
<1>1. PICK w \in Nat, n \in Nat : x \in Words(w, n) /\ j <= w
  BY DEF Alike
<1>2. PICK u \in Nat, m \in Nat : y \in Words(u, m) /\ j <= u
  BY DEF Alike
<1>3. j \in Nat /\ j \in 0 .. j /\ \A k \in 1 .. j : Says(val, x[k]) <=> Says(val, y[k])
  BY DEF Alike
<1> DEFINE X == Spoken(val, x)
           Y == Spoken(val, y)
<1>4. \A k \in 1 .. j : X[k] <=> Y[k]
  <2>1. DOMAIN x = 1 .. w /\ DOMAIN y = 1 .. u
    BY <1>1, <1>2, WordShape
  <2>2. \A k \in 1 .. j : X[k] = Says(val, x[k]) /\ Y[k] = Says(val, y[k])
    <3>1. \A k \in 1 .. j : k \in 1 .. w /\ k \in 1 .. u
      BY <1>1, <1>2, <1>3
    <3> QED
      BY <2>1, <3>1 DEF Spoken
  <2> HIDE DEF X, Y
  <2> QED
    BY <1>3, <2>2
<1> HIDE DEF X, Y
<1>5. \A k \in 0 .. j : Worth(X)[k] = Worth(Y)[k]
  BY <1>3, <1>4, WorthOfEqual
<1> QED
  BY <1>3, <1>5 DEF Low, X, Y
(* Bits of a word that do not hold from a place on are worth nothing.       *)
SilentFrom(val, x, j, w) == j \in 0 .. w /\ \A k \in 1 .. w - j : ~Says(val, x[j + k])
LEMMA HighZeros ==
  ASSUME NEW val, NEW w \in Nat, NEW n \in Nat, NEW x \in Words(w, n), NEW j, SilentFrom(val, x, j, w)
  PROVE  Low(val, x, w) = Low(val, x, j)
<1> DEFINE m == w - j
           y == [k \in 1 .. m |-> x[j + k]]
           i == m
<1>1. j \in Nat /\ m \in Nat /\ w = j + m /\ j \in 0 .. w /\ i \in 0 .. m /\ i = m
  BY DEF SilentFrom
<1>2. y \in Words(m, n) /\ \A k \in 1 .. m : Says(val, y[k]) <=> Says(val, x[j + k])
  <2>1. \A k \in 1 .. m : j + k \in 1 .. w
    BY <1>1
  <2>2. \A k \in 1 .. m : x[j + k] \in Values(n)
    BY <2>1, WordShape
  <2> QED
    BY <2>2 DEF Words
<1>3. \A k \in 1 .. i : ~Says(val, y[k])
  BY <1>2 DEF SilentFrom
<1> HIDE DEF y, m
<1>4. PartOfWord(val, x, j, y, m, w)
  BY <1>1, <1>2 DEF PartOfWord
<1>5. SplitsAt(val, x, j, y, m, w)
  BY <1>4, LowSplits
<1>6. Low(val, y, m) = 0
  <2> HIDE DEF i
  <2>1. Low(val, y, i) = 0
    BY <1>1, <1>2, <1>3, LowZero
  <2> QED
    BY <1>1, <2>1
<1>7. Pow2[j] \in Nat /\ Low(val, x, j) \in Nat
  BY <1>1, Powers, LowType
<1> QED
  <2> DEFINE L == Low(val, x, j)
             P == Pow2[j]
  <2>1. Low(val, x, w) = L + (P * 0)
    BY <1>5, <1>6 DEF SplitsAt
  <2> HIDE DEF L, P
  <2>2. Low(val, x, w) = L
    BY <1>7, <2>1 DEF L, P
  <2> QED
    BY <2>2 DEF L

(* A word whose bits are those of another, d places lower.                  *)
Halves(n, d) == n \div Pow2[d]
Downwards(val, x, d, y, w) ==
  \A k \in 1 .. w : Says(val, y[k]) <=> (k + d <= w /\ Says(val, x[k + d]))
LEMMA ShiftedDown ==
  ASSUME NEW val, NEW w \in Nat, NEW n \in Nat, NEW x \in Words(w, n), NEW y \in Words(w, n), NEW d \in Nat,
         Downwards(val, x, d, y, w)
  PROVE  Low(val, y, w) = Halves(Low(val, x, w), d)
<1> DEFINE A == Low(val, x, w)
           P == Pow2[d]
<1>1. P \in Nat /\ P >= 1 /\ A \in Nat /\ A < Pow2[w] /\ Pow2[w] \in Nat
  BY Powers, LowType
<1>2. CASE d >= w
  <2> DEFINE j == w
  <2>1. \A k \in 1 .. j : ~Says(val, y[k])
    BY <1>2 DEF Downwards
  <2>2. j \in 0 .. w /\ j = w
    OBVIOUS
  <2> HIDE DEF j
  <2>3. Low(val, y, j) = 0
    BY <2>1, <2>2, LowZero
  <2>4. Pow2[w] <= P
    BY <1>2, PowersGrow
  <2>5. Divides(A, P, 0, A)
    <3> HIDE DEF A, P
    <3>1. P * 0 = 0 /\ A = 0 + A /\ A < P /\ P > 0
      BY <1>1, <2>4
    <3> QED
      BY <1>1, <3>1 DEF Divides
  <2>6. Divided(A, P, 0, A)
    BY <2>5, DivisionIs
  <2> QED
    BY <2>2, <2>3, <2>6 DEF Divided, Halves
<1>3. CASE d < w
  <2> DEFINE m == w - d
             z == [k \in 1 .. m |-> x[d + k]]
             j == m
  <2>1. m \in Nat /\ w = d + m /\ j <= w /\ j <= m /\ j = m /\ j \in Nat /\ m \in 0 .. w /\ j \in 0 .. j
    BY <1>3
  <2>2. z \in Words(m, n) /\ \A k \in 1 .. m : Says(val, z[k]) <=> Says(val, x[d + k])
    <3>1. \A k \in 1 .. m : d + k \in 1 .. w
      BY <2>1
    <3>2. \A k \in 1 .. m : x[d + k] \in Values(n)
      BY <3>1, WordShape
    <3> QED
      BY <3>2 DEF Words
  <2>3. \A k \in 1 .. j : Says(val, y[k]) <=> Says(val, z[k])
    <3> SUFFICES ASSUME NEW k \in 1 .. j PROVE Says(val, y[k]) <=> Says(val, z[k])
      OBVIOUS
    <3>1. k \in 1 .. w /\ k \in 1 .. m /\ k + d <= w /\ k + d = d + k
      BY <2>1
    <3> HIDE DEF z
    <3> QED
      BY <2>2, <3>1 DEF Downwards
  <2>4. SilentFrom(val, y, m, w)
    <3> SUFFICES ASSUME NEW k \in 1 .. w - m PROVE ~Says(val, y[m + k])
      BY <2>1 DEF SilentFrom
    <3>1. m + k \in 1 .. w /\ ~(m + k + d <= w)
      BY <2>1
    <3> QED
      BY <3>1 DEF Downwards
  <2> HIDE DEF z, m, j
  <2>5. Low(val, y, w) = Low(val, y, m)
    BY <2>4, HighZeros
  <2>6. Low(val, y, m) = Low(val, z, m)
    <3>1. Alike(val, y, z, j)
      BY <2>1, <2>2, <2>3 DEF Alike
    <3>2. Low(val, y, j) = Low(val, z, j)
      BY <3>1, LowAlike
    <3> QED
      BY <2>1, <3>2
  <2>7. PartOfWord(val, x, d, z, m, w)
    BY <2>1, <2>2 DEF PartOfWord
  <2>8. SplitsAt(val, x, d, z, m, w)
    BY <2>7, LowSplits
  <2> DEFINE q == Low(val, z, m)
             r == Low(val, x, d)
  <2>9. q \in Nat /\ r \in Nat /\ r < P
    BY <2>1, LowType
  <2>10. Divides(A, P, q, r)
    <3>1. A = r + (P * q)
      BY <2>8 DEF SplitsAt
    <3> HIDE DEF A, P, q, r
    <3>2. P * q \in Nat
      BY <1>1, <2>9
    <3>3. A = (P * q) + r /\ r \in 0 .. P - 1
      BY <1>1, <2>9, <3>1, <3>2
    <3> QED
      BY <1>1, <2>9, <3>3 DEF Divides
  <2>11. Divided(A, P, q, r)
    BY <2>10, DivisionIs
  <2> QED
    BY <2>5, <2>6, <2>11 DEF Divided, Halves
<1> QED
  BY <1>2, <1>3

(* Division by a power of two.                                              *)
HalvesTo(n, d, q) == q \in Int /\ \E r \in 0 .. Pow2[d] - 1 : n = (Pow2[d] * q) + r
LEMMA HalvesIs ==
  ASSUME NEW n \in Int, NEW d \in Nat PROVE Halves(n, d) \in Int /\ HalvesTo(n, d, Halves(n, d))
<1> DEFINE P == Pow2[d]
           q == n \div P
           r == n % P
<1>1. P \in Nat /\ P >= 1
  BY Powers
<1> HIDE DEF P
<1>2. q \in Int /\ r \in 0 .. P - 1 /\ n = (P * q) + r
  BY <1>1
<1> HIDE DEF q, r
<1>3. HalvesTo(n, d, q)
  BY <1>2 DEF HalvesTo, P
<1> QED
  BY <1>2, <1>3 DEF Halves, q, P

LEMMA HalvesIsOnly ==
  ASSUME NEW n \in Int, NEW d \in Nat, NEW q, HalvesTo(n, d, q) PROVE Halves(n, d) = q
<1>1. PICK r \in 0 .. Pow2[d] - 1 : q \in Int /\ n = (Pow2[d] * q) + r
  BY DEF HalvesTo
<1> DEFINE P == Pow2[d]
<1>2. Divides(n, P, q, r)
  BY <1>1, Powers DEF Divides
<1>3. Divided(n, P, q, r)
  BY <1>2, DivisionIs
<1> QED
  BY <1>3 DEF Divided, Halves

LEMMA HalvesTwice ==
  ASSUME NEW n \in Int, NEW i \in Nat, NEW j \in Nat, NEW e \in Nat, e = i + j
  PROVE  Halves(Halves(n, i), j) = Halves(n, e)
<1> DEFINE q == Halves(n, i)
           p == Halves(q, j)
           P == Pow2[i]
           Q == Pow2[j]
<1>1. q \in Int /\ HalvesTo(n, i, q)
  BY HalvesIs
<1> HIDE DEF q
<1>2. p \in Int /\ HalvesTo(q, j, p)
  BY <1>1, HalvesIs
<1> HIDE DEF p
<1>3. PICK r \in 0 .. P - 1 : n = (P * q) + r
  BY <1>1 DEF HalvesTo
<1>4. PICK s \in 0 .. Q - 1 : q = (Q * p) + s
  BY <1>2 DEF HalvesTo
<1>5. P \in Nat /\ Q \in Nat /\ Pow2[e] = P * Q /\ P >= 1 /\ Q >= 1
  <2>1. P \in Nat /\ Q \in Nat /\ P >= 1 /\ Q >= 1
    BY Powers
  <2> QED
    BY <2>1, PowersAdd
<1> HIDE DEF P, Q
<1> DEFINE t == (P * s) + r
<1>6. n = ((P * Q) * p) + t
  <2>1. P * ((Q * p) + s) = ((P * Q) * p) + (P * s)
    BY <1>2, <1>4, <1>5
  <2> DEFINE x == (P * Q) * p
             y == P * s
             z == P * ((Q * p) + s)
  <2>2. x \in Int /\ y \in Int /\ z \in Int
    BY <1>2, <1>4, <1>5
  <2>3. z = x + y /\ n = z + r
    BY <1>3, <1>4, <2>1
  <2> HIDE DEF x, y, z
  <2>4. n = x + (y + r)
    BY <1>3, <1>5, <2>2, <2>3
  <2> QED
    BY <2>4 DEF x, y
<1>7. t \in 0 .. (P * Q) - 1
  <2>1. s \in Nat /\ s + 1 <= Q /\ r \in Nat /\ r <= P - 1
    BY <1>3, <1>4, <1>5
  <2>2. P * (s + 1) <= P * Q
    <3>1. Q - (s + 1) \in Nat
      BY <1>5, <2>1
    <3>2. P * (Q - (s + 1)) \in Nat
      BY <1>5, <3>1
    <3>3. P * (Q - (s + 1)) = (P * Q) - (P * (s + 1))
      BY <1>5, <2>1
    <3> DEFINE x == P * Q
               y == P * (s + 1)
               z == P * (Q - (s + 1))
    <3>4. x \in Int /\ y \in Int /\ z \in Nat /\ z = x - y
      BY <1>5, <2>1, <3>2, <3>3
    <3> HIDE DEF x, y, z
    <3>5. y <= x
      BY <3>4
    <3> QED
      BY <3>5 DEF x, y
  <2>3. P * (s + 1) = (P * s) + P
    BY <1>5, <2>1
  <2> DEFINE x == P * Q
             y == P * s
             z == P * (s + 1)
  <2>4. x \in Nat /\ y \in Nat /\ z = y + P /\ z <= x /\ t = y + r
    BY <1>5, <2>1, <2>2, <2>3
  <2> HIDE DEF x, y, z, t
  <2>5. t \in 0 .. x - 1
    BY <1>5, <2>1, <2>4
  <2> QED
    BY <2>5 DEF x
<1> HIDE DEF t
<1>8. HalvesTo(n, e, p)
  <2> DEFINE R == Pow2[e]
  <2>1. R = P * Q
    BY <1>5
  <2>2. t \in 0 .. R - 1 /\ n = (R * p) + t
    <3> HIDE DEF R
    <3> QED
      BY <1>6, <1>7, <2>1
  <2> HIDE DEF R
  <2>3. p \in Int /\ \E u \in 0 .. R - 1 : n = (R * p) + u
    BY <1>2, <2>2
  <2> QED
    BY <2>3 DEF HalvesTo, R
<1>9. Halves(n, e) = p
  BY <1>8, HalvesIsOnly
<1> QED
  BY <1>9 DEF p, q

(* A number with a sign stays one when it is halved.                        *)
InSigned(n, h) == n \in Int /\ -h <= n /\ n < h
LEMMA SignedBounds ==
  ASSUME NEW w \in Nat, w > 0, NEW n \in 0 .. Pow2[w] - 1
  PROVE  InSigned(SignedOf(n, w), Pow2[w - 1])
<1> DEFINE P == Pow2[w - 1]
           S == SignedOf(n, w)
<1>1. P \in Nat /\ Pow2[w] = 2 * P
  <2>1. w - 1 \in Nat /\ (w - 1) + 1 = w
    OBVIOUS
  <2> QED
    BY <2>1, Powers
<1>2. S = IF 2 * n >= Pow2[w] THEN n - Pow2[w] ELSE n
  BY DEF SignedOf
<1>3. n \in Nat /\ n < 2 * P
  BY <1>1
<1> HIDE DEF S, P
<1>4. S = IF 2 * n >= 2 * P THEN n - (2 * P) ELSE n
  BY <1>1, <1>2
<1>5. S \in Int /\ -P <= S /\ S < P
  BY <1>1, <1>3, <1>4
<1> QED
  BY <1>5 DEF InSigned, S, P

LEMMA SignedOfWrap ==
  ASSUME NEW w \in Nat, w > 0, NEW n, InSigned(n, Pow2[w - 1])
  PROVE  SignedOf(Wrap(n, w), w) = n
<1> DEFINE P == Pow2[w - 1]
           u == Wrap(n, w)
           m == IF n < 0 THEN n + (2 * P) ELSE n
<1>1. P \in Nat /\ Pow2[w] = 2 * P
  <2>1. w - 1 \in Nat /\ (w - 1) + 1 = w
    OBVIOUS
  <2> QED
    BY <2>1, Powers
<1>2. n \in Int /\ -P <= n /\ n < P
  BY DEF InSigned
<1> HIDE DEF P
<1>3. m \in 0 .. (2 * P) - 1 /\ m \in Int
  BY <1>1, <1>2
<1>4. \E q \in Int : n = m + ((2 * P) * q)
  <2>1. CASE n < 0
    <3>1. n = m + ((2 * P) * (-1))
      BY <1>1, <1>2, <2>1
    <3> QED
      BY <3>1
  <2>2. CASE ~(n < 0)
    <3>1. n = m + ((2 * P) * 0)
      BY <1>1, <1>2, <2>2
    <3> QED
      BY <3>1
  <2> QED
    BY <2>1, <2>2
<1> DEFINE R == Pow2[w]
<1>5. m \in 0 .. R - 1 /\ m \in Int /\ \E q \in Int : n = m + (R * q)
  BY <1>1, <1>3, <1>4
<1>6. u = m
  <2> HIDE DEF m, u, R
  <2>1. Wrap(n, w) = Wrap(m, w) /\ Wrap(m, w) = m
    BY <1>2, <1>5, WrapSame, WrapSmall DEF R
  <2> QED
    BY <2>1 DEF u
<1>7. SignedOf(u, w) = IF 2 * u >= 2 * P THEN u - (2 * P) ELSE u
  <2> HIDE DEF u
  <2> QED
    BY <1>1 DEF SignedOf
<1> HIDE DEF u
<1>8. SignedOf(u, w) = n
  BY <1>1, <1>2, <1>6, <1>7
<1> QED
  BY <1>8 DEF u

LEMMA HalvesInSigned ==
  ASSUME NEW h \in Nat, NEW n, InSigned(n, h), NEW d \in Nat PROVE InSigned(Halves(n, d), h)
<1>1. n \in Int /\ -h <= n /\ n < h
  BY DEF InSigned
<1> DEFINE q == Halves(n, d)
           P == Pow2[d]
<1>2. q \in Int /\ HalvesTo(n, d, q)
  BY <1>1, HalvesIs
<1>3. PICK r \in 0 .. P - 1 : n = (P * q) + r
  BY <1>2 DEF HalvesTo
<1>4. P \in Nat /\ P >= 1
  BY Powers
<1> HIDE DEF q, P
<1>5. q < h
  <2> SUFFICES ASSUME q >= h PROVE FALSE
    BY <1>2
  <2>1. (P - 1) * q >= 0 /\ P * q = ((P - 1) * q) + q
    BY <1>2, <1>4
  <2> DEFINE x == P * q
             y == (P - 1) * q
  <2>2. x \in Int /\ y \in Int /\ y >= 0 /\ x = y + q /\ n = x + r
    BY <1>2, <1>3, <1>4, <2>1
  <2> HIDE DEF x, y
  <2> QED
    BY <1>1, <1>2, <1>3, <1>4, <2>2
<1>6. -h <= q
  <2> SUFFICES ASSUME q < -h PROVE FALSE
    BY <1>2
  <2> DEFINE m == -(q + 1)
  <2>1. m \in Nat /\ q = -(m + 1) /\ m >= h
    BY <1>2
  <2> HIDE DEF m
  <2>2. (P - 1) * m \in Nat /\ P * q = -(((P - 1) * m) + m) - P
    BY <1>4, <2>1
  <2> QED
    BY <1>1, <1>3, <1>4, <2>1, <2>2
<1> QED
  BY <1>2, <1>5, <1>6 DEF InSigned, q

Complement(c, m) == m = -(c + 1)

(* An arithmetic shift of a negative number is the shift of its complement. *)
LEMMA HalvesNegated ==
  ASSUME NEW c \in Int, NEW m \in Int, Complement(c, m), NEW d \in Nat
  PROVE  Complement(Halves(c, d), Halves(m, d))
<1> DEFINE q == Halves(c, d)
           P == Pow2[d]
           p == -(q + 1)
<1>1. q \in Int /\ HalvesTo(c, d, q) /\ P \in Nat /\ P >= 1
  BY HalvesIs, Powers
<1>2. PICK r \in 0 .. P - 1 : c = (P * q) + r
  BY <1>1 DEF HalvesTo
<1> HIDE DEF q, P
<1> DEFINE s == (P - 1) - r
<1>3. p \in Int /\ s \in 0 .. P - 1
  BY <1>1, <1>2
<1>4. P * p = -(P * q) - P
  BY <1>1
<1>5. m = (P * p) + s
  <2> DEFINE x == P * p
             y == P * q
  <2>1. x \in Int /\ y \in Int /\ x = -y - P /\ c = y + r
    BY <1>1, <1>2, <1>3, <1>4
  <2> HIDE DEF x, y
  <2>2. m = x + s
    BY <1>1, <1>2, <2>1 DEF Complement
  <2> QED
    BY <2>2 DEF x
<1> HIDE DEF p, s
<1>6. HalvesTo(m, d, p)
  BY <1>3, <1>5 DEF HalvesTo, P
<1>7. Halves(m, d) = p
  BY <1>6, HalvesIsOnly
<1> QED
  BY <1>7 DEF Complement, q, p

(* What a shift by d makes of a number.                                     *)
Shifts == {"ShiftLeft", "ShiftRight", "ShiftRightArithmetic"}
Moved(operation, n, d, w) ==
  CASE operation = "ShiftLeft" -> ShiftedLeft(n, d, w)
    [] operation = "ShiftRight" -> ShiftedRight(n, d, w, FALSE)
    [] operation = "ShiftRightArithmetic" -> ShiftedRight(n, d, w, TRUE)
LEMMA MovedIs ==
  ASSUME NEW n, NEW d, NEW w
  PROVE  /\ Moved("ShiftLeft", n, d, w) = Wrap(n * Pow2[d], w)
         /\ Moved("ShiftRight", n, d, w) = Wrap(Halves(n, d), w)
         /\ Moved("ShiftRightArithmetic", n, d, w) = Wrap(Halves(SignedOf(n, w), d), w)
  BY DEF Moved, ShiftedLeft, ShiftedRight, Halves

(* A shifted word.                                                          *)
LEMMA ShiftedBits ==
  ASSUME NEW w \in Nat, w > 0, NEW n \in Nat, NEW x \in Words(w, n), NEW d \in Nat, NEW operation \in Shifts
  PROVE  /\ Shifted(x, d, operation) \in Words(w, n)
         /\ operation = "ShiftLeft" =>
              \A k \in 1 .. w : Shifted(x, d, operation)[k] = IF k - d \in 1 .. w THEN x[k - d] ELSE False
         /\ operation = "ShiftRight" =>
              \A k \in 1 .. w : Shifted(x, d, operation)[k] = IF k + d \in 1 .. w THEN x[k + d] ELSE False
         /\ operation = "ShiftRightArithmetic" =>
              \A k \in 1 .. w : Shifted(x, d, operation)[k] = IF k + d \in 1 .. w THEN x[k + d] ELSE x[w]
<1> DEFINE y == Shifted(x, d, operation)
           At(k, fill) == IF k \in 1 .. w THEN x[k] ELSE fill
<1>1. Len(x) = w /\ (\A k \in 1 .. w : x[k] \in Values(n)) /\ False \in Values(n) /\ w \in 1 .. w
  BY WordShape, ValuesAre
<1>2. \A k \in Int, v \in Values(n) : At(k, v) \in Values(n)
  BY <1>1
<1>3. CASE operation = "ShiftLeft"
  <2>1. y = [k \in 1 .. w |-> At(k - d, False)]
    BY <1>1, <1>3 DEF Shifted
  <2> HIDE DEF y
  <2>2. \A k \in 1 .. w : y[k] = At(k - d, False)
    BY <2>1
  <2>3. \A k \in 1 .. w : At(k - d, False) \in Values(n)
    BY <1>1, <1>2
  <2> HIDE DEF At
  <2>4. y \in Words(w, n)
    BY <2>1, <2>3 DEF Words
  <2> QED
    BY <1>3, <2>2, <2>4 DEF y, At
<1>4. CASE operation = "ShiftRight"
  <2>1. y = [k \in 1 .. w |-> At(k + d, False)]
    BY <1>1, <1>4 DEF Shifted
  <2> HIDE DEF y
  <2>2. \A k \in 1 .. w : y[k] = At(k + d, False)
    BY <2>1
  <2>3. \A k \in 1 .. w : At(k + d, False) \in Values(n)
    BY <1>1, <1>2
  <2> HIDE DEF At
  <2>4. y \in Words(w, n)
    BY <2>1, <2>3 DEF Words
  <2> QED
    BY <1>4, <2>2, <2>4 DEF y, At
<1>5. CASE operation = "ShiftRightArithmetic"
  <2>1. y = [k \in 1 .. w |-> At(k + d, x[w])]
    BY <1>1, <1>5 DEF Shifted
  <2> HIDE DEF y
  <2>2. \A k \in 1 .. w : y[k] = At(k + d, x[w])
    BY <2>1
  <2>3. \A k \in 1 .. w : At(k + d, x[w]) \in Values(n)
    BY <1>1, <1>2
  <2> HIDE DEF At
  <2>4. y \in Words(w, n)
    BY <2>1, <2>3 DEF Words
  <2> QED
    BY <1>5, <2>2, <2>4 DEF y, At
<1> QED
  BY <1>3, <1>4, <1>5 DEF Shifts

(* What the three shifts by a fixed distance compute.                       *)
LEMMA LeftMeans ==
  ASSUME NEW val, NEW w \in Nat, NEW n \in Nat, NEW x \in Words(w, n), NEW y \in Words(w, n), NEW d \in Nat,
         \A k \in 1 .. w : y[k] = IF k - d \in 1 .. w THEN x[k - d] ELSE False
  PROVE  Low(val, y, w) = Wrap(Low(val, x, w) * Pow2[d], w)
<1>0. Says(val, False) = FALSE
  BY SaysConst
<1>1. CASE d <= w
  <2>1. Upwards(val, x, d, y, w)
    <3>1. ASSUME NEW k \in 1 .. d PROVE ~Says(val, y[k])
      <4>1. k \in 1 .. w /\ ~(k - d \in 1 .. w)
        BY <1>1
      <4>2. y[k] = False
        BY <4>1
      <4> QED
        BY <1>0, <4>2
    <3>2. ASSUME NEW k \in 1 .. w - d PROVE Says(val, y[d + k]) <=> Says(val, x[k])
      <4>1. d + k \in 1 .. w /\ (d + k) - d = k /\ k \in 1 .. w
        BY <1>1
      <4>2. y[d + k] = x[k]
        BY <4>1
      <4> QED
        BY <4>2
    <3> QED
      BY <3>1, <3>2 DEF Upwards
  <2>2. d \in 0 .. w
    BY <1>1
  <2> QED
    BY <2>1, <2>2, ShiftedUp
<1>2. CASE d > w
  <2> DEFINE j == w
             A == Low(val, x, w)
             P == Pow2[w]
             m == A * Pow2[d]
  <2>1. \A k \in 1 .. j : ~Says(val, y[k])
    <3> SUFFICES ASSUME NEW k \in 1 .. w PROVE ~Says(val, y[k])
      OBVIOUS
    <3>1. ~(k - d \in 1 .. w)
      BY <1>2
    <3>2. y[k] = False
      BY <3>1
    <3> QED
      BY <1>0, <3>2
  <2>2. j \in 0 .. w /\ j = w
    OBVIOUS
  <2> HIDE DEF j
  <2>3. Low(val, y, j) = 0
    BY <2>1, <2>2, LowZero
  <2>4. A \in Nat /\ P \in Nat /\ P >= 1
    BY LowType, Powers
  <2> DEFINE e == d - w
             Q == Pow2[e]
  <2>5. e \in Nat /\ Pow2[d] = P * Q
    BY <1>2, PowersGrow
  <2>6. Q \in Nat
    <3> HIDE DEF e
    <3> QED
      BY <2>5, Powers
  <2>7. m \in Int /\ m = 0 + (P * (A * Q)) /\ A * Q \in Int
    <3> HIDE DEF A, P, Q
    <3> QED
      BY <2>4, <2>5, <2>6
  <2>8. \E q \in Int : m = 0 + (P * q)
    BY <2>7
  <2> HIDE DEF m
  <2>9. Wrap(m, w) = Wrap(0, w)
    BY <2>7, <2>8, WrapSame
  <2>10. Wrap(0, w) = 0
    <3> DEFINE z == 0
    <3>1. z \in 0 .. Pow2[w] - 1 /\ z = 0
      BY <2>4
    <3> HIDE DEF z
    <3>2. Wrap(z, w) = z
      BY <3>1, WrapSmall
    <3> QED
      BY <3>1, <3>2
  <2> QED
    BY <2>2, <2>3, <2>9, <2>10 DEF m
<1> QED
  BY <1>1, <1>2

(* The same shift to the right of a positive, then of a negative number.    *)
LEMMA RightMeans ==
  ASSUME NEW val, NEW w \in Nat, w > 0, NEW n \in Nat, NEW x \in Words(w, n), NEW y \in Words(w, n), NEW d \in Nat,
         NEW fill \in Values(n), ~Says(val, fill),
         \A k \in 1 .. w : y[k] = IF k + d \in 1 .. w THEN x[k + d] ELSE fill
  PROVE  Low(val, y, w) = Halves(Low(val, x, w), d)
<1>1. ASSUME NEW k \in 1 .. w PROVE Says(val, y[k]) <=> (k + d <= w /\ Says(val, x[k + d]))
  <2>1. CASE k + d <= w
    <3>1. y[k] = x[k + d]
      BY <2>1
    <3> QED
      BY <2>1, <3>1
  <2>2. CASE ~(k + d <= w)
    <3>1. y[k] = fill
      BY <2>2
    <3> QED
      BY <2>2, <3>1
  <2> QED
    BY <2>1, <2>2
<1>2. Downwards(val, x, d, y, w)
  BY <1>1 DEF Downwards
<1> QED
  BY <1>2, ShiftedDown

LEMMA RightSignedMeans ==
  ASSUME NEW val \in [Nat -> BOOLEAN], NEW w \in Nat, w > 0, NEW n \in Nat, NEW x \in Words(w, n), NEW y \in Words(w, n),
         NEW d \in Nat, Says(val, x[w]),
         \A k \in 1 .. w : y[k] = IF k + d \in 1 .. w THEN x[k + d] ELSE x[w]
  PROVE  Low(val, y, w) = Wrap(Halves(SignedOf(Low(val, x, w), w), d), w)
<1> DEFINE nx == NotAll(x)
           ny == NotAll(y)
           A == Low(val, x, w)
           B == Low(val, y, w)
           P == Pow2[w]
           c == P - 1 - A
           m == SignedOf(A, w)
           h == Halves(c, d)
           g == Halves(m, d)
<1>1. A \in Nat /\ A < P /\ B \in Nat /\ B < P /\ P \in Nat
  BY LowType, Powers
<1>2. nx \in Words(w, n) /\ Low(val, nx, w) = c /\ ny \in Words(w, n) /\ Low(val, ny, w) = P - 1 - B
  BY NotAllLow
<1>3. ASSUME NEW k \in 1 .. w PROVE Says(val, ny[k]) <=> (k + d <= w /\ Says(val, nx[k + d]))
  <2>1. DOMAIN x = 1 .. w /\ DOMAIN y = 1 .. w /\ x[k] \in Values(n) /\ y[k] \in Values(n)
    BY WordShape
  <2>2. ny[k] = Not(y[k]) /\ (Says(val, ny[k]) <=> ~Says(val, y[k]))
    BY <2>1, SaysInverse DEF NotAll
  <2>3. CASE k + d <= w
    <3>1. k + d \in 1 .. w
      BY <2>3
    <3>2. x[k + d] \in Values(n) /\ nx[k + d] = Not(x[k + d])
      BY <2>1, <3>1, WordShape DEF NotAll
    <3>3. Says(val, nx[k + d]) <=> ~Says(val, x[k + d])
      <4> DEFINE v == x[k + d]
      <4> HIDE DEF v
      <4>1. v \in Values(n) /\ nx[k + d] = Not(v)
        BY <3>2 DEF v
      <4>2. Says(val, Not(v)) <=> ~Says(val, v)
        BY <4>1, SaysInverse
      <4> QED
        BY <4>1, <4>2 DEF v
    <3>4. y[k] = x[k + d]
      BY <3>1
    <3> HIDE DEF nx, ny
    <3> QED
      BY <2>2, <2>3, <3>3, <3>4
  <2>4. CASE ~(k + d <= w)
    <3>1. y[k] = x[w]
      BY <2>4
    <3> HIDE DEF nx, ny
    <3> QED
      BY <2>2, <2>4, <3>1
  <2> QED
    BY <2>3, <2>4
<1>4. Downwards(val, nx, d, ny, w)
  <2> HIDE DEF nx, ny
  <2> QED
    BY <1>3 DEF Downwards
<1>5. Low(val, ny, w) = Halves(Low(val, nx, w), d)
  <2> HIDE DEF nx, ny
  <2> QED
    BY <1>2, <1>4, ShiftedDown
<1>6. P - 1 - B = h
  <2> HIDE DEF nx, ny, P, c, B
  <2> QED
    BY <1>2, <1>5
<1>7. m = A - P
  <2>1. Says(val, x[w]) <=> 2 * A >= P
    BY TopBit
  <2> QED
    BY <2>1 DEF SignedOf
<1> HIDE DEF A, B, P, m
<1>8. c \in Int /\ m \in Int /\ Complement(c, m)
  BY <1>1, <1>7 DEF Complement
<1> HIDE DEF c
<1>9. Complement(h, g)
  BY <1>8, HalvesNegated
<1>10. h \in Int /\ g \in Int
  BY <1>8, HalvesIs
<1> HIDE DEF h, g
<1>11. g = B + (P * (-1))
  BY <1>1, <1>6, <1>9, <1>10 DEF Complement
<1>12. Wrap(g, w) = Wrap(B, w)
  <2>1. g \in Int /\ B \in Int /\ \E q \in Int : g = B + (Pow2[w] * q)
    BY <1>1, <1>10, <1>11 DEF P
  <2> QED
    BY <2>1, WrapSame
<1>13. Wrap(B, w) = B
  <2>1. B \in 0 .. Pow2[w] - 1
    BY <1>1 DEF P
  <2> QED
    BY <2>1, WrapSmall
<1> QED
  BY <1>12, <1>13 DEF B, g, m, A

(* So a word shifted by a fixed distance is the shifted number.             *)
LEMMA ShiftedMeans ==
  ASSUME NEW val \in [Nat -> BOOLEAN], NEW w \in Nat, w > 0, NEW n \in Nat, NEW x \in Words(w, n), NEW d \in Nat,
         NEW operation \in Shifts
  PROVE  /\ Shifted(x, d, operation) \in Words(w, n)
         /\ Low(val, Shifted(x, d, operation), w) = Moved(operation, Low(val, x, w), d, w)
<1> DEFINE y == Shifted(x, d, operation)
           A == Low(val, x, w)
           B == Low(val, y, w)
<1>1. /\ y \in Words(w, n)
      /\ operation = "ShiftLeft" => \A k \in 1 .. w : y[k] = IF k - d \in 1 .. w THEN x[k - d] ELSE False
      /\ operation = "ShiftRight" => \A k \in 1 .. w : y[k] = IF k + d \in 1 .. w THEN x[k + d] ELSE False
      /\ operation = "ShiftRightArithmetic" => \A k \in 1 .. w : y[k] = IF k + d \in 1 .. w THEN x[k + d] ELSE x[w]
  BY ShiftedBits
<1> HIDE DEF y
<1>2. A \in 0 .. Pow2[w] - 1 /\ B \in 0 .. Pow2[w] - 1
  BY LowType
<1>3. Wrap(B, w) = B
  <2> HIDE DEF B
  <2> QED
    BY <1>2, WrapSmall
<1>4. False \in Values(n) /\ ~Says(val, False)
  BY ValuesAre, SaysConst
<1>5. CASE operation = "ShiftLeft"
  <2>1. \A k \in 1 .. w : y[k] = IF k - d \in 1 .. w THEN x[k - d] ELSE False
    BY <1>1, <1>5
  <2>2. B = Wrap(A * Pow2[d], w)
    BY <1>1, <2>1, LeftMeans
  <2> HIDE DEF A, B
  <2> QED
    BY <1>1, <1>5, <2>2, MovedIs DEF A, B, y
<1>6. CASE operation = "ShiftRight"
  <2>1. \A k \in 1 .. w : y[k] = IF k + d \in 1 .. w THEN x[k + d] ELSE False
    BY <1>1, <1>6
  <2> DEFINE fill == False
  <2>2. fill \in Values(n) /\ ~Says(val, fill) /\ \A k \in 1 .. w : y[k] = IF k + d \in 1 .. w THEN x[k + d] ELSE fill
    BY <1>4, <2>1
  <2> HIDE DEF fill
  <2>3. B = Halves(A, d)
    BY <1>1, <2>2, RightMeans
  <2> HIDE DEF A, B
  <2> QED
    BY <1>1, <1>3, <1>6, <2>3, MovedIs DEF A, B, y
<1>7. CASE operation = "ShiftRightArithmetic"
  <2>1. \A k \in 1 .. w : y[k] = IF k + d \in 1 .. w THEN x[k + d] ELSE x[w]
    BY <1>1, <1>7
  <2>2. B = Wrap(Halves(SignedOf(A, w), d), w)
    <3>1. CASE Says(val, x[w])
      BY <1>1, <2>1, <3>1, RightSignedMeans
    <3>2. CASE ~Says(val, x[w])
      <4> DEFINE fill == x[w]
      <4>1. fill \in Values(n) /\ ~Says(val, fill) /\ \A k \in 1 .. w : y[k] = IF k + d \in 1 .. w THEN x[k + d] ELSE fill
        <5>1. w \in 1 .. w
          OBVIOUS
        <5> QED
          BY <2>1, <3>2, <5>1, WordShape
      <4> HIDE DEF fill
      <4>2. B = Halves(A, d)
        BY <1>1, <4>1, RightMeans
      <4>3. SignedOf(A, w) = A
        <5>1. ~(2 * A >= Pow2[w])
          BY <3>2, TopBit
        <5> QED
          BY <5>1 DEF SignedOf
      <4> HIDE DEF A, B
      <4> QED
        BY <1>3, <4>2, <4>3
    <3> QED
      BY <3>1, <3>2
  <2> HIDE DEF A, B
  <2> QED
    BY <1>1, <1>7, <2>2, MovedIs DEF A, B, y
<1> QED
  BY <1>5, <1>6, <1>7 DEF Shifts

(* Two shifts are one by the sum of their distances.                        *)
LEMMA MovedOn ==
  ASSUME NEW w \in Nat, w > 0, NEW n \in 0 .. Pow2[w] - 1, NEW operation \in Shifts,
         NEW i \in Nat, NEW j \in Nat, NEW e \in Nat, e = i + j
  PROVE  Moved(operation, Moved(operation, n, i, w), j, w) = Moved(operation, n, e, w)
<1>0. n \in Int /\ n \in Nat /\ Pow2[w] \in Nat /\ Pow2[i] \in Int /\ Pow2[j] \in Int
  BY Powers
<1>1. CASE operation = "ShiftLeft"
  <2> DEFINE x == n * Pow2[i]
             u == Pow2[j]
  <2>1. x \in Int /\ u \in Int
    BY <1>0
  <2>2. x * u = n * Pow2[e]
    <3>1. Pow2[e] = Pow2[i] * Pow2[j]
      BY PowersAdd
    <3> QED
      BY <1>0, <3>1
  <2> HIDE DEF x, u
  <2>3. Wrap(Wrap(x, w) * u, w) = Wrap(x * u, w)
    BY <2>1, WrapProduct
  <2>4. Moved(operation, n, i, w) = Wrap(x, w)
    BY <1>1, MovedIs DEF x
  <2>5. Moved(operation, Wrap(x, w), j, w) = Wrap(Wrap(x, w) * u, w)
    BY <1>1, MovedIs DEF u
  <2>6. Moved(operation, n, e, w) = Wrap(n * Pow2[e], w)
    BY <1>1, MovedIs
  <2> QED
    BY <2>2, <2>3, <2>4, <2>5, <2>6
<1>2. CASE operation = "ShiftRight"
  <2> DEFINE q == Halves(n, i)
  <2>1. q \in Int /\ HalvesTo(n, i, q)
    BY <1>0, HalvesIs
  <2>2. Halves(q, j) = Halves(n, e)
    BY <1>0, HalvesTwice
  <2> HIDE DEF q
  <2>3. q \in 0 .. Pow2[w] - 1
    <3> DEFINE P == Pow2[i]
    <3>1. PICK r \in 0 .. P - 1 : n = (P * q) + r
      BY <2>1 DEF HalvesTo
    <3>2. P \in Nat /\ P >= 1
      BY Powers
    <3> HIDE DEF P
    <3>3. q >= 0
      <4> SUFFICES ASSUME q < 0 PROVE FALSE
        BY <2>1
      <4> DEFINE m == -(q + 1)
                 x == P * m
      <4>1. m \in Nat /\ q = -(m + 1)
        BY <2>1
      <4>2. P * q = -x - P /\ x \in Nat
        BY <3>2, <4>1
      <4> HIDE DEF m, x
      <4> QED
        BY <1>0, <3>1, <3>2, <4>2
    <3>4. q <= n
      <4> DEFINE x == (P - 1) * q
      <4>1. x \in Nat /\ P * q = x + q
        BY <2>1, <3>2, <3>3
      <4> HIDE DEF x
      <4> QED
        BY <2>1, <3>1, <3>2, <4>1
    <3> QED
      BY <1>0, <2>1, <3>3, <3>4
  <2>4. Wrap(q, w) = q
    BY <2>3, WrapSmall
  <2>5. Moved(operation, n, i, w) = Wrap(q, w)
    BY <1>2, MovedIs DEF q
  <2>6. Moved(operation, q, j, w) = Wrap(Halves(q, j), w)
    BY <1>2, MovedIs
  <2>7. Moved(operation, n, e, w) = Wrap(Halves(n, e), w)
    BY <1>2, MovedIs
  <2> QED
    BY <2>2, <2>4, <2>5, <2>6, <2>7
<1>3. CASE operation = "ShiftRightArithmetic"
  <2> DEFINE s == SignedOf(n, w)
             q == Halves(s, i)
             h == Pow2[w - 1]
  <2>1. InSigned(s, h) /\ s \in Int
    BY SignedBounds DEF InSigned
  <2>2. h \in Nat
    <3>1. w - 1 \in Nat
      OBVIOUS
    <3> QED
      BY <3>1, Powers
  <2>3. Halves(q, j) = Halves(s, e)
    <3> HIDE DEF s
    <3> QED
      BY <2>1, HalvesTwice
  <2> HIDE DEF s
  <2>4. SignedOf(Wrap(q, w), w) = q
    <3> HIDE DEF h
    <3>1. InSigned(q, h)
      BY <2>1, <2>2, HalvesInSigned
    <3> HIDE DEF q
    <3> QED
      BY <3>1, SignedOfWrap DEF h
  <2> HIDE DEF q
  <2>5. Moved(operation, n, i, w) = Wrap(q, w)
    BY <1>3, MovedIs DEF q, s
  <2>6. Moved(operation, Wrap(q, w), j, w) = Wrap(Halves(SignedOf(Wrap(q, w), w), j), w)
    BY <1>3, MovedIs
  <2>7. Moved(operation, n, e, w) = Wrap(Halves(s, e), w)
    BY <1>3, MovedIs DEF s
  <2> QED
    BY <2>3, <2>4, <2>5, <2>6, <2>7
<1> QED
  BY <1>1, <1>2, <1>3 DEF Shifts

LEMMA MovedNowhere ==
  ASSUME NEW w \in Nat, w > 0, NEW n \in 0 .. Pow2[w] - 1, NEW operation \in Shifts
  PROVE  Moved(operation, n, 0, w) = n
<1>0. n \in Nat /\ Pow2[0] = 1 /\ Wrap(n, w) = n
  BY Powers, WrapSmall
<1>1. ASSUME NEW m \in Int PROVE Halves(m, 0) = m
  <2> DEFINE d == 0
  <2>1. \E r \in 0 .. Pow2[d] - 1 : m = (Pow2[d] * m) + r
    <3>1. 0 \in 0 .. 1 - 1 /\ m = (1 * m) + 0
      OBVIOUS
    <3> QED
      BY <1>0, <3>1
  <2>2. HalvesTo(m, d, m) /\ d \in Nat /\ d = 0
    BY <2>1 DEF HalvesTo
  <2> HIDE DEF d
  <2>3. Halves(m, d) = m
    BY <2>2, HalvesIsOnly
  <2> QED
    BY <2>2, <2>3
<1>2. CASE operation = "ShiftLeft"
  <2>1. n * Pow2[0] = n
    BY <1>0
  <2> QED
    BY <1>0, <1>2, <2>1, MovedIs
<1>3. CASE operation = "ShiftRight"
  <2>1. Halves(n, 0) = n
    BY <1>0, <1>1
  <2> QED
    BY <1>0, <1>3, <2>1, MovedIs
<1>4. CASE operation = "ShiftRightArithmetic"
  <2> DEFINE s == SignedOf(n, w)
  <2>1. s \in Int /\ \E q \in Int : n = s + (Pow2[w] * q)
    BY SignedParts
  <2> HIDE DEF s
  <2>2. Halves(s, 0) = s
    BY <1>1, <2>1
  <2>3. Wrap(n, w) = Wrap(s, w)
    BY <1>0, <2>1, WrapSame
  <2>4. Moved("ShiftRightArithmetic", n, 0, w) = Wrap(Halves(s, 0), w)
    BY MovedIs DEF s
  <2> QED
    BY <1>0, <1>4, <2>2, <2>3, <2>4
<1> QED
  BY <1>2, <1>3, <1>4 DEF Shifts

(* The shifter doubles the distance from stage to stage, up to the width.   *)
Turns == [ds : Vectors, out : Seq(Signals), turn : Int]
LEMMA TwiceType == \A turn, w \in Int : Twice(turn, w) \in Int
  BY DEF Twice

(* The staged shifter computes the shift by the whole amount, also by amounts*)
(* that exceed the width.                                                   *)
THEOREM ShifterBuilds ==
  ASSUME NEW val \in [Nat -> BOOLEAN], NEW ds \in Vectors, NEW w \in Nat, w > 0,
         NEW a \in Words(w, Len(ds)), NEW u \in Nat, NEW amount \in Words(u, Len(ds)), NEW operation \in Shifts
  PROVE  BuildsNumber(val, ds, Shifter(ds, a, amount, operation), w,
                      Moved(operation, Low(val, a, w), Low(val, amount, u), w))
<1> DEFINE A == Low(val, a, w)
           means(k) == Moved(operation, A, Low(val, amount, k), w)
           stage(s, k) == Mux(s.ds, s.out, Shifted(s.out, Pow2[k - 1], operation), amount[k])
           step(s, k) == [ds |-> stage(s, k).ds, out |-> stage(s, k).out, turn |-> Twice(s.turn, w)]
           base == [ds |-> ds, out |-> a, turn |-> 1 % w]
           part(s) == Built(s.ds, s.out)
           V == [k \in 0 .. u |-> {s \in Turns : BuildsNumber(val, ds, part(s), w, means(k))}]
<1>0. /\ Len(ds) \in Nat /\ Len(a) = w /\ Len(amount) = u /\ Follows(val, ds, ds) /\ A \in 0 .. Pow2[w] - 1
      /\ a \in Seq(Signals) /\ \A k \in 1 .. u : amount[k] \in Values(Len(ds))
  <2>1. Len(ds) \in Nat
    BY VectorLength
  <2> QED
    BY <2>1, WordShape, FollowsItself, LowType
<1>1. base \in V[0]
  <2>1. means(0) = A
    <3>1. Low(val, amount, 0) = 0
      BY LowNone
    <3> HIDE DEF A
    <3>2. Moved(operation, A, 0, w) = A
      BY <1>0, MovedNowhere
    <3> QED
      BY <3>1, <3>2
  <2>2. base \in Turns
    BY <1>0 DEF Turns
  <2>3. part(base) = [ds |-> ds, out |-> a]
    BY DEF Built
  <2>4. BuildsNumber(val, ds, part(base), w, A)
    BY <1>0, <2>3 DEF BuildsNumber, Builds
  <2> HIDE DEF base, means, A, part
  <2>5. BuildsNumber(val, ds, part(base), w, means(0))
    BY <2>1, <2>4
  <2> QED
    BY <2>2, <2>5
<1>2. ASSUME NEW k \in 1 .. u, NEW s \in V[k - 1] PROVE step(s, k) \in V[k]
  <2> DEFINE j == k - 1
             d == Pow2[j]
             x == s.out
             y == Shifted(x, d, operation)
             b == amount[k]
             g == Mux(s.ds, x, y, b)
             t == [ds |-> g.ds, out |-> g.out, turn |-> Twice(s.turn, w)]
  <2>1. j \in 0 .. u /\ j \in Nat /\ k \in 0 .. u /\ d \in Nat
    <3>1. j \in 0 .. u /\ j \in Nat /\ k \in 0 .. u
      OBVIOUS
    <3> HIDE DEF j
    <3> QED
      BY <3>1, Powers
  <2>2. s \in Turns /\ BuildsNumber(val, ds, part(s), w, means(j))
    BY <2>1
  <2>3. t = step(s, k)
    OBVIOUS
  <2> HIDE DEF V, base, step
  <2> DEFINE m == means(j)
             n == Len(s.ds)
  <2>4. /\ s.ds \in Vectors /\ n \in Nat /\ x \in Words(w, n) /\ Follows(val, ds, s.ds) /\ s.turn \in Int
        /\ b \in Values(n) /\ (Respects(val, s.ds) => Low(val, x, w) = m)
    <3>1. part(s).ds = s.ds /\ part(s).out = x
      BY DEF Built
    <3> DEFINE p == part(s)
    <3> HIDE DEF m, p
    <3>2. BuildsNumber(val, ds, p, w, m)
      BY <2>2 DEF m, p
    <3>3. /\ p.ds \in Vectors /\ Len(p.ds) \in Nat /\ p.out \in Words(w, Len(p.ds)) /\ Follows(val, ds, p.ds)
          /\ Respects(val, p.ds) => Low(val, p.out, w) = m
          /\ Values(Len(ds)) \subseteq Values(Len(p.ds))
      BY <3>2, NumberBuilt
    <3>4. b \in Values(Len(ds))
      BY <1>0
    <3> HIDE DEF x
    <3> QED
      BY <2>2, <3>1, <3>3, <3>4 DEF p, Turns
  <2> HIDE DEF x, n, part, b
  <2>5. y \in Words(w, n) /\ Low(val, y, w) = Moved(operation, Low(val, x, w), d, w)
    <3> HIDE DEF d
    <3> QED
      BY <2>1, <2>4, ShiftedMeans
  <2> HIDE DEF y
  <2> DEFINE o == IF Says(val, b) THEN Low(val, y, w) ELSE Low(val, x, w)
             q == means(k)
  <2>6. BuildsNumber(val, s.ds, g, w, o)
    BY <2>4, <2>5, MuxBuildsNumber DEF n
  <2>7. Respects(val, s.ds) => o = q
    <3> SUFFICES ASSUME Respects(val, s.ds) PROVE o = q
      OBVIOUS
    <3> DEFINE i == Low(val, amount, j)
               e == Low(val, amount, k)
    <3>1. i \in Nat /\ e \in Nat
      <4> HIDE DEF j
      <4> QED
        BY <2>1, LowType
    <3>2. \A l \in 1 .. u : Low(val, amount, l) = Low(val, amount, l - 1) + (Truth(Says(val, amount[l])) * Pow2[l - 1])
      BY <1>0, LowGrows
    <3>3. e = i + (Truth(Says(val, b)) * d)
      BY <3>2 DEF b
    <3>4. Low(val, x, w) = Moved(operation, A, i, w)
      BY <2>4
    <3> HIDE DEF i, e, d, A
    <3>5. CASE Says(val, b)
      <4>1. e = i + d
        BY <2>1, <3>1, <3>3, <3>5 DEF Truth
      <4>2. Moved(operation, Moved(operation, A, i, w), d, w) = Moved(operation, A, e, w)
        BY <1>0, <2>1, <3>1, <4>1, MovedOn
      <4> QED
        BY <2>5, <3>4, <3>5, <4>2 DEF e
    <3>6. CASE ~Says(val, b)
      <4>1. e = i
        BY <2>1, <3>1, <3>3, <3>6 DEF Truth
      <4> QED
        BY <3>4, <3>6, <4>1 DEF e
    <3> QED
      BY <3>5, <3>6
  <2> HIDE DEF g, o, q
  <2>8. BuildsNumber(val, ds, g, w, q)
    BY <2>4, <2>6, <2>7, NumberAfter
  <2>9. g \in Builds /\ g.ds \in Vectors /\ g.out \in Words(w, Len(g.ds)) /\ Twice(s.turn, w) \in Int
    <3>1. g \in Builds
      BY <2>8 DEF BuildsNumber, Builds
    <3>2. g.ds \in Vectors /\ g.out \in Words(w, Len(g.ds))
      BY <2>8, NumberBuilt
    <3> DEFINE turn == s.turn
    <3>3. turn \in Int
      BY <2>4
    <3> HIDE DEF turn
    <3>4. Twice(turn, w) \in Int
      BY <3>3, TwiceType
    <3> QED
      BY <3>1, <3>2, <3>4 DEF turn
  <2>10. t \in Turns
    BY <2>9 DEF Turns, Builds
  <2>11. part(t) \in Builds /\ part(t).ds = g.ds /\ part(t).out = g.out
    BY <2>9 DEF part, Built, Builds
  <2> DEFINE pt == part(t)
  <2>12. BuildsNumber(val, ds, pt, w, q)
    <3> HIDE DEF t, pt
    <3> QED
      BY <2>8, <2>11 DEF BuildsNumber, pt
  <2> HIDE DEF t, means
  <2> QED
    BY <2>1, <2>3, <2>10, <2>12 DEF V, q
<1> HIDE DEF means
<1> DEFINE Rec(f) == [k \in 0 .. u |-> IF k = 0 THEN base ELSE step(f[k - 1], k)]
       F == [y \in Turns \X (1 .. u) |-> step(y[1], y[2])]
       after == CHOOSE f : f = Rec(f)
<1>a1. \A k \in 1 .. u : \A s \in V[k - 1] : F[<<s, k>>] = step(s, k) /\ F[<<s, k>>] \in V[k]
  <2> SUFFICES ASSUME NEW k \in 1 .. u, NEW s \in V[k - 1] PROVE F[<<s, k>>] = step(s, k)
    <3> HIDE DEF V, step, F
    <3> QED
      BY <1>2
  <2>1. k - 1 \in 0 .. u
    OBVIOUS
  <2>2. s \in Turns
    BY <2>1
  <2> HIDE DEF V, step
  <2> QED
    BY <2>2
<1>a2. PICK run : Runs(u, V, base, F, run)
  <2> HIDE DEF V, step, F, base
  <2> QED
    BY <1>1, <1>a1, LoopRuns
<1>a3. run = Rec(run)
  <2> SUFFICES ASSUME NEW k \in 0 .. u PROVE run[k] = IF k = 0 THEN base ELSE step(run[k - 1], k)
    <3> HIDE DEF V, step, F, base
    <3> QED
      BY <1>a2 DEF Runs
  <2>1. CASE k = 0
    <3> HIDE DEF V, step, F, base
    <3> QED
      BY <2>1, <1>a2 DEF Runs
  <2>2. CASE k # 0
    <3>1. k \in 1 .. u /\ k - 1 \in 0 .. u
      BY <2>2
    <3> HIDE DEF V, step, F, base
    <3> QED
      BY <2>2, <3>1, <1>a1, <1>a2 DEF Runs
  <2> QED
    BY <2>1, <2>2
<1>a4. after = Rec(after)
  <2> HIDE DEF Rec
  <2> QED
    BY <1>a3
<1>a5. after[0] = base /\ \A k \in 1 .. u : after[k] = step(after[k - 1], k)
  <2> HIDE DEF step, base, after, V, F
  <2>1. \A k \in 0 .. u : after[k] = IF k = 0 THEN base ELSE step(after[k - 1], k)
    BY <1>a4
  <2>2. 0 \in 0 .. u /\ \A k \in 1 .. u : k \in 0 .. u /\ k # 0
    OBVIOUS
  <2> HIDE DEF Rec
  <2> QED
    BY <2>1, <2>2
<1>a6. \A k \in 0 .. u : after[k] \in V[k]
  <2> HIDE DEF V, step, F, base, after, Rec
  <2> QED
    BY <1>1, <1>a1, <1>a5, LoopKeeps, ZenonT(60)
<1> DEFINE t == after[u]
<1>3. Shifter(ds, a, amount, operation) = part(t)
  <2>1. operation \notin {"RotateLeft", "RotateRight"}
    BY DEF Shifts
  <2> QED
    BY <1>0, <2>1 DEF Shifter, EachBit, Then, Built
<1>4. BuildsNumber(val, ds, part(t), w, means(u))
  <2> HIDE DEF after, part
  <2> QED
    BY <1>a6
<1> HIDE DEF t, part
<1> QED
  BY <1>3, <1>4 DEF means

(* n turns a circle of w places by r.                                       *)
TurnsBy(n, w, r) == w \in Nat /\ w > 0 /\ n \in Int /\ r \in 0 .. w - 1 /\ \E q \in Int : n = (w * q) + r
LEMMA TurnsByIs ==
  ASSUME NEW n, NEW w, NEW r, TurnsBy(n, w, r) PROVE n % w = r
<1>1. PICK q \in Int : n = (w * q) + r
  BY DEF TurnsBy
<1>2. Divides(n, w, q, r)
  BY <1>1 DEF Divides, TurnsBy
<1>3. Divided(n, w, q, r)
  BY <1>2, DivisionIs
<1> QED
  BY <1>3 DEF Divided

(* Places on the circle add, double and invert.                             *)
Around(s, t, w) == IF s + t >= w THEN s + t - w ELSE s + t
LEMMA TurnsAdd ==
  ASSUME NEW n, NEW m, NEW w, NEW s, NEW t, TurnsBy(n, w, s), TurnsBy(m, w, t)
  PROVE  TurnsBy(n + m, w, Around(s, t, w))
<1>1. PICK q \in Int : n = (w * q) + s
  BY DEF TurnsBy
<1>2. PICK p \in Int : m = (w * p) + t
  BY DEF TurnsBy
<1>3. /\ w \in Nat /\ w > 0 /\ s \in 0 .. w - 1 /\ t \in 0 .. w - 1 /\ n \in Int /\ m \in Int
  BY DEF TurnsBy
<1>4. Around(s, t, w) \in 0 .. w - 1
  BY <1>3 DEF Around
<1>5. \E k \in Int : n + m = (w * k) + Around(s, t, w)
  <2> DEFINE x == w * q
             y == w * p
  <2>1. x \in Int /\ y \in Int /\ w * (q + p) = x + y /\ w * ((q + p) + 1) = (x + y) + w
    BY <1>3
  <2>2. n = x + s /\ m = y + t
    BY <1>1, <1>2
  <2> HIDE DEF x, y
  <2>3. CASE s + t >= w
    <3>1. Around(s, t, w) = s + t - w
      BY <2>3 DEF Around
    <3>2. n + m = ((x + y) + w) + (s + t - w)
      BY <1>3, <2>1, <2>2
    <3> QED
      BY <2>1, <3>1, <3>2
  <2>4. CASE ~(s + t >= w)
    <3>1. Around(s, t, w) = s + t
      BY <2>4 DEF Around
    <3>2. n + m = (x + y) + (s + t)
      BY <1>3, <2>1, <2>2
    <3> QED
      BY <2>1, <3>1, <3>2
  <2> QED
    BY <2>3, <2>4
<1> DEFINE sum == n + m
           around == Around(s, t, w)
<1>6. sum \in Int
  BY <1>3
<1>7. around \in 0 .. w - 1 /\ \E k \in Int : sum = (w * k) + around
  BY <1>4, <1>5
<1> HIDE DEF sum, around
<1>8. TurnsBy(sum, w, around)
  BY <1>3, <1>6, <1>7 DEF TurnsBy
<1> QED
  BY <1>8 DEF sum, around

LEMMA TurnsTwice ==
  ASSUME NEW n, NEW w, NEW s, TurnsBy(n, w, s), NEW m, m = 2 * n
  PROVE  TurnsBy(m, w, Twice(s, w))
<1>1. TurnsBy(n + n, w, Around(s, s, w))
  BY TurnsAdd
<1>2. m = n + n /\ Around(s, s, w) = Twice(s, w)
  BY DEF TurnsBy, Around, Twice
<1> QED
  BY <1>1, <1>2

Against(s, w) == IF s = 0 THEN 0 ELSE w - s
LEMMA TurnsBack ==
  ASSUME NEW n, NEW w, NEW s, TurnsBy(n, w, s) PROVE TurnsBy(-n, w, Against(s, w))
<1>1. PICK q \in Int : n = (w * q) + s
  BY DEF TurnsBy
<1>2. /\ w \in Nat /\ w > 0 /\ s \in 0 .. w - 1 /\ n \in Int
  BY DEF TurnsBy
<1>3. Against(s, w) \in 0 .. w - 1
  BY <1>2 DEF Against
<1>4. \E k \in Int : -n = (w * k) + Against(s, w)
  <2> DEFINE x == w * q
             p == -q
  <2>1. x \in Int /\ p \in Int /\ p - 1 \in Int /\ w * p = -x /\ w * (p - 1) = -x - w
    BY <1>2
  <2>2. n = x + s
    BY <1>1
  <2> HIDE DEF x, p
  <2>3. CASE s = 0
    BY <1>2, <2>1, <2>2, <2>3 DEF Against
  <2>4. CASE s # 0
    <3>1. -n = (-x - w) + Against(s, w)
      BY <1>2, <2>1, <2>2, <2>4 DEF Against
    <3> QED
      BY <2>1, <3>1
  <2> QED
    BY <2>3, <2>4
<1> DEFINE back == -n
           against == Against(s, w)
<1>5. back \in Int
  BY <1>2
<1>6. against \in 0 .. w - 1 /\ \E k \in Int : back = (w * k) + against
  BY <1>3, <1>4
<1> HIDE DEF back, against
<1>7. TurnsBy(back, w, against)
  BY <1>2, <1>5, <1>6 DEF TurnsBy
<1> QED
  BY <1>7 DEF back, against

LEMMA TurnsFirst ==
  ASSUME NEW n \in Nat, NEW w \in Nat, w > 0 PROVE TurnsBy(n, w, n % w)
<1> DEFINE q == n \div w
           r == n % w
<1>1. q \in Int /\ r \in 0 .. w - 1 /\ n = (w * q) + r
  OBVIOUS
<1> HIDE DEF q, r
<1> QED
  BY <1>1 DEF TurnsBy, r

(* The bit that a place of the turned word comes from.                      *)
Source(k, t, w) == IF k > t THEN k - t ELSE (k + w) - t
Rotates(val, x, t, y, w) == \A k \in 1 .. w : Says(val, y[k]) <=> Says(val, x[Source(k, t, w)])
LEMMA SourceIn ==
  ASSUME NEW w \in Nat, NEW t \in 0 .. w, NEW k \in 1 .. w PROVE Source(k, t, w) \in 1 .. w
BY DEF Source

(* A rotation after a rotation; and the number that a rotated word says.    *)
LEMMA RotatesOn ==
  ASSUME NEW val, NEW w \in Nat, NEW s \in 0 .. w - 1, NEW t \in 0 .. w - 1, NEW x, NEW y, NEW z,
         Rotates(val, x, s, y, w), Rotates(val, y, t, z, w)
  PROVE  Rotates(val, x, Around(s, t, w), z, w)
<1> SUFFICES ASSUME NEW k \in 1 .. w
             PROVE  Says(val, z[k]) <=> Says(val, x[Source(k, Around(s, t, w), w)])
  BY DEF Rotates
<1> DEFINE j == Source(k, t, w)
<1>1. j \in 1 .. w
  BY SourceIn
<1>2. Source(j, s, w) = Source(k, Around(s, t, w), w)
  BY DEF Source, Around
<1> HIDE DEF j
<1>3. Says(val, y[j]) <=> Says(val, x[Source(j, s, w)])
  BY <1>1 DEF Rotates
<1>4. Says(val, z[k]) <=> Says(val, y[j])
  BY DEF Rotates, j
<1> QED
  BY <1>2, <1>3, <1>4

LEMMA RotatedMeans ==
  ASSUME NEW val, NEW w \in Nat, NEW n \in Nat, NEW x \in Words(w, n), NEW y \in Words(w, n), NEW t \in 0 .. w - 1,
         Rotates(val, x, t, y, w), NEW amount, TurnsBy(amount, w, t)
  PROVE  Low(val, y, w) = RotatedLeft(Low(val, x, w), amount, w)
<1> DEFINE d == w - t
           z == [k \in 1 .. t |-> x[d + k]]
           N == Low(val, x, w)
           L == Low(val, x, d)
           H == Low(val, z, t)
           P == Pow2[t]
           Q == Pow2[d]
           W == Pow2[w]
<1>1. t \in Nat /\ d \in Nat /\ t <= w /\ d <= w /\ d + t = w /\ t + d = w
  OBVIOUS
<1>2. z \in Words(t, n)
  BY DEF Words
<1>3. N = L + (Q * H)
  <2>1. PartOfWord(val, x, d, z, t, w)
    <3>1. \A k \in 1 .. t : z[k] = x[d + k]
      OBVIOUS
    <3> HIDE DEF d, z
    <3> QED
      BY <1>1, <1>2, <3>1 DEF PartOfWord
  <2> HIDE DEF d, z
  <2>2. SplitsAt(val, x, d, z, t, w)
    BY <2>1, LowSplits
  <2> QED
    BY <2>2 DEF SplitsAt
<1>4. Low(val, y, w) = Low(val, y, t) + (P * L)
  <2>1. \A k \in 1 .. d : Says(val, x[k]) <=> Says(val, y[t + k])
    <3> SUFFICES ASSUME NEW k \in 1 .. d PROVE Says(val, x[k]) <=> Says(val, y[t + k])
      OBVIOUS
    <3> DEFINE i == t + k
    <3>1. i \in 1 .. w /\ Source(i, t, w) = k
      BY DEF Source
    <3> HIDE DEF i
    <3>2. Says(val, y[i]) <=> Says(val, x[k])
      BY <3>1 DEF Rotates
    <3> QED
      BY <3>2 DEF i
  <2> HIDE DEF d
  <2>2. PartOfWord(val, y, t, x, d, w)
    BY <1>1, <2>1 DEF PartOfWord
  <2>3. SplitsAt(val, y, t, x, d, w)
    BY <2>2, LowSplits
  <2> QED
    BY <2>3 DEF SplitsAt
<1>5. Low(val, y, t) = H
  <2>1. \A k \in 1 .. t : Says(val, y[k]) <=> Says(val, z[k])
    <3> SUFFICES ASSUME NEW k \in 1 .. t PROVE Says(val, y[k]) <=> Says(val, z[k])
      OBVIOUS
    <3>1. k \in 1 .. w /\ Source(k, t, w) = d + k
      BY DEF Source
    <3>2. z[k] = x[d + k]
      OBVIOUS
    <3> HIDE DEF d, z
    <3> QED
      BY <3>1, <3>2 DEF Rotates
  <2> HIDE DEF z
  <2>2. Alike(val, y, z, t)
    BY <1>1, <1>2, <2>1 DEF Alike
  <2> QED
    BY <2>2, LowAlike
<1>6. /\ L \in 0 .. Q - 1 /\ H \in 0 .. P - 1 /\ N \in Nat /\ P \in Nat /\ Q \in Nat /\ W \in Nat /\ P >= 1 /\ Q >= 1 /\ W >= 1
  <2> HIDE DEF d, z
  <2> QED
    BY <1>1, LowType, Powers
<1>7. W = P * Q
  <2> HIDE DEF d
  <2>1. Pow2[t + d] = Pow2[t] * Pow2[d]
    BY <1>1, PowersAdd
  <2> QED
    BY <1>1, <2>1
<1>8. N \div Q = H
  <2> HIDE DEF N, L, H, P, Q, W
  <2>1. Divides(N, Q, H, L)
    <3>1. N = (Q * H) + L /\ H \in Int /\ Q > 0 /\ N \in Int
      <4>1. (Q * H) \in Int /\ L \in Int
        BY <1>6
      <4> HIDE DEF d
      <4> QED
        BY <1>3, <1>6, <4>1
    <3> QED
      BY <1>6, <3>1 DEF Divides
  <2>2. Divided(N, Q, H, L)
    BY <2>1, DivisionIs
  <2> QED
    BY <2>2 DEF Divided
<1>9. Wrap(N * P, w) = P * L
  <2> HIDE DEF N, L, H, P, Q, d
  <2> DEFINE m == P * L
             v == N * P
  <2>1. v = (W * H) + m
    <3>1. (Q * H) \in Int /\ L \in Int /\ H \in Int
      BY <1>6
    <3>2. (L + (Q * H)) * P = (P * L) + ((P * Q) * H)
      BY <1>6, <3>1
    <3>3. (P * L) \in Int /\ ((P * Q) * H) \in Int
      BY <1>6, <3>1
    <3> QED
      BY <1>3, <1>7, <3>2, <3>3
  <2>2. m \in 0 .. W - 1 /\ v \in Int
    <3>1. L \in Nat /\ L + 1 <= Q
      BY <1>6
    <3>2. P * L \in Nat /\ P * (L + 1) = (P * L) + P /\ P * (L + 1) <= P * Q
      BY <1>6, <3>1
    <3>3. N * P \in Int
      BY <1>6
    <3> DEFINE a == P * L
               b == P * (L + 1)
               c == P * Q
    <3>4. a \in Nat /\ b = a + P /\ b <= c /\ c = W /\ m = a
      BY <1>7, <3>2
    <3> HIDE DEF a, b, c, m, W
    <3>5. m \in 0 .. W - 1
      BY <1>6, <3>4
    <3> QED
      BY <3>3, <3>5
  <2> HIDE DEF m, v, W
  <2>3. Divides(v, W, H, m)
    <3>1. W > 0 /\ H \in Int
      BY <1>6
    <3> QED
      BY <1>6, <2>1, <2>2, <3>1 DEF Divides
  <2>4. Divided(v, W, H, m)
    BY <2>3, DivisionIs
  <2> QED
    BY <2>4 DEF Divided, Wrap, W, v, m
<1>10. amount % w = t
  BY TurnsByIs
<1>11. RotatedLeft(N, amount, w) = Wrap(N * P, w) + (N \div Q)
  <2> HIDE DEF N
  <2> QED
    BY <1>10 DEF RotatedLeft
<1> DEFINE o == P * L
<1>12. o \in Int /\ H \in Int
  <2>1. P \in Int /\ L \in Int
    BY <1>6
  <2> HIDE DEF P, L
  <2> QED
    BY <2>1, <1>6
<1>13. Low(val, y, w) = H + o /\ RotatedLeft(N, amount, w) = o + H
  BY <1>4, <1>5, <1>8, <1>9, <1>11
<1> HIDE DEF H, o, N
<1> QED
  BY <1>12, <1>13 DEF N

(* To the right is to the left by the negative amount.                      *)
Rotations == {"RotateLeft", "RotateRight"}
Turned(operation, n) == IF operation = "RotateLeft" THEN n ELSE -n
Side(operation, d, w) == IF operation = "RotateLeft" THEN d ELSE Against(d, w)

LEMMA SideTurns ==
  ASSUME NEW operation \in Rotations, NEW n, NEW w, NEW d, TurnsBy(n, w, d)
  PROVE  TurnsBy(Turned(operation, n), w, Side(operation, d, w))
<1>1. CASE operation = "RotateLeft"
  BY <1>1 DEF Turned, Side
<1>2. CASE operation # "RotateLeft"
  <2>1. TurnsBy(-n, w, Against(d, w))
    BY TurnsBack
  <2> QED
    BY <1>2, <2>1 DEF Turned, Side
<1> QED
  BY <1>1, <1>2

LEMMA ShiftedTurns ==
  ASSUME NEW val, NEW w \in Nat, w > 0, NEW n \in Nat, NEW x \in Words(w, n), NEW d \in 0 .. w - 1,
         NEW operation \in Rotations
  PROVE  /\ Shifted(x, d, operation) \in Words(w, n)
         /\ Rotates(val, x, Side(operation, d, w), Shifted(x, d, operation), w)
<1> DEFINE y == Shifted(x, d, operation)
           side == Side(operation, d, w)
<1>0. Len(x) = w /\ \A k \in 1 .. w : x[k] \in Values(n)
  BY WordShape
<1>1. side \in 0 .. w - 1
  BY DEF Side, Against
<1>2. y \in [1 .. w -> Values(n)] /\ \A k \in 1 .. w : y[k] = x[Source(k, side, w)]
  <2>1. ASSUME NEW k \in 1 .. w
        PROVE  /\ (k - 1 + w - d) % w = (IF k > d THEN k - 1 - d ELSE k - 1 + w - d)
               /\ (k - 1 + d) % w = (IF k + d <= w THEN k - 1 + d ELSE k - 1 + d - w)
    <3> DEFINE i == k - 1 + w - d
               j == k - 1 + d
               l == IF k > d THEN k - 1 - d ELSE k - 1 + w - d
               r == IF k + d <= w THEN k - 1 + d ELSE k - 1 + d - w
    <3>1. i \in Int /\ j \in Int /\ l \in 0 .. w - 1 /\ r \in 0 .. w - 1
      OBVIOUS
    <3>2. \E q \in Int : i = (w * q) + l
      <4>1. w * 0 = 0 /\ w * 1 = w
        OBVIOUS
      <4>2. CASE k > d
        <5>1. i = (w * 1) + l
          BY <4>1, <4>2
        <5> HIDE DEF i, j, l, r
        <5> QED
          BY <5>1
      <4>3. CASE ~(k > d)
        <5>1. i = (w * 0) + l
          BY <4>1, <4>3
        <5> HIDE DEF i, j, l, r
        <5> QED
          BY <5>1
      <4> QED
        BY <4>2, <4>3
    <3>3. \E q \in Int : j = (w * q) + r
      <4>1. w * 0 = 0 /\ w * 1 = w
        OBVIOUS
      <4>2. CASE ~(k + d <= w)
        <5>1. j = (w * 1) + r
          BY <4>1, <4>2
        <5> HIDE DEF i, j, l, r
        <5> QED
          BY <5>1
      <4>3. CASE k + d <= w
        <5>1. j = (w * 0) + r
          BY <4>1, <4>3
        <5> HIDE DEF i, j, l, r
        <5> QED
          BY <5>1
      <4> QED
        BY <4>2, <4>3
    <3> HIDE DEF i, j, l, r
    <3>4. TurnsBy(i, w, l) /\ TurnsBy(j, w, r)
      BY <3>1, <3>2, <3>3 DEF TurnsBy
    <3>5. i % w = l /\ j % w = r
      BY <3>4, TurnsByIs
    <3> QED
      BY <3>5 DEF i, j, l, r
  <2>2. CASE operation = "RotateLeft"
    <3>1. y = [k \in 1 .. w |-> x[((k - 1 + w - d) % w) + 1]]
      BY <1>0, <2>2 DEF Shifted
    <3>2. side = d
      BY <2>2 DEF Side
    <3> HIDE DEF y, side
    <3>3. ASSUME NEW k \in 1 .. w PROVE ((k - 1 + w - d) % w) + 1 = Source(k, d, w)
      <4>1. (k - 1 + w - d) % w = (IF k > d THEN k - 1 - d ELSE k - 1 + w - d)
        BY <2>1
      <4> DEFINE i == (k - 1 + w - d) % w
      <4> HIDE DEF i
      <4>2. i = (IF k > d THEN k - 1 - d ELSE k - 1 + w - d)
        BY <4>1 DEF i
      <4>3. i + 1 = Source(k, d, w)
        BY <4>2 DEF Source
      <4> QED
        BY <4>3 DEF i
    <3>4. \A k \in 1 .. w : y[k] = x[Source(k, d, w)]
      BY <3>1, <3>3
    <3>5. ASSUME NEW k \in 1 .. w PROVE x[Source(k, d, w)] \in Values(n)
      <4>1. d \in 0 .. w
        OBVIOUS
      <4>2. Source(k, d, w) \in 1 .. w
        BY <4>1, SourceIn
      <4> QED
        BY <1>0, <4>2
    <3> QED
      BY <3>1, <3>2, <3>4, <3>5
  <2>3. CASE operation = "RotateRight"
    <3>1. y = [k \in 1 .. w |-> x[((k - 1 + d) % w) + 1]]
      BY <1>0, <2>3 DEF Shifted
    <3>2. side = Against(d, w)
      BY <2>3 DEF Side
    <3> HIDE DEF y, side
    <3>3. ASSUME NEW k \in 1 .. w PROVE ((k - 1 + d) % w) + 1 = Source(k, side, w)
      <4>1. (k - 1 + d) % w = (IF k + d <= w THEN k - 1 + d ELSE k - 1 + d - w)
        BY <2>1
      <4> DEFINE i == (k - 1 + d) % w
      <4> HIDE DEF i
      <4>2. i = (IF k + d <= w THEN k - 1 + d ELSE k - 1 + d - w)
        BY <4>1 DEF i
      <4>3. i + 1 = Source(k, side, w)
        BY <3>2, <4>2 DEF Source, Against
      <4> QED
        BY <4>3 DEF i
    <3>4. \A k \in 1 .. w : y[k] = x[Source(k, side, w)]
      BY <3>1, <3>3
    <3>5. ASSUME NEW k \in 1 .. w PROVE x[Source(k, side, w)] \in Values(n)
      <4>1. side \in 0 .. w
        BY <1>1
      <4>2. Source(k, side, w) \in 1 .. w
        BY <4>1, SourceIn
      <4> QED
        BY <1>0, <4>2
    <3> QED
      BY <3>1, <3>4, <3>5
  <2> QED
    BY <2>2, <2>3 DEF Rotations
<1> HIDE DEF y, side
<1> QED
  BY <1>2 DEF Words, Rotates, y, side

(* One stage of a rotation.                                                 *)
BuildsTurn(val, ds, s, a, w, operation, n) ==
  /\ Follows(val, ds, s.ds)
  /\ s.out \in Words(w, Len(s.ds))
  /\ Respects(val, s.ds) => \E t \in 0 .. w - 1 : /\ TurnsBy(Turned(operation, n), w, t)
                                                  /\ Rotates(val, a, t, s.out, w)
TurnStep(s, bit, operation, w) ==
  LET stage == Mux(s.ds, s.out, Shifted(s.out, s.turn, operation), bit)
  IN [ds |-> stage.ds, out |-> stage.out, turn |-> Twice(s.turn, w)]

LEMMA TurnBuilds ==
  ASSUME NEW val \in [Nat -> BOOLEAN], NEW ds \in Vectors, NEW w \in Nat, w > 0, NEW a,
         NEW operation \in Rotations, NEW s \in Turns, NEW n \in Nat, BuildsTurn(val, ds, s, a, w, operation, n),
         NEW p \in Nat, TurnsBy(p, w, s.turn), NEW bit \in Values(Len(ds)),
         NEW m \in Nat, Says(val, bit) => m = n + p, ~Says(val, bit) => m = n
  PROVE  /\ TurnStep(s, bit, operation, w) \in Turns
         /\ BuildsTurn(val, ds, TurnStep(s, bit, operation, w), a, w, operation, m)
<1> DEFINE x == s.out
           e == s.ds
           l == Len(e)
           turn == s.turn
           y == Shifted(x, turn, operation)
           g == Mux(e, x, y, bit)
           t == [ds |-> g.ds, out |-> g.out, turn |-> Twice(turn, w)]
<1>0. t = TurnStep(s, bit, operation, w)
  BY DEF TurnStep
<1>1. /\ e \in Vectors /\ l \in Nat /\ x \in Words(w, l) /\ Follows(val, ds, e) /\ turn \in 0 .. w - 1 /\ turn \in Int
      /\ bit \in Values(l) /\ Says(val, bit) \in BOOLEAN
  <2>1. e \in Vectors /\ turn \in 0 .. w - 1
    BY DEF Turns, TurnsBy
  <2>2. l \in Nat /\ bit \in Values(l) /\ x \in Words(w, l)
    BY <2>1, VectorLength DEF BuildsTurn, Follows
  <2>3. Follows(val, ds, e)
    BY DEF BuildsTurn
  <2> HIDE DEF e, turn, l, x
  <2> QED
    BY <2>1, <2>2, <2>3, SaysInverse
<1>2. Respects(val, e) => \E i \in 0 .. w - 1 : TurnsBy(Turned(operation, n), w, i) /\ Rotates(val, a, i, x, w)
  BY DEF BuildsTurn
<1>3. TurnsBy(p, w, turn)
  OBVIOUS
<1> HIDE DEF x, turn, e
<1>4. y \in Words(w, l) /\ Rotates(val, x, Side(operation, turn, w), y, w)
  <2> HIDE DEF l
  <2> QED
    BY <1>1, ShiftedTurns
<1> HIDE DEF y
<1> DEFINE z == [k \in 1 .. w |-> IF Says(val, bit) THEN Says(val, y[k]) ELSE Says(val, x[k])]
<1>5. g \in Builds /\ BuildsBits(val, e, g, w, z)
  BY <1>1, <1>4, MuxBuildsWord
<1>6. Twice(turn, w) \in Int
  BY <1>1, TwiceType
<1>7. t \in Turns
  BY <1>5, <1>6 DEF Builds, Turns
<1> HIDE DEF g, l
<1>8. Follows(val, e, g.ds) /\ Follows(val, ds, g.ds) /\ g.out \in Words(w, Len(g.ds))
  <2>1. Follows(val, e, g.ds) /\ g.out \in Words(w, Len(g.ds))
    BY <1>5 DEF BuildsBits
  <2> QED
    BY <1>1, <2>1, FollowsOn
<1> DEFINE out == g.out
<1>9. Respects(val, g.ds) => \E i \in 0 .. w - 1 : TurnsBy(Turned(operation, m), w, i) /\ Rotates(val, a, i, out, w)
  <2> SUFFICES ASSUME Respects(val, g.ds)
               PROVE  \E i \in 0 .. w - 1 : TurnsBy(Turned(operation, m), w, i) /\ Rotates(val, a, i, out, w)
    OBVIOUS
  <2>1. Respects(val, e)
    BY <1>8 DEF Follows
  <2>2. \A k \in 1 .. w : Says(val, out[k]) <=> z[k]
    BY <1>5 DEF BuildsBits
  <2>3. PICK i \in 0 .. w - 1 : TurnsBy(Turned(operation, n), w, i) /\ Rotates(val, a, i, x, w)
    BY <1>2, <2>1
  <2> HIDE DEF out
  <2>4. CASE ~Says(val, bit)
    <3>1. Rotates(val, a, i, out, w)
      BY <2>2, <2>3, <2>4 DEF Rotates
    <3> QED
      BY <2>3, <2>4, <3>1
  <2>5. CASE Says(val, bit)
    <3> DEFINE j == Side(operation, turn, w)
               around == Around(i, j, w)
               N == Turned(operation, n)
               P == Turned(operation, p)
               M1 == Turned(operation, m)
    <3>1. TurnsBy(P, w, j)
      BY <1>3, SideTurns
    <3>2. M1 = N + P
      BY <2>5 DEF Turned
    <3> HIDE DEF N, P, M1, j
    <3>3. TurnsBy(N + P, w, around)
      BY <2>3, <3>1, TurnsAdd DEF N
    <3>4. around \in 0 .. w - 1
      BY <3>3 DEF TurnsBy
    <3>5. Rotates(val, x, j, y, w)
      BY <1>4 DEF j
    <3>6. j \in 0 .. w - 1
      BY <3>1 DEF TurnsBy
    <3>7. Rotates(val, a, around, y, w)
      BY <2>3, <3>5, <3>6, RotatesOn
    <3> HIDE DEF around
    <3>8. Rotates(val, a, around, out, w)
      BY <2>2, <2>5, <3>7 DEF Rotates
    <3> QED
      BY <3>2, <3>3, <3>4, <3>8 DEF M1
  <2> QED
    BY <2>4, <2>5
<1>10. t.ds = g.ds /\ t.out = out
  OBVIOUS
<1> HIDE DEF t, out
<1>11. BuildsTurn(val, ds, t, a, w, operation, m)
  BY <1>8, <1>9, <1>10 DEF BuildsTurn, out
<1> QED
  BY <1>0, <1>7, <1>11

(* The staged rotation computes the rotation by the amount modulo the width.*)
THEOREM RotationBuilds ==
  ASSUME NEW val \in [Nat -> BOOLEAN], NEW ds \in Vectors, NEW w \in Nat, w > 0,
         NEW a \in Words(w, Len(ds)), NEW u \in Nat, NEW amount \in Words(u, Len(ds)), NEW operation \in Rotations
  PROVE  BuildsNumber(val, ds, Shifter(ds, a, amount, operation), w,
                      RotatedLeft(Low(val, a, w), Turned(operation, Low(val, amount, u)), w))
<1> DEFINE step(s, k) == TurnStep(s, amount[k], operation, w)
           base == [ds |-> ds, out |-> a, turn |-> 1 % w]
           far(k) == Low(val, amount, k)
           V == [k \in 0 .. u |-> {s \in Turns : /\ TurnsBy(Pow2[k], w, s.turn)
                                                 /\ BuildsTurn(val, ds, s, a, w, operation, far(k))}]
<1>0. /\ Len(ds) \in Nat /\ Len(a) = w /\ Len(amount) = u /\ Follows(val, ds, ds)
      /\ a \in Seq(Signals) /\ \A k \in 1 .. u : amount[k] \in Values(Len(ds))
  <2>1. Len(ds) \in Nat
    BY VectorLength
  <2> QED
    BY <2>1, WordShape, FollowsItself
<1>1. base \in V[0]
  <2> DEFINE turn == 1 % w
             zero == 0
  <2>1. Pow2[0] = 1 /\ far(0) = zero
    BY Powers, LowNone
  <2>2. TurnsBy(1, w, turn)
    BY TurnsFirst
  <2>3. turn \in Int
    BY <2>2 DEF TurnsBy
  <2>4. base \in Turns
    BY <1>0, <2>3 DEF Turns
  <2>5. base.ds = ds /\ base.out = a /\ base.turn = turn
    OBVIOUS
  <2>6. TurnsBy(zero, w, 0)
    <3>1. w * 0 = 0 /\ 0 = (w * 0) + 0
      OBVIOUS
    <3> QED
      BY <3>1 DEF TurnsBy
  <2>7. Rotates(val, a, 0, a, w)
    <3>1. \A k \in 1 .. w : Source(k, 0, w) = k
      BY DEF Source
    <3> QED
      BY <3>1 DEF Rotates
  <2> HIDE DEF base, turn
  <2>8. TurnsBy(Turned(operation, zero), w, 0)
    BY <2>6 DEF Turned
  <2> HIDE DEF zero
  <2>9. BuildsTurn(val, ds, base, a, w, operation, zero)
    <3>1. 0 \in 0 .. w - 1
      OBVIOUS
    <3> QED
      BY <1>0, <2>5, <2>7, <2>8, <3>1 DEF BuildsTurn
  <2> HIDE DEF far
  <2> QED
    BY <2>1, <2>2, <2>4, <2>5, <2>9
<1>2. ASSUME NEW k \in 1 .. u, NEW s \in V[k - 1] PROVE step(s, k) \in V[k]
  <2> DEFINE j == k - 1
             bit == amount[k]
             t == TurnStep(s, bit, operation, w)
             p == Pow2[j]
             n == far(j)
             m == far(k)
  <2>1. j \in 0 .. u /\ j \in Nat /\ k \in 0 .. u /\ k = j + 1 /\ k \in Nat
    OBVIOUS
  <2>2. s \in Turns /\ TurnsBy(p, w, s.turn) /\ BuildsTurn(val, ds, s, a, w, operation, n)
    BY <2>1
  <2>3. t = step(s, k)
    OBVIOUS
  <2> HIDE DEF V, base, step
  <2>4. n \in Nat /\ m \in Nat /\ p \in Nat /\ Pow2[k] = 2 * p
    <3> HIDE DEF j
    <3> QED
      BY <2>1, LowType, Powers
  <2>5. (Says(val, bit) => m = n + p) /\ (~Says(val, bit) => m = n)
    <3>1. \A l \in 1 .. u : far(l) = far(l - 1) + (Truth(Says(val, amount[l])) * Pow2[l - 1])
      BY <1>0, LowGrows
    <3> HIDE DEF far
    <3>2. m = n + (Truth(Says(val, bit)) * p)
      BY <3>1
    <3> HIDE DEF m, n, p, bit
    <3> QED
      BY <2>4, <3>2 DEF Truth
  <2>6. bit \in Values(Len(ds))
    BY <1>0
  <2> HIDE DEF bit, n, m
  <2>7. t \in Turns /\ BuildsTurn(val, ds, t, a, w, operation, m)
    <3> HIDE DEF p, t
    <3>1. t \in Turns
      BY <2>2, <2>4, <2>5, <2>6, TurnBuilds DEF t
    <3>2. BuildsTurn(val, ds, t, a, w, operation, m)
      BY <2>2, <2>4, <2>5, <2>6, TurnBuilds DEF t
    <3> QED
      BY <3>1, <3>2
  <2>8. TurnsBy(Pow2[k], w, t.turn)
    <3> DEFINE turn == s.turn
               q == Pow2[k]
    <3>1. t.turn = Twice(turn, w)
      BY DEF TurnStep
    <3>2. TurnsBy(p, w, turn) /\ q = 2 * p
      BY <2>2, <2>4
    <3> HIDE DEF turn, q, p, t
    <3> QED
      BY <3>1, <3>2, TurnsTwice DEF q
  <2> HIDE DEF t, far
  <2> QED
    BY <2>1, <2>3, <2>7, <2>8 DEF V, m
<1> HIDE DEF far
<1> DEFINE Rec(f) == [k \in 0 .. u |-> IF k = 0 THEN base ELSE step(f[k - 1], k)]
       F == [y \in Turns \X (1 .. u) |-> step(y[1], y[2])]
       after == CHOOSE f : f = Rec(f)
<1>a1. \A k \in 1 .. u : \A s \in V[k - 1] : F[<<s, k>>] = step(s, k) /\ F[<<s, k>>] \in V[k]
  <2> SUFFICES ASSUME NEW k \in 1 .. u, NEW s \in V[k - 1] PROVE F[<<s, k>>] = step(s, k)
    <3> HIDE DEF V, step, F
    <3> QED
      BY <1>2
  <2>1. k - 1 \in 0 .. u
    OBVIOUS
  <2>2. s \in Turns
    BY <2>1
  <2> HIDE DEF V, step
  <2> QED
    BY <2>2
<1>a2. PICK run : Runs(u, V, base, F, run)
  <2> HIDE DEF V, step, F, base
  <2> QED
    BY <1>1, <1>a1, LoopRuns
<1>a3. run = Rec(run)
  <2> SUFFICES ASSUME NEW k \in 0 .. u PROVE run[k] = IF k = 0 THEN base ELSE step(run[k - 1], k)
    <3> HIDE DEF V, step, F, base
    <3> QED
      BY <1>a2 DEF Runs
  <2>1. CASE k = 0
    <3> HIDE DEF V, step, F, base
    <3> QED
      BY <2>1, <1>a2 DEF Runs
  <2>2. CASE k # 0
    <3>1. k \in 1 .. u /\ k - 1 \in 0 .. u
      BY <2>2
    <3> HIDE DEF V, step, F, base
    <3> QED
      BY <2>2, <3>1, <1>a1, <1>a2 DEF Runs
  <2> QED
    BY <2>1, <2>2
<1>a4. after = Rec(after)
  <2> HIDE DEF Rec
  <2> QED
    BY <1>a3
<1>a5. after[0] = base /\ \A k \in 1 .. u : after[k] = step(after[k - 1], k)
  <2> HIDE DEF step, base, after, V, F
  <2>1. \A k \in 0 .. u : after[k] = IF k = 0 THEN base ELSE step(after[k - 1], k)
    BY <1>a4
  <2>2. 0 \in 0 .. u /\ \A k \in 1 .. u : k \in 0 .. u /\ k # 0
    OBVIOUS
  <2> HIDE DEF Rec
  <2> QED
    BY <2>1, <2>2
<1>a6. \A k \in 0 .. u : after[k] \in V[k]
  <2> HIDE DEF V, step, F, base, after, Rec
  <2> QED
    BY <1>1, <1>a1, <1>a5, LoopKeeps, ZenonT(60)
<1> DEFINE t == after[u]
<1>3. Shifter(ds, a, amount, operation) = Built(t.ds, t.out)
  <2>1. operation \in {"RotateLeft", "RotateRight"}
    BY DEF Rotations
  <2> QED
    BY <1>0, <2>1, SMTT(30) DEF Shifter, EachBit, Then, TurnStep
<1>4. t \in Turns /\ BuildsTurn(val, ds, t, a, w, operation, far(u))
  <2> HIDE DEF after
  <2> QED
    BY <1>a6
<1> HIDE DEF t
<1> DEFINE g == Built(t.ds, t.out)
           x == t.out
           n == RotatedLeft(Low(val, a, w), Turned(operation, far(u)), w)
<1>5. g.ds = t.ds /\ g.out = x /\ g \in Builds
  BY <1>4 DEF Built, Builds, Turns
<1> HIDE DEF g
<1>6. Follows(val, ds, t.ds) /\ x \in Words(w, Len(t.ds)) /\ t.ds \in Vectors
  BY <1>4 DEF BuildsTurn, Turns
<1>7. Respects(val, t.ds) => Low(val, x, w) = n
  <2> SUFFICES ASSUME Respects(val, t.ds) PROVE Low(val, x, w) = n
    OBVIOUS
  <2> DEFINE far1 == Turned(operation, far(u))
             l == Len(t.ds)
  <2>1. PICK i \in 0 .. w - 1 : TurnsBy(far1, w, i) /\ Rotates(val, a, i, x, w)
    BY <1>4 DEF BuildsTurn
  <2>2. l \in Nat /\ a \in Words(w, l) /\ x \in Words(w, l)
    BY <1>6, VectorLength, WordsGrow
  <2> HIDE DEF x, l, far1
  <2> QED
    BY <2>1, <2>2, RotatedMeans DEF far1
<1> HIDE DEF x, n
<1>8. BuildsNumber(val, ds, g, w, n)
  BY <1>5, <1>6, <1>7 DEF BuildsNumber
<1> QED
  BY <1>3, <1>8 DEF g, n, far

(* One level of a tree of muxes: of each pair, the one that select picks.   *)
HalvedBy(ds, level, select) == Halved(ds, level, LAMBDA d, a, b : MuxGate(d, a, b, select))
Doubles(w, m) == m = 2 * w
HalvedSays(val, level, select, w) ==
  [k \in 1 .. w |-> IF Says(val, select) THEN Says(val, level[2 * k]) ELSE Says(val, level[2 * k - 1])]
LEMMA HalvedBuilds ==
  ASSUME NEW val \in [Nat -> BOOLEAN], NEW ds \in Vectors, NEW w \in Nat, NEW m \in Nat, Doubles(w, m),
         NEW level \in Words(m, Len(ds)), NEW select \in Values(Len(ds))
  PROVE  /\ HalvedBy(ds, level, select) \in Builds
         /\ BuildsBits(val, ds, HalvedBy(ds, level, select), w, HalvedSays(val, level, select, w))
<1> DEFINE x == HalvedSays(val, level, select, w)
           bit(s, k) == MuxGate(s.ds, level[2 * k - 1], level[2 * k], select)
           step(s, k) == [ds |-> bit(s, k).ds, out |-> Append(s.out, bit(s, k).out)]
           base == [ds |-> ds, out |-> <<>>]
           V == [k \in 0 .. w |-> {s \in Builds : BuildsBits(val, ds, s, k, x)}]
<1>1. base \in V[0]
  <2>1. Len(ds) \in Nat /\ Follows(val, ds, ds)
    BY VectorLength, FollowsItself
  <2>2. <<>> \in Words(0, Len(ds)) /\ <<>> \in Seq(Signals)
    BY <2>1, EmptyWord
  <2> QED
    BY <2>1, <2>2 DEF Builds, BuildsBits
<1>2. ASSUME NEW k \in 1 .. w, NEW s \in V[k - 1] PROVE step(s, k) \in V[k]
  <2> DEFINE low == level[2 * k - 1]
             high == level[2 * k]
             b == IF Says(val, select) THEN Says(val, high) ELSE Says(val, low)
  <2>1. k - 1 \in 0 .. w /\ k - 1 \in Nat /\ (k - 1) + 1 = k /\ k \in 0 .. w
    OBVIOUS
  <2>2. s \in Builds /\ BuildsBits(val, ds, s, k - 1, x)
    BY <2>1
  <2>3. s.ds \in Vectors /\ low \in Values(Len(s.ds)) /\ high \in Values(Len(s.ds)) /\ select \in Values(Len(s.ds))
    <3>1. 2 * k - 1 \in 1 .. m /\ 2 * k \in 1 .. m
      BY DEF Doubles
    <3>2. low \in Values(Len(ds)) /\ high \in Values(Len(ds))
      BY <3>1 DEF Words
    <3> HIDE DEF low, high
    <3> QED
      BY <2>2, <3>2 DEF BuildsBits, Follows
  <2>4. b <=> x[k]
    BY DEF HalvedSays
  <2> DEFINE g == MuxGate(s.ds, low, high, select)
             e == s.ds
  <2> HIDE DEF low, high, x
  <2>5. BuildsBit(val, s.ds, g, b)
    <3> HIDE DEF e
    <3>1. e \in Vectors /\ low \in Values(Len(e)) /\ high \in Values(Len(e)) /\ select \in Values(Len(e))
      BY <2>3 DEF e
    <3>2. BuildsBit(val, e, MuxGate(e, low, high, select), b)
      BY <3>1, MuxBuilds
    <3> QED
      BY <3>2 DEF e
  <2>6. g = bit(s, k)
    BY DEF low, high
  <2> HIDE DEF bit, b, g
  <2> DEFINE t == [ds |-> g.ds, out |-> Append(s.out, g.out)]
  <2>7. t \in Builds /\ BuildsBits(val, ds, t, (k - 1) + 1, x)
    BY <2>1, <2>2, <2>4, <2>5, BitAdded
  <2>8. t = step(s, k)
    BY <2>6
  <2> HIDE DEF step, t
  <2> QED
    BY <2>1, <2>7, <2>8
<1> DEFINE Rec(f) == [k \in 0 .. w |-> IF k = 0 THEN base ELSE step(f[k - 1], k)]
       F == [y \in Builds \X (1 .. w) |-> step(y[1], y[2])]
       after == CHOOSE f : f = Rec(f)
<1>a1. \A k \in 1 .. w : \A s \in V[k - 1] : F[<<s, k>>] = step(s, k) /\ F[<<s, k>>] \in V[k]
  <2> SUFFICES ASSUME NEW k \in 1 .. w, NEW s \in V[k - 1] PROVE F[<<s, k>>] = step(s, k)
    <3> HIDE DEF V, step, F
    <3> QED
      BY <1>2
  <2>1. k - 1 \in 0 .. w
    OBVIOUS
  <2>2. s \in Builds
    BY <2>1
  <2> HIDE DEF V, step
  <2> QED
    BY <2>2
<1>a2. PICK run : Runs(w, V, base, F, run)
  <2> HIDE DEF V, step, F, base
  <2> QED
    BY <1>1, <1>a1, LoopRuns
<1>a3. run = Rec(run)
  <2> SUFFICES ASSUME NEW k \in 0 .. w PROVE run[k] = IF k = 0 THEN base ELSE step(run[k - 1], k)
    <3> HIDE DEF V, step, F, base
    <3> QED
      BY <1>a2 DEF Runs
  <2>1. CASE k = 0
    <3> HIDE DEF V, step, F, base
    <3> QED
      BY <2>1, <1>a2 DEF Runs
  <2>2. CASE k # 0
    <3>1. k \in 1 .. w /\ k - 1 \in 0 .. w
      BY <2>2
    <3> HIDE DEF V, step, F, base
    <3> QED
      BY <2>2, <3>1, <1>a1, <1>a2 DEF Runs
  <2> QED
    BY <2>1, <2>2
<1>a4. after = Rec(after)
  <2> HIDE DEF Rec
  <2> QED
    BY <1>a3
<1>a5. after[0] = base /\ \A k \in 1 .. w : after[k] = step(after[k - 1], k)
  <2> HIDE DEF step, base, after, V, F
  <2>1. \A k \in 0 .. w : after[k] = IF k = 0 THEN base ELSE step(after[k - 1], k)
    BY <1>a4
  <2>2. 0 \in 0 .. w /\ \A k \in 1 .. w : k \in 0 .. w /\ k # 0
    OBVIOUS
  <2> HIDE DEF Rec
  <2> QED
    BY <2>1, <2>2
<1>a6. \A k \in 0 .. w : after[k] \in V[k]
  <2> HIDE DEF V, step, F, base, after, Rec
  <2> QED
    BY <1>1, <1>a1, <1>a5, LoopKeeps, ZenonT(60)
<1>3. HalvedBy(ds, level, select) = after[w]
  <2>1. Len(level) \div 2 = w
    <3>1. Len(level) = m
      BY VectorLength, WordShape
    <3> DEFINE two == 2
               zero == 0
    <3>2. Divides(m, two, w, zero)
      BY DEF Divides, Doubles
    <3> HIDE DEF two, zero
    <3>3. Divided(m, two, w, zero)
      BY <3>2, DivisionIs
    <3> QED
      BY <3>1, <3>3 DEF Divided, two
  <2> QED
    BY <2>1 DEF HalvedBy, Halved, BuildWord, EachBit, Then, Built
<1>4. after[w] \in Builds /\ BuildsBits(val, ds, after[w], w, x)
  <2> HIDE DEF after, x
  <2> QED
    BY <1>a6
<1> HIDE DEF after
<1> QED
  BY <1>3, <1>4

(* Which of the choices the low k bits of the index leave at place i.       *)
Left(n, k, i) == (Pow2[k] * (i - 1)) + n + 1
Chooses(val, choices, level, n, k, m) == \A i \in 1 .. m : Says(val, level[i]) <=> Says(val, choices[Left(n, k, i)])
LEMMA ChoosesOn ==
  ASSUME NEW val, NEW choices, NEW x, NEW y, NEW n \in Nat, NEW j \in Nat, NEW k, k = j + 1,
         NEW w \in Nat, NEW m \in Nat, Doubles(w, m), Chooses(val, choices, x, n, j, m),
         NEW select, \A i \in 1 .. w : Says(val, y[i]) <=> HalvedSays(val, x, select, w)[i],
         NEW l \in Nat, Says(val, select) => l = n + Pow2[j], ~Says(val, select) => l = n
  PROVE  Chooses(val, choices, y, l, k, w)
<1> SUFFICES ASSUME NEW i \in 1 .. w PROVE Says(val, y[i]) <=> Says(val, choices[Left(l, k, i)])
  BY DEF Chooses
<1> DEFINE low == 2 * i - 1
           high == 2 * i
           P == Pow2[j]
<1>1. low \in 1 .. m /\ high \in 1 .. m
  BY DEF Doubles
<1>2. P \in Nat /\ Pow2[k] = 2 * P
  BY Powers
<1>3. Says(val, y[i]) <=> IF Says(val, select) THEN Says(val, x[high]) ELSE Says(val, x[low])
  BY DEF HalvedSays
<1>4. Left(n, j, low) = (P * (2 * i - 2)) + n + 1 /\ Left(n, j, high) = (P * (2 * i - 1)) + n + 1
      /\ Left(l, k, i) = ((2 * P) * (i - 1)) + l + 1
  BY <1>2 DEF Left
<1> HIDE DEF P
<1>5. Says(val, select) => Left(n, j, high) = Left(l, k, i)
  <2> SUFFICES ASSUME Says(val, select) PROVE Left(n, j, high) = Left(l, k, i)
    OBVIOUS
  <2>1. l = n + P
    BY DEF P
  <2> DEFINE c == P * (i - 1)
  <2>2. c \in Int /\ (P * (2 * i - 1)) = (2 * c) + P /\ ((2 * P) * (i - 1)) = 2 * c
    BY <1>2
  <2> HIDE DEF c, low, high
  <2> QED
    BY <1>2, <1>4, <2>1, <2>2
<1>6. ~Says(val, select) => Left(n, j, low) = Left(l, k, i)
  <2> DEFINE c == P * (i - 1)
  <2>1. c \in Int /\ (P * (2 * i - 2)) = 2 * c /\ ((2 * P) * (i - 1)) = 2 * c
    BY <1>2
  <2> HIDE DEF c, low, high
  <2> QED
    BY <1>4, <2>1
<1> HIDE DEF low, high
<1>7. /\ Says(val, x[low]) <=> Says(val, choices[Left(n, j, low)])
      /\ Says(val, x[high]) <=> Says(val, choices[Left(n, j, high)])
  BY <1>1 DEF Chooses
<1> QED
  BY <1>3, <1>5, <1>6, <1>7

(* The levels of select, one for each bit of the index.                     *)
BuildsChoice(val, ds, s, choices, n, k, m) ==
  /\ Follows(val, ds, s.ds)
  /\ s.out \in Words(m, Len(s.ds))
  /\ Respects(val, s.ds) => Chooses(val, choices, s.out, n, k, m)
LEMMA ChoiceBuilds ==
  ASSUME NEW val \in [Nat -> BOOLEAN], NEW ds \in Vectors, NEW choices, NEW n \in Nat, NEW j \in Nat, NEW k, k = j + 1,
         NEW w \in Nat, NEW m \in Nat, Doubles(w, m), NEW s \in Builds, BuildsChoice(val, ds, s, choices, n, j, m),
         NEW select \in Values(Len(ds)),
         NEW l \in Nat, Says(val, select) => l = n + Pow2[j], ~Says(val, select) => l = n
  PROVE  /\ HalvedBy(s.ds, s.out, select) \in Builds
         /\ BuildsChoice(val, ds, HalvedBy(s.ds, s.out, select), choices, l, k, w)
<1> DEFINE e == s.ds
           x == s.out
           g == HalvedBy(e, x, select)
           z == HalvedSays(val, x, select, w)
<1>1. e \in Vectors /\ Follows(val, ds, e) /\ x \in Words(m, Len(e)) /\ select \in Values(Len(e))
  BY DEF BuildsChoice, Follows
<1>2. Respects(val, e) => Chooses(val, choices, x, n, j, m)
  BY DEF BuildsChoice
<1> HIDE DEF e, x
<1>3. g \in Builds /\ BuildsBits(val, e, g, w, z)
  BY <1>1, HalvedBuilds
<1> HIDE DEF g
<1> DEFINE y == g.out
<1>4. Follows(val, e, g.ds) /\ Follows(val, ds, g.ds) /\ y \in Words(w, Len(g.ds))
  <2>1. Follows(val, e, g.ds) /\ y \in Words(w, Len(g.ds))
    BY <1>3 DEF BuildsBits
  <2> QED
    BY <1>1, <2>1, FollowsOn
<1>5. Respects(val, g.ds) => Chooses(val, choices, y, l, k, w)
  <2> SUFFICES ASSUME Respects(val, g.ds) PROVE Chooses(val, choices, y, l, k, w)
    OBVIOUS
  <2>1. Chooses(val, choices, x, n, j, m)
    BY <1>2, <1>4 DEF Follows
  <2>2. \A i \in 1 .. w : Says(val, y[i]) <=> HalvedSays(val, x, select, w)[i]
    BY <1>3 DEF BuildsBits
  <2> HIDE DEF y, z
  <2> QED
    BY <2>1, <2>2, ChoosesOn
<1>6. BuildsChoice(val, ds, g, choices, l, k, w)
  <2> HIDE DEF z
  <2> QED
    BY <1>4, <1>5 DEF BuildsChoice
<1> QED
  BY <1>3, <1>6 DEF g, e, x

(* select returns the choice at the index.                                  *)
THEOREM SelectBuilds ==
  ASSUME NEW val \in [Nat -> BOOLEAN], NEW ds \in Vectors, NEW u \in Nat, NEW index \in Words(u, Len(ds)),
         NEW w \in Nat, w = Pow2[u], NEW choices \in Words(w, Len(ds))
  PROVE  BuildsBit(val, ds, Select(ds, choices, index), Says(val, choices[Low(val, index, u) + 1]))
<1> DEFINE step(s, k) == HalvedBy(s.ds, s.out, index[k])
           base == [ds |-> ds, out |-> choices]
           far(k) == Low(val, index, k)
           left(k) == Pow2[u - k]
           V == [k \in 0 .. u |-> {s \in Builds : BuildsChoice(val, ds, s, choices, far(k), k, left(k))}]
<1>0. /\ Len(ds) \in Nat /\ Len(index) = u /\ Follows(val, ds, ds)
      /\ choices \in Seq(Signals) /\ \A k \in 1 .. u : index[k] \in Values(Len(ds))
  <2>1. Len(ds) \in Nat
    BY VectorLength
  <2> QED
    BY <2>1, WordShape, FollowsItself
<1>1. base \in V[0]
  <2> DEFINE zero == 0
             m == left(0)
  <2>1. Pow2[0] = 1 /\ far(0) = zero /\ m = w /\ m \in Nat
    <3>1. u - 0 = u
      OBVIOUS
    <3> QED
      BY <3>1, Powers, LowNone
  <2>2. base \in Builds
    BY <1>0 DEF Builds
  <2>3. base.ds = ds /\ base.out = choices
    OBVIOUS
  <2>4. \A i \in 1 .. w : Left(0, 0, i) = i
    <3> SUFFICES ASSUME NEW i \in 1 .. w PROVE Left(0, 0, i) = i
      OBVIOUS
    <3>1. Left(0, 0, i) = (1 * (i - 1)) + 0 + 1
      BY <2>1 DEF Left
    <3> QED
      BY <3>1
  <2>5. Chooses(val, choices, choices, zero, 0, m)
    <3> HIDE DEF left
    <3> QED
      BY <2>1, <2>4 DEF Chooses
  <2> HIDE DEF base, zero, m, far
  <2>6. BuildsChoice(val, ds, base, choices, zero, 0, m)
    BY <1>0, <2>1, <2>3, <2>5 DEF BuildsChoice
  <2> HIDE DEF left
  <2>7. BuildsChoice(val, ds, base, choices, far(0), 0, left(0))
    BY <2>1, <2>6 DEF m
  <2> QED
    BY <2>2, <2>7
<1>2. ASSUME NEW k \in 1 .. u, NEW s \in V[k - 1] PROVE step(s, k) \in V[k]
  <2> DEFINE j == k - 1
             select == index[k]
             t == HalvedBy(s.ds, s.out, select)
             n == far(j)
             m == far(k)
             big == left(j)
             small == left(k)
  <2>1. j \in 0 .. u /\ j \in Nat /\ k \in 0 .. u /\ k = j + 1 /\ k \in Nat
    OBVIOUS
  <2>2. s \in Builds /\ BuildsChoice(val, ds, s, choices, n, j, big)
    BY <2>1
  <2>3. t = step(s, k)
    OBVIOUS
  <2> HIDE DEF V, base, step
  <2>4. n \in Nat /\ m \in Nat /\ Pow2[j] \in Nat
    <3> HIDE DEF j
    <3> QED
      BY <2>1, LowType, Powers
  <2>5. (Says(val, select) => m = n + Pow2[j]) /\ (~Says(val, select) => m = n)
    <3>1. \A l \in 1 .. u : far(l) = far(l - 1) + (Truth(Says(val, index[l])) * Pow2[l - 1])
      BY <1>0, LowGrows
    <3> HIDE DEF far
    <3>2. m = n + (Truth(Says(val, select)) * Pow2[j])
      BY <3>1
    <3> DEFINE p == Pow2[j]
    <3>3. p \in Nat
      BY <2>4
    <3> HIDE DEF m, n, p, select
    <3> QED
      BY <2>4, <3>2, <3>3 DEF Truth, p
  <2>6. select \in Values(Len(ds))
    BY <1>0
  <2>7. small \in Nat /\ big \in Nat /\ Doubles(small, big)
    <3> DEFINE d == u - k
    <3>1. d \in Nat /\ u - j = d + 1
      OBVIOUS
    <3>2. Pow2[d + 1] = 2 * Pow2[d] /\ Pow2[d] \in Nat
      <4> HIDE DEF d
      <4> QED
        BY <3>1, Powers
    <3>3. big = Pow2[d + 1]
      BY <3>1
    <3> HIDE DEF big
    <3>4. small = Pow2[d]
      OBVIOUS
    <3> HIDE DEF small, d
    <3> QED
      BY <3>2, <3>3, <3>4 DEF Doubles
  <2> HIDE DEF select, n, m, big, small, j
  <2>8. t \in Builds
    BY <2>1, <2>2, <2>4, <2>5, <2>6, <2>7, ChoiceBuilds
  <2>9. BuildsChoice(val, ds, t, choices, m, k, small)
    BY <2>1, <2>2, <2>4, <2>5, <2>6, <2>7, ChoiceBuilds
  <2> HIDE DEF t, far, left
  <2> QED
    BY <2>1, <2>3, <2>8, <2>9 DEF V, m, small
<1> HIDE DEF far, left
<1> DEFINE Rec(f) == [k \in 0 .. u |-> IF k = 0 THEN base ELSE step(f[k - 1], k)]
       F == [y \in Builds \X (1 .. u) |-> step(y[1], y[2])]
       after == CHOOSE f : f = Rec(f)
<1>a1. \A k \in 1 .. u : \A s \in V[k - 1] : F[<<s, k>>] = step(s, k) /\ F[<<s, k>>] \in V[k]
  <2> SUFFICES ASSUME NEW k \in 1 .. u, NEW s \in V[k - 1] PROVE F[<<s, k>>] = step(s, k)
    <3> HIDE DEF V, step, F
    <3> QED
      BY <1>2
  <2>1. k - 1 \in 0 .. u
    OBVIOUS
  <2>2. s \in Builds
    BY <2>1
  <2> HIDE DEF V, step
  <2> QED
    BY <2>2
<1>a2. PICK run : Runs(u, V, base, F, run)
  <2> HIDE DEF V, step, F, base
  <2> QED
    BY <1>1, <1>a1, LoopRuns
<1>a3. run = Rec(run)
  <2> SUFFICES ASSUME NEW k \in 0 .. u PROVE run[k] = IF k = 0 THEN base ELSE step(run[k - 1], k)
    <3> HIDE DEF V, step, F, base
    <3> QED
      BY <1>a2 DEF Runs
  <2>1. CASE k = 0
    <3> HIDE DEF V, step, F, base
    <3> QED
      BY <2>1, <1>a2 DEF Runs
  <2>2. CASE k # 0
    <3>1. k \in 1 .. u /\ k - 1 \in 0 .. u
      BY <2>2
    <3> HIDE DEF V, step, F, base
    <3> QED
      BY <2>2, <3>1, <1>a1, <1>a2 DEF Runs
  <2> QED
    BY <2>1, <2>2
<1>a4. after = Rec(after)
  <2> HIDE DEF Rec
  <2> QED
    BY <1>a3
<1>a5. after[0] = base /\ \A k \in 1 .. u : after[k] = step(after[k - 1], k)
  <2> HIDE DEF step, base, after, V, F
  <2>1. \A k \in 0 .. u : after[k] = IF k = 0 THEN base ELSE step(after[k - 1], k)
    BY <1>a4
  <2>2. 0 \in 0 .. u /\ \A k \in 1 .. u : k \in 0 .. u /\ k # 0
    OBVIOUS
  <2> HIDE DEF Rec
  <2> QED
    BY <2>1, <2>2
<1>a6. \A k \in 0 .. u : after[k] \in V[k]
  <2> HIDE DEF V, step, F, base, after, Rec
  <2> QED
    BY <1>1, <1>a1, <1>a5, LoopKeeps, ZenonT(60)
<1> DEFINE t == after[u]
<1>3. Select(ds, choices, index) = Built(t.ds, t.out[1])
  BY <1>0 DEF Select, EachBit, Then, Built, HalvedBy
<1>4. t \in Builds /\ BuildsChoice(val, ds, t, choices, far(u), u, left(u))
  <2> HIDE DEF after
  <2> QED
    BY <1>a6
<1> HIDE DEF t
<1>5. left(u) = 1 /\ u - u = 0
  BY Powers DEF left
<1> DEFINE one == left(u)
           v == t.out[1]
           x == t.out
           e == t.ds
           n == far(u)
           b == Says(val, choices[n + 1])
<1>6. one = 1 /\ n \in Nat
  BY <1>5, LowType DEF far
<1> HIDE DEF one, n
<1>7. Follows(val, ds, e) /\ x \in Words(one, Len(e)) /\ (Respects(val, e) => Chooses(val, choices, x, n, u, one))
  BY <1>4 DEF BuildsChoice, one, n
<1>8. v \in Values(Len(e)) /\ e \in Vectors /\ Len(e) \in Nat /\ v \in Signals
  <2>1. v \in Values(Len(e)) /\ e \in Vectors
    BY <1>6, <1>7 DEF Words, Follows
  <2>2. Len(e) \in Nat
    BY <2>1, VectorLength
  <2> HIDE DEF e, v
  <2> QED
    BY <2>1, <2>2, ValuesAre
<1>9. Respects(val, e) => (Says(val, v) <=> b)
  <2> SUFFICES ASSUME Respects(val, e) PROVE Says(val, v) <=> b
    OBVIOUS
  <2>1. Chooses(val, choices, x, n, u, one)
    BY <1>7
  <2>2. Left(n, u, 1) = n + 1
    <3>1. Left(n, u, 1) = (Pow2[u] * (1 - 1)) + n + 1 /\ Pow2[u] \in Nat
      BY Powers DEF Left
    <3> DEFINE p == Pow2[u]
    <3>2. p * (1 - 1) = 0
      BY <3>1
    <3> QED
      BY <1>6, <3>1, <3>2
  <2>3. 1 \in 1 .. one
    BY <1>6
  <2>4. Says(val, x[1]) <=> Says(val, choices[Left(n, u, 1)])
    BY <2>1, <2>3 DEF Chooses
  <2> QED
    BY <2>2, <2>4
<1> HIDE DEF v, e, b
<1>10. BuildsBit(val, ds, Built(e, v), b)
  <2> DEFINE g == Built(e, v)
  <2>1. g.ds = e /\ g.out = v /\ g \in [ds : Vectors, out : Signals]
    BY <1>8 DEF Built
  <2> HIDE DEF g
  <2>2. BuildsBit(val, ds, g, b)
    BY <1>7, <1>8, <1>9, <2>1 DEF BuildsBit
  <2> QED
    BY <2>2 DEF g
<1> QED
  BY <1>3, <1>10 DEF v, e, b, n, far

--------------------------------------------------------------------------------
(****************************************************************************)
(* The gates of comb.rs on top of them: the operators of comb, the wiring,  *)
(* and the arrays, with the value of the undefined inputs where an operation*)
(* has no result.                                                           *)
(****************************************************************************)

(* The bitwise operators.                                                   *)
JoinOf(operator, x, y) ==
  CASE operator = "And" -> x /\ y
    [] operator = "Or" -> x \/ y
    [] operator = "Xor" -> x # y
JoinSays(val, a, b, operator, w) == [k \in 1 .. w |-> JoinOf(operator, Says(val, a[k]), Says(val, b[k]))]
BuildsJoin(val, drivers, g, a, b, operator, w) ==
  g \in Builds /\ BuildsBits(val, drivers, g, w, JoinSays(val, a, b, operator, w))

XorWord(drivers, a, b, w) == BuildWord(drivers, LAMBDA d, k : XorGate(d, a[k], b[k]), w)
PairWord(drivers, type, a, b, w) == BuildWord(drivers, LAMBDA d, k : GateChain(d, type, <<a[k], b[k]>>), w)

LEMMA PairBuilds ==
  ASSUME NEW val \in [Nat -> BOOLEAN], NEW drivers \in Vectors, NEW type \in {"And", "Or"},
         NEW p \in Values(Len(drivers)), NEW q \in Values(Len(drivers))
  PROVE  BuildsBit(val, drivers, GateChain(drivers, type, <<p, q>>), JoinOf(type, Says(val, p), Says(val, q)))
<1> DEFINE x == <<p, q>>
           two == 2
           n == Len(drivers)
<1>1. n \in Nat
  BY VectorLength
<1> HIDE DEF n
<1>2. x \in Words(2, n)
  <2>1. x \in Seq(Values(n)) /\ Len(x) = 2
    BY DEF n
  <2> QED
    BY <2>1 DEF Words
<1>3. x[1] = p /\ x[2] = q
  OBVIOUS
<1>4. x \in Words(two, n) /\ two > 0 /\ two \in Nat /\ \A i \in 1 .. two : i = 1 \/ i = 2
  BY <1>2
<1>5. 1 \in 1 .. two /\ 2 \in 1 .. two
  OBVIOUS
<1> HIDE DEF x, two
<1> DEFINE b == JoinOf(type, Says(val, p), Says(val, q))
           c == Chains(val, type, two, x)
<1>6. c <=> b
  <2>1. Says(val, p) \in BOOLEAN /\ Says(val, q) \in BOOLEAN
    BY <1>1, SaysInverse DEF n
  <2>2. CASE type = "And"
    BY <1>3, <1>4, <1>5, <2>2 DEF Chains, JoinOf
  <2>3. CASE type = "Or"
    BY <1>3, <1>4, <1>5, <2>3 DEF Chains, JoinOf
  <2> QED
    BY <2>2, <2>3
<1> HIDE DEF b, c
<1>7. BuildsBit(val, drivers, GateChain(drivers, type, x), c)
  BY <1>4, ChainBuilds DEF c, n
<1>8. BuildsBit(val, drivers, GateChain(drivers, type, x), b)
  <2>1. Follows(val, drivers, drivers)
    BY FollowsItself
  <2> QED
    BY <1>6, <1>7, <2>1, BitAfter
<1> QED
  BY <1>8 DEF x, b

(* The words that the bitwise operators build.                              *)
LEMMA XorWordBuilds ==
  ASSUME NEW val \in [Nat -> BOOLEAN], NEW drivers \in Vectors, NEW w \in Nat,
         NEW a \in Words(w, Len(drivers)), NEW b \in Words(w, Len(drivers))
  PROVE  BuildsJoin(val, drivers, XorWord(drivers, a, b, w), a, b, "Xor", w)
<1> DEFINE x == JoinSays(val, a, b, "Xor", w)
           bit(s, k) == XorGate(s.ds, a[k], b[k])
           step(s, k) == [ds |-> bit(s, k).ds, out |-> Append(s.out, bit(s, k).out)]
           base == [ds |-> drivers, out |-> <<>>]
           V == [k \in 0 .. w |-> {s \in Builds : BuildsBits(val, drivers, s, k, x)}]
<1>1. base \in V[0]
  <2>1. Len(drivers) \in Nat /\ Follows(val, drivers, drivers)
    BY VectorLength, FollowsItself
  <2>2. <<>> \in Words(0, Len(drivers)) /\ <<>> \in Seq(Signals)
    BY <2>1, EmptyWord
  <2> QED
    BY <2>1, <2>2 DEF Builds, BuildsBits
<1>2. ASSUME NEW k \in 1 .. w, NEW s \in V[k - 1] PROVE step(s, k) \in V[k]
  <2> DEFINE p == a[k]
             q == b[k]
             e == s.ds
             c == JoinOf("Xor", Says(val, p), Says(val, q))
             g == XorGate(e, p, q)
  <2>1. k - 1 \in 0 .. w /\ k - 1 \in Nat /\ (k - 1) + 1 = k /\ k \in 0 .. w
    OBVIOUS
  <2>2. s \in Builds /\ BuildsBits(val, drivers, s, k - 1, x)
    BY <2>1
  <2>3. e \in Vectors /\ p \in Values(Len(e)) /\ q \in Values(Len(e))
    BY <2>2 DEF BuildsBits, Follows, Words
  <2>4. c <=> x[k]
    BY DEF JoinSays
  <2>5. g = bit(s, k)
    OBVIOUS
  <2>6. BuildsBit(val, e, g, c)
    <3> HIDE DEF e, p, q, x
    <3>1. Len(e) \in Nat
      BY <2>3, VectorLength
    <3>2. BuildsBit(val, e, g, Says(val, p) # Says(val, q))
      BY <2>3, XorBuilds
    <3> QED
      BY <3>2 DEF JoinOf
  <2> HIDE DEF bit, c, g, x, p, q
  <2> DEFINE t == [ds |-> g.ds, out |-> Append(s.out, g.out)]
  <2>7. t \in Builds /\ BuildsBits(val, drivers, t, (k - 1) + 1, x)
    BY <2>1, <2>2, <2>4, <2>6, BitAdded
  <2>8. t = step(s, k)
    BY <2>5
  <2> HIDE DEF step, t
  <2> QED
    BY <2>1, <2>7, <2>8
<1> DEFINE Rec(f) == [k \in 0 .. w |-> IF k = 0 THEN base ELSE step(f[k - 1], k)]
       F == [y \in Builds \X (1 .. w) |-> step(y[1], y[2])]
       after == CHOOSE f : f = Rec(f)
<1>a1. \A k \in 1 .. w : \A s \in V[k - 1] : F[<<s, k>>] = step(s, k) /\ F[<<s, k>>] \in V[k]
  <2> SUFFICES ASSUME NEW k \in 1 .. w, NEW s \in V[k - 1] PROVE F[<<s, k>>] = step(s, k)
    <3> HIDE DEF V, step, F
    <3> QED
      BY <1>2
  <2>1. k - 1 \in 0 .. w
    OBVIOUS
  <2>2. s \in Builds
    BY <2>1
  <2> HIDE DEF V, step
  <2> QED
    BY <2>2
<1>a2. PICK run : Runs(w, V, base, F, run)
  <2> HIDE DEF V, step, F, base
  <2> QED
    BY <1>1, <1>a1, LoopRuns
<1>a3. run = Rec(run)
  <2> SUFFICES ASSUME NEW k \in 0 .. w PROVE run[k] = IF k = 0 THEN base ELSE step(run[k - 1], k)
    <3> HIDE DEF V, step, F, base
    <3> QED
      BY <1>a2 DEF Runs
  <2>1. CASE k = 0
    <3> HIDE DEF V, step, F, base
    <3> QED
      BY <2>1, <1>a2 DEF Runs
  <2>2. CASE k # 0
    <3>1. k \in 1 .. w /\ k - 1 \in 0 .. w
      BY <2>2
    <3> HIDE DEF V, step, F, base
    <3> QED
      BY <2>2, <3>1, <1>a1, <1>a2 DEF Runs
  <2> QED
    BY <2>1, <2>2
<1>a4. after = Rec(after)
  <2> HIDE DEF Rec
  <2> QED
    BY <1>a3
<1>a5. after[0] = base /\ \A k \in 1 .. w : after[k] = step(after[k - 1], k)
  <2> HIDE DEF step, base, after, V, F
  <2>1. \A k \in 0 .. w : after[k] = IF k = 0 THEN base ELSE step(after[k - 1], k)
    BY <1>a4
  <2>2. 0 \in 0 .. w /\ \A k \in 1 .. w : k \in 0 .. w /\ k # 0
    OBVIOUS
  <2> HIDE DEF Rec
  <2> QED
    BY <2>1, <2>2
<1>a6. \A k \in 0 .. w : after[k] \in V[k]
  <2> HIDE DEF V, step, F, base, after, Rec
  <2> QED
    BY <1>1, <1>a1, <1>a5, LoopKeeps, ZenonT(60)
<1>3. XorWord(drivers, a, b, w) = after[w]
  BY DEF XorWord, BuildWord, EachBit, Then, Built
<1>4. after[w] \in Builds /\ BuildsBits(val, drivers, after[w], w, x)
  <2> HIDE DEF after, x
  <2> QED
    BY <1>a6
<1> HIDE DEF after
<1> QED
  BY <1>3, <1>4 DEF BuildsJoin

LEMMA PairWordBuilds ==
  ASSUME NEW val \in [Nat -> BOOLEAN], NEW drivers \in Vectors, NEW w \in Nat,
         NEW a \in Words(w, Len(drivers)), NEW b \in Words(w, Len(drivers)), NEW type \in {"And", "Or"}
  PROVE  BuildsJoin(val, drivers, PairWord(drivers, type, a, b, w), a, b, type, w)
<1> DEFINE x == JoinSays(val, a, b, type, w)
           bit(s, k) == GateChain(s.ds, type, <<a[k], b[k]>>)
           step(s, k) == [ds |-> bit(s, k).ds, out |-> Append(s.out, bit(s, k).out)]
           base == [ds |-> drivers, out |-> <<>>]
           V == [k \in 0 .. w |-> {s \in Builds : BuildsBits(val, drivers, s, k, x)}]
<1>1. base \in V[0]
  <2>1. Len(drivers) \in Nat /\ Follows(val, drivers, drivers)
    BY VectorLength, FollowsItself
  <2>2. <<>> \in Words(0, Len(drivers)) /\ <<>> \in Seq(Signals)
    BY <2>1, EmptyWord
  <2> QED
    BY <2>1, <2>2 DEF Builds, BuildsBits
<1>2. ASSUME NEW k \in 1 .. w, NEW s \in V[k - 1] PROVE step(s, k) \in V[k]
  <2> DEFINE p == a[k]
             q == b[k]
             e == s.ds
             c == JoinOf(type, Says(val, p), Says(val, q))
             g == GateChain(e, type, <<p, q>>)
  <2>1. k - 1 \in 0 .. w /\ k - 1 \in Nat /\ (k - 1) + 1 = k /\ k \in 0 .. w
    OBVIOUS
  <2>2. s \in Builds /\ BuildsBits(val, drivers, s, k - 1, x)
    BY <2>1
  <2>3. e \in Vectors /\ p \in Values(Len(e)) /\ q \in Values(Len(e))
    BY <2>2 DEF BuildsBits, Follows, Words
  <2>4. c <=> x[k]
    BY DEF JoinSays
  <2>5. g = bit(s, k)
    OBVIOUS
  <2>6. BuildsBit(val, e, g, c)
    <3> HIDE DEF e, p, q, x
    <3>1. Len(e) \in Nat
      BY <2>3, VectorLength
    <3> QED
      BY <2>3, PairBuilds
  <2> HIDE DEF bit, c, g, x, p, q
  <2> DEFINE t == [ds |-> g.ds, out |-> Append(s.out, g.out)]
  <2>7. t \in Builds /\ BuildsBits(val, drivers, t, (k - 1) + 1, x)
    BY <2>1, <2>2, <2>4, <2>6, BitAdded
  <2>8. t = step(s, k)
    BY <2>5
  <2> HIDE DEF step, t
  <2> QED
    BY <2>1, <2>7, <2>8
<1> DEFINE Rec(f) == [k \in 0 .. w |-> IF k = 0 THEN base ELSE step(f[k - 1], k)]
       F == [y \in Builds \X (1 .. w) |-> step(y[1], y[2])]
       after == CHOOSE f : f = Rec(f)
<1>a1. \A k \in 1 .. w : \A s \in V[k - 1] : F[<<s, k>>] = step(s, k) /\ F[<<s, k>>] \in V[k]
  <2> SUFFICES ASSUME NEW k \in 1 .. w, NEW s \in V[k - 1] PROVE F[<<s, k>>] = step(s, k)
    <3> HIDE DEF V, step, F
    <3> QED
      BY <1>2
  <2>1. k - 1 \in 0 .. w
    OBVIOUS
  <2>2. s \in Builds
    BY <2>1
  <2> HIDE DEF V, step
  <2> QED
    BY <2>2
<1>a2. PICK run : Runs(w, V, base, F, run)
  <2> HIDE DEF V, step, F, base
  <2> QED
    BY <1>1, <1>a1, LoopRuns
<1>a3. run = Rec(run)
  <2> SUFFICES ASSUME NEW k \in 0 .. w PROVE run[k] = IF k = 0 THEN base ELSE step(run[k - 1], k)
    <3> HIDE DEF V, step, F, base
    <3> QED
      BY <1>a2 DEF Runs
  <2>1. CASE k = 0
    <3> HIDE DEF V, step, F, base
    <3> QED
      BY <2>1, <1>a2 DEF Runs
  <2>2. CASE k # 0
    <3>1. k \in 1 .. w /\ k - 1 \in 0 .. w
      BY <2>2
    <3> HIDE DEF V, step, F, base
    <3> QED
      BY <2>2, <3>1, <1>a1, <1>a2 DEF Runs
  <2> QED
    BY <2>1, <2>2
<1>a4. after = Rec(after)
  <2> HIDE DEF Rec
  <2> QED
    BY <1>a3
<1>a5. after[0] = base /\ \A k \in 1 .. w : after[k] = step(after[k - 1], k)
  <2> HIDE DEF step, base, after, V, F
  <2>1. \A k \in 0 .. w : after[k] = IF k = 0 THEN base ELSE step(after[k - 1], k)
    BY <1>a4
  <2>2. 0 \in 0 .. w /\ \A k \in 1 .. w : k \in 0 .. w /\ k # 0
    OBVIOUS
  <2> HIDE DEF Rec
  <2> QED
    BY <2>1, <2>2
<1>a6. \A k \in 0 .. w : after[k] \in V[k]
  <2> HIDE DEF V, step, F, base, after, Rec
  <2> QED
    BY <1>1, <1>a1, <1>a5, LoopKeeps, ZenonT(60)
<1>3. PairWord(drivers, type, a, b, w) = after[w]
  BY DEF PairWord, BuildWord, EachBit, Then, Built
<1>4. after[w] \in Builds /\ BuildsBits(val, drivers, after[w], w, x)
  <2> HIDE DEF after, x
  <2> QED
    BY <1>a6
<1> HIDE DEF after
<1> QED
  BY <1>3, <1>4 DEF BuildsJoin

(* Number, AndOf, OrOf and XorOf sum what the bits are worth.               *)
LEMMA SumIs ==
  ASSUME NEW f, NEW w \in Nat
  PROVE  LET sum == CHOOSE g : g = [k \in 0 .. w |-> IF k = 0 THEN 0 ELSE g[k - 1] + (Truth(f[k]) * Pow2[k - 1])]
         IN sum[w] = Worth(f)[w]
<1> DEFINE Rec(g) == [k \in 0 .. w |-> IF k = 0 THEN 0 ELSE g[k - 1] + (Truth(f[k]) * Pow2[k - 1])]
           sum == CHOOSE g : g = Rec(g)
           W == Worth(f)
           h == [k \in 0 .. w |-> W[k]]
           S == {k \in 0 .. w : sum[k] = W[k]}
<1>0. W \in [Nat -> Nat] /\ W[0] = 0 /\ \A k \in Nat : W[k + 1] = W[k] + (IF f[k + 1] THEN Pow2[k] ELSE 0)
  BY WorthDefined
<1> HIDE DEF W
<1>1. \A k \in 1 .. w : W[k] = W[k - 1] + (Truth(f[k]) * Pow2[k - 1])
  <2> SUFFICES ASSUME NEW k \in 1 .. w PROVE W[k] = W[k - 1] + (Truth(f[k]) * Pow2[k - 1])
    OBVIOUS
  <2> DEFINE j == k - 1
             p == Pow2[j]
  <2>1. j \in Nat /\ k = j + 1
    OBVIOUS
  <2> HIDE DEF j
  <2>2. W[k] = W[j] + (IF f[k] THEN p ELSE 0) /\ p \in Nat
    BY <1>0, <2>1, Powers
  <2> HIDE DEF p
  <2>3. (Truth(f[k]) * p) = (IF f[k] THEN p ELSE 0)
    BY <2>2 DEF Truth
  <2> QED
    BY <2>2, <2>3 DEF j, p
<1>2. h = Rec(h)
  <2> SUFFICES ASSUME NEW k \in 0 .. w PROVE h[k] = IF k = 0 THEN 0 ELSE h[k - 1] + (Truth(f[k]) * Pow2[k - 1])
    OBVIOUS
  <2>1. CASE k = 0
    BY <1>0, <2>1
  <2>2. CASE k # 0
    <3>1. k \in 1 .. w /\ k - 1 \in 0 .. w
      BY <2>2
    <3> QED
      BY <1>1, <2>2, <3>1
  <2> QED
    BY <2>1, <2>2
<1>3. sum = Rec(sum)
  <2> HIDE DEF Rec
  <2> QED
    BY <1>2
<1> HIDE DEF sum
<1>4. \A k \in 0 .. w : sum[k] = IF k = 0 THEN 0 ELSE sum[k - 1] + (Truth(f[k]) * Pow2[k - 1])
  BY <1>3
<1> HIDE DEF Rec
<1>5. 0 \in S
  BY <1>0, <1>4
<1>6. \A k \in 1 .. w : k - 1 \in S => k \in S
  BY <1>1, <1>4
<1>7. \A k \in 0 .. w : k \in S
  <2> HIDE DEF S
  <2> QED
    BY <1>5, <1>6, Climbs
<1>8. sum[w] = W[w]
  BY <1>7
<1> QED
  BY <1>8 DEF sum, Rec, W

CombinedOf(operator, a, b, w) ==
  CASE operator = "And" -> AndOf(a, b, w)
    [] operator = "Or" -> OrOf(a, b, w)
    [] operator = "Xor" -> XorOf(a, b, w)
Merged(operator, a, b, w) == [k \in 1 .. w |-> JoinOf(operator, BitOf(a, k - 1), BitOf(b, k - 1))]
LEMMA CombinedIs ==
  ASSUME NEW a, NEW b, NEW w \in Nat, NEW operator \in {"And", "Or", "Xor"}
  PROVE  CombinedOf(operator, a, b, w) = Worth(Merged(operator, a, b, w))[w]
<1>1. CASE operator = "And"
  <2> DEFINE join(k) == BitOf(a, k - 1) /\ BitOf(b, k - 1)
             f == [k \in 1 .. w |-> join(k)]
             Rec(g) == [k \in 0 .. w |-> IF k = 0 THEN 0 ELSE g[k - 1] + (Truth(f[k]) * Pow2[k - 1])]
             Own(g) == [k \in 0 .. w |-> IF k = 0 THEN 0 ELSE g[k - 1] + (Truth(join(k)) * Pow2[k - 1])]
             sum == CHOOSE g : g = Rec(g)
             own == CHOOSE g : g = Own(g)
  <2>1. CombinedOf(operator, a, b, w) = own[w]
    BY <1>1 DEF CombinedOf, AndOf, BitwiseOf
  <2>2. \A g : Rec(g) = Own(g)
    <3> SUFFICES ASSUME NEW g, NEW k \in 0 .. w
                 PROVE  (IF k = 0 THEN 0 ELSE g[k - 1] + (Truth(f[k]) * Pow2[k - 1]))
                          = (IF k = 0 THEN 0 ELSE g[k - 1] + (Truth(join(k)) * Pow2[k - 1]))
      OBVIOUS
    <3>1. k # 0 => f[k] = join(k)
      OBVIOUS
    <3> HIDE DEF f, join
    <3> QED
      BY <3>1
  <2>3. sum = own
    <3> HIDE DEF Rec, Own
    <3> QED
      BY <2>2
  <2>4. sum[w] = Worth(f)[w]
    <3> HIDE DEF f
    <3> QED
      BY SumIs
  <2>5. f = Merged(operator, a, b, w)
    BY <1>1 DEF JoinOf, Merged
  <2> HIDE DEF f, sum, own
  <2> QED
    BY <2>1, <2>3, <2>4, <2>5
<1>2. CASE operator = "Or"
  <2> DEFINE join(k) == BitOf(a, k - 1) \/ BitOf(b, k - 1)
             f == [k \in 1 .. w |-> join(k)]
             Rec(g) == [k \in 0 .. w |-> IF k = 0 THEN 0 ELSE g[k - 1] + (Truth(f[k]) * Pow2[k - 1])]
             Own(g) == [k \in 0 .. w |-> IF k = 0 THEN 0 ELSE g[k - 1] + (Truth(join(k)) * Pow2[k - 1])]
             sum == CHOOSE g : g = Rec(g)
             own == CHOOSE g : g = Own(g)
  <2>1. CombinedOf(operator, a, b, w) = own[w]
    BY <1>2 DEF CombinedOf, OrOf, BitwiseOf
  <2>2. \A g : Rec(g) = Own(g)
    <3> SUFFICES ASSUME NEW g, NEW k \in 0 .. w
                 PROVE  (IF k = 0 THEN 0 ELSE g[k - 1] + (Truth(f[k]) * Pow2[k - 1]))
                          = (IF k = 0 THEN 0 ELSE g[k - 1] + (Truth(join(k)) * Pow2[k - 1]))
      OBVIOUS
    <3>1. k # 0 => f[k] = join(k)
      OBVIOUS
    <3> HIDE DEF f, join
    <3> QED
      BY <3>1
  <2>3. sum = own
    <3> HIDE DEF Rec, Own
    <3> QED
      BY <2>2
  <2>4. sum[w] = Worth(f)[w]
    <3> HIDE DEF f
    <3> QED
      BY SumIs
  <2>5. f = Merged(operator, a, b, w)
    BY <1>2 DEF JoinOf, Merged
  <2> HIDE DEF f, sum, own
  <2> QED
    BY <2>1, <2>3, <2>4, <2>5
<1>3. CASE operator = "Xor"
  <2> DEFINE join(k) == BitOf(a, k - 1) # BitOf(b, k - 1)
             f == [k \in 1 .. w |-> join(k)]
             Rec(g) == [k \in 0 .. w |-> IF k = 0 THEN 0 ELSE g[k - 1] + (Truth(f[k]) * Pow2[k - 1])]
             Own(g) == [k \in 0 .. w |-> IF k = 0 THEN 0 ELSE g[k - 1] + (Truth(join(k)) * Pow2[k - 1])]
             sum == CHOOSE g : g = Rec(g)
             own == CHOOSE g : g = Own(g)
  <2>1. CombinedOf(operator, a, b, w) = own[w]
    BY <1>3 DEF CombinedOf, XorOf, BitwiseOf
  <2>2. \A g : Rec(g) = Own(g)
    <3> SUFFICES ASSUME NEW g, NEW k \in 0 .. w
                 PROVE  (IF k = 0 THEN 0 ELSE g[k - 1] + (Truth(f[k]) * Pow2[k - 1]))
                          = (IF k = 0 THEN 0 ELSE g[k - 1] + (Truth(join(k)) * Pow2[k - 1]))
      OBVIOUS
    <3>1. k # 0 => f[k] = join(k)
      OBVIOUS
    <3> HIDE DEF f, join
    <3> QED
      BY <3>1
  <2>3. sum = own
    <3> HIDE DEF Rec, Own
    <3> QED
      BY <2>2
  <2>4. sum[w] = Worth(f)[w]
    <3> HIDE DEF f
    <3> QED
      BY SumIs
  <2>5. f = Merged(operator, a, b, w)
    BY <1>3 DEF JoinOf, Merged
  <2> HIDE DEF f, sum, own
  <2> QED
    BY <2>1, <2>3, <2>4, <2>5
<1> QED
  BY <1>1, <1>2, <1>3

LEMMA JoinMeans ==
  ASSUME NEW val \in [Nat -> BOOLEAN], NEW drivers \in Vectors, NEW w \in Nat,
         NEW a \in Words(w, Len(drivers)), NEW b \in Words(w, Len(drivers)), NEW operator \in {"And", "Or", "Xor"},
         NEW g, BuildsJoin(val, drivers, g, a, b, operator, w)
  PROVE  BuildsNumber(val, drivers, g, w, CombinedOf(operator, Low(val, a, w), Low(val, b, w), w))
<1> DEFINE A == Low(val, a, w)
           B == Low(val, b, w)
           x == g.out
           m == Len(g.ds)
           f == Merged(operator, A, B, w)
<1>1. Len(a) = w /\ Len(b) = w /\ DOMAIN a = 1 .. w /\ DOMAIN b = 1 .. w
  BY VectorLength, WordShape
<1>2. \A k \in 1 .. w : (BitOf(A, k - 1) = Says(val, a[k])) /\ (BitOf(B, k - 1) = Says(val, b[k]))
  <2> SUFFICES ASSUME NEW k \in 1 .. w PROVE (BitOf(A, k - 1) = Says(val, a[k])) /\ (BitOf(B, k - 1) = Says(val, b[k]))
    OBVIOUS
  <2> DEFINE X == Spoken(val, a)
             Y == Spoken(val, b)
  <2>1. X[k] = Says(val, a[k]) /\ Y[k] = Says(val, b[k])
    BY <1>1 DEF Spoken
  <2>2. Says(val, a[k]) \in BOOLEAN /\ Says(val, b[k]) \in BOOLEAN
    BY VectorLength, SaysInverse DEF Words
  <2>3. (BitOf(A, k - 1) <=> X[k]) /\ (BitOf(B, k - 1) <=> Y[k])
    BY BitOfWorth DEF Low
  <2>4. BitOf(A, k - 1) \in BOOLEAN /\ BitOf(B, k - 1) \in BOOLEAN
    BY DEF BitOf
  <2> HIDE DEF X, Y, A, B
  <2> QED
    BY <2>1, <2>2, <2>3, <2>4
<1>3. g \in Builds /\ Follows(val, drivers, g.ds) /\ x \in Words(w, m) /\ m \in Nat
      /\ (Respects(val, g.ds) => \A k \in 1 .. w : Says(val, x[k]) <=> JoinOf(operator, Says(val, a[k]), Says(val, b[k])))
  <2>1. \A k \in 1 .. w : JoinSays(val, a, b, operator, w)[k] = JoinOf(operator, Says(val, a[k]), Says(val, b[k]))
    BY DEF JoinSays
  <2>2. m \in Nat
    BY VectorLength DEF BuildsJoin, BuildsBits, Follows
  <2> QED
    BY <2>1, <2>2 DEF BuildsJoin, BuildsBits
<1> HIDE DEF A, B, x, m
<1>4. Respects(val, g.ds) => Low(val, x, w) = Worth(f)[w]
  <2> SUFFICES ASSUME Respects(val, g.ds) PROVE Low(val, x, w) = Worth(f)[w]
    OBVIOUS
  <2> DEFINE X == Spoken(val, x)
  <2>1. \A k \in 1 .. w : X[k] = Says(val, x[k])
    BY <1>3, WordShape DEF Spoken
  <2>2. \A k \in 1 .. w : f[k] = JoinOf(operator, Says(val, a[k]), Says(val, b[k]))
    BY <1>2 DEF Merged
  <2>3. \A k \in 1 .. w : X[k] <=> f[k]
    <3> HIDE DEF X, f
    <3> QED
      BY <1>3, <2>1, <2>2
  <2> HIDE DEF X, f
  <2>4. \A k \in 0 .. w : Worth(X)[k] = Worth(f)[k]
    BY <2>3, WorthOfEqual
  <2>5. Worth(X)[w] = Worth(f)[w]
    BY <2>4
  <2> QED
    BY <2>5 DEF Low, X
<1> DEFINE n == CombinedOf(operator, A, B, w)
<1>5. n = Worth(f)[w]
  BY CombinedIs
<1> HIDE DEF f, n
<1>6. BuildsNumber(val, drivers, g, w, n)
  BY <1>3, <1>4, <1>5 DEF BuildsNumber, x, m
<1> QED
  BY <1>6 DEF n, A, B

(* One number in the place of an equal one.                                 *)
LEMMA NumberSame ==
  ASSUME NEW val, NEW drivers, NEW g, NEW w, NEW n, BuildsNumber(val, drivers, g, w, n), NEW m, n = m
  PROVE  BuildsNumber(val, drivers, g, w, m)
OBVIOUS

(* The operators of CombMeans that fold over their operands.                *)
CombOperators == {"Add", "Mul", "And", "Or", "Xor", "Sub", "ShiftLeft", "ShiftRightSigned", "ShiftRightUnsigned",
                  "DivUnsigned", "DivSigned", "ModUnsigned", "ModSigned"}
(* What a step of the fold computes, by zero too.                           *)
Stepped(operator, a, b, w) ==
  CASE operator = "DivUnsigned" -> Divide(a, b, w)
    [] operator = "DivSigned" -> Quotient(a, b, w, TRUE)
    [] operator = "ModUnsigned" -> Wrap(a - Wrap(Divide(a, b, w) * b, w), w)
    [] operator = "ModSigned" -> Wrap(a - Wrap(Quotient(a, b, w, TRUE) * b, w), w)
    [] OTHER -> CombOf(operator, a, b, w, 0)

LEMMA SteppedIs ==
  ASSUME NEW operator \in CombOperators, NEW w \in Nat, NEW a \in 0 .. Pow2[w] - 1, NEW b \in 0 .. Pow2[w] - 1, NEW any,
         operator \in Divisions => b # 0
  PROVE  Stepped(operator, a, b, w) = CombOf(operator, a, b, w, any)
<1>1. CASE operator = "Add"
  <2>1. CombOf(operator, a, b, w, any) = Wrap(a + b, w) /\ CombOf(operator, a, b, w, 0) = Wrap(a + b, w)
    BY <1>1 DEF CombOf
  <2>2. Stepped(operator, a, b, w) = CombOf(operator, a, b, w, 0)
    BY <1>1 DEF Stepped
  <2> QED
    BY <2>1, <2>2
<1>2. CASE operator = "Sub"
  <2>1. CombOf(operator, a, b, w, any) = Wrap(a - b, w) /\ CombOf(operator, a, b, w, 0) = Wrap(a - b, w)
    BY <1>2 DEF CombOf
  <2>2. Stepped(operator, a, b, w) = CombOf(operator, a, b, w, 0)
    BY <1>2 DEF Stepped
  <2> QED
    BY <2>1, <2>2
<1>3. CASE operator = "Mul"
  <2>1. CombOf(operator, a, b, w, any) = Wrap(a * b, w) /\ CombOf(operator, a, b, w, 0) = Wrap(a * b, w)
    BY <1>3 DEF CombOf
  <2>2. Stepped(operator, a, b, w) = CombOf(operator, a, b, w, 0)
    BY <1>3 DEF Stepped
  <2> QED
    BY <2>1, <2>2
<1>4. CASE operator = "And"
  <2>1. CombOf(operator, a, b, w, any) = AndOf(a, b, w) /\ CombOf(operator, a, b, w, 0) = AndOf(a, b, w)
    BY <1>4 DEF CombOf
  <2>2. Stepped(operator, a, b, w) = CombOf(operator, a, b, w, 0)
    BY <1>4 DEF Stepped
  <2> QED
    BY <2>1, <2>2
<1>5. CASE operator = "Or"
  <2>1. CombOf(operator, a, b, w, any) = OrOf(a, b, w) /\ CombOf(operator, a, b, w, 0) = OrOf(a, b, w)
    BY <1>5 DEF CombOf
  <2>2. Stepped(operator, a, b, w) = CombOf(operator, a, b, w, 0)
    BY <1>5 DEF Stepped
  <2> QED
    BY <2>1, <2>2
<1>6. CASE operator = "Xor"
  <2>1. CombOf(operator, a, b, w, any) = XorOf(a, b, w) /\ CombOf(operator, a, b, w, 0) = XorOf(a, b, w)
    BY <1>6 DEF CombOf
  <2>2. Stepped(operator, a, b, w) = CombOf(operator, a, b, w, 0)
    BY <1>6 DEF Stepped
  <2> QED
    BY <2>1, <2>2
<1>7. CASE operator = "ShiftLeft"
  <2>1. CombOf(operator, a, b, w, any) = ShiftedLeft(a, b, w) /\ CombOf(operator, a, b, w, 0) = ShiftedLeft(a, b, w)
    BY <1>7 DEF CombOf
  <2>2. Stepped(operator, a, b, w) = CombOf(operator, a, b, w, 0)
    BY <1>7 DEF Stepped
  <2> QED
    BY <2>1, <2>2
<1>8. CASE operator = "ShiftRightSigned"
  <2>1. CombOf(operator, a, b, w, any) = ShiftedRight(a, b, w, TRUE) /\ CombOf(operator, a, b, w, 0) = ShiftedRight(a, b, w, TRUE)
    BY <1>8 DEF CombOf
  <2>2. Stepped(operator, a, b, w) = CombOf(operator, a, b, w, 0)
    BY <1>8 DEF Stepped
  <2> QED
    BY <2>1, <2>2
<1>9. CASE operator = "ShiftRightUnsigned"
  <2>1. CombOf(operator, a, b, w, any) = ShiftedRight(a, b, w, FALSE) /\ CombOf(operator, a, b, w, 0) = ShiftedRight(a, b, w, FALSE)
    BY <1>9 DEF CombOf
  <2>2. Stepped(operator, a, b, w) = CombOf(operator, a, b, w, 0)
    BY <1>9 DEF Stepped
  <2> QED
    BY <2>1, <2>2
<1>10. CASE operator = "DivUnsigned"
  <2>0. b # 0
    BY <1>10 DEF Divisions
  <2>1. CombOf(operator, a, b, w, any) = a \div b
    BY <1>10, <2>0 DEF CombOf
  <2>2. Stepped(operator, a, b, w) = Divide(a, b, w)
    BY <1>10 DEF Stepped
  <2>3. Divide(a, b, w) = a \div b
    BY <2>0 DEF Divide
  <2> QED
    BY <2>1, <2>2, <2>3
<1>11. CASE operator = "DivSigned"
  <2>0. b # 0
    BY <1>11 DEF Divisions
  <2>1. CombOf(operator, a, b, w, any) = Quotient(a, b, w, TRUE)
    BY <1>11, <2>0 DEF CombOf
  <2>2. Stepped(operator, a, b, w) = Quotient(a, b, w, TRUE)
    BY <1>11 DEF Stepped
  <2>3. Quotient(a, b, w, TRUE) = Quotient(a, b, w, TRUE)
    BY <2>0 
  <2> QED
    BY <2>1, <2>2, <2>3
<1>12. CASE operator = "ModUnsigned"
  <2>0. b # 0
    BY <1>12 DEF Divisions
  <2>1. CombOf(operator, a, b, w, any) = ModuloOf(a, b, w, FALSE)
    BY <1>12, <2>0 DEF CombOf
  <2>2. Stepped(operator, a, b, w) = Wrap(a - Wrap(Divide(a, b, w) * b, w), w)
    BY <1>12 DEF Stepped
  <2>3. Wrap(a - Wrap(Divide(a, b, w) * b, w), w) = ModuloOf(a, b, w, FALSE)
    BY <2>0, UnsignedRemainder DEF ModuloOf
  <2> QED
    BY <2>1, <2>2, <2>3
<1>13. CASE operator = "ModSigned"
  <2>0. b # 0
    BY <1>13 DEF Divisions
  <2>1. CombOf(operator, a, b, w, any) = ModuloOf(a, b, w, TRUE)
    BY <1>13, <2>0 DEF CombOf
  <2>2. Stepped(operator, a, b, w) = Wrap(a - Wrap(Quotient(a, b, w, TRUE) * b, w), w)
    BY <1>13 DEF Stepped
  <2>3. Wrap(a - Wrap(Quotient(a, b, w, TRUE) * b, w), w) = ModuloOf(a, b, w, TRUE)
    BY <2>0, SignedRemainder DEF ModuloOf
  <2> QED
    BY <2>1, <2>2, <2>3
<1> QED
  BY <1>1, <1>2, <1>3, <1>4, <1>5, <1>6, <1>7, <1>8, <1>9, <1>10, <1>11, <1>12, <1>13 DEF CombOperators

(* One step of the fold of CombGate computes what CombOf says.              *)
LEMMA CombStepBuilds ==
  ASSUME NEW val \in [Nat -> BOOLEAN], NEW drivers \in Vectors, NEW w \in Nat, w > 0,
         NEW a \in Words(w, Len(drivers)), NEW b \in Words(w, Len(drivers)), NEW operator \in CombOperators
  PROVE  BuildsNumber(val, drivers, CombStep(drivers, operator, a, b), w, Stepped(operator, Low(val, a, w), Low(val, b, w), w))
<1> DEFINE A == Low(val, a, w)
           B == Low(val, b, w)
           g == CombStep(drivers, operator, a, b)
           n == Stepped(operator, A, B, w)
<1>0. Len(a) = w /\ Len(b) = w
  BY VectorLength, WordShape
<1> SUFFICES BuildsNumber(val, drivers, g, w, n)
  OBVIOUS
<1>1. CASE operator = "Add"
  <2>1. g = Addition(drivers, a, b)
    BY <1>0, <1>1 DEF CombStep, Divisions, ShiftOf
  <2>2. n = Wrap(A + B, w)
    BY <1>1 DEF Stepped, CombOf
  <2> HIDE DEF A, B, g, n
  <2>3. BuildsNumber(val, drivers, Addition(drivers, a, b), w, Wrap(A + B, w))
    BY AdditionBuilds DEF A, B
  <2> QED
    BY <2>1, <2>2, <2>3
<1>2. CASE operator = "Sub"
  <2>1. g = Subtraction(drivers, a, b)
    BY <1>0, <1>2 DEF CombStep, Divisions, ShiftOf
  <2>2. n = Wrap(A - B, w)
    BY <1>2 DEF Stepped, CombOf
  <2> HIDE DEF A, B, g, n
  <2>3. BuildsNumber(val, drivers, Subtraction(drivers, a, b), w, Wrap(A - B, w))
    BY SubtractionBuilds DEF A, B
  <2> QED
    BY <2>1, <2>2, <2>3
<1>3. CASE operator = "Mul"
  <2>1. g = Multiplication(drivers, a, b)
    BY <1>0, <1>3 DEF CombStep, Divisions, ShiftOf
  <2>2. n = Wrap(A * B, w)
    BY <1>3 DEF Stepped, CombOf
  <2> HIDE DEF A, B, g, n
  <2>3. BuildsNumber(val, drivers, Multiplication(drivers, a, b), w, Wrap(A * B, w))
    BY MultiplicationBuilds DEF A, B
  <2> QED
    BY <2>1, <2>2, <2>3
<1>4. CASE operator = "DivUnsigned"
  <2>1. g = UnsignedDivision(drivers, a, b)
    BY <1>0, <1>4 DEF CombStep, Divisions, ShiftOf, Then
  <2>2. n = Divide(A, B, w)
    BY <1>4 DEF Stepped, CombOf
  <2> HIDE DEF A, B, g, n
  <2>3. BuildsNumber(val, drivers, UnsignedDivision(drivers, a, b), w, Divide(A, B, w))
    BY UnsignedDivisionBuilds DEF A, B
  <2> QED
    BY <2>1, <2>2, <2>3
<1>5. CASE operator = "DivSigned"
  <2>1. g = SignedDivision(drivers, a, b)
    BY <1>0, <1>5 DEF CombStep, Divisions, ShiftOf, Then
  <2>2. n = Quotient(A, B, w, TRUE)
    BY <1>5 DEF Stepped, CombOf
  <2> HIDE DEF A, B, g, n
  <2>3. BuildsNumber(val, drivers, SignedDivision(drivers, a, b), w, Quotient(A, B, w, TRUE))
    BY SignedDivisionBuilds DEF A, B
  <2> QED
    BY <2>1, <2>2, <2>3
<1>6. CASE operator = "ModUnsigned"
  <2>1. g = Remainder(UnsignedDivision(drivers, a, b), a, b)
    BY <1>0, <1>6 DEF CombStep, Divisions, ShiftOf, Then
  <2>2. n = Wrap(A - Wrap(Divide(A, B, w) * B, w), w)
    BY <1>6 DEF Stepped, CombOf
  <2> HIDE DEF A, B, g, n
  <2> DEFINE quotient == UnsignedDivision(drivers, a, b)
             q == Divide(A, B, w)
  <2>3. BuildsNumber(val, drivers, quotient, w, q)
    BY UnsignedDivisionBuilds DEF A, B
  <2> HIDE DEF quotient, q
  <2>4. BuildsNumber(val, drivers, Remainder(quotient, a, b), w, Wrap(A - Wrap(q * B, w), w))
    BY <2>3, RemainderBuilds DEF A, B
  <2> QED
    BY <2>1, <2>2, <2>4 DEF quotient, q
<1>7. CASE operator = "ModSigned"
  <2>1. g = Remainder(SignedDivision(drivers, a, b), a, b)
    BY <1>0, <1>7 DEF CombStep, Divisions, ShiftOf, Then
  <2>2. n = Wrap(A - Wrap(Quotient(A, B, w, TRUE) * B, w), w)
    BY <1>7 DEF Stepped, CombOf
  <2> HIDE DEF A, B, g, n
  <2> DEFINE quotient == SignedDivision(drivers, a, b)
             q == Quotient(A, B, w, TRUE)
  <2>3. BuildsNumber(val, drivers, quotient, w, q)
    BY SignedDivisionBuilds DEF A, B
  <2> HIDE DEF quotient, q
  <2>4. BuildsNumber(val, drivers, Remainder(quotient, a, b), w, Wrap(A - Wrap(q * B, w), w))
    BY <2>3, RemainderBuilds DEF A, B
  <2> QED
    BY <2>1, <2>2, <2>4 DEF quotient, q
<1>8. CASE operator = "And"
  <2>1. g = PairWord(drivers, operator, a, b, w)
    BY <1>0, <1>8 DEF CombStep, Divisions, ShiftOf, BuildWord, EachBit, Then, Built, PairWord
  <2>2. n = CombinedOf(operator, A, B, w)
    BY <1>8 DEF Stepped, CombOf, CombinedOf
  <2> HIDE DEF A, B, g, n
  <2>3. BuildsJoin(val, drivers, PairWord(drivers, operator, a, b, w), a, b, operator, w)
    BY <1>8, PairWordBuilds
  <2> DEFINE word == PairWord(drivers, operator, a, b, w)
  <2>4. BuildsJoin(val, drivers, word, a, b, operator, w)
    BY <2>3
  <2> HIDE DEF word
  <2>5. BuildsNumber(val, drivers, word, w, CombinedOf(operator, A, B, w))
    BY <1>8, <2>4, JoinMeans DEF A, B
  <2> QED
    BY <2>1, <2>2, <2>5 DEF word
<1>9. CASE operator = "Or"
  <2>1. g = PairWord(drivers, operator, a, b, w)
    BY <1>0, <1>9 DEF CombStep, Divisions, ShiftOf, BuildWord, EachBit, Then, Built, PairWord
  <2>2. n = CombinedOf(operator, A, B, w)
    BY <1>9 DEF Stepped, CombOf, CombinedOf
  <2> HIDE DEF A, B, g, n
  <2>3. BuildsJoin(val, drivers, PairWord(drivers, operator, a, b, w), a, b, operator, w)
    BY <1>9, PairWordBuilds
  <2> DEFINE word == PairWord(drivers, operator, a, b, w)
  <2>4. BuildsJoin(val, drivers, word, a, b, operator, w)
    BY <2>3
  <2> HIDE DEF word
  <2>5. BuildsNumber(val, drivers, word, w, CombinedOf(operator, A, B, w))
    BY <1>9, <2>4, JoinMeans DEF A, B
  <2> QED
    BY <2>1, <2>2, <2>5 DEF word
<1>10. CASE operator = "Xor"
  <2>1. g = XorWord(drivers, a, b, w)
    BY <1>0, <1>10 DEF CombStep, Divisions, ShiftOf, BuildWord, EachBit, Then, Built, XorWord
  <2>2. n = CombinedOf(operator, A, B, w)
    BY <1>10 DEF Stepped, CombOf, CombinedOf
  <2> HIDE DEF A, B, g, n
  <2>3. BuildsJoin(val, drivers, XorWord(drivers, a, b, w), a, b, operator, w)
    BY <1>10, XorWordBuilds
  <2> DEFINE word == XorWord(drivers, a, b, w)
  <2>4. BuildsJoin(val, drivers, word, a, b, operator, w)
    BY <2>3
  <2> HIDE DEF word
  <2>5. BuildsNumber(val, drivers, word, w, CombinedOf(operator, A, B, w))
    BY <1>10, <2>4, JoinMeans DEF A, B
  <2> QED
    BY <2>1, <2>2, <2>5 DEF word
<1>11. CASE operator = "ShiftLeft"
  <2>1. g = Shifter(drivers, a, b, "ShiftLeft")
    BY <1>0, <1>11 DEF CombStep, Divisions, ShiftOf
  <2>2. n = ShiftedLeft(A, B, w)
    BY <1>11 DEF Stepped, CombOf
  <2> HIDE DEF A, B, g, n
  <2> DEFINE operation == "ShiftLeft"
  <2>3. Moved(operation, A, B, w) = ShiftedLeft(A, B, w)
    BY DEF Moved
  <2>4. operation \in Shifts
    BY DEF Shifts
  <2> HIDE DEF operation
  <2>5. BuildsNumber(val, drivers, Shifter(drivers, a, b, operation), w, Moved(operation, A, B, w))
    BY <2>4, ShifterBuilds DEF A, B
  <2> QED
    BY <2>1, <2>2, <2>3, <2>5 DEF operation
<1>12. CASE operator = "ShiftRightSigned"
  <2>1. g = Shifter(drivers, a, b, "ShiftRightArithmetic")
    BY <1>0, <1>12 DEF CombStep, Divisions, ShiftOf
  <2>2. n = ShiftedRight(A, B, w, TRUE)
    BY <1>12 DEF Stepped, CombOf
  <2> HIDE DEF A, B, g, n
  <2> DEFINE operation == "ShiftRightArithmetic"
  <2>3. Moved(operation, A, B, w) = ShiftedRight(A, B, w, TRUE)
    BY DEF Moved
  <2>4. operation \in Shifts
    BY DEF Shifts
  <2> HIDE DEF operation
  <2>5. BuildsNumber(val, drivers, Shifter(drivers, a, b, operation), w, Moved(operation, A, B, w))
    BY <2>4, ShifterBuilds DEF A, B
  <2> QED
    BY <2>1, <2>2, <2>3, <2>5 DEF operation
<1>13. CASE operator = "ShiftRightUnsigned"
  <2>1. g = Shifter(drivers, a, b, "ShiftRight")
    BY <1>0, <1>13 DEF CombStep, Divisions, ShiftOf
  <2>2. n = ShiftedRight(A, B, w, FALSE)
    BY <1>13 DEF Stepped, CombOf
  <2> HIDE DEF A, B, g, n
  <2> DEFINE operation == "ShiftRight"
  <2>3. Moved(operation, A, B, w) = ShiftedRight(A, B, w, FALSE)
    BY DEF Moved
  <2>4. operation \in Shifts
    BY DEF Shifts
  <2> HIDE DEF operation
  <2>5. BuildsNumber(val, drivers, Shifter(drivers, a, b, operation), w, Moved(operation, A, B, w))
    BY <2>4, ShifterBuilds DEF A, B
  <2> QED
    BY <2>1, <2>2, <2>3, <2>5 DEF operation
<1> QED
  BY <1>1, <1>2, <1>3, <1>4, <1>5, <1>6, <1>7, <1>8, <1>9, <1>10, <1>11, <1>12, <1>13 DEF CombOperators

(* Each step stays below Pow2[w].                                           *)
LEMMA CombinedType ==
  ASSUME NEW a, NEW b, NEW w \in Nat, NEW operator \in {"And", "Or", "Xor"}
  PROVE  CombinedOf(operator, a, b, w) \in 0 .. Pow2[w] - 1
<1> DEFINE x == Merged(operator, a, b, w)
<1>1. CombinedOf(operator, a, b, w) = Worth(x)[w]
  BY CombinedIs
<1> HIDE DEF x
<1> QED
  BY <1>1, WorthBounded

LEMMA QuotientType ==
  ASSUME NEW w \in Nat, NEW a \in 0 .. Pow2[w] - 1, NEW b \in 0 .. Pow2[w] - 1
  PROVE  Quotient(a, b, w, TRUE) \in 0 .. Pow2[w] - 1
<1> DEFINE A == SignedOf(a, w)
           B == SignedOf(b, w)
           t == TowardZero(A, B)
<1>1. Pow2[w] \in Nat /\ Pow2[w] >= 1
  BY Powers
<1>2. A \in Int /\ B \in Int
  BY SignedParts
<1>3. Quotient(a, b, w, TRUE) = IF B = 0 THEN IF A < 0 THEN Wrap(1, w) ELSE Pow2[w] - 1 ELSE Wrap(t, w)
  BY DEF Quotient
<1>4. B # 0 => t \in Int
  <2> SUFFICES ASSUME B # 0 PROVE t \in Int
    OBVIOUS
  <2> DEFINE p == Magnitude(A)
             q == Magnitude(B)
  <2>1. p \in Nat /\ q \in Nat /\ q > 0
    BY <1>2 DEF Magnitude
  <2>2. p \div q \in Int
    BY <2>1
  <2> DEFINE d == p \div q
  <2>3. t = IF (A < 0) # (B < 0) THEN -d ELSE d
    BY DEF TowardZero
  <2> HIDE DEF d, t
  <2> QED
    BY <2>2, <2>3 DEF d
<1> HIDE DEF A, B, t
<1>5. B # 0 => Wrap(t, w) \in 0 .. Pow2[w] - 1
  BY <1>4, WrapType
<1>6. Wrap(1, w) \in 0 .. Pow2[w] - 1
  <2> DEFINE one == 1
  <2>1. one \in Int
    OBVIOUS
  <2> HIDE DEF one
  <2>2. Wrap(one, w) \in 0 .. Pow2[w] - 1
    BY <2>1, WrapType
  <2> QED
    BY <2>2 DEF one
<1>7. Pow2[w] - 1 \in 0 .. Pow2[w] - 1
  BY <1>1
<1> QED
  BY <1>3, <1>5, <1>6, <1>7

LEMMA ModuloType ==
  ASSUME NEW w \in Nat, NEW a \in 0 .. Pow2[w] - 1, NEW b \in 0 .. Pow2[w] - 1, b # 0, NEW signed \in BOOLEAN
  PROVE  ModuloOf(a, b, w, signed) \in 0 .. Pow2[w] - 1
<1>0. Pow2[w] \in Nat
  BY Powers
<1>1. CASE ~signed
  <2>1. a % b \in 0 .. b - 1
    BY <1>0
  <2> DEFINE r == a % b
  <2>2. r \in 0 .. b - 1
    BY <2>1
  <2> HIDE DEF r
  <2>3. r \in 0 .. Pow2[w] - 1
    BY <1>0, <2>2
  <2> QED
    BY <1>1, <2>3 DEF ModuloOf, r
<1>2. CASE signed
  <2>1. ModuloOf(a, b, w, signed) = Wrap(RemainderOf(SignedOf(a, w), SignedOf(b, w)), w)
    BY <1>2 DEF ModuloOf
  <2> DEFINE q == Quotient(a, b, w, TRUE)
             p == q * b
             n == Wrap(p, w)
  <2>2. Wrap(a - n, w) = Wrap(RemainderOf(SignedOf(a, w), SignedOf(b, w)), w)
    BY SignedRemainder
  <2>3. q \in Int /\ b \in Int /\ a \in Int
    <3>1. q \in 0 .. Pow2[w] - 1
      BY QuotientType
    <3> HIDE DEF q
    <3> QED
      BY <3>1, <1>0
  <2> HIDE DEF q
  <2>4. n \in Int
    <3>1. p \in Int
      BY <2>3
    <3> HIDE DEF p
    <3>2. n \in Nat
      BY <3>1, WrapType
    <3> HIDE DEF n
    <3> QED
      BY <3>2
  <2> HIDE DEF n
  <2> DEFINE d == a - n
  <2>5. d \in Int
    BY <2>3, <2>4
  <2> HIDE DEF d
  <2>6. Wrap(d, w) \in 0 .. Pow2[w] - 1
    BY <2>5, WrapType
  <2> QED
    BY <2>1, <2>2, <2>6 DEF d, n, p, q
<1> QED
  BY <1>1, <1>2

LEMMA CombType ==
  ASSUME NEW operator \in CombOperators, NEW w \in Nat, w > 0, NEW a \in 0 .. Pow2[w] - 1, NEW b \in 0 .. Pow2[w] - 1,
         NEW any \in 0 .. Pow2[w] - 1
  PROVE  CombOf(operator, a, b, w, any) \in 0 .. Pow2[w] - 1
<1> DEFINE N == 0 .. Pow2[w] - 1
<1>0. Pow2[w] \in Nat /\ Pow2[b] \in Nat /\ a \in Nat /\ b \in Nat
  <2>1. a \in Nat /\ b \in Nat /\ Pow2[w] \in Nat
    BY Powers
  <2> QED
    BY <2>1, Powers
<1>1. \A n \in Int : Wrap(n, w) \in N
  BY WrapType
<1>2. CASE operator \in {"Add", "Sub", "Mul"}
  <2>1. a + b \in Int /\ a - b \in Int /\ a * b \in Int
    BY <1>0
  <2> DEFINE x == a + b
             y == a - b
             z == a * b
  <2>2. Wrap(x, w) \in N /\ Wrap(y, w) \in N /\ Wrap(z, w) \in N
    <3>1. x \in Int /\ y \in Int /\ z \in Int
      BY <2>1
    <3> HIDE DEF x, y, z
    <3> QED
      BY <1>1, <3>1
  <2> QED
    BY <1>2, <2>2 DEF CombOf
<1>3. CASE operator \in {"And", "Or", "Xor"}
  <2>1. CombinedOf(operator, a, b, w) \in N
    BY <1>3, CombinedType
  <2>2. CombOf(operator, a, b, w, any) = CombinedOf(operator, a, b, w)
    BY <1>3 DEF CombOf, CombinedOf
  <2> QED
    BY <2>1, <2>2
<1>4. CASE operator \in {"ShiftLeft", "ShiftRightSigned", "ShiftRightUnsigned"}
  <2> DEFINE s == SignedOf(a, w)
             x == a * Pow2[b]
             y == Halves(a, b)
             z == Halves(s, b)
  <2>1. s \in Int
    BY SignedParts
  <2>2. x \in Int
    BY <1>0
  <2>3. y \in Int
    BY <1>0, HalvesIs
  <2>4. z \in Int
    <3> HIDE DEF s
    <3> QED
      BY <1>0, <2>1, HalvesIs
  <2>5. Wrap(x, w) \in N /\ Wrap(y, w) \in N /\ Wrap(z, w) \in N
    <3> HIDE DEF x, y, z
    <3> QED
      BY <1>1, <2>2, <2>3, <2>4
  <2>6. /\ ShiftedLeft(a, b, w) = Wrap(x, w) /\ ShiftedRight(a, b, w, FALSE) = Wrap(y, w)
        /\ ShiftedRight(a, b, w, TRUE) = Wrap(z, w)
    BY DEF ShiftedLeft, ShiftedRight, Halves
  <2> HIDE DEF x, y, z
  <2> QED
    BY <1>4, <2>5, <2>6 DEF CombOf
<1>5. CASE operator \in {"DivUnsigned", "DivSigned", "ModUnsigned", "ModSigned"}
  <2>1. CASE b = 0
    BY <1>5, <2>1 DEF CombOf
  <2>2. CASE b # 0
    <3>1. Quotient(a, b, w, TRUE) \in N
      BY QuotientType
    <3>2. ModuloOf(a, b, w, TRUE) \in N /\ ModuloOf(a, b, w, FALSE) \in N
      <4> DEFINE t == TRUE
                 f == FALSE
      <4>1. t \in BOOLEAN /\ f \in BOOLEAN
        OBVIOUS
      <4> HIDE DEF t, f
      <4>2. ModuloOf(a, b, w, t) \in N /\ ModuloOf(a, b, w, f) \in N
        BY <2>2, <4>1, ModuloType
      <4> QED
        BY <4>2 DEF t, f
    <3>3. a \div b \in N
      <4> DEFINE q == a \div b
      <4>1. q \in Nat /\ q <= a
        <5> DEFINE r == a % b
        <5>1. q \in Int /\ r \in 0 .. b - 1 /\ a = (b * q) + r
          BY <1>0, <2>2
        <5> HIDE DEF q, r
        <5>2. q >= 0
          <6> SUFFICES ASSUME q <= -1 PROVE FALSE
            BY <5>1
          <6>1. b * q <= b * (-1) /\ b * (-1) = -b
            BY <1>0, <2>2, <5>1
          <6> DEFINE p == b * q
          <6>2. p <= -b /\ a = p + r /\ p \in Int
            BY <1>0, <5>1, <6>1
          <6> HIDE DEF p
          <6> QED
            BY <1>0, <5>1, <6>2
        <5>3. b * q >= 1 * q
          BY <1>0, <2>2, <5>1, <5>2
        <5> DEFINE p == b * q
        <5>4. p >= q /\ a = p + r /\ p \in Int
          BY <1>0, <5>1, <5>3
        <5> HIDE DEF p
        <5> QED
          BY <1>0, <5>1, <5>2, <5>4
      <4> HIDE DEF q
      <4>2. q \in N
        BY <1>0, <4>1
      <4> QED
        BY <4>2 DEF q
    <3>4. CombOf(operator, a, b, w, any) \in N
      <4> HIDE DEF N
      <4> QED
        BY <1>5, <2>2, <3>1, <3>2, <3>3 DEF CombOf
    <3> QED
      BY <3>4
  <2> QED
    BY <2>1, <2>2
<1> QED
  BY <1>2, <1>3, <1>4, <1>5 DEF CombOperators

(* The values m after each of the r steps of the fold over n + 1 operands.  *)
OperandWords(val, operands, r, w, l) == Len(operands) = r + 1 /\ \A k \in 0 .. r : operands[k + 1] \in Words(w, l)
CombFold(drivers, operator, operands) ==
  EachBit(LAMBDA s, k : CombStep(s.ds, operator, s.out, operands[k + 1]), Built(drivers, operands[1]), Len(operands) - 1)
LEMMA CombFoldBuilds ==
  ASSUME NEW val \in [Nat -> BOOLEAN], NEW drivers \in Vectors, NEW w \in Nat, w > 0, NEW operator \in CombOperators,
         NEW r \in Nat, NEW operands, OperandWords(val, operands, r, w, Len(drivers)),
         NEW m, m[0] = Low(val, operands[1], w),
         \A k \in 1 .. r : m[k] = Stepped(operator, m[k - 1], Low(val, operands[k + 1], w), w)
  PROVE  BuildsNumber(val, drivers, CombFold(drivers, operator, operands), w, m[r])
<1> DEFINE step(s, k) == CombStep(s.ds, operator, s.out, operands[k + 1])
           first == operands[1]
           base == [ds |-> drivers, out |-> first]
           V == [k \in 0 .. r |-> {s \in Builds : BuildsNumber(val, drivers, s, w, m[k])}]
<1>0. /\ Len(operands) - 1 = r /\ Len(drivers) \in Nat /\ Follows(val, drivers, drivers) /\ first \in Words(w, Len(drivers))
      /\ \A k \in 0 .. r : operands[k + 1] \in Words(w, Len(drivers))
  <2>1. Len(operands) = r + 1 /\ \A k \in 0 .. r : operands[k + 1] \in Words(w, Len(drivers))
    BY DEF OperandWords
  <2>2. 0 \in 0 .. r /\ 0 + 1 = 1
    OBVIOUS
  <2>3. operands[0 + 1] \in Words(w, Len(drivers))
    BY <2>1, <2>2
  <2>4. Len(operands) - 1 = r
    BY <2>1
  <2> QED
    BY <2>1, <2>2, <2>3, <2>4, VectorLength, FollowsItself
<1> HIDE DEF first
<1>1. base \in V[0]
  <2>1. base \in Builds /\ base.ds = drivers /\ base.out = first
    BY <1>0, WordShape DEF Builds
  <2> HIDE DEF base
  <2> DEFINE n == m[0]
  <2>2. BuildsNumber(val, drivers, base, w, n)
    BY <1>0, <2>1 DEF BuildsNumber, first
  <2> QED
    BY <2>1, <2>2
<1>2. ASSUME NEW k \in 1 .. r, NEW s \in V[k - 1] PROVE step(s, k) \in V[k]
  <2> DEFINE j == k - 1
             b == operands[k + 1]
             x == s.out
             e == s.ds
             g == CombStep(e, operator, x, b)
             n == m[j]
             o == Stepped(operator, Low(val, x, w), Low(val, b, w), w)
             q == m[k]
  <2>1. j \in 0 .. r /\ k \in 0 .. r
    OBVIOUS
  <2>2. BuildsNumber(val, drivers, s, w, n)
    BY <2>1
  <2>3. b \in Words(w, Len(drivers)) /\ q = Stepped(operator, n, Low(val, b, w), w)
    BY <1>0, <2>1
  <2>4. g = step(s, k)
    OBVIOUS
  <2> HIDE DEF V, base, step, b, n, q
  <2>5. e \in Vectors /\ x \in Words(w, Len(e)) /\ b \in Words(w, Len(e)) /\ Follows(val, drivers, e)
        /\ (Respects(val, e) => Low(val, x, w) = n)
    BY <2>2, <2>3, NumberBuilt
  <2> HIDE DEF e, x
  <2>6. BuildsNumber(val, e, g, w, o)
    BY <2>5, CombStepBuilds
  <2>7. Respects(val, e) => o = q
    BY <2>3, <2>5
  <2> HIDE DEF g, o
  <2>8. BuildsNumber(val, drivers, g, w, q)
    BY <2>5, <2>6, <2>7, NumberAfter
  <2>9. g \in Builds
    BY <2>8, NumberBuilt
  <2> QED
    BY <2>1, <2>4, <2>8, <2>9 DEF V, q
<1> DEFINE Rec(f) == [k \in 0 .. r |-> IF k = 0 THEN base ELSE step(f[k - 1], k)]
       F == [y \in Builds \X (1 .. r) |-> step(y[1], y[2])]
       after == CHOOSE f : f = Rec(f)
<1>a1. \A k \in 1 .. r : \A s \in V[k - 1] : F[<<s, k>>] = step(s, k) /\ F[<<s, k>>] \in V[k]
  <2> SUFFICES ASSUME NEW k \in 1 .. r, NEW s \in V[k - 1] PROVE F[<<s, k>>] = step(s, k)
    <3> HIDE DEF V, step, F
    <3> QED
      BY <1>2
  <2>1. k - 1 \in 0 .. r
    OBVIOUS
  <2>2. s \in Builds
    BY <2>1
  <2> HIDE DEF V, step
  <2> QED
    BY <2>2
<1>a2. PICK run : Runs(r, V, base, F, run)
  <2> HIDE DEF V, step, F, base
  <2> QED
    BY <1>1, <1>a1, LoopRuns
<1>a3. run = Rec(run)
  <2> SUFFICES ASSUME NEW k \in 0 .. r PROVE run[k] = IF k = 0 THEN base ELSE step(run[k - 1], k)
    <3> HIDE DEF V, step, F, base
    <3> QED
      BY <1>a2 DEF Runs
  <2>1. CASE k = 0
    <3> HIDE DEF V, step, F, base
    <3> QED
      BY <2>1, <1>a2 DEF Runs
  <2>2. CASE k # 0
    <3>1. k \in 1 .. r /\ k - 1 \in 0 .. r
      BY <2>2
    <3> HIDE DEF V, step, F, base
    <3> QED
      BY <2>2, <3>1, <1>a1, <1>a2 DEF Runs
  <2> QED
    BY <2>1, <2>2
<1>a4. after = Rec(after)
  <2> HIDE DEF Rec
  <2> QED
    BY <1>a3
<1>a5. after[0] = base /\ \A k \in 1 .. r : after[k] = step(after[k - 1], k)
  <2> HIDE DEF step, base, after, V, F
  <2>1. \A k \in 0 .. r : after[k] = IF k = 0 THEN base ELSE step(after[k - 1], k)
    BY <1>a4
  <2>2. 0 \in 0 .. r /\ \A k \in 1 .. r : k \in 0 .. r /\ k # 0
    OBVIOUS
  <2> HIDE DEF Rec
  <2> QED
    BY <2>1, <2>2
<1>a6. \A k \in 0 .. r : after[k] \in V[k]
  <2> HIDE DEF V, step, F, base, after, Rec
  <2> QED
    BY <1>1, <1>a1, <1>a5, LoopKeeps, ZenonT(60)
<1>3. CombFold(drivers, operator, operands) = after[r]
  BY <1>0 DEF CombFold, EachBit, Built, first
<1>4. BuildsNumber(val, drivers, after[r], w, m[r])
  <2> HIDE DEF after
  <2> QED
    BY <1>a6
<1> HIDE DEF after
<1> QED
  BY <1>3, <1>4

(* The numbers that the fold of CombMeans passes through.                   *)
Numbering(numbers, r, w) == Len(numbers) = r + 1 /\ \A k \in 0 .. r : numbers[k + 1] \in 0 .. Pow2[w] - 1
Folds(m, operator, numbers, r, w, any) ==
  /\ m[0] = numbers[1]
  /\ \A k \in 1 .. r : m[k] = CombOf(operator, m[k - 1], numbers[k + 1], w, any)
  /\ \A k \in 0 .. r : m[k] \in 0 .. Pow2[w] - 1
  /\ CombMeans(operator, numbers, w, any) = m[r]
LEMMA CombMeansRuns ==
  ASSUME NEW w \in Nat, w > 0, NEW operator \in CombOperators, NEW r \in Nat, NEW any \in 0 .. Pow2[w] - 1,
         NEW numbers, Numbering(numbers, r, w)
  PROVE  \E m : Folds(m, operator, numbers, r, w, any)
<1> DEFINE N == 0 .. Pow2[w] - 1
           step(s, k) == CombOf(operator, s, numbers[k + 1], w, any)
           base == numbers[1]
           V == [k \in 0 .. r |-> {s \in N : TRUE}]
<1>0. Len(numbers) - 1 = r /\ base \in N /\ \A k \in 0 .. r : numbers[k + 1] \in N
  <2>1. 0 \in 0 .. r /\ 0 + 1 = 1
    OBVIOUS
  <2>2. Len(numbers) = r + 1 /\ \A k \in 0 .. r : numbers[k + 1] \in N
    BY DEF Numbering
  <2>3. numbers[0 + 1] \in N
    BY <2>1, <2>2
  <2> QED
    BY <2>1, <2>2, <2>3
<1>1. base \in V[0]
  BY <1>0
<1>2. ASSUME NEW k \in 1 .. r, NEW s \in V[k - 1] PROVE step(s, k) \in V[k]
  <2> DEFINE b == numbers[k + 1]
  <2>1. k \in 0 .. r /\ s \in N /\ b \in N
    BY <1>0
  <2> HIDE DEF b
  <2>2. CombOf(operator, s, b, w, any) \in N
    BY <2>1, CombType
  <2> QED
    BY <2>1, <2>2 DEF b
<1> HIDE DEF N
<1> DEFINE Rec(f) == [k \in 0 .. r |-> IF k = 0 THEN base ELSE step(f[k - 1], k)]
       F == [y \in N \X (1 .. r) |-> step(y[1], y[2])]
       after == CHOOSE f : f = Rec(f)
<1>a1. \A k \in 1 .. r : \A s \in V[k - 1] : F[<<s, k>>] = step(s, k) /\ F[<<s, k>>] \in V[k]
  <2> SUFFICES ASSUME NEW k \in 1 .. r, NEW s \in V[k - 1] PROVE F[<<s, k>>] = step(s, k)
    <3> HIDE DEF V, step, F
    <3> QED
      BY <1>2
  <2>1. k - 1 \in 0 .. r
    OBVIOUS
  <2>2. s \in N
    BY <2>1
  <2> HIDE DEF V, step
  <2> QED
    BY <2>2
<1>a2. PICK run : Runs(r, V, base, F, run)
  <2> HIDE DEF V, step, F, base
  <2> QED
    BY <1>1, <1>a1, LoopRuns
<1>a3. run = Rec(run)
  <2> SUFFICES ASSUME NEW k \in 0 .. r PROVE run[k] = IF k = 0 THEN base ELSE step(run[k - 1], k)
    <3> HIDE DEF V, step, F, base
    <3> QED
      BY <1>a2 DEF Runs
  <2>1. CASE k = 0
    <3> HIDE DEF V, step, F, base
    <3> QED
      BY <2>1, <1>a2 DEF Runs
  <2>2. CASE k # 0
    <3>1. k \in 1 .. r /\ k - 1 \in 0 .. r
      BY <2>2
    <3> HIDE DEF V, step, F, base
    <3> QED
      BY <2>2, <3>1, <1>a1, <1>a2 DEF Runs
  <2> QED
    BY <2>1, <2>2
<1>a4. after = Rec(after)
  <2> HIDE DEF Rec
  <2> QED
    BY <1>a3
<1>a5. after[0] = base /\ \A k \in 1 .. r : after[k] = step(after[k - 1], k)
  <2> HIDE DEF step, base, after, V, F
  <2>1. \A k \in 0 .. r : after[k] = IF k = 0 THEN base ELSE step(after[k - 1], k)
    BY <1>a4
  <2>2. 0 \in 0 .. r /\ \A k \in 1 .. r : k \in 0 .. r /\ k # 0
    OBVIOUS
  <2> HIDE DEF Rec
  <2> QED
    BY <2>1, <2>2
<1>a6. \A k \in 0 .. r : after[k] \in V[k]
  <2> HIDE DEF V, step, F, base, after, Rec
  <2> QED
    BY <1>1, <1>a1, <1>a5, LoopKeeps, ZenonT(60)
<1>3. CombMeans(operator, numbers, w, any) = after[r]
  BY <1>0 DEF CombMeans, EachBit
<1>4. \A k \in 0 .. r : after[k] \in N
  <2> HIDE DEF after
  <2> QED
    BY <1>a6
<1> HIDE DEF after, base
<1>5. \A k \in 1 .. r : after[k] = CombOf(operator, after[k - 1], numbers[k + 1], w, any)
  BY <1>a5
<1>6. after[0] = numbers[1]
  BY <1>a5 DEF base
<1> HIDE DEF V, step, F, Rec
<1> QED
  BY <1>3, <1>4, <1>5, <1>6 DEF N, Folds

(* The test of a divisor for zero, and the word that replaces the result.   *)
LEMMA ZeroIs ==
  ASSUME NEW val \in [Nat -> BOOLEAN], NEW w \in Nat, NEW n \in Nat, NEW x \in Words(w, n)
  PROVE  Low(val, x, w) = 0 <=> \A k \in 1 .. w : ~Says(val, x[k])
<1>1. ASSUME \A k \in 1 .. w : ~Says(val, x[k]) PROVE Low(val, x, w) = 0
  <2>1. w \in 0 .. w
    OBVIOUS
  <2> QED
    BY <1>1, <2>1, LowZero
<1>2. ASSUME Low(val, x, w) = 0, NEW k \in 1 .. w PROVE ~Says(val, x[k])
  <2> DEFINE X == Spoken(val, x)
             j == k - 1
             b == Pow2[j]
  <2>1. X[k] = Says(val, x[k])
    BY WordShape DEF Spoken
  <2>2. BitOf(Worth(X)[w], j) <=> X[k]
    BY BitOfWorth
  <2>3. Worth(X)[w] = 0
    BY <1>2 DEF Low
  <2>4. b \in Nat /\ b >= 1
    <3>1. j \in Nat
      OBVIOUS
    <3> HIDE DEF j
    <3> QED
      BY <3>1, Powers
  <2> HIDE DEF X
  <2>5. 0 \div b = 0
    <3> DEFINE zero == 0
    <3> HIDE DEF b
    <3>1. Divides(zero, b, zero, zero)
      BY <2>4 DEF Divides
    <3> HIDE DEF zero
    <3>2. Divided(zero, b, zero, zero)
      BY <3>1, DivisionIs
    <3> QED
      BY <3>2 DEF Divided, zero
  <2>6. ~BitOf(0, j)
    <3>1. 0 % 2 = 0
      OBVIOUS
    <3> QED
      BY <2>5, <3>1 DEF BitOf
  <2> QED
    BY <2>1, <2>2, <2>3, <2>6
<1> QED
  BY <1>1, <1>2

(* A mux of the result and of what stands for it where the divisor is zero. *)
LEMMA GuardBuilds ==
  ASSUME NEW val \in [Nat -> BOOLEAN], NEW drivers \in Vectors, NEW w \in Nat, w > 0,
         NEW b \in Words(w, Len(drivers)), NEW undefined \in Words(w, Len(drivers)),
         NEW folded, NEW n, BuildsNumber(val, drivers, folded, w, n), NEW zero, zero = GateChain(folded.ds, "And", NotAll(b))
  PROVE  BuildsNumber(val, drivers, Mux(zero.ds, folded.out, undefined, zero.out), w,
                      IF Low(val, b, w) = 0 THEN Low(val, undefined, w) ELSE n)
<1> DEFINE e == folded.ds
           x == folded.out
           l == Len(e)
           c == NotAll(b)
           B == Low(val, b, w)
           U == Low(val, undefined, w)
           type == "And"
<1>1. e \in Vectors /\ l \in Nat /\ x \in Words(w, l) /\ Follows(val, drivers, e) /\ b \in Words(w, l) /\ undefined \in Words(w, l)
      /\ (Respects(val, e) => Low(val, x, w) = n)
  BY NumberBuilt
<1>2. c \in Words(w, l) /\ \A k \in 1 .. w : Says(val, c[k]) <=> ~Says(val, b[k])
  <2>1. c \in Words(w, l)
    <3> HIDE DEF l
    <3> QED
      BY <1>1, NotAllLow
  <2>2. \A k \in 1 .. w : c[k] = Not(b[k])
    BY <1>1, WordShape DEF NotAll
  <2>3. \A k \in 1 .. w : b[k] \in Values(l)
    BY <1>1 DEF Words
  <2> HIDE DEF c, l
  <2> QED
    BY <1>1, <2>1, <2>2, <2>3, SaysInverse
<1> HIDE DEF x, e, c, B, U
<1> DEFINE z == Chains(val, type, w, c)
<1>3. BuildsBit(val, e, GateChain(e, type, c), z)
  <2>1. type \in {"And", "Or"}
    OBVIOUS
  <2> HIDE DEF type
  <2> QED
    BY <1>1, <1>2, <2>1, ChainBuilds DEF l
<1>4. zero = GateChain(e, type, c)
  BY DEF e, c
<1>5. z <=> B = 0
  <2>1. \A k \in 1 .. w : Says(val, b[k]) \in BOOLEAN
    <3> HIDE DEF l
    <3> QED
      BY <1>1, SaysInverse DEF Words
  <2>2. B = 0 <=> \A k \in 1 .. w : ~Says(val, b[k])
    <3> HIDE DEF l
    <3> QED
      BY <1>1, ZeroIs DEF B
  <2> HIDE DEF l
  <2> QED
    BY <1>2, <2>1, <2>2 DEF Chains
<1> HIDE DEF z, type, l
<1>6. BuildsBit(val, e, zero, z)
  BY <1>3, <1>4
<1> DEFINE d == zero.ds
           v == zero.out
<1>7. d \in Vectors /\ Len(d) \in Nat /\ v \in Values(Len(d)) /\ Follows(val, e, d)
      /\ (Respects(val, d) => Respects(val, e) /\ (Says(val, v) <=> z))
  BY <1>6, BitBuilt
<1>8. x \in Words(w, Len(d)) /\ undefined \in Words(w, Len(d)) /\ Follows(val, drivers, d)
  <2> HIDE DEF d, v
  <2> QED
    BY <1>1, <1>7, WordsGrow, FollowsOn DEF l
<1> HIDE DEF d, v
<1> DEFINE g == Mux(d, x, undefined, v)
           m == IF Says(val, v) THEN Low(val, undefined, w) ELSE Low(val, x, w)
           o == IF B = 0 THEN U ELSE n
<1>9. BuildsNumber(val, d, g, w, m)
  BY <1>7, <1>8, MuxBuildsNumber
<1>10. Respects(val, d) => m = o
  BY <1>1, <1>5, <1>7 DEF U
<1> HIDE DEF g, m, o
<1>11. BuildsNumber(val, drivers, g, w, o)
  BY <1>8, <1>9, <1>10, NumberAfter
<1> QED
  BY <1>11 DEF g, o, d, v, x, B, U

(* Every operator of comb, folded over any number of operands: the gates say*)
(* what CombMeans says, and the undefined word where a divisor is zero.     *)
THEOREM CombGateBuilds ==
  ASSUME NEW val \in [Nat -> BOOLEAN], NEW drivers \in Vectors, NEW w \in Nat, w > 0, NEW operator \in CombOperators,
         NEW r \in Nat, NEW operands, OperandWords(val, operands, r, w, Len(drivers)), operator \in Divisions => r = 1,
         NEW any \in 0 .. Pow2[w] - 1, NEW undefined,
         operator \in Divisions => undefined \in Words(w, Len(drivers)) /\ any = Low(val, undefined, w),
         NEW numbers, Len(numbers) = r + 1, \A k \in 0 .. r : numbers[k + 1] = Low(val, operands[k + 1], w)
  PROVE  BuildsNumber(val, drivers, CombGate(drivers, operator, operands, undefined), w, CombMeans(operator, numbers, w, any))
<1> DEFINE folded == CombFold(drivers, operator, operands)
           N == 0 .. Pow2[w] - 1
<1>1. \A k \in 0 .. r : numbers[k + 1] \in N
  <2> SUFFICES ASSUME NEW k \in 0 .. r PROVE numbers[k + 1] \in N
    OBVIOUS
  <2> DEFINE x == operands[k + 1]
  <2>1. numbers[k + 1] = Low(val, x, w)
    OBVIOUS
  <2> HIDE DEF x
  <2>2. Low(val, x, w) \in N
    BY LowType
  <2> QED
    BY <2>1, <2>2
<1>2. PICK m : /\ m[0] = numbers[1]
               /\ \A k \in 1 .. r : m[k] = CombOf(operator, m[k - 1], numbers[k + 1], w, any)
               /\ \A k \in 0 .. r : m[k] \in N
               /\ CombMeans(operator, numbers, w, any) = m[r]
  <2>1. Numbering(numbers, r, w)
    BY <1>1 DEF Numbering
  <2>2. \E m : Folds(m, operator, numbers, r, w, any)
    BY <2>1, CombMeansRuns
  <2> QED
    BY <2>2 DEF Folds
<1>3. 0 \in 0 .. r /\ 0 + 1 = 1 /\ numbers[1] = Low(val, operands[1], w)
  <2>1. 0 \in 0 .. r /\ 0 + 1 = 1
    OBVIOUS
  <2>2. numbers[0 + 1] = Low(val, operands[0 + 1], w)
    BY <2>1
  <2> QED
    BY <2>1, <2>2
<1> HIDE DEF folded
<1>4. CASE operator \notin Divisions
  <2>1. CombGate(drivers, operator, operands, undefined) = folded
    BY <1>4 DEF CombGate, Then, CombFold, folded
  <2>2. \A k \in 1 .. r : m[k] = Stepped(operator, m[k - 1], Low(val, operands[k + 1], w), w)
    <3> SUFFICES ASSUME NEW k \in 1 .. r PROVE m[k] = Stepped(operator, m[k - 1], Low(val, operands[k + 1], w), w)
      OBVIOUS
    <3> DEFINE a == m[k - 1]
               b == numbers[k + 1]
    <3>1. k \in 0 .. r /\ k - 1 \in 0 .. r
      OBVIOUS
    <3>2. a \in N /\ b \in N /\ b = Low(val, operands[k + 1], w) /\ m[k] = CombOf(operator, a, b, w, any)
      BY <1>1, <1>2, <3>1
    <3> HIDE DEF a, b
    <3>3. Stepped(operator, a, b, w) = CombOf(operator, a, b, w, any)
      BY <1>4, <3>2, SteppedIs
    <3> QED
      BY <3>2, <3>3 DEF a
  <2>3. BuildsNumber(val, drivers, folded, w, m[r])
    BY <1>2, <1>3, <2>2, CombFoldBuilds DEF folded
  <2> QED
    BY <1>2, <2>1, <2>3
<1>5. CASE operator \in Divisions
  <2> DEFINE A == numbers[1]
             B == numbers[2]
             b == operands[2]
             c == Stepped(operator, A, B, w)
             h == [k \in 0 .. r |-> IF k = 0 THEN A ELSE c]
  <2>1. r = 1 /\ 1 \in 1 .. r /\ 1 \in 0 .. r /\ 1 + 1 = 2 /\ 1 - 1 = 0 /\ \A k \in 1 .. r : k = 1
    BY <1>5
  <2>2. A \in N /\ B \in N /\ B = Low(val, b, w) /\ b \in Words(w, Len(drivers))
    <3>1. numbers[1 + 1] \in N /\ numbers[1 + 1] = Low(val, operands[1 + 1], w) /\ operands[1 + 1] \in Words(w, Len(drivers))
      BY <1>1, <2>1 DEF OperandWords
    <3>2. numbers[0 + 1] \in N
      BY <1>1, <1>3
    <3> QED
      BY <2>1, <3>1, <3>2, <1>3
  <2>3. h[0] = A /\ h[1] = c
    BY <1>3, <2>1
  <2>4. \A k \in 1 .. r : h[k] = Stepped(operator, h[k - 1], Low(val, operands[k + 1], w), w)
    <3> HIDE DEF h, A, B
    <3> QED
      BY <2>1, <2>2, <2>3
  <2>5. h[0] = Low(val, operands[1], w)
    BY <1>3, <2>3
  <2> HIDE DEF h
  <2>6. BuildsNumber(val, drivers, folded, w, h[r])
    BY <2>4, <2>5, CombFoldBuilds DEF folded
  <2> HIDE DEF c
  <2>7. BuildsNumber(val, drivers, folded, w, c)
    BY <2>1, <2>3, <2>6
  <2> DEFINE zero == GateChain(folded.ds, "And", NotAll(b))
             g == Mux(zero.ds, folded.out, undefined, zero.out)
             o == IF Low(val, b, w) = 0 THEN Low(val, undefined, w) ELSE c
  <2>8. CombGate(drivers, operator, operands, undefined) = g
    BY <1>5 DEF CombGate, Then, CombFold, folded
  <2>9. undefined \in Words(w, Len(drivers)) /\ any = Low(val, undefined, w)
    BY <1>5
  <2> HIDE DEF b
  <2>10. BuildsNumber(val, drivers, g, w, o)
    <3> HIDE DEF zero
    <3>1. zero = GateChain(folded.ds, "And", NotAll(b))
      BY DEF zero
    <3> QED
      BY <2>2, <2>7, <2>9, <3>1, GuardBuilds
  <2>11. o = CombMeans(operator, numbers, w, any)
    <3>1. CombMeans(operator, numbers, w, any) = CombOf(operator, A, B, w, any)
      <4>1. m[1] = CombOf(operator, m[1 - 1], numbers[1 + 1], w, any)
        BY <1>2, <2>1
      <4> QED
        BY <1>2, <2>1, <4>1
    <3> HIDE DEF A, B
    <3>2. CASE B = 0
      <4>1. CombOf(operator, A, B, w, any) = any
        <5>1. operator \in {"DivUnsigned", "DivSigned", "ModUnsigned", "ModSigned"}
          BY <1>5 DEF Divisions
        <5> QED
          BY <3>2, <5>1 DEF CombOf
      <4> QED
        BY <2>2, <2>9, <3>1, <3>2, <4>1
    <3>3. CASE B # 0
      <4>1. Stepped(operator, A, B, w) = CombOf(operator, A, B, w, any)
        BY <2>2, <3>3, SteppedIs
      <4> QED
        BY <2>2, <3>1, <3>3, <4>1 DEF c
    <3> QED
      BY <3>2, <3>3
  <2> HIDE DEF g, o
  <2> QED
    BY <2>8, <2>10, <2>11
<1> QED
  BY <1>4, <1>5

(* Words in a row, and parts of words.                                      *)
Adds(d, m, e) == e = d + m
Follow(x, y, z) == z = x \o y
LowJoined(val, x, d, y, m, z, e) == Low(val, z, e) = Low(val, x, d) + (Pow2[d] * Low(val, y, m))
LEMMA WordsJoined ==
  ASSUME NEW val, NEW d \in Nat, NEW m \in Nat, NEW e \in Nat, Adds(d, m, e), NEW n \in Nat,
         NEW x \in Words(d, n), NEW y \in Words(m, n), NEW z, Follow(x, y, z)
  PROVE  z \in Words(e, n) /\ LowJoined(val, x, d, y, m, z, e)
<1>0. x \in Seq(Values(n)) /\ y \in Seq(Values(n)) /\ Len(x) = d /\ Len(y) = m
  BY WordShape
<1>1. Len(z) = e /\ z \in Seq(Values(n)) /\ \A k \in 1 .. e : z[k] = IF k <= d THEN x[k] ELSE y[k - d]
  <2>1. z = x \o y /\ e = d + m
    BY DEF Adds, Follow
  <2>2. x \o y \in Seq(Values(n)) /\ Len(x \o y) = d + m
    BY <1>0
  <2>3. \A k \in 1 .. d + m : (x \o y)[k] = IF k <= d THEN x[k] ELSE y[k - d]
    <3> DEFINE V == Values(n)
    <3>1. x \in Seq(V) /\ y \in Seq(V) /\ Len(x) = d /\ Len(y) = m
      BY <1>0
    <3> HIDE DEF V
    <3>2. \A k \in 1 .. Len(x) + Len(y) : (x \o y)[k] = IF k <= Len(x) THEN x[k] ELSE y[k - Len(x)]
      BY <3>1, ConcatProperties
    <3> QED
      BY <3>1, <3>2
  <2> QED
    BY <2>1, <2>2, <2>3
<1>2. z \in Words(e, n)
  BY <1>1 DEF Words
<1>3. (\A k \in 1 .. d : z[k] = x[k]) /\ (\A k \in 1 .. m : z[d + k] = y[k])
  <2>1. ASSUME NEW k \in 1 .. d PROVE z[k] = x[k]
    <3>1. k \in 1 .. e /\ k <= d
      BY DEF Adds
    <3> QED
      BY <1>1, <3>1
  <2>2. ASSUME NEW k \in 1 .. m PROVE z[d + k] = y[k]
    <3> DEFINE j == d + k
    <3>1. j \in 1 .. e /\ ~(j <= d) /\ j - d = k
      BY DEF Adds
    <3> HIDE DEF j
    <3> QED
      BY <1>1, <3>1 DEF j
  <2> QED
    BY <2>1, <2>2
<1>4. PartOfWord(val, z, d, y, m, e)
  BY <1>2, <1>3 DEF PartOfWord, Adds
<1>5. SplitsAt(val, z, d, y, m, e)
  BY <1>4, LowSplits
<1>6. Low(val, z, d) = Low(val, x, d)
  <2>1. Alike(val, z, x, d)
    <3>1. d <= e
      BY DEF Adds
    <3> QED
      BY <1>2, <1>3, <3>1 DEF Alike
  <2> QED
    BY <2>1, LowAlike
<1> QED
  BY <1>2, <1>5, <1>6 DEF SplitsAt, LowJoined

(* The part of a word from d on.                                            *)
Cuts(x, d, y, w) == \A k \in 1 .. w : y[k] = x[d + k]
Within(d, w, m) == d \in Nat /\ d + w <= m
LEMMA PartMeans ==
  ASSUME NEW val, NEW m \in Nat, NEW n \in Nat, NEW x \in Words(m, n), NEW w \in Nat, NEW d, Within(d, w, m),
         NEW y \in Words(w, n), Cuts(x, d, y, w)
  PROVE  Low(val, y, w) = PartOf(Low(val, x, m), d, w)
<1> DEFINE e == m - d
           f == e - w
           z == [k \in 1 .. e |-> x[d + k]]
           t == [k \in 1 .. f |-> z[w + k]]
           X == Spoken(val, x)
           Y == Spoken(val, y)
           Z == Spoken(val, z)
           T == Spoken(val, t)
<1>1. e \in Nat /\ f \in Nat /\ m = d + e /\ e = w + f /\ d \in Nat
  BY DEF Within
<1>2. z \in Words(e, n)
  <2>1. \A k \in 1 .. e : d + k \in 1 .. m
    BY <1>1
  <2> HIDE DEF e
  <2> QED
    BY <2>1 DEF Words
<1>3. t \in Words(f, n)
  <2>1. \A k \in 1 .. f : w + k \in 1 .. e
    BY <1>1
  <2> HIDE DEF e, f, z
  <2> QED
    BY <1>2, <2>1 DEF Words
<1>4. /\ \A k \in 1 .. m : X[k] = Says(val, x[k])
      /\ \A k \in 1 .. w : Y[k] = Says(val, y[k])
      /\ \A k \in 1 .. e : Z[k] = Says(val, z[k])
      /\ \A k \in 1 .. f : T[k] = Says(val, t[k])
  <2> HIDE DEF e, f, z, t
  <2> QED
    BY <1>1, <1>2, <1>3, WordShape DEF Spoken
<1>5. PartFrom(X, d, Z, e)
  <2> SUFFICES ASSUME NEW k \in 1 .. e PROVE Z[k] <=> X[d + k]
    BY DEF PartFrom
  <2> DEFINE j == d + k
  <2>1. j \in 1 .. m
    BY <1>1
  <2>2. z[k] = x[j]
    OBVIOUS
  <2> HIDE DEF X, Z, z, e
  <2>3. X[j] = Says(val, x[j])
    BY <1>4, <2>1
  <2> QED
    BY <1>4, <2>2, <2>3
<1>6. PartFrom(Z, w, T, f)
  <2> SUFFICES ASSUME NEW k \in 1 .. f PROVE T[k] <=> Z[w + k]
    BY DEF PartFrom
  <2> DEFINE j == w + k
  <2>1. j \in 1 .. e
    BY <1>1
  <2>2. t[k] = z[j]
    OBVIOUS
  <2> HIDE DEF T, Z, z, t, e, f
  <2>3. Z[j] = Says(val, z[j])
    BY <1>4, <2>1
  <2> QED
    BY <1>4, <2>2, <2>3
<1>7. \A k \in 1 .. w : Z[k] = Y[k]
  <2> SUFFICES ASSUME NEW k \in 1 .. w PROVE Z[k] = Y[k]
    OBVIOUS
  <2>1. k \in 1 .. e
    BY <1>1
  <2>2. z[k] = y[k]
    BY <2>1 DEF Cuts
  <2> HIDE DEF Z, Y, z, e
  <2> QED
    BY <1>4, <2>1, <2>2
<1> HIDE DEF e, f, z, t, X, Y, Z, T
<1>8. Parts(X, d, Z, e, m)
  BY <1>1, <1>5, WorthParts
<1>9. Parts(Z, w, T, f, e)
  BY <1>1, <1>6, WorthParts
<1>10. Worth(Z)[w] = Worth(Y)[w]
  <2>1. \A k \in 0 .. w : Worth(Z)[k] = Worth(Y)[k]
    BY <1>7, WorthOfEqual
  <2> QED
    BY <2>1
<1> QED
  BY <1>8, <1>9, <1>10 DEF Parts, PartOf, Low, X, Y

(* comb.extract, comb.concat and comb.replicate.                            *)
LEMMA ExtractBuilds ==
  ASSUME NEW val, NEW drivers \in Vectors, NEW m \in Nat, NEW x \in Words(m, Len(drivers)),
         NEW w \in Nat, NEW d, Within(d, w, m)
  PROVE  BuildsNumber(val, drivers, ExtractGate(drivers, x, d, w), w, PartOf(Low(val, x, m), d, w))
<1> DEFINE n == Len(drivers)
           y == SubSeq(x, d + 1, d + w)
           g == [ds |-> drivers, out |-> y]
<1>0. n \in Nat
  BY VectorLength
<1> HIDE DEF n
<1>1. x \in Seq(Values(n)) /\ Len(x) = m
  BY <1>0, WordShape DEF n
<1>2. y \in Seq(Values(n)) /\ Len(y) = w /\ \A k \in 1 .. w : y[k] = x[d + k]
  <2>1. d \in Nat /\ d + w <= m
    BY DEF Within
  <2>2. Len(y) = w
    BY <1>1, <2>1
  <2>3. \A k \in 1 .. w : y[k] = x[d + k]
    <3> SUFFICES ASSUME NEW k \in 1 .. w PROVE y[k] = x[d + k]
      OBVIOUS
    <3>1. y[k] = x[(d + 1) + k - 1] /\ (d + 1) + k - 1 = d + k
      BY <1>1, <2>1
    <3> QED
      BY <3>1
  <2>4. y \in Seq(Values(n))
    BY <1>1, <2>1
  <2> QED
    BY <2>2, <2>3, <2>4
<1> HIDE DEF y
<1>3. y \in Words(w, n) /\ Cuts(x, d, y, w)
  BY <1>2 DEF Words, Cuts
<1>4. Low(val, y, w) = PartOf(Low(val, x, m), d, w)
  BY <1>0, <1>3, PartMeans DEF n
<1>5. g \in Builds /\ g.ds = drivers /\ g.out = y
  BY <1>0, <1>3, WordShape DEF Builds
<1>6. Follows(val, drivers, drivers)
  BY FollowsItself
<1>7. ExtractGate(drivers, x, d, w) = g
  BY DEF ExtractGate, Built, y
<1> HIDE DEF g
<1>8. BuildsNumber(val, drivers, g, w, PartOf(Low(val, x, m), d, w))
  BY <1>3, <1>4, <1>5, <1>6 DEF BuildsNumber, n
<1> QED
  BY <1>7, <1>8

LEMMA ConcatBuilds ==
  ASSUME NEW val, NEW drivers \in Vectors, NEW u \in Nat, NEW w \in Nat, NEW e \in Nat, Adds(w, u, e),
         NEW a \in Words(u, Len(drivers)), NEW b \in Words(w, Len(drivers))
  PROVE  BuildsNumber(val, drivers, ConcatGate(drivers, <<a, b>>), e, (Low(val, a, u) * Pow2[w]) + Low(val, b, w))
<1>5. PICK two \in Nat : two = 2
  OBVIOUS
<1> DEFINE n == Len(drivers)
           ab == <<a, b>>
           step(s, k) == ab[k] \o s
           base == <<>>
           whole == b \o a
           V == [k \in 0 .. two |-> {s \in Seq(Signals) : s = IF k = 0 THEN <<>> ELSE IF k = 1 THEN a ELSE whole}]
<1>0. n \in Nat /\ Follows(val, drivers, drivers)
  BY VectorLength, FollowsItself
<1>1. a \in Seq(Signals) /\ b \in Seq(Signals)
  BY <1>0, WordShape
<1>2. whole \in Seq(Signals) /\ a \o <<>> = a /\ <<>> \in Seq(Signals)
  BY <1>1
<1>3. base \in V[0]
  BY <1>2
<1>4. ASSUME NEW k \in 1 .. two, NEW s \in V[k - 1] PROVE step(s, k) \in V[k]
  <2>0. k = 1 \/ k = 2
    BY <1>5
  <2>1. CASE k = 1
    <3>1. k - 1 = 0 /\ s = <<>> /\ ab[k] = a /\ k \in 0 .. two
      BY <1>5, <2>1
    <3>2. step(s, k) = a
      BY <1>2, <3>1
    <3> HIDE DEF whole, step
    <3> QED
      BY <1>1, <1>2, <2>1, <3>1, <3>2
  <2>2. CASE k = 2
    <3>1. k - 1 = 1 /\ s = a /\ ab[k] = b /\ k \in 0 .. two
      BY <1>5, <2>2
    <3>2. step(s, k) = whole
      BY <3>1
    <3> HIDE DEF whole, step
    <3> QED
      BY <1>1, <1>2, <2>2, <3>1, <3>2
  <2> QED
    BY <2>0, <2>1, <2>2
<1>6. Len(ab) = two
  BY <1>5
<1> HIDE DEF whole
<1> DEFINE Rec(f) == [k \in 0 .. two |-> IF k = 0 THEN base ELSE step(f[k - 1], k)]
       F == [y \in Seq(Signals) \X (1 .. two) |-> step(y[1], y[2])]
       after == CHOOSE f : f = Rec(f)
<1>a1. \A k \in 1 .. two : \A s \in V[k - 1] : F[<<s, k>>] = step(s, k) /\ F[<<s, k>>] \in V[k]
  <2> SUFFICES ASSUME NEW k \in 1 .. two, NEW s \in V[k - 1] PROVE F[<<s, k>>] = step(s, k)
    <3> HIDE DEF V, step, F
    <3> QED
      BY <1>4
  <2>1. k - 1 \in 0 .. two
    OBVIOUS
  <2>2. s \in Seq(Signals)
    BY <2>1
  <2> HIDE DEF V, step
  <2> QED
    BY <2>2
<1>a2. PICK run : Runs(two, V, base, F, run)
  <2> HIDE DEF V, step, F, base
  <2> QED
    BY <1>3, <1>a1, LoopRuns
<1>a3. run = Rec(run)
  <2> SUFFICES ASSUME NEW k \in 0 .. two PROVE run[k] = IF k = 0 THEN base ELSE step(run[k - 1], k)
    <3> HIDE DEF V, step, F, base
    <3> QED
      BY <1>a2 DEF Runs
  <2>1. CASE k = 0
    <3> HIDE DEF V, step, F, base
    <3> QED
      BY <2>1, <1>a2 DEF Runs
  <2>2. CASE k # 0
    <3>1. k \in 1 .. two /\ k - 1 \in 0 .. two
      BY <2>2
    <3> HIDE DEF V, step, F, base
    <3> QED
      BY <2>2, <3>1, <1>a1, <1>a2 DEF Runs
  <2> QED
    BY <2>1, <2>2
<1>a4. after = Rec(after)
  <2> HIDE DEF Rec
  <2> QED
    BY <1>a3
<1>a5. after[0] = base /\ \A k \in 1 .. two : after[k] = step(after[k - 1], k)
  <2> HIDE DEF step, base, after, V, F
  <2>1. \A k \in 0 .. two : after[k] = IF k = 0 THEN base ELSE step(after[k - 1], k)
    BY <1>a4
  <2>2. 0 \in 0 .. two /\ \A k \in 1 .. two : k \in 0 .. two /\ k # 0
    OBVIOUS
  <2> HIDE DEF Rec
  <2> QED
    BY <2>1, <2>2
<1>a6. \A k \in 0 .. two : after[k] \in V[k]
  <2> HIDE DEF V, step, F, base, after, Rec
  <2> QED
    BY <1>3, <1>a1, <1>a5, LoopKeeps, ZenonT(60)
<1>8. after[two] = whole
  <2> HIDE DEF after
  <2> QED
    BY <1>5, <1>a6
<1>9. ConcatGate(drivers, <<a, b>>) = [ds |-> drivers, out |-> after[two]]
  BY <1>6 DEF ConcatGate, EachBit, Built
<1> HIDE DEF after, base, step, V, F, Rec
<1> DEFINE g == [ds |-> drivers, out |-> whole]
           P == Pow2[w]
           A == Low(val, a, u)
           B == Low(val, b, w)
<1>10. whole \in Words(e, n) /\ Low(val, whole, e) = B + (P * A)
  <2> HIDE DEF n
  <2>1. b \in Words(w, n) /\ a \in Words(u, n) /\ Adds(w, u, e) /\ n \in Nat
    BY <1>0 DEF n
  <2>2. Follow(b, a, whole)
    BY DEF Follow, whole
  <2>3. whole \in Words(e, n) /\ LowJoined(val, b, w, a, u, whole, e)
    BY <2>1, <2>2, WordsJoined
  <2> QED
    BY <2>3 DEF LowJoined
<1>11. (A * P) + B = B + (P * A)
  <2>1. A \in Nat /\ B \in Nat /\ P \in Nat
    BY LowType, Powers
  <2> HIDE DEF A, B, P
  <2>2. A * P = P * A /\ P * A \in Nat
    BY <2>1
  <2> QED
    BY <2>1, <2>2
<1>12. g \in Builds /\ g.ds = drivers /\ g.out = whole /\ ConcatGate(drivers, <<a, b>>) = g
  BY <1>2, <1>8, <1>9 DEF Builds
<1> HIDE DEF g, whole, P, A, B
<1> DEFINE m == (A * P) + B
<1>13. Low(val, whole, e) = m
  BY <1>10, <1>11
<1> HIDE DEF m
<1>14. BuildsNumber(val, drivers, g, e, m)
  BY <1>0, <1>10, <1>12, <1>13 DEF BuildsNumber, n
<1> QED
  BY <1>12, <1>14 DEF m, A, B, P

(* c is n written in base P as often as T is a power of P.                  *)
Spread(P, T, n, c) == c \in Nat /\ (P - 1) * c = (T - 1) * n
LEMMA SpreadOn ==
  ASSUME NEW P \in Nat, NEW T \in Nat, NEW n \in Nat, NEW c, Spread(P, T, n, c)
  PROVE  Spread(P, T * P, n, (c * P) + n) /\ Spread(P, T * P, n, c + (T * n))
<1>0. c \in Nat /\ (P - 1) * c = (T - 1) * n
  BY DEF Spread
<1> DEFINE cP == c * P
           nP == n * P
           TP == T * P
           Tn == T * n
           Pc == P * c
           X == TP * n
<1>1. cP \in Nat /\ nP \in Nat /\ TP \in Nat /\ Tn \in Nat /\ Pc \in Nat /\ X \in Nat /\ Pc = cP
  BY <1>0
<1>2. Pc - c = Tn - n
  BY <1>0
<1>3. (P - 1) * (cP + n) = ((P * cP) - cP) + (nP - n)
  BY <1>0, <1>1
<1>4. P * cP = ((Tn - n) + c) * P
  <2>1. P * cP = P * Pc
    BY <1>1
  <2>2. Pc = (Tn - n) + c
    BY <1>0, <1>1, <1>2
  <2> HIDE DEF Pc, Tn, cP
  <2>3. Pc * P = P * Pc
    BY <1>1
  <2> QED
    BY <2>1, <2>2, <2>3
<1>5. ((Tn - n) + c) * P = (Tn * P) - nP + cP
  <2> HIDE DEF Tn
  <2> QED
    BY <1>0, <1>1
<1>6. Tn * P = X
  BY <1>0
<1>7. (TP - 1) * n = X - n
  <2> HIDE DEF TP
  <2> QED
    BY <1>1
<1>8. (P - 1) * (c + Tn) = (Pc - c) + ((P * Tn) - Tn)
  <2> HIDE DEF Tn
  <2> QED
    BY <1>0, <1>1
<1>9. P * Tn = X
  BY <1>0
<1>10. (P - 1) * (cP + n) = (TP - 1) * n
  <2> DEFINE l == P * cP
             m == Tn * P
  <2>1. l \in Int /\ m \in Int /\ l = m - nP + cP /\ m = X
    BY <1>0, <1>1, <1>4, <1>5, <1>6
  <2> HIDE DEF l, m
  <2>2. (P - 1) * (cP + n) = (l - cP) + (nP - n)
    BY <1>3 DEF l
  <2> HIDE DEF cP, nP, TP, Tn, X
  <2> QED
    BY <1>1, <1>7, <2>1, <2>2
<1>11. (P - 1) * (c + Tn) = (TP - 1) * n
  <2> DEFINE m == P * Tn
  <2>1. m \in Int /\ m = X
    BY <1>0, <1>1, <1>9
  <2>2. (P - 1) * (c + Tn) = (Pc - c) + (m - Tn)
    BY <1>8
  <2> HIDE DEF m, cP, nP, TP, Tn, X, Pc
  <2> QED
    BY <1>0, <1>1, <1>2, <1>7, <2>1, <2>2
<1> HIDE DEF cP, TP, Tn
<1>12. cP + n \in Nat /\ c + Tn \in Nat
  BY <1>0, <1>1
<1> QED
  BY <1>10, <1>11, <1>12 DEF Spread, cP, TP, Tn

LEMMA SpreadOnce ==
  ASSUME NEW P \in Nat, P > 1, NEW T \in Nat, NEW n \in Nat, NEW c, Spread(P, T, n, c), NEW d, Spread(P, T, n, d)
  PROVE  c = d
<1> DEFINE p == P - 1
           X == (T - 1) * n
<1>1. p \in Nat /\ p > 0 /\ c \in Nat /\ d \in Nat /\ p * c = X /\ p * d = X
  BY DEF Spread
<1> HIDE DEF p, X
<1>2. p * (c - d) = 0
  <2>1. p * (c - d) = (p * c) - (p * d)
    BY <1>1
  <2> DEFINE y == p * c
             z == p * d
  <2>2. y \in Int /\ z \in Int /\ y = z
    BY <1>1
  <2> HIDE DEF y, z
  <2>3. p * (c - d) = y - z
    BY <2>1 DEF y, z
  <2> QED
    BY <2>2, <2>3
<1> DEFINE o == c - d
<1>3. o \in Int /\ p * o = 0
  BY <1>1, <1>2
<1>4. o = 0
  <2> HIDE DEF o
  <2> QED
    BY <1>1, <1>3
<1> QED
  BY <1>1, <1>4

(* The power of Pow2[w] that k words of width w have.                       *)
LEMMA PowersOfTimes ==
  ASSUME NEW w \in Nat, NEW k \in Nat, k > 0
  PROVE  /\ k * w \in Nat /\ (k - 1) * w \in Nat /\ Adds((k - 1) * w, w, k * w)
         /\ Pow2[k * w] = Pow2[(k - 1) * w] * Pow2[w]
<1> DEFINE a == (k - 1) * w
           b == k * w
<1>1. a \in Nat /\ b \in Nat /\ b = a + w
  OBVIOUS
<1> HIDE DEF a, b
<1>2. Pow2[a + w] = Pow2[a] * Pow2[w]
  BY <1>1, PowersAdd
<1>3. Pow2[b] = Pow2[a] * Pow2[w] /\ Adds(a, w, b)
  BY <1>1, <1>2 DEF Adds
<1> QED
  BY <1>1, <1>3 DEF a, b

(* Copies says a word as often as it is repeated.                           *)
LEMMA CopiesIs ==
  ASSUME NEW w \in Nat, NEW n \in Nat, NEW r \in Nat
  PROVE  Spread(Pow2[w], Pow2[r * w], n, Copies(n, w, r))
<1> DEFINE step(s, k) == (s * Pow2[w]) + n
           base == 0
           V == [k \in 0 .. r |-> {s \in Nat : Spread(Pow2[w], Pow2[k * w], n, s)}]
<1>0. Pow2[w] \in Nat /\ \A k \in Nat : Pow2[k] \in Nat
  BY Powers
<1>1. base \in V[0]
  <2>1. 0 * w = 0 /\ Pow2[0] = 1
    BY Powers
  <2>2. Spread(Pow2[w], Pow2[0 * w], n, 0)
    BY <1>0, <2>1 DEF Spread
  <2> QED
    BY <2>2
<1>2. ASSUME NEW k \in 1 .. r, NEW s \in V[k - 1] PROVE step(s, k) \in V[k]
  <2> DEFINE j == k - 1
             P == Pow2[w]
             T == Pow2[j * w]
             S == Pow2[k * w]
             t == step(s, k)
  <2>1. j \in 0 .. r /\ k \in 0 .. r /\ k \in Nat /\ k > 0 /\ j * w \in Nat
    OBVIOUS
  <2>2. s \in Nat /\ Spread(P, T, n, s)
    BY <2>1
  <2>3. P \in Nat /\ T \in Nat
    BY <1>0, <2>1
  <2>4. S = T * P
    BY <2>1, PowersOfTimes
  <2> HIDE DEF P, T
  <2>5. Spread(P, T * P, n, (s * P) + n)
    BY <2>2, <2>3, SpreadOn
  <2>6. t = (s * P) + n
    BY DEF P
  <2> HIDE DEF t, S
  <2>7. Spread(P, S, n, t)
    BY <2>4, <2>5, <2>6
  <2>8. t \in Nat
    BY <2>7 DEF Spread
  <2> HIDE DEF step
  <2> QED
    BY <2>1, <2>7, <2>8 DEF t, P, S
<1> DEFINE Rec(f) == [k \in 0 .. r |-> IF k = 0 THEN base ELSE step(f[k - 1], k)]
       F == [y \in Nat \X (1 .. r) |-> step(y[1], y[2])]
       after == CHOOSE f : f = Rec(f)
<1>a1. \A k \in 1 .. r : \A s \in V[k - 1] : F[<<s, k>>] = step(s, k) /\ F[<<s, k>>] \in V[k]
  <2> SUFFICES ASSUME NEW k \in 1 .. r, NEW s \in V[k - 1] PROVE F[<<s, k>>] = step(s, k)
    <3> HIDE DEF V, step, F
    <3> QED
      BY <1>2
  <2>1. k - 1 \in 0 .. r
    OBVIOUS
  <2>2. s \in Nat
    BY <2>1
  <2> HIDE DEF V, step
  <2> QED
    BY <2>2
<1>a2. PICK run : Runs(r, V, base, F, run)
  <2> HIDE DEF V, step, F, base
  <2> QED
    BY <1>1, <1>a1, LoopRuns
<1>a3. run = Rec(run)
  <2> SUFFICES ASSUME NEW k \in 0 .. r PROVE run[k] = IF k = 0 THEN base ELSE step(run[k - 1], k)
    <3> HIDE DEF V, step, F, base
    <3> QED
      BY <1>a2 DEF Runs
  <2>1. CASE k = 0
    <3> HIDE DEF V, step, F, base
    <3> QED
      BY <2>1, <1>a2 DEF Runs
  <2>2. CASE k # 0
    <3>1. k \in 1 .. r /\ k - 1 \in 0 .. r
      BY <2>2
    <3> HIDE DEF V, step, F, base
    <3> QED
      BY <2>2, <3>1, <1>a1, <1>a2 DEF Runs
  <2> QED
    BY <2>1, <2>2
<1>a4. after = Rec(after)
  <2> HIDE DEF Rec
  <2> QED
    BY <1>a3
<1>a5. after[0] = base /\ \A k \in 1 .. r : after[k] = step(after[k - 1], k)
  <2> HIDE DEF step, base, after, V, F
  <2>1. \A k \in 0 .. r : after[k] = IF k = 0 THEN base ELSE step(after[k - 1], k)
    BY <1>a4
  <2>2. 0 \in 0 .. r /\ \A k \in 1 .. r : k \in 0 .. r /\ k # 0
    OBVIOUS
  <2> HIDE DEF Rec
  <2> QED
    BY <2>1, <2>2
<1>a6. \A k \in 0 .. r : after[k] \in V[k]
  <2> HIDE DEF V, step, F, base, after, Rec
  <2> QED
    BY <1>1, <1>a1, <1>a5, LoopKeeps, ZenonT(60)
<1>3. Copies(n, w, r) = after[r]
  BY DEF Copies
<1>4. Spread(Pow2[w], Pow2[r * w], n, after[r])
  <2> HIDE DEF after
  <2>1. r \in 0 .. r
    OBVIOUS
  <2> QED
    BY <1>a6, <2>1
<1> HIDE DEF after
<1> QED
  BY <1>3, <1>4

(* comb.replicate, for every number of copies.                              *)
THEOREM ReplicateBuilds ==
  ASSUME NEW val, NEW drivers \in Vectors, NEW w \in Nat, w > 0, NEW x \in Words(w, Len(drivers)), NEW r \in Nat,
         NEW e, e = r * w
  PROVE  BuildsNumber(val, drivers, ReplicateGate(drivers, x, e), e, Copies(Low(val, x, w), w, r))
<1> DEFINE l == Len(drivers)
           n == Low(val, x, w)
           W == Seq(Values(l))
           step(s, k) == s \o x
           base == <<>>
           V == [k \in 0 .. r |-> {s \in W : s \in Words(k * w, l) /\ Spread(Pow2[w], Pow2[k * w], n, Low(val, s, k * w))}]
<1>0. l \in Nat /\ Pow2[w] \in Nat /\ n \in Nat /\ x \in Words(w, l) /\ \A k \in Nat : Pow2[k] \in Nat
  BY VectorLength, Powers, LowType
<1> HIDE DEF l, n
<1>1. base \in V[0]
  <2> DEFINE o == 0 * w
  <2>1. o = 0 /\ Pow2[o] = 1
    BY Powers
  <2>2. base \in Words(0, l) /\ Low(val, base, 0) = 0
    BY <1>0, EmptyWord, LowNone
  <2>3. Spread(Pow2[w], Pow2[o], n, Low(val, base, o))
    BY <1>0, <2>1, <2>2 DEF Spread
  <2>4. base \in Words(o, l) /\ base \in W
    BY <2>1, <2>2
  <2> HIDE DEF base
  <2> QED
    BY <2>3, <2>4
<1>2. ASSUME NEW k \in 1 .. r, NEW s \in V[k - 1] PROVE step(s, k) \in V[k]
  <2> DEFINE j == k - 1
             p == j * w
             q == k * w
             P == Pow2[w]
             T == Pow2[p]
             S == Pow2[q]
             t == step(s, k)
             c == Low(val, s, p)
             d == Low(val, t, q)
  <2>1. j \in 0 .. r /\ k \in 0 .. r /\ k \in Nat /\ k > 0
    OBVIOUS
  <2>2. s \in Words(p, l) /\ Spread(P, T, n, c)
    BY <2>1
  <2>3. p \in Nat /\ q \in Nat /\ Adds(p, w, q) /\ S = T * P
    BY <2>1, PowersOfTimes
  <2>4. Follow(s, x, t)
    BY DEF Follow
  <2> HIDE DEF t, p, q, step, V, j
  <2>5. t \in Words(q, l) /\ LowJoined(val, s, p, x, w, t, q)
    BY <1>0, <2>2, <2>3, <2>4, WordsJoined
  <2>6. P \in Nat /\ T \in Nat
    BY <1>0, <2>3
  <2>7. d = c + (T * n)
    BY <2>5 DEF LowJoined, n
  <2> HIDE DEF P, T, S, c, d
  <2>8. Spread(P, T * P, n, c + (T * n))
    BY <1>0, <2>2, <2>6, SpreadOn
  <2>9. Spread(P, S, n, d)
    BY <2>3, <2>7, <2>8
  <2>10. t \in W
    BY <1>0, <2>3, <2>5, WordShape
  <2> QED
    BY <2>1, <2>5, <2>9, <2>10 DEF V, t, P, S, d, q
<1> DEFINE Rec(f) == [k \in 0 .. r |-> IF k = 0 THEN base ELSE step(f[k - 1], k)]
       F == [y \in W \X (1 .. r) |-> step(y[1], y[2])]
       after == CHOOSE f : f = Rec(f)
<1>a1. \A k \in 1 .. r : \A s \in V[k - 1] : F[<<s, k>>] = step(s, k) /\ F[<<s, k>>] \in V[k]
  <2> SUFFICES ASSUME NEW k \in 1 .. r, NEW s \in V[k - 1] PROVE F[<<s, k>>] = step(s, k)
    <3> HIDE DEF V, step, F
    <3> QED
      BY <1>2
  <2>1. k - 1 \in 0 .. r
    OBVIOUS
  <2>2. s \in W
    BY <2>1
  <2> HIDE DEF V, step
  <2> QED
    BY <2>2
<1>a2. PICK run : Runs(r, V, base, F, run)
  <2> HIDE DEF V, step, F, base
  <2> QED
    BY <1>1, <1>a1, LoopRuns
<1>a3. run = Rec(run)
  <2> SUFFICES ASSUME NEW k \in 0 .. r PROVE run[k] = IF k = 0 THEN base ELSE step(run[k - 1], k)
    <3> HIDE DEF V, step, F, base
    <3> QED
      BY <1>a2 DEF Runs
  <2>1. CASE k = 0
    <3> HIDE DEF V, step, F, base
    <3> QED
      BY <2>1, <1>a2 DEF Runs
  <2>2. CASE k # 0
    <3>1. k \in 1 .. r /\ k - 1 \in 0 .. r
      BY <2>2
    <3> HIDE DEF V, step, F, base
    <3> QED
      BY <2>2, <3>1, <1>a1, <1>a2 DEF Runs
  <2> QED
    BY <2>1, <2>2
<1>a4. after = Rec(after)
  <2> HIDE DEF Rec
  <2> QED
    BY <1>a3
<1>a5. after[0] = base /\ \A k \in 1 .. r : after[k] = step(after[k - 1], k)
  <2> HIDE DEF step, base, after, V, F
  <2>1. \A k \in 0 .. r : after[k] = IF k = 0 THEN base ELSE step(after[k - 1], k)
    BY <1>a4
  <2>2. 0 \in 0 .. r /\ \A k \in 1 .. r : k \in 0 .. r /\ k # 0
    OBVIOUS
  <2> HIDE DEF Rec
  <2> QED
    BY <2>1, <2>2
<1>a6. \A k \in 0 .. r : after[k] \in V[k]
  <2> HIDE DEF V, step, F, base, after, Rec
  <2> QED
    BY <1>1, <1>a1, <1>a5, LoopKeeps, ZenonT(60)
<1>3. ReplicateGate(drivers, x, e) = [ds |-> drivers, out |-> after[r]]
  <2>1. e \div w = r
    <3>1. Divides(e, w, r, 0)
      <4> DEFINE f == w * r
      <4>1. f = e /\ e \in Int /\ f \in Int
        OBVIOUS
      <4> HIDE DEF f
      <4>2. e = f + 0
        BY <4>1
      <4> QED
        BY <4>1, <4>2 DEF Divides, f
    <3> QED
      BY <3>1, DivisionIs DEF Divided
  <2>2. e \div Len(x) = r
    BY <1>0, <2>1, WordShape
  <2> QED
    BY <2>2 DEF ReplicateGate, EachBit, Built
<1> DEFINE y == after[r]
           g == [ds |-> drivers, out |-> y]
<1>4. y \in W /\ y \in Words(e, l) /\ Spread(Pow2[w], Pow2[e], n, Low(val, y, e))
  <2> HIDE DEF after
  <2>1. r \in 0 .. r
    OBVIOUS
  <2> QED
    BY <1>a6, <2>1
<1> HIDE DEF y, V, step, base, after, F, Rec
<1>5. e \in Nat
  OBVIOUS
<1>6. Spread(Pow2[w], Pow2[e], n, Copies(n, w, r))
  BY <1>0, CopiesIs
<1>7. Pow2[w] > 1
  <2>1. 2 * Pow2[0] <= Pow2[w] /\ Pow2[0] = 1
    BY Powers, PowersGrow
  <2> QED
    BY <2>1, <1>0
<1>8. Low(val, y, e) = Copies(n, w, r)
  <2> DEFINE P == Pow2[w]
             T == Pow2[e]
             c == Low(val, y, e)
             d == Copies(n, w, r)
  <2>1. P \in Nat /\ P > 1 /\ T \in Nat /\ Spread(P, T, n, c) /\ Spread(P, T, n, d)
    BY <1>0, <1>4, <1>5, <1>6, <1>7
  <2> HIDE DEF P, T, c, d
  <2>2. c = d
    BY <1>0, <2>1, SpreadOnce
  <2> QED
    BY <2>2 DEF c, d
<1>9. g.ds = drivers /\ g.out = y /\ g \in Builds
  BY <1>0, <1>4, <1>5, WordShape DEF Builds
<1>10. Follows(val, drivers, drivers)
  BY FollowsItself
<1> HIDE DEF g
<1>11. BuildsNumber(val, drivers, g, e, Copies(n, w, r))
  BY <1>4, <1>8, <1>9, <1>10 DEF BuildsNumber, l
<1> QED
  BY <1>3, <1>11 DEF g, y, n

(* The word of a number.                                                    *)
LEMMA NumberWord ==
  ASSUME NEW val, NEW w \in Nat, NEW n \in 0 .. Pow2[w] - 1, NEW l \in Nat
  PROVE  WordOf(n, w) \in Words(w, l) /\ Low(val, WordOf(n, w), w) = n
<1> DEFINE x == WordOf(n, w)
           X == Spoken(val, x)
<1>1. x = [k \in 1 .. w |-> Const(BitOf(n, k - 1))]
  BY DEF WordOf
<1>2. \A i : BitOf(n, i) \in BOOLEAN
  BY DEF BitOf
<1> HIDE DEF x
<1>3. x \in Words(w, l)
  <2>1. \A k \in 1 .. w : Const(BitOf(n, k - 1)) \in Values(l)
    BY <1>2, ValuesAre
  <2> QED
    BY <1>1, <2>1 DEF Words
<1>4. \A k \in 1 .. w : X[k] <=> BitOf(n, k - 1)
  <2> SUFFICES ASSUME NEW k \in 1 .. w PROVE X[k] <=> BitOf(n, k - 1)
    OBVIOUS
  <2> DEFINE b == BitOf(n, k - 1)
  <2>1. x[k] = Const(b) /\ k \in DOMAIN x
    BY <1>1
  <2> HIDE DEF b
  <2>2. X[k] = b
    BY <2>1, SaysConst DEF Spoken
  <2> QED
    BY <2>2 DEF b
<1> HIDE DEF X
<1>5. n \in Int
  BY Powers
<1>6. \A k \in 0 .. w : Worth(X)[k] = n % Pow2[k]
  BY <1>4, <1>5, WorthOfNumber
<1>7. Wrap(n, w) = n
  BY WrapSmall
<1>8. Low(val, x, w) = n
  <2>1. w \in 0 .. w
    OBVIOUS
  <2> QED
    BY <1>6, <1>7, <2>1 DEF Low, X, Wrap
<1> QED
  BY <1>3, <1>8 DEF x

(* The comparison of an index with a number.                                *)
LEMMA IndexIsBuilds ==
  ASSUME NEW val \in [Nat -> BOOLEAN], NEW drivers \in Vectors, NEW u \in Nat, NEW index \in Words(u, Len(drivers)),
         NEW i \in 0 .. Pow2[u] - 1
  PROVE  BuildsBit(val, drivers, IndexIs(drivers, index, i), Low(val, index, u) = i)
<1> DEFINE p == "Equals"
           b == WordOf(i, u)
           m == Low(val, index, u)
           n == Low(val, b, u)
           holds == Compares(p, m, n)
<1>1. Len(drivers) \in Nat /\ Len(index) = u
  BY VectorLength, WordShape
<1>2. b \in Words(u, Len(drivers)) /\ n = i
  BY <1>1, NumberWord
<1>3. p \in Predicates
  BY DEF Predicates
<1>4. IndexIs(drivers, index, i) = Comparison(drivers, index, b, p)
  BY <1>1 DEF IndexIs
<1>5. holds = (m = n)
  BY DEF Compares
<1> HIDE DEF b, p, holds
<1>6. BuildsBit(val, drivers, Comparison(drivers, index, b, p), holds)
  BY <1>2, <1>3, ComparisonBuilds DEF holds
<1> QED
  BY <1>2, <1>4, <1>5, <1>6

(* Slot i of an array, a part of it.                                        *)
Slots(m, size, w) == m \in Nat /\ m = size * w
LEMMA SlotsWithin ==
  ASSUME NEW w \in Nat, NEW size \in Nat, NEW i \in 0 .. size - 1, NEW m, Slots(m, size, w)
  PROVE  i * w \in Nat /\ Within(i * w, w, m) /\ (i + 1) * w = (i * w) + w
<1> DEFINE d == i * w
           e == (i + 1) * w
           f == ((size - 1) - i) * w
<1>1. d \in Nat /\ e \in Nat /\ f \in Nat /\ e = d + w
  OBVIOUS
<1>2. m = e + f
  BY DEF Slots
<1> HIDE DEF d, e, f
<1> QED
  BY <1>1, <1>2 DEF Within, d, e

Place(i, w) == i * w
TakenFrom(val, x, m, i, y, w) == Low(val, y, w) = PartOf(Low(val, x, m), Place(i, w), w)
LEMMA SlotMeans ==
  ASSUME NEW val, NEW w \in Nat, NEW size \in Nat, NEW i \in 0 .. size - 1, NEW m, Slots(m, size, w),
         NEW n \in Nat, NEW x \in Words(m, n)
  PROVE  /\ Slot(x, i, w) \in Words(w, n)
         /\ Cuts(x, Place(i, w), Slot(x, i, w), w)
         /\ TakenFrom(val, x, m, i, Slot(x, i, w), w)
<1> DEFINE d == Place(i, w)
           y == Slot(x, i, w)
<1>1. m \in Nat
  BY DEF Slots
<1>2. d \in Nat /\ Within(d, w, m) /\ (i + 1) * w = d + w
  BY SlotsWithin DEF Place
<1>3. y = SubSeq(x, d + 1, d + w)
  BY <1>2 DEF Slot, Place
<1>4. x \in Seq(Values(n)) /\ Len(x) = m
  BY <1>1, WordShape
<1>5. d + w <= m
  BY <1>2 DEF Within
<1> HIDE DEF d, y
<1>6. y \in Seq(Values(n)) /\ Len(y) = w /\ \A k \in 1 .. w : y[k] = x[d + k]
  <2>1. Len(y) = w
    BY <1>2, <1>3, <1>4, <1>5
  <2>2. ASSUME NEW k \in 1 .. w PROVE y[k] = x[d + k] /\ y[k] \in Values(n)
    <3> DEFINE j == d + k
    <3>1. j \in 1 .. m /\ (d + 1) + (k - 1) = j /\ k \in 1 .. (d + w) - (d + 1) + 1
      BY <1>1, <1>2, <1>5
    <3>2. y[k] = x[j]
      BY <1>2, <1>3, <1>4, <1>5, <3>1, SMTT(30)
    <3> HIDE DEF j
    <3>3. x[j] \in Values(n)
      BY <3>1 DEF Words
    <3> QED
      BY <3>2, <3>3 DEF j
  <2>3. y \in Seq(Values(n))
    BY <1>2, <1>3, <1>4, <1>5
  <2> QED
    BY <2>1, <2>2, <2>3
<1>7. y \in Words(w, n)
  BY <1>6 DEF Words
<1>8. Cuts(x, d, y, w)
  BY <1>6 DEF Cuts
<1>9. Low(val, y, w) = PartOf(Low(val, x, m), d, w)
  BY <1>1, <1>2, <1>7, <1>8, PartMeans
<1> QED
  BY <1>7, <1>8, <1>9 DEF d, y, TakenFrom

(* What has been found of element i in the first k slots.                   *)
Found(n, i, w, k) == IF i < k THEN PartOf(n, Place(i, w), w) ELSE 0

(* The loop of array_get over the slots.                                    *)
GetFold(drivers, array, index, size, width) ==
  EachBit(LAMBDA s, k : Then(IndexIs(s.ds, index, k - 1), LAMBDA select :
                             Mux(select.ds, s.out, Slot(array, k - 1, width), select.out)),
          Built(drivers, Zeros(width)), size)
LEMMA GetFoldBuilds ==
  ASSUME NEW val \in [Nat -> BOOLEAN], NEW drivers \in Vectors, NEW w \in Nat, NEW size \in Nat,
         NEW m, Slots(m, size, w), NEW array \in Words(m, Len(drivers)),
         NEW u \in Nat, size <= Pow2[u], NEW index \in Words(u, Len(drivers))
  PROVE  BuildsNumber(val, drivers, GetFold(drivers, array, index, size, w), w,
                      Found(Low(val, array, m), Low(val, index, u), w, size))
<1> DEFINE A == Low(val, array, m)
           I == Low(val, index, u)
           select(s, k) == IndexIs(s.ds, index, k - 1)
           step(s, k) == Mux(select(s, k).ds, s.out, Slot(array, k - 1, w), select(s, k).out)
           zeros == Zeros(w)
           base == [ds |-> drivers, out |-> zeros]
           V == [k \in 0 .. size |-> {s \in Builds : BuildsNumber(val, drivers, s, w, Found(A, I, w, k))}]
<1>0. /\ m \in Nat /\ Len(drivers) \in Nat /\ Follows(val, drivers, drivers) /\ I \in Nat
      /\ zeros \in Words(w, Len(drivers)) /\ Low(val, zeros, w) = 0
  BY VectorLength, FollowsItself, ZerosLow, LowType DEF Slots
<1> HIDE DEF zeros, A, I
<1>1. base \in V[0]
  <2>1. base \in Builds /\ base.ds = drivers /\ base.out = zeros
    BY <1>0, WordShape DEF Builds
  <2>2. Found(A, I, w, 0) = 0
    BY <1>0 DEF Found
  <2> HIDE DEF base
  <2>3. BuildsNumber(val, drivers, base, w, Found(A, I, w, 0))
    BY <1>0, <2>1, <2>2 DEF BuildsNumber
  <2> QED
    BY <2>1, <2>3
<1>2. ASSUME NEW k \in 1 .. size, NEW s \in V[k - 1] PROVE step(s, k) \in V[k]
  <2> DEFINE j == k - 1
             b == Slot(array, j, w)
             x == s.out
             e == s.ds
             n == Found(A, I, w, j)
             is == IndexIs(e, index, j)
             f == is.ds
             c == is.out
             g == Mux(f, x, b, c)
             B == Low(val, b, w)
             o == IF Says(val, c) THEN B ELSE Low(val, x, w)
             q == Found(A, I, w, k)
             same == I = j
  <2>1. j \in 0 .. size /\ j \in 0 .. size - 1 /\ k \in 0 .. size
    OBVIOUS
  <2>2. BuildsNumber(val, drivers, s, w, n)
    BY <2>1
  <2>3. g = step(s, k)
    OBVIOUS
  <2>4. b \in Words(w, Len(drivers)) /\ B = PartOf(A, Place(j, w), w)
    <3> DEFINE l == Len(drivers)
               Y == Slot(array, j, w)
    <3>1. l \in Nat /\ array \in Words(m, l) /\ j \in 0 .. size - 1
      BY <1>0, <2>1
    <3> HIDE DEF V, step, base, j, l
    <3>2. Y \in Words(w, l) /\ TakenFrom(val, array, m, j, Y, w)
      BY <3>1, SlotMeans
    <3> QED
      BY <3>2 DEF A, l, TakenFrom
  <2>5. j \in 0 .. Pow2[u] - 1
    <3>1. Pow2[u] \in Nat
      BY Powers
    <3> HIDE DEF V, step, base, j
    <3> QED
      BY <2>1, <3>1
  <2>6. /\ same => q = PartOf(A, Place(j, w), w)
        /\ ~same => q = n
    BY <1>0, <2>1 DEF Found
  <2> HIDE DEF V, base, step, select, b, n, q, j, B
  <2>7. e \in Vectors /\ x \in Words(w, Len(e)) /\ b \in Words(w, Len(e)) /\ index \in Words(u, Len(e)) /\ Follows(val, drivers, e)
        /\ (Respects(val, e) => Low(val, x, w) = n)
    BY <2>2, <2>4, NumberBuilt
  <2> HIDE DEF e, x
  <2>8. BuildsBit(val, e, is, same)
    BY <2>5, <2>7, IndexIsBuilds DEF I
  <2>9. /\ f \in Vectors /\ c \in Values(Len(f)) /\ Follows(val, e, f) /\ Follows(val, drivers, f)
        /\ (Respects(val, f) => Respects(val, e) /\ (Says(val, c) <=> same))
    BY <2>7, <2>8, BitBuilt, FollowsOn, ZenonT(60)
  <2>10. b \in Words(w, Len(f)) /\ x \in Words(w, Len(f))
    BY <2>7, <2>9, WordsGrow
  <2> HIDE DEF is, f, c
  <2>11. BuildsNumber(val, f, g, w, o)
    BY <2>9, <2>10, MuxBuildsNumber DEF B
  <2>12. Respects(val, f) => o = q
    BY <2>4, <2>6, <2>7, <2>9
  <2> HIDE DEF g, o
  <2>13. BuildsNumber(val, drivers, g, w, q)
    BY <2>9, <2>11, <2>12, NumberAfter
  <2>14. g \in Builds
    BY <2>13, NumberBuilt
  <2> QED
    BY <2>1, <2>3, <2>13, <2>14 DEF V, q
<1> DEFINE Rec(f) == [k \in 0 .. size |-> IF k = 0 THEN base ELSE step(f[k - 1], k)]
       F == [y \in Builds \X (1 .. size) |-> step(y[1], y[2])]
       after == CHOOSE f : f = Rec(f)
<1>a1. \A k \in 1 .. size : \A s \in V[k - 1] : F[<<s, k>>] = step(s, k) /\ F[<<s, k>>] \in V[k]
  <2> SUFFICES ASSUME NEW k \in 1 .. size, NEW s \in V[k - 1] PROVE F[<<s, k>>] = step(s, k)
    <3> HIDE DEF V, step, F
    <3> QED
      BY <1>2
  <2>1. k - 1 \in 0 .. size
    OBVIOUS
  <2>2. s \in Builds
    BY <2>1
  <2> HIDE DEF V, step
  <2> QED
    BY <2>2
<1>a2. PICK run : Runs(size, V, base, F, run)
  <2> HIDE DEF V, step, F, base
  <2> QED
    BY <1>1, <1>a1, LoopRuns
<1>a3. run = Rec(run)
  <2> SUFFICES ASSUME NEW k \in 0 .. size PROVE run[k] = IF k = 0 THEN base ELSE step(run[k - 1], k)
    <3> HIDE DEF V, step, F, base
    <3> QED
      BY <1>a2 DEF Runs
  <2>1. CASE k = 0
    <3> HIDE DEF V, step, F, base
    <3> QED
      BY <2>1, <1>a2 DEF Runs
  <2>2. CASE k # 0
    <3>1. k \in 1 .. size /\ k - 1 \in 0 .. size
      BY <2>2
    <3> HIDE DEF V, step, F, base
    <3> QED
      BY <2>2, <3>1, <1>a1, <1>a2 DEF Runs
  <2> QED
    BY <2>1, <2>2
<1>a4. after = Rec(after)
  <2> HIDE DEF Rec
  <2> QED
    BY <1>a3
<1>a5. after[0] = base /\ \A k \in 1 .. size : after[k] = step(after[k - 1], k)
  <2> HIDE DEF step, base, after, V, F
  <2>1. \A k \in 0 .. size : after[k] = IF k = 0 THEN base ELSE step(after[k - 1], k)
    BY <1>a4
  <2>2. 0 \in 0 .. size /\ \A k \in 1 .. size : k \in 0 .. size /\ k # 0
    OBVIOUS
  <2> HIDE DEF Rec
  <2> QED
    BY <2>1, <2>2
<1>a6. \A k \in 0 .. size : after[k] \in V[k]
  <2> HIDE DEF V, step, F, base, after, Rec
  <2> QED
    BY <1>1, <1>a1, <1>a5, LoopKeeps, ZenonT(60)
<1>3. GetFold(drivers, array, index, size, w) = after[size]
  BY DEF GetFold, EachBit, Built, Then, zeros
<1>4. BuildsNumber(val, drivers, after[size], w, Found(A, I, w, size))
  <2> HIDE DEF after
  <2>1. size \in 0 .. size
    OBVIOUS
  <2> QED
    BY <1>a6, <2>1
<1> HIDE DEF after
<1> QED
  BY <1>3, <1>4 DEF A, I

(* An index out of range selects the undefined word.                        *)
LEMMA WithUndefinedBuilds ==
  ASSUME NEW val \in [Nat -> BOOLEAN], NEW drivers \in Vectors, NEW w \in Nat, NEW undefined \in Words(w, Len(drivers)),
         NEW u \in Nat, NEW index \in Words(u, Len(drivers)), NEW size \in Nat, size > 0, size <= Pow2[u],
         NEW s, NEW n, BuildsNumber(val, drivers, s, w, n)
  PROVE  BuildsNumber(val, drivers, WithUndefined(s, index, size, undefined), w,
                      IF Low(val, index, u) < size THEN n ELSE Low(val, undefined, w))
<1> DEFINE e == s.ds
           x == s.out
           p == "LessThanOrEqual"
           i == size - 1
           b == WordOf(i, u)
           valid == Comparison(e, index, b, p)
           f == valid.ds
           c == valid.out
           g == Mux(f, undefined, x, c)
           I == Low(val, index, u)
           B == Low(val, b, u)
           holds == Compares(p, I, B)
           A == Low(val, undefined, w)
           o == IF Says(val, c) THEN Low(val, x, w) ELSE A
           q == IF I < size THEN n ELSE A
<1>1. /\ e \in Vectors /\ Len(e) \in Nat /\ x \in Words(w, Len(e)) /\ undefined \in Words(w, Len(e)) /\ index \in Words(u, Len(e))
      /\ Follows(val, drivers, e) /\ (Respects(val, e) => Low(val, x, w) = n)
  BY NumberBuilt
<1>2. Len(index) = u /\ I \in Nat /\ i \in 0 .. Pow2[u] - 1
  <2>1. Pow2[u] \in Nat
    BY Powers
  <2>2. i \in 0 .. Pow2[u] - 1
    BY <2>1
  <2>3. I \in Nat
    BY LowType
  <2> QED
    BY <2>2, <2>3, VectorLength, WordShape
<1>3. WithUndefined(s, index, size, undefined) = g
  BY <1>2 DEF WithUndefined, Then
<1> HIDE DEF e, x
<1>4. b \in Words(u, Len(e)) /\ B = i
  BY <1>1, <1>2, NumberWord, ZenonT(60)
<1>5. p \in Predicates
  BY DEF Predicates
<1>6. holds = (I <= B)
  BY DEF Compares
<1>7. holds = (I < size)
  BY <1>2, <1>4, <1>6
<1> HIDE DEF p, holds, i, b, I, B
<1>8. BuildsBit(val, e, valid, holds)
  BY <1>1, <1>4, <1>5, ComparisonBuilds DEF holds, I, B
<1>9. /\ f \in Vectors /\ c \in Values(Len(f)) /\ Follows(val, e, f) /\ Follows(val, drivers, f)
      /\ (Respects(val, f) => Respects(val, e) /\ (Says(val, c) <=> holds))
  BY <1>1, <1>8, BitBuilt, FollowsOn
<1>10. undefined \in Words(w, Len(f)) /\ x \in Words(w, Len(f))
  BY <1>1, <1>9, WordsGrow
<1> HIDE DEF valid, f, c
<1>11. BuildsNumber(val, f, g, w, o)
  BY <1>9, <1>10, MuxBuildsNumber DEF A
<1>12. Respects(val, f) => o = q
  BY <1>1, <1>7, <1>9
<1> HIDE DEF g, o, q
<1>13. BuildsNumber(val, drivers, g, w, q)
  BY <1>9, <1>11, <1>12, NumberAfter
<1> QED
  BY <1>3, <1>13 DEF q, I, A

(* A word below, within and above a part of it.                             *)
Above(x, d, w, t, f, m) == m = d + w + f /\ \A k \in 1 .. f : t[k] = x[d + w + k]
InThree(val, x, d, y, w, t, f, m) ==
  Low(val, x, m) = Low(val, x, d) + (Pow2[d] * (Low(val, y, w) + (Pow2[w] * Low(val, t, f))))
LEMMA WordInThree ==
  ASSUME NEW val, NEW m \in Nat, NEW n \in Nat, NEW x \in Words(m, n), NEW w \in Nat, NEW d, Within(d, w, m),
         NEW y \in Words(w, n), Cuts(x, d, y, w), NEW f \in Nat, NEW t \in Words(f, n), Above(x, d, w, t, f, m)
  PROVE  InThree(val, x, d, y, w, t, f, m)
<1> DEFINE e == m - d
           z == [k \in 1 .. e |-> x[d + k]]
<1>1. e \in Nat /\ m = d + e /\ e = w + f /\ d \in Nat /\ d <= m /\ w <= e
  BY DEF Within, Above
<1>2. z \in Words(e, n)
  <2>1. \A k \in 1 .. e : d + k \in 1 .. m
    BY <1>1
  <2> HIDE DEF e
  <2> QED
    BY <2>1 DEF Words
<1>3. PartOfWord(val, x, d, z, e, m)
  <2>1. \A k \in 1 .. e : z[k] = x[d + k]
    OBVIOUS
  <2> HIDE DEF z, e
  <2> QED
    BY <1>1, <1>2, <2>1 DEF PartOfWord
<1>4. PartOfWord(val, z, w, t, f, e)
  <2>1. ASSUME NEW k \in 1 .. f PROVE t[k] = z[w + k]
    <3> DEFINE j == w + k
    <3>1. j \in 1 .. e /\ d + j = d + w + k
      BY <1>1
    <3>2. z[j] = x[d + j]
      BY <3>1
    <3>3. t[k] = x[d + w + k]
      BY DEF Above
    <3> QED
      BY <3>1, <3>2, <3>3
  <2> HIDE DEF z, e
  <2> QED
    BY <1>1, <1>2, <2>1 DEF PartOfWord
<1>5. Alike(val, z, y, w)
  <2>1. ASSUME NEW k \in 1 .. w PROVE z[k] = y[k]
    <3>1. k \in 1 .. e
      BY <1>1
    <3> QED
      BY <3>1 DEF Cuts
  <2> HIDE DEF z, e
  <2> QED
    BY <1>1, <1>2, <2>1 DEF Alike
<1> HIDE DEF z, e
<1>6. SplitsAt(val, x, d, z, e, m) /\ SplitsAt(val, z, w, t, f, e) /\ Low(val, z, w) = Low(val, y, w)
  BY <1>3, <1>4, <1>5, LowSplits, LowAlike
<1> QED
  BY <1>6 DEF SplitsAt, InThree

(* The number that a word says with one of its parts replaced.              *)
Replaces(x, d, p, w, z, m) ==
  /\ \A k \in 1 .. w : z[d + k] = p[k]
  /\ \A k \in 1 .. m : k <= d \/ k > d + w => z[k] = x[k]
Replaced(val, x, d, p, w, z, m) == Low(val, z, m) = WithPart(Low(val, x, m), d, w, Low(val, p, w))
LEMMA PartReplaced ==
  ASSUME NEW val, NEW m \in Nat, NEW n \in Nat, NEW x \in Words(m, n), NEW w \in Nat, NEW d, Within(d, w, m),
         NEW p \in Words(w, n), NEW z \in Words(m, n), Replaces(x, d, p, w, z, m)
  PROVE  Replaced(val, x, d, p, w, z, m)
<1> DEFINE y == [k \in 1 .. w |-> x[d + k]]
           f == m - d - w
           t == [k \in 1 .. f |-> x[d + w + k]]
<1>1. d \in Nat /\ f \in Nat /\ m = d + w + f /\ d <= m
  BY DEF Within
<1>2. y \in Words(w, n) /\ Cuts(x, d, y, w) /\ Cuts(z, d, p, w)
  <2>1. \A k \in 1 .. w : d + k \in 1 .. m
    BY <1>1
  <2>2. Cuts(x, d, y, w)
    BY DEF Cuts
  <2>3. Cuts(z, d, p, w)
    BY DEF Cuts, Replaces
  <2> HIDE DEF f
  <2> QED
    BY <2>1, <2>2, <2>3 DEF Words
<1>3. t \in Words(f, n)
  <2>1. \A k \in 1 .. f : d + w + k \in 1 .. m
    BY <1>1
  <2> HIDE DEF f
  <2> QED
    BY <2>1 DEF Words
<1>4. Above(x, d, w, t, f, m) /\ Above(z, d, w, t, f, m)
  <2>1. \A k \in 1 .. f : t[k] = x[d + w + k]
    OBVIOUS
  <2> HIDE DEF t
  <2>2. ASSUME NEW k \in 1 .. f PROVE z[d + w + k] = x[d + w + k]
    <3>1. d + w + k \in 1 .. m /\ d + w + k > d + w
      BY <1>1
    <3> QED
      BY <3>1 DEF Replaces
  <2> HIDE DEF f
  <2> QED
    BY <1>1, <2>1, <2>2 DEF Above
<1>5. Alike(val, x, z, d)
  <2>1. \A k \in 1 .. d : k \in 1 .. m /\ k <= d
    BY <1>1
  <2>2. \A k \in 1 .. d : z[k] = x[k]
    BY <2>1 DEF Replaces
  <2> QED
    BY <1>1, <2>2 DEF Alike
<1> HIDE DEF y, f, t
<1>6. /\ InThree(val, x, d, y, w, t, f, m) /\ InThree(val, z, d, p, w, t, f, m)
      /\ Low(val, x, d) = Low(val, z, d) /\ Low(val, y, w) = PartOf(Low(val, x, m), d, w)
  <2>1. InThree(val, x, d, y, w, t, f, m)
    BY <1>1, <1>2, <1>3, <1>4, WordInThree
  <2>2. InThree(val, z, d, p, w, t, f, m)
    BY <1>1, <1>2, <1>3, <1>4, WordInThree
  <2>3. Low(val, y, w) = PartOf(Low(val, x, m), d, w)
    BY <1>1, <1>2, PartMeans
  <2>4. Low(val, x, d) = Low(val, z, d)
    BY <1>5, LowAlike
  <2> QED
    BY <2>1, <2>2, <2>3, <2>4
<1> DEFINE X == Low(val, x, m)
           Z == Low(val, z, m)
           L == Low(val, x, d)
           Y == Low(val, y, w)
           P == Low(val, p, w)
           D == Pow2[d]
           T == Pow2[w] * Low(val, t, f)
<1>7. X \in Int /\ Z \in Int /\ L \in Int /\ Y \in Int /\ P \in Int
  BY <1>1, LowType
<1>8. D \in Int /\ T \in Int
  <2>1. D \in Int /\ Pow2[w] \in Int
    BY <1>1, Powers
  <2>2. Low(val, t, f) \in Int
    BY <1>1, LowType
  <2> QED
    BY <2>1, <2>2
<1>9. X = L + (D * (Y + T)) /\ Z = L + (D * (P + T)) /\ Y = PartOf(X, d, w)
  BY <1>6 DEF InThree
<1> HIDE DEF X, Z, L, Y, P, D, T
<1>10. Z = X + ((P - Y) * D)
  <2> DEFINE a == D * Y
             b == D * T
             c == D * P
  <2>1. D * (Y + T) = a + b /\ D * (P + T) = c + b /\ (P - Y) * D = c - a
    BY <1>7, <1>8
  <2>2. a \in Int /\ b \in Int /\ c \in Int
    BY <1>7, <1>8
  <2> HIDE DEF a, b, c
  <2> QED
    BY <1>7, <1>9, <2>1, <2>2
<1>11. Z = WithPart(X, d, w, P)
  BY <1>9, <1>10 DEF WithPart, D
<1> QED
  BY <1>11 DEF Replaced, X, Z, P

LEMMA SamePart ==
  ASSUME NEW n \in Int, NEW d \in Nat, NEW w \in Nat
  PROVE  WithPart(n, d, w, PartOf(n, d, w)) = n
<1> DEFINE p == PartOf(n, d, w)
<1>1. p \in Int /\ Pow2[d] \in Int
  <2>1. Pow2[d] \in Nat /\ Pow2[d] >= 1 /\ Pow2[w] \in Nat /\ Pow2[w] >= 1
    BY Powers
  <2>2. Wrap(Halves(n, d), w) \in Int
    BY HalvesIs, WrapType
  <2> QED
    BY <2>1, <2>2 DEF PartOf, Wrap, Halves
<1> HIDE DEF p
<1>2. n + ((p - p) * Pow2[d]) = n
  BY <1>1
<1> QED
  BY <1>2 DEF WithPart, p

(* The array after the first k slots have been compared with index i.       *)
Injected(n, i, w, v, k) == IF i < k THEN WithPart(n, Place(i, w), w, v) ELSE n
InjectStep(s, array, index, value, k, width) ==
  LET select == IndexIs(s.ds, index, k - 1)
      slot == Mux(select.ds, Slot(s.out, k - 1, width), value, select.out)
  IN [ds |-> slot.ds, out |-> [i \in DOMAIN array |->
        IF i - (k - 1) * width \in 1 .. width THEN slot.out[i - (k - 1) * width] ELSE s.out[i]]]

SlotPut(x, p, j, w, z, m) == z = [i \in 1 .. m |-> IF i - j * w \in 1 .. w THEN p[i - j * w] ELSE x[i]]
LEMMA SlotReplaced ==
  ASSUME NEW w \in Nat, NEW size \in Nat, NEW j \in 0 .. size - 1, NEW m, Slots(m, size, w),
         NEW n \in Nat, NEW x \in Words(m, n), NEW p \in Words(w, n),
         NEW z, SlotPut(x, p, j, w, z, m)
  PROVE  z \in Words(m, n) /\ Replaces(x, Place(j, w), p, w, z, m)
<1> DEFINE d == j * w
<1>1. m \in Nat /\ d \in Nat /\ d + w <= m
  BY SlotsWithin DEF Slots, Within
<1>2. z = [i \in 1 .. m |-> IF i - d \in 1 .. w THEN p[i - d] ELSE x[i]]
  BY DEF SlotPut
<1> HIDE DEF d
<1>3. z \in Words(m, n)
  BY <1>1, <1>2 DEF Words
<1>4. ASSUME NEW k \in 1 .. w PROVE z[d + k] = p[k]
  <2> DEFINE i == d + k
  <2>1. i \in 1 .. m /\ i - d = k
    BY <1>1
  <2> HIDE DEF i
  <2>2. z[i] = p[i - d]
    BY <1>2, <2>1
  <2> QED
    BY <2>1, <2>2 DEF i
<1>5. ASSUME NEW k \in 1 .. m, k <= d \/ k > d + w PROVE z[k] = x[k]
  <2>1. ~(k - d \in 1 .. w)
    BY <1>1, <1>5
  <2> QED
    BY <1>2, <2>1
<1> QED
  BY <1>3, <1>4, <1>5 DEF Replaces, Place, d

LEMMA InjectStepBuilds ==
  ASSUME NEW val \in [Nat -> BOOLEAN], NEW drivers \in Vectors, NEW w \in Nat, NEW size \in Nat,
         NEW m, Slots(m, size, w), NEW array \in Words(m, Len(drivers)), NEW value \in Words(w, Len(drivers)),
         NEW u \in Nat, size <= Pow2[u], NEW index \in Words(u, Len(drivers)), NEW A \in Int,
         NEW k \in 1 .. size, NEW j, j = k - 1,
         NEW s, BuildsNumber(val, drivers, s, m, Injected(A, Low(val, index, u), w, Low(val, value, w), j))
  PROVE  BuildsNumber(val, drivers, InjectStep(s, array, index, value, k, w), m,
                      Injected(A, Low(val, index, u), w, Low(val, value, w), k))
<1> DEFINE I == Low(val, index, u)
           v == Low(val, value, w)
           n == Injected(A, I, w, v, j)
           q == Injected(A, I, w, v, k)
           x == s.out
           e == s.ds
           b == Slot(x, j, w)
           B == Low(val, b, w)
           is == IndexIs(e, index, j)
           f == is.ds
           c == is.out
           slot == Mux(f, b, value, c)
           h == slot.ds
           p == slot.out
           P == Low(val, p, w)
           z == [i \in 1 .. m |-> IF i - j * w \in 1 .. w THEN p[i - j * w] ELSE x[i]]
           Z == Low(val, z, m)
           g == [ds |-> h, out |-> z]
           o == IF Says(val, c) THEN v ELSE B
           d == Place(j, w)
           same == I = j
<1>1. m \in Nat /\ j \in 0 .. size - 1 /\ Len(drivers) \in Nat /\ I \in Nat /\ v \in Int /\ DOMAIN array = 1 .. m
  BY VectorLength, WordShape, LowType DEF Slots
<1>2. InjectStep(s, array, index, value, k, w) = g
  BY <1>1 DEF InjectStep
<1>3. d \in Nat /\ Within(d, w, m)
  BY <1>1, SlotsWithin DEF Place
<1>4. j \in 0 .. Pow2[u] - 1
  <2>1. Pow2[u] \in Nat
    BY Powers
  <2> QED
    BY <1>1, <2>1
<1>5. same => n = A /\ q = WithPart(A, d, w, v)
  BY <1>1 DEF Injected
<1>6. ~same => q = n
  BY <1>1 DEF Injected
<1>7. n \in Int
  <2>1. WithPart(A, Place(I, w), w, v) \in Int
    <3> DEFINE a == Place(I, w)
               l == PartOf(A, a, w)
    <3>1. a \in Nat
      BY <1>1 DEF Place
    <3> HIDE DEF a
    <3>2. Pow2[a] \in Nat /\ Pow2[a] >= 1
      BY <3>1, Powers
    <3>3. l \in Int
      <4>1. Wrap(Halves(A, a), w) \in Int
        BY <3>1, HalvesIs, WrapType
      <4> QED
        BY <4>1 DEF PartOf, Wrap, Halves
    <3> HIDE DEF l
    <3>4. A + ((v - l) * Pow2[a]) \in Int
      BY <1>1, <3>2, <3>3
    <3> QED
      BY <3>4 DEF WithPart, a, l
  <2> QED
    BY <2>1 DEF Injected
<1> HIDE DEF I, v, n, q, same, d
<1>8. BuildsNumber(val, drivers, s, m, n)
  BY DEF n, I, v
<1>9. /\ e \in Vectors /\ Len(e) \in Nat /\ x \in Words(m, Len(e)) /\ value \in Words(w, Len(e)) /\ index \in Words(u, Len(e))
      /\ Follows(val, drivers, e) /\ (Respects(val, e) => Low(val, x, m) = n)
  BY <1>8, NumberBuilt
<1> HIDE DEF e, x
<1>10. b \in Words(w, Len(e)) /\ TakenFrom(val, x, m, j, b, w)
  BY <1>1, <1>9, SlotMeans
<1>11. Respects(val, e) => B = PartOf(n, d, w)
  BY <1>9, <1>10 DEF TakenFrom, d
<1> HIDE DEF b, B
<1>12. BuildsBit(val, e, is, same)
  BY <1>4, <1>9, IndexIsBuilds DEF same, I
<1>13. /\ f \in Vectors /\ Len(f) \in Nat /\ c \in Values(Len(f)) /\ Follows(val, e, f) /\ Follows(val, drivers, f)
       /\ (Respects(val, f) => Respects(val, e) /\ (Says(val, c) <=> same))
  BY <1>9, <1>12, BitBuilt, FollowsOn
<1>14. b \in Words(w, Len(f)) /\ value \in Words(w, Len(f)) /\ x \in Words(m, Len(f))
  BY <1>9, <1>10, <1>13, WordsGrow
<1> HIDE DEF is, f, c
<1>15. BuildsNumber(val, f, slot, w, o)
  BY <1>13, <1>14, MuxBuildsNumber DEF v, B
<1>16. /\ h \in Vectors /\ Len(h) \in Nat /\ p \in Words(w, Len(h)) /\ Follows(val, f, h) /\ x \in Words(m, Len(h))
       /\ (Respects(val, h) => Respects(val, f) /\ P = o)
  BY <1>14, <1>15, NumberBuilt
<1> HIDE DEF slot, h, p
<1>a. SlotPut(x, p, j, w, z, m)
  BY DEF SlotPut
<1> HIDE DEF z
<1>17. z \in Words(m, Len(h)) /\ Replaces(x, d, p, w, z, m)
  BY <1>1, <1>16, <1>a, SlotReplaced DEF d
<1>18. Replaced(val, x, d, p, w, z, m)
  BY <1>1, <1>3, <1>16, <1>17, PartReplaced
<1>19. Z = WithPart(Low(val, x, m), d, w, P)
  BY <1>18 DEF Replaced
<1> HIDE DEF Z, P
<1>20. ASSUME Respects(val, h) PROVE Z = q
  <2>1. Respects(val, f) /\ Respects(val, e) /\ P = o /\ (Says(val, c) <=> same) /\ Low(val, x, m) = n /\ B = PartOf(n, d, w)
    BY <1>9, <1>11, <1>13, <1>16, <1>20
  <2>2. Z = WithPart(n, d, w, o)
    BY <1>19, <2>1
  <2>3. CASE same
    BY <1>5, <2>1, <2>2, <2>3
  <2>4. CASE ~same
    <3>1. o = PartOf(n, d, w)
      BY <2>1, <2>4
    <3>2. WithPart(n, d, w, PartOf(n, d, w)) = n
      BY <1>3, <1>7, SamePart
    <3> QED
      BY <1>6, <2>2, <2>4, <3>1, <3>2
  <2> QED
    BY <2>3, <2>4
<1>21. Follows(val, drivers, h)
  BY <1>13, <1>16, FollowsOn
<1>22. g \in Builds /\ g.ds = h /\ g.out = z
  BY <1>1, <1>16, <1>17, WordShape DEF Builds
<1> HIDE DEF g
<1>23. BuildsNumber(val, drivers, g, m, q)
  BY <1>17, <1>20, <1>21, <1>22 DEF BuildsNumber, Z
<1> QED
  BY <1>2, <1>23 DEF q, I, v

(* The loop of array_inject over the slots.                                 *)
InjectFold(drivers, array, index, value, size, width) ==
  EachBit(LAMBDA s, k :
            Then(IndexIs(s.ds, index, k - 1), LAMBDA select :
            Then(Mux(select.ds, Slot(s.out, k - 1, width), value, select.out), LAMBDA slot :
            Built(slot.ds, [i \in DOMAIN array |->
              IF i - (k - 1) * width \in 1 .. width THEN slot.out[i - (k - 1) * width] ELSE s.out[i]]))),
          Built(drivers, array), size)
LEMMA InjectFoldBuilds ==
  ASSUME NEW val \in [Nat -> BOOLEAN], NEW drivers \in Vectors, NEW w \in Nat, NEW size \in Nat,
         NEW m, Slots(m, size, w), NEW array \in Words(m, Len(drivers)), NEW value \in Words(w, Len(drivers)),
         NEW u \in Nat, size <= Pow2[u], NEW index \in Words(u, Len(drivers))
  PROVE  BuildsNumber(val, drivers, InjectFold(drivers, array, index, value, size, w), m,
                      Injected(Low(val, array, m), Low(val, index, u), w, Low(val, value, w), size))
<1> DEFINE A == Low(val, array, m)
           I == Low(val, index, u)
           v == Low(val, value, w)
           step(s, k) == InjectStep(s, array, index, value, k, w)
           base == [ds |-> drivers, out |-> array]
           V == [k \in 0 .. size |-> {s \in Builds : BuildsNumber(val, drivers, s, m, Injected(A, I, w, v, k))}]
<1>0. m \in Nat /\ Len(drivers) \in Nat /\ Follows(val, drivers, drivers) /\ A \in Int /\ I \in Nat
  BY VectorLength, FollowsItself, LowType DEF Slots
<1>1. base \in V[0]
  <2>1. base \in Builds /\ base.ds = drivers /\ base.out = array
    BY <1>0, WordShape DEF Builds
  <2>2. Injected(A, I, w, v, 0) = A
    BY <1>0 DEF Injected
  <2> DEFINE n == Injected(A, I, w, v, 0)
  <2> HIDE DEF base, n
  <2>3. BuildsNumber(val, drivers, base, m, n)
    BY <1>0, <2>1, <2>2 DEF BuildsNumber, n
  <2> QED
    BY <2>1, <2>3 DEF n
<1>2. ASSUME NEW k \in 1 .. size, NEW s \in V[k - 1] PROVE step(s, k) \in V[k]
  <2> DEFINE j == k - 1
             n == Injected(A, I, w, v, j)
             q == Injected(A, I, w, v, k)
             g == step(s, k)
  <2>1. j \in 0 .. size /\ k \in 0 .. size
    OBVIOUS
  <2>2. BuildsNumber(val, drivers, s, m, n)
    BY <2>1
  <2>3. j = k - 1
    OBVIOUS
  <2> HIDE DEF j, A, V, base
  <2>4. BuildsNumber(val, drivers, g, m, q)
    BY <1>0, <2>2, <2>3, InjectStepBuilds
  <2> HIDE DEF g, q
  <2>5. g \in Builds
    BY <2>4, NumberBuilt
  <2> QED
    BY <2>1, <2>4, <2>5 DEF V, g, q
<1> HIDE DEF A, I, v
<1> DEFINE Rec(f) == [k \in 0 .. size |-> IF k = 0 THEN base ELSE step(f[k - 1], k)]
       F == [y \in Builds \X (1 .. size) |-> step(y[1], y[2])]
       after == CHOOSE f : f = Rec(f)
<1>a1. \A k \in 1 .. size : \A s \in V[k - 1] : F[<<s, k>>] = step(s, k) /\ F[<<s, k>>] \in V[k]
  <2> SUFFICES ASSUME NEW k \in 1 .. size, NEW s \in V[k - 1] PROVE F[<<s, k>>] = step(s, k)
    <3> HIDE DEF V, step, F
    <3> QED
      BY <1>2
  <2>1. k - 1 \in 0 .. size
    OBVIOUS
  <2>2. s \in Builds
    BY <2>1
  <2> HIDE DEF V, step
  <2> QED
    BY <2>2
<1>a2. PICK run : Runs(size, V, base, F, run)
  <2> HIDE DEF V, step, F, base
  <2> QED
    BY <1>1, <1>a1, LoopRuns
<1>a3. run = Rec(run)
  <2> SUFFICES ASSUME NEW k \in 0 .. size PROVE run[k] = IF k = 0 THEN base ELSE step(run[k - 1], k)
    <3> HIDE DEF V, step, F, base
    <3> QED
      BY <1>a2 DEF Runs
  <2>1. CASE k = 0
    <3> HIDE DEF V, step, F, base
    <3> QED
      BY <2>1, <1>a2 DEF Runs
  <2>2. CASE k # 0
    <3>1. k \in 1 .. size /\ k - 1 \in 0 .. size
      BY <2>2
    <3> HIDE DEF V, step, F, base
    <3> QED
      BY <2>2, <3>1, <1>a1, <1>a2 DEF Runs
  <2> QED
    BY <2>1, <2>2
<1>a4. after = Rec(after)
  <2> HIDE DEF Rec
  <2> QED
    BY <1>a3
<1>a5. after[0] = base /\ \A k \in 1 .. size : after[k] = step(after[k - 1], k)
  <2> HIDE DEF step, base, after, V, F
  <2>1. \A k \in 0 .. size : after[k] = IF k = 0 THEN base ELSE step(after[k - 1], k)
    BY <1>a4
  <2>2. 0 \in 0 .. size /\ \A k \in 1 .. size : k \in 0 .. size /\ k # 0
    OBVIOUS
  <2> HIDE DEF Rec
  <2> QED
    BY <2>1, <2>2
<1>a6. \A k \in 0 .. size : after[k] \in V[k]
  <2> HIDE DEF V, step, F, base, after, Rec
  <2> QED
    BY <1>1, <1>a1, <1>a5, LoopKeeps, ZenonT(60)
<1>3. InjectFold(drivers, array, index, value, size, w) = after[size]
  BY DEF InjectFold, EachBit, Built, Then, InjectStep
<1>4. BuildsNumber(val, drivers, after[size], m, Injected(A, I, w, v, size))
  <2> HIDE DEF after
  <2>1. size \in 0 .. size
    OBVIOUS
  <2> QED
    BY <1>a6, <2>1
<1> HIDE DEF after
<1> QED
  BY <1>3, <1>4 DEF A, I, v

(* The width of an index of size elements.                                  *)
Indexes(u, size) == /\ u \in Nat /\ size \in Nat /\ size > 0 /\ u > 0
                    /\ size <= Pow2[u] /\ (u = 1 \/ size > Pow2[u - 1])
LEMMA PowersExceed == \A k \in Nat : k < Pow2[k]
<1> DEFINE S == {k \in Nat : k < Pow2[k]}
<1>1. 0 \in S
  BY Powers
<1>2. ASSUME NEW k \in Nat, k \in S PROVE k + 1 \in S
  <2>1. Pow2[k + 1] = 2 * Pow2[k] /\ Pow2[k] \in Nat /\ k < Pow2[k]
    BY <1>2, Powers
  <2> QED
    BY <2>1
<1> HIDE DEF S
<1>3. \A k \in Nat : k \in S
  BY <1>1, <1>2, ClimbsOn
<1> QED
  BY <1>3 DEF S

(* The width that index_width computes exists and is the least that fits.   *)
LEMMA IndexExists ==
  ASSUME NEW size \in Nat, size > 0
  PROVE  \E u \in 1 .. size : size <= Pow2[u] /\ (u = 1 \/ size > Pow2[u - 1])
<1> SUFFICES ASSUME ~ \E u \in 1 .. size : size <= Pow2[u] /\ (u = 1 \/ size > Pow2[u - 1]) PROVE FALSE
  OBVIOUS
<1> DEFINE S == {k \in Nat : k = 0 \/ size > Pow2[k]}
<1>0. \A k \in Nat : Pow2[k] \in Nat
  BY Powers
<1>1. 0 \in S
  OBVIOUS
<1>2. ASSUME NEW k \in 1 .. size, k - 1 \in S PROVE k \in S
  <2>1. k = 1 \/ size > Pow2[k - 1]
    BY <1>2
  <2>2. ~(size <= Pow2[k])
    BY <2>1
  <2> QED
    BY <1>0, <2>2
<1> HIDE DEF S
<1>3. \A k \in 0 .. size : k \in S
  BY <1>1, <1>2, Climbs
<1>4. size \in S
  BY <1>3
<1>5. size < Pow2[size]
  BY PowersExceed
<1> QED
  BY <1>0, <1>4, <1>5 DEF S

(* Where no undefined word is needed, every index is in range.              *)
LEMMA IndexIsFull ==
  ASSUME NEW u, NEW size, Indexes(u, size), NEW operator \in ArrayOperations, ~NeedsUndefined(operator, size)
  PROVE  size = Pow2[u]
<1>0. u \in Nat /\ size \in Nat /\ size > 0 /\ u > 0 /\ size <= Pow2[u] /\ (u = 1 \/ size > Pow2[u - 1])
  BY DEF Indexes
<1>1. size # 1 /\ ~(\A k \in 0 .. size : size # Pow2[k])
  BY DEF NeedsUndefined
<1>2. PICK k \in 0 .. size : size = Pow2[k]
  BY <1>1
<1>3. k \in Nat /\ \A i \in Nat : Pow2[i] \in Nat /\ Pow2[i] >= 1
  BY <1>0, Powers
<1> DEFINE j == u - 1
<1>4. j \in Nat /\ Pow2[u] = 2 * Pow2[j] /\ (j = 0 => Pow2[j] = 1) /\ (j # 0 => size > Pow2[j])
  BY <1>0, Powers
<1> HIDE DEF j
<1>5. CASE k < u
  <2>1. k <= j
    BY <1>0, <1>3, <1>5 DEF j
  <2>2. Pow2[k] <= Pow2[j]
    BY <1>3, <1>4, <2>1, PowersGrow
  <2>3. Pow2[j] \in Nat
    BY <1>3, <1>4
  <2> QED
    BY <1>0, <1>1, <1>2, <1>4, <2>2, <2>3
<1>6. CASE k = u
  BY <1>2, <1>6
<1>7. CASE k > u
  <2>1. 2 * Pow2[u] <= Pow2[k]
    BY <1>0, <1>3, <1>7, PowersGrow
  <2>2. Pow2[u] \in Nat /\ Pow2[u] >= 1
    BY <1>0, <1>3
  <2> QED
    BY <1>0, <1>2, <2>1, <2>2
<1> QED
  BY <1>0, <1>3, <1>5, <1>6, <1>7

(* The undefined word where an operation needs one, and what it stands for. *)
Spare(val, drivers, undefined, w, any) == undefined \in Words(w, Len(drivers)) /\ any = Low(val, undefined, w)
LEMMA ArrayEndBuilds ==
  ASSUME NEW val \in [Nat -> BOOLEAN], NEW drivers \in Vectors, NEW w \in Nat, NEW undefined, NEW any,
         NEW operator \in ArrayOperations, NEW size, NeedsUndefined(operator, size) => Spare(val, drivers, undefined, w, any),
         NEW u, Indexes(u, size), NEW index \in Words(u, Len(drivers)),
         NEW s, NEW n, BuildsNumber(val, drivers, s, w, n)
  PROVE  BuildsNumber(val, drivers, IF NeedsUndefined(operator, size) THEN WithUndefined(s, index, size, undefined) ELSE s, w,
                      IF Low(val, index, u) < size THEN n ELSE any)
<1> DEFINE I == Low(val, index, u)
           U == Low(val, undefined, w)
           g == WithUndefined(s, index, size, undefined)
           q == IF I < size THEN n ELSE any
           needs == NeedsUndefined(operator, size)
<1>0. u \in Nat /\ size \in Nat /\ size > 0 /\ size <= Pow2[u]
  BY DEF Indexes
<1> DEFINE r == IF needs THEN g ELSE s
<1> SUFFICES BuildsNumber(val, drivers, r, w, q)
  OBVIOUS
<1>1. CASE needs
  <2>1. undefined \in Words(w, Len(drivers)) /\ any = U
    BY <1>1 DEF Spare
  <2>2. BuildsNumber(val, drivers, g, w, IF I < size THEN n ELSE U)
    BY <1>0, <2>1, WithUndefinedBuilds
  <2> HIDE DEF I, U, g, needs
  <2> QED
    BY <1>1, <2>1, <2>2
<1>2. CASE ~needs
  <2>1. size = Pow2[u]
    BY <1>2, IndexIsFull
  <2>2. I < size
    BY <1>0, <2>1, LowType
  <2>3. q = n /\ r = s
    BY <1>2, <2>2
  <2> HIDE DEF I, needs, q, r
  <2> QED
    BY <2>3
<1> QED
  BY <1>1, <1>2

(* array_get reads the indexed element, or the undefined word outside of the*)
(* array.                                                                   *)
THEOREM ArrayGetBuilds ==
  ASSUME NEW val \in [Nat -> BOOLEAN], NEW drivers \in Vectors, NEW w \in Nat, NEW undefined, NEW any,
         NEW size, NeedsUndefined("ArrayGet", size) => Spare(val, drivers, undefined, w, any),
         NEW u, Indexes(u, size), NEW index \in Words(u, Len(drivers)), NEW m, Slots(m, size, w), NEW array \in Words(m, Len(drivers))
  PROVE  BuildsNumber(val, drivers, ArrayGet(drivers, array, index, size, undefined), w,
                      IF Low(val, index, u) < size THEN PartOf(Low(val, array, m), w * Low(val, index, u), w) ELSE any)
<1> DEFINE I == Low(val, index, u)
           A == Low(val, array, m)
           operator == "ArrayGet"
           s == GetFold(drivers, array, index, size, w)
           n == Found(A, I, w, size)
           o == IF I < size THEN n ELSE any
           q == IF I < size THEN PartOf(A, w * I, w) ELSE any
           g == IF NeedsUndefined(operator, size) THEN WithUndefined(s, index, size, undefined) ELSE s
<1>0. u \in Nat /\ size \in Nat /\ size > 0 /\ size <= Pow2[u] /\ m \in Nat /\ I \in Nat /\ Len(array) = m
  BY VectorLength, WordShape, LowType DEF Indexes, Slots
<1>1. Len(array) \div size = w
  <2> DEFINE b == size
             f == b * w
  <2>1. m = f + 0 /\ f \in Int /\ m \in Int
    BY <1>0 DEF Slots
  <2>2. Divides(m, size, w, 0)
    BY <1>0, <2>1 DEF Divides
  <2>3. m \div size = w
    BY <2>2, DivisionIs DEF Divided
  <2> QED
    BY <1>0, <2>3
<1> DEFINE d == Len(array) \div size
           t == GetFold(drivers, array, index, size, d)
<1>2. ArrayGet(drivers, array, index, size, undefined) = g
  <2>1. ArrayGet(drivers, array, index, size, undefined)
          = IF NeedsUndefined(operator, size) THEN WithUndefined(t, index, size, undefined) ELSE t
    BY DEF ArrayGet, GetFold, Then
  <2>2. t = s
    BY <1>1
  <2> QED
    BY <2>1, <2>2
<1>3. operator \in ArrayOperations
  BY DEF ArrayOperations
<1>4. BuildsNumber(val, drivers, s, w, n)
  BY <1>0, GetFoldBuilds
<1>5. o = q
  <2>1. CASE I < size
    <3>1. Place(I, w) = w * I
      BY <1>0 DEF Place
    <3> QED
      BY <2>1, <3>1 DEF Found
  <2> QED
    BY <2>1
<1>6. NeedsUndefined(operator, size) => Spare(val, drivers, undefined, w, any)
  OBVIOUS
<1> HIDE DEF s, n, operator
<1>7. BuildsNumber(val, drivers, g, w, o)
  BY <1>3, <1>4, <1>6, ArrayEndBuilds
<1> HIDE DEF g, o, q
<1>8. BuildsNumber(val, drivers, g, w, q)
  BY <1>5, <1>7
<1> QED
  BY <1>2, <1>8 DEF q

(* array_inject replaces the indexed element, or returns the undefined word.*)
THEOREM ArrayInjectBuilds ==
  ASSUME NEW val \in [Nat -> BOOLEAN], NEW drivers \in Vectors, NEW w \in Nat, NEW undefined, NEW any, NEW m, NEW size,
         NeedsUndefined("ArrayInject", size) => Spare(val, drivers, undefined, m, any), NEW value \in Words(w, Len(drivers)),
         NEW u, Indexes(u, size), NEW index \in Words(u, Len(drivers)), Slots(m, size, w), NEW array \in Words(m, Len(drivers))
  PROVE  BuildsNumber(val, drivers, ArrayInject(drivers, array, index, value, size, undefined), m,
                      IF Low(val, index, u) < size
                      THEN WithPart(Low(val, array, m), w * Low(val, index, u), w, Low(val, value, w)) ELSE any)
<1> DEFINE I == Low(val, index, u)
           A == Low(val, array, m)
           v == Low(val, value, w)
           operator == "ArrayInject"
           s == InjectFold(drivers, array, index, value, size, w)
           n == Injected(A, I, w, v, size)
           o == IF I < size THEN n ELSE any
           q == IF I < size THEN WithPart(A, w * I, w, v) ELSE any
           g == IF NeedsUndefined(operator, size) THEN WithUndefined(s, index, size, undefined) ELSE s
<1>0. u \in Nat /\ size \in Nat /\ size > 0 /\ size <= Pow2[u] /\ m \in Nat /\ I \in Nat /\ Len(value) = w
  BY VectorLength, WordShape, LowType DEF Indexes, Slots
<1>2. ArrayInject(drivers, array, index, value, size, undefined) = g
  BY <1>0 DEF ArrayInject, InjectFold, Then
<1>3. operator \in ArrayOperations
  BY DEF ArrayOperations
<1>4. BuildsNumber(val, drivers, s, m, n)
  BY <1>0, InjectFoldBuilds
<1>5. o = q
  <2>1. CASE I < size
    <3>1. Place(I, w) = w * I
      BY <1>0 DEF Place
    <3> QED
      BY <2>1, <3>1 DEF Injected
  <2> QED
    BY <2>1
<1>6. NeedsUndefined(operator, size) => Spare(val, drivers, undefined, m, any)
  OBVIOUS
<1> HIDE DEF s, n, operator
<1>7. BuildsNumber(val, drivers, g, m, o)
  BY <1>0, <1>3, <1>4, <1>6, ArrayEndBuilds
<1> HIDE DEF g, o, q
<1>8. BuildsNumber(val, drivers, g, m, q)
  BY <1>5, <1>7
<1> QED
  BY <1>2, <1>8 DEF q

(* One bit of a word, as a word.                                            *)
LEMMA BitAsPart ==
  ASSUME NEW val, NEW w \in Nat, NEW n \in Nat, NEW x \in Words(w, n), NEW i \in 0 .. w - 1
  PROVE  Truth(Says(val, x[i + 1])) = PartOf(Low(val, x, w), i, 1)
<1> DEFINE o == 1
           v == x[i + 1]
           y == <<v>>
<1>1. v \in Values(n) /\ y \in Words(o, n) /\ Cuts(x, i, y, o) /\ y[1] = v
  <2>1. v \in Values(n)
    BY DEF Words
  <2>2. \A k \in 1 .. 1 : y[k] = x[i + k]
    OBVIOUS
  <2> HIDE DEF v
  <2>3. y \in Words(1, n) /\ y[1] = v
    BY <2>1 DEF Words
  <2> HIDE DEF y
  <2> QED
    BY <2>1, <2>2, <2>3 DEF Cuts
<1> HIDE DEF y, v
<1>2. o \in Nat /\ o = 1 /\ Within(i, o, w)
  BY DEF Within
<1> HIDE DEF o
<1>3. Low(val, y, o) = PartOf(Low(val, x, w), i, o)
  BY <1>1, <1>2, PartMeans
<1>4. \A k \in 1 .. o : Low(val, y, k) = Low(val, y, k - 1) + (Truth(Says(val, y[k])) * Pow2[k - 1])
  BY <1>1, <1>2, LowGrows
<1>5. Low(val, y, 0) = 0 /\ Pow2[0] = 1
  BY LowNone, Powers
<1>6. Low(val, y, 1) = 0 + (Truth(Says(val, v)) * 1)
  <2>1. 1 \in 1 .. o /\ 1 - 1 = 0
    BY <1>2
  <2> QED
    BY <1>1, <1>4, <1>5, <2>1
<1>7. Low(val, y, 1) = Truth(Says(val, v))
  BY <1>6 DEF Truth
<1> QED
  BY <1>2, <1>3, <1>7 DEF v

Selected(bit) == Built(bit.ds, <<bit.out>>)

(* A bit of a word, selected by an index.                                   *)
LEMMA SelectWordBuilds ==
  ASSUME NEW val \in [Nat -> BOOLEAN], NEW drivers \in Vectors, NEW u \in Nat, NEW index \in Words(u, Len(drivers)),
         NEW w \in Nat, w = Pow2[u], NEW choices \in Words(w, Len(drivers))
  PROVE  BuildsNumber(val, drivers, Selected(Select(drivers, choices, index)), 1,
                      PartOf(Low(val, choices, w), Low(val, index, u), 1))
<1> DEFINE i == Low(val, index, u)
           g == Select(drivers, choices, index)
           b == Says(val, choices[i + 1])
           h == Built(g.ds, <<g.out>>)
           n == Truth(b)
           p == PartOf(Low(val, choices, w), i, 1)
<1>1. BuildsBit(val, drivers, g, b)
  BY SelectBuilds
<1>2. i \in 0 .. w - 1 /\ Len(drivers) \in Nat
  BY LowType, VectorLength
<1>3. n = p
  <2> HIDE DEF i
  <2> QED
    BY <1>2, BitAsPart
<1>4. Selected(g) = h
  BY DEF Selected
<1> HIDE DEF g, b
<1>5. BuildsNumber(val, drivers, h, 1, n)
  BY <1>1, BitAsWord
<1> HIDE DEF h, n, p
<1>6. BuildsNumber(val, drivers, h, 1, p)
  BY <1>3, <1>5
<1> QED
  BY <1>4, <1>6 DEF g, p, i
================================================================================
