------------------------------- MODULE AigerProofs -------------------------------
(****************************************************************************)
(* The file formats, for every FSM: what the writers put in a file, the     *)
(* sections that the readers find in it, and that the lines and the bytes,  *)
(* read one by one, list each driven variable once with the driver it was   *)
(* written for, in whatever order the gate lines of an ASCII file come; and *)
(* when the subtractions of the binary writer overflow.                     *)
(****************************************************************************)
EXTENDS AigerFile, FsmProofs

(* A literal of a file names the value it was written for.                 *)
LEMMA LiteralRoundTrip ==
  ASSUME NEW n \in Nat, NEW v \in Values(n)
  PROVE  /\ LitOf(v) \in Nat /\ ValueOf(LitOf(v)) = v
         /\ v.index # NoVar => LitOf(v) >= 2
<1>1. /\ v.index \in Int /\ v.index >= -1 /\ v.sign \in BOOLEAN
      /\ v = [index |-> v.index, sign |-> v.sign]
  BY DEF Values, NoVar
<1>2. CASE v.index = NoVar
  BY <1>1, <1>2 DEF LitOf, ValueOf, NoVar, Const
<1>3. CASE v.index # NoVar
  <2>1. v.index \in Nat
    BY <1>1, <1>3 DEF NoVar
  <2>2. \A i \in Nat, b \in {0, 1} : (2 * (i + 1) + b) \div 2 = i + 1 /\ (2 * (i + 1) + b) % 2 = b
    OBVIOUS
  <2>3. PICK b \in {0, 1} : b = IF v.sign THEN 0 ELSE 1
    OBVIOUS
  <2>4. LitOf(v) = 2 * (v.index + 1) + b
    BY <1>3, <2>3 DEF LitOf
  <2>5. LitOf(v) \in Nat /\ LitOf(v) >= 2 /\ ~(LitOf(v) < 2)
    BY <2>1, <2>4
  <2>6. ValueOf(LitOf(v)) = Lit(v.index + 1 - 1, b = 0)
    BY <2>1, <2>2, <2>4, <2>5 DEF ValueOf
  <2> QED
    BY <1>1, <2>1, <2>3, <2>5, <2>6 DEF Lit
<1> QED
  BY <1>2, <1>3

(* The list of a set has each of its members once.                         *)
Enumerates(S, s) ==
  /\ s \in [1 .. Cardinality(S) -> S]
  /\ \A j, k \in 1 .. Cardinality(S) : s[j] = s[k] => j = k
  /\ \A i \in S : \E k \in 1 .. Cardinality(S) : s[k] = i

LEMMA IndicesList ==
  ASSUME NEW S \in SUBSET Nat, IsFiniteSet(S)
  PROVE  Cardinality(S) \in Nat /\ Enumerates(S, Indices(S))
<1> DEFINE n == Cardinality(S)
           f == [i \in S |-> Below(S, i)]
<1>1. n \in Nat
  BY FS_CardinalityType
<1>2. f \in [S -> 0 .. n - 1]
  <2>1. \A i \in S : Below(S, i) \in 0 .. n /\ Below(S, i) < n
    BY BelowCounts
  <2> QED
    BY <1>1, <2>1
<1>3. \A i, j \in S : f[i] = f[j] => i = j
  <2>1. \A i, j \in S : i < j => Below(S, i) < Below(S, j)
    BY BelowCounts
  <2>2. \A i \in S : i \in Int /\ Below(S, i) \in Int
    BY <1>1, <1>2
  <2> QED
    BY <2>1, <2>2
<1>4. \A k \in 0 .. n - 1 : \E i \in S : f[i] = k
  <2> HIDE DEF f
  <2> QED
    BY <1>2, <1>3, PlacesFilled
<1>5. \A k \in 1 .. n : Indices(S)[k] \in S /\ f[Indices(S)[k]] = k - 1
  <2> TAKE k \in 1 .. n
  <2>1. k - 1 \in 0 .. n - 1
    BY <1>1
  <2>2. \E i \in S : Below(S, i) = k - 1
    BY <1>4, <2>1
  <2>3. Indices(S)[k] = CHOOSE i \in S : Below(S, i) = k - 1
    BY DEF Indices
  <2> QED
    BY <2>2, <2>3
<1>6. Indices(S) \in [1 .. n -> S]
  BY <1>5 DEF Indices
<1>7. ASSUME NEW i \in S PROVE f[i] + 1 \in 1 .. n /\ Indices(S)[f[i] + 1] = i
  <2>1. f[i] \in 0 .. n - 1
    BY <1>2
  <2>2. f[i] + 1 \in 1 .. n /\ f[i] + 1 - 1 = f[i]
    BY <1>1, <2>1
  <2> HIDE DEF f, n
  <2>3. ASSUME NEW k \in 1 .. n, k = f[i] + 1
        PROVE  Indices(S)[k] \in S /\ f[Indices(S)[k]] = f[i]
    <3>1. f[i] \in Int /\ f[Indices(S)[k]] = k - 1
      BY <1>5, <2>1, <2>3
    <3> QED
      BY <1>5, <2>3, <3>1
  <2> QED
    BY <1>3, <2>2, <2>3
<1>8. \A j, k \in 1 .. n : Indices(S)[j] = Indices(S)[k] => j = k
  <2> HIDE DEF f
  <2>1. \A j \in 1 .. n : j = f[Indices(S)[j]] + 1
    <3>1. \A j \in 1 .. n : j \in Int
      BY <1>1
    <3> QED
      BY <1>1, <1>5, <3>1
  <2> QED
    BY <2>1
<1> QED
  BY <1>1, <1>6, <1>7, <1>8 DEF Enumerates

(* One list after another.                                                 *)
Joined(u, s, t) ==
  /\ Len(u) = Len(s) + Len(t)
  /\ \A k \in 1 .. Len(s) : u[k] = s[k]
  /\ \A k \in 1 .. Len(t) : u[Len(s) + k] = t[k]

LEMMA ConcatJoins ==
  ASSUME NEW S, NEW s \in Seq(S), NEW t \in Seq(S)
  PROVE  s \o t \in Seq(S) /\ Joined(s \o t, s, t)
<1>1. Len(s) \in Nat /\ Len(t) \in Nat
  BY LenProperties
<1>2. /\ s \o t \in Seq(S) /\ Len(s \o t) = Len(s) + Len(t)
      /\ \A i \in 1 .. Len(s) + Len(t) :
           (s \o t)[i] = IF i <= Len(s) THEN s[i] ELSE t[i - Len(s)]
  BY ConcatProperties
<1>3. ASSUME NEW k \in 1 .. Len(s)  PROVE (s \o t)[k] = s[k]
  <2>1. k \in 1 .. Len(s) + Len(t) /\ k <= Len(s)
    BY <1>1
  <2> QED
    BY <2>1, <1>2
<1>4. ASSUME NEW k \in 1 .. Len(t)  PROVE (s \o t)[Len(s) + k] = t[k]
  <2>1. /\ Len(s) + k \in 1 .. Len(s) + Len(t) /\ ~(Len(s) + k <= Len(s))
        /\ Len(s) + k - Len(s) = k
    BY <1>1
  <2> QED
    BY <2>1, <1>2
<1> QED
  BY <1>2, <1>3, <1>4 DEF Joined

(* Six lists, one after another.                                           *)
JoinedSix(u, a, b, c, d, e, f) ==
  /\ Len(u) = Len(a) + Len(b) + Len(c) + Len(d) + Len(e) + Len(f)
  /\ \A k \in 1 .. Len(a) : u[k] = a[k]
  /\ \A k \in 1 .. Len(b) : u[Len(a) + k] = b[k]
  /\ \A k \in 1 .. Len(c) : u[Len(a) + Len(b) + k] = c[k]
  /\ \A k \in 1 .. Len(d) : u[Len(a) + Len(b) + Len(c) + k] = d[k]
  /\ \A k \in 1 .. Len(e) : u[Len(a) + Len(b) + Len(c) + Len(d) + k] = e[k]
  /\ \A k \in 1 .. Len(f) : u[Len(a) + Len(b) + Len(c) + Len(d) + Len(e) + k] = f[k]

LEMMA JoinSix ==
  ASSUME NEW S, NEW a \in Seq(S), NEW b \in Seq(S), NEW c \in Seq(S), NEW d \in Seq(S),
         NEW e \in Seq(S), NEW f \in Seq(S)
  PROVE  /\ ((((a \o b) \o c) \o d) \o e) \o f \in Seq(S)
         /\ JoinedSix(((((a \o b) \o c) \o d) \o e) \o f, a, b, c, d, e, f)
<1> DEFINE ab == a \o b
           abc == ab \o c
           abcd == abc \o d
           abcde == abcd \o e
           u == abcde \o f
<1>1. ab \in Seq(S) /\ Joined(ab, a, b)
  BY ConcatJoins
<1> HIDE DEF ab
<1>2. abc \in Seq(S) /\ Joined(abc, ab, c)
  BY <1>1, ConcatJoins
<1> HIDE DEF abc
<1>3. abcd \in Seq(S) /\ Joined(abcd, abc, d)
  BY <1>2, ConcatJoins
<1> HIDE DEF abcd
<1>4. abcde \in Seq(S) /\ Joined(abcde, abcd, e)
  BY <1>3, ConcatJoins
<1> HIDE DEF abcde
<1>5. u \in Seq(S) /\ Joined(u, abcde, f)
  BY <1>4, ConcatJoins
<1> HIDE DEF u
<1>6. /\ Len(a) \in Nat /\ Len(b) \in Nat /\ Len(c) \in Nat /\ Len(d) \in Nat /\ Len(e) \in Nat
      /\ Len(f) \in Nat
  BY LenProperties
<1>7. /\ Len(ab) = Len(a) + Len(b) /\ Len(abc) = Len(ab) + Len(c)
      /\ Len(abcd) = Len(abc) + Len(d) /\ Len(abcde) = Len(abcd) + Len(e)
      /\ Len(u) = Len(abcde) + Len(f)
  BY <1>1, <1>2, <1>3, <1>4, <1>5 DEF Joined
<1>8. /\ \A k \in 1 .. Len(abcde) : u[k] = abcde[k]
      /\ \A k \in 1 .. Len(abcd) : abcde[k] = abcd[k]
      /\ \A k \in 1 .. Len(abc) : abcd[k] = abc[k]
      /\ \A k \in 1 .. Len(ab) : abc[k] = ab[k]
  BY <1>2, <1>3, <1>4, <1>5 DEF Joined
<1>9. \A k \in 1 .. Len(f) : u[Len(abcde) + k] = f[k]
  BY <1>5 DEF Joined
<1>10. \A k \in 1 .. Len(e) : u[Len(abcd) + k] = e[k]
  <2>1. \A k \in 1 .. Len(e) : Len(abcd) + k \in 1 .. Len(abcde)
    BY <1>6, <1>7
  <2> QED
    BY <1>4, <1>8, <2>1 DEF Joined
<1>11. \A k \in 1 .. Len(abcd) : u[k] = abcd[k]
  <2>1. \A k \in 1 .. Len(abcd) : k \in 1 .. Len(abcde)
    BY <1>6, <1>7
  <2> QED
    BY <1>8, <2>1
<1>12. \A k \in 1 .. Len(d) : u[Len(abc) + k] = d[k]
  <2>1. \A k \in 1 .. Len(d) : Len(abc) + k \in 1 .. Len(abcd)
    BY <1>6, <1>7
  <2> QED
    BY <1>3, <1>11, <2>1 DEF Joined
<1>13. \A k \in 1 .. Len(abc) : u[k] = abc[k]
  <2>1. \A k \in 1 .. Len(abc) : k \in 1 .. Len(abcd)
    BY <1>6, <1>7
  <2> QED
    BY <1>8, <1>11, <2>1
<1>14. \A k \in 1 .. Len(c) : u[Len(ab) + k] = c[k]
  <2>1. \A k \in 1 .. Len(c) : Len(ab) + k \in 1 .. Len(abc)
    BY <1>6, <1>7
  <2> QED
    BY <1>2, <1>13, <2>1 DEF Joined
<1>15. \A k \in 1 .. Len(ab) : u[k] = ab[k]
  <2>1. \A k \in 1 .. Len(ab) : k \in 1 .. Len(abc)
    BY <1>6, <1>7
  <2> QED
    BY <1>8, <1>13, <2>1
<1>16. \A k \in 1 .. Len(a) : u[k] = a[k]
  <2>1. \A k \in 1 .. Len(a) : k \in 1 .. Len(ab)
    BY <1>6, <1>7
  <2> QED
    BY <1>1, <1>15, <2>1 DEF Joined
<1>17. \A k \in 1 .. Len(b) : u[Len(a) + k] = b[k]
  <2>1. \A k \in 1 .. Len(b) : Len(a) + k \in 1 .. Len(ab)
    BY <1>6, <1>7
  <2> QED
    BY <1>1, <1>15, <2>1 DEF Joined
<1>18. u \in Seq(S) /\ JoinedSix(u, a, b, c, d, e, f)
  BY <1>5, <1>7, <1>9, <1>10, <1>12, <1>14, <1>16, <1>17 DEF JoinedSix
<1> QED
  BY <1>18 DEF u, abcde, abcd, abc, ab

(* What is indexed by 1 .. n is a list of n elements.                       *)
LEMMA FunctionIsSeq ==
  ASSUME NEW S, NEW n \in Nat, NEW s \in [1 .. n -> S]
  PROVE  s \in Seq(S) /\ Len(s) = n
<1>1. s \in Seq(S)
  BY SeqDef
<1> QED
  BY <1>1, LenProperties


(* A number is written as its last byte and, before it, bytes of a higher  *)
(* rest.                                                                   *)
Coded == Seq(0 .. 2 * Radix - 1)
LEMMA BytesDefined ==
  \A n \in Nat : Bytes[n] = IF n < Radix THEN <<n>> ELSE <<(n % Radix) + Radix>> \o Bytes[n \div Radix]
<1> DEFINE p == [n \in Nat |-> n \div Radix]
           base == [n \in Nat |-> <<n>>]
           ext == [x \in Nat \X Coded |-> <<(x[1] % Radix) + Radix>> \o x[2]]
           stop == 0 .. Radix - 1
<1>1. Radix \in Nat \ {0, 1}
  BY RadixAssumption
<1>2. \A n \in Nat : n \notin stop <=> n >= Radix
  BY <1>1
<1>3. \A n \in Nat \ stop : p[n] \in Nat /\ p[n] < n
  BY <1>1, <1>2
<1>4. \A n \in Nat \cap stop : base[n] \in Coded
  BY <1>1 DEF Coded
<1>5. \A n \in Nat \ stop, x \in Coded : ext[<<n, x>>] = <<(n % Radix) + Radix>> \o x
  OBVIOUS
<1>6. \A n \in Nat, x \in Coded : <<(n % Radix) + Radix>> \o x \in Coded
  <2> TAKE n \in Nat, x \in Coded
  <2>1. (n % Radix) + Radix \in 0 .. 2 * Radix - 1
    BY <1>1
  <2>2. <<(n % Radix) + Radix>> \in Coded
    BY <2>1 DEF Coded
  <2> QED
    BY <2>2, ConcatProperties DEF Coded
<1>7. \E f : Recurs(Coded, p, stop, base, ext, f)
  <2>1. \A n \in Nat \ stop : \A x \in Coded : ext[<<n, x>>] \in Coded
    BY <1>5, <1>6, Zenon
  <2> HIDE DEF p, base, ext, stop
  <2>2. Descends(Coded, p, stop, base, ext)
    BY <1>3, <1>4, <2>1 DEF Descends
  <2> QED
    BY <2>2, RecursionDefines
<1>8. PICK f \in [Nat -> Coded] :
        \A n \in Nat : f[n] = IF n \in stop THEN base[n] ELSE ext[<<n, f[p[n]]>>]
  <2> HIDE DEF p, base, ext, stop
  <2> QED
    BY <1>7 DEF Recurs
<1>9. \A n \in Nat : f[n] = IF n < Radix THEN <<n>> ELSE <<(n % Radix) + Radix>> \o f[n \div Radix]
  <2> TAKE n \in Nat
  <2>1. CASE n < Radix
    <3>1. n \in stop /\ base[n] = <<n>>
      BY <1>1, <2>1
    <3> HIDE DEF p, base, ext, stop
    <3> QED
      BY <1>8, <2>1, <3>1
  <2>2. CASE n >= Radix
    <3>1. f[p[n]] \in Coded /\ p[n] = n \div Radix /\ n \notin stop
      BY <1>2, <1>3, <2>2
    <3>2. ~(n < Radix)
      BY <1>1, <2>2
    <3>3. ext[<<n, f[p[n]]>>] = <<(n % Radix) + Radix>> \o f[p[n]]
      BY <1>2, <1>5, <2>2, <3>1
    <3> HIDE DEF p, base, ext, stop
    <3> QED
      BY <1>8, <3>1, <3>2, <3>3, Zenon
  <2> QED
    BY <1>1, <2>1, <2>2
<1> DEFINE Rec(b) == [n \in Nat |-> IF n < Radix THEN <<n>>
                                   ELSE <<(n % Radix) + Radix>> \o b[n \div Radix]]
<1>10. f = Rec(f)
  BY <1>9
<1>11. Bytes = CHOOSE b : b = Rec(b)
  BY DEF Bytes
<1>12. Bytes = Rec(Bytes)
  <2> HIDE DEF Rec
  <2> QED
    BY <1>10, <1>11
<1> QED
  BY <1>12

(* The last byte is the only one below Radix.                              *)
Terminated(b) ==
  /\ b \in Coded /\ Len(b) >= 1 /\ b[Len(b)] < Radix
  /\ \A k \in 1 .. Len(b) - 1 : b[k] >= Radix
LEMMA ByteBefore ==
  ASSUME NEW c \in 0 .. 2 * Radix - 1, NEW b \in Coded
  PROVE  /\ <<c>> \o b \in Coded /\ Len(<<c>> \o b) = Len(b) + 1
         /\ (<<c>> \o b)[1] = c /\ \A k \in 1 .. Len(b) : (<<c>> \o b)[k + 1] = b[k]
<1>1. <<c>> \in Coded /\ Len(<<c>>) = 1 /\ <<c>>[1] = c
  BY DEF Coded
<1>2. <<c>> \o b \in Coded /\ Joined(<<c>> \o b, <<c>>, b)
  BY <1>1, ConcatJoins DEF Coded
<1>3. Len(b) \in Nat
  BY LenProperties DEF Coded
<1> DEFINE s == <<c>>
           u == s \o b
<1>4. /\ Len(u) = 1 + Len(b) /\ u[1] = c /\ \A k \in 1 .. Len(b) : u[1 + k] = b[k]
  <2> HIDE DEF u, s
  <2>1. Len(s) = 1 /\ s[1] = c /\ Joined(u, s, b)
    BY <1>1, <1>2 DEF u, s
  <2> QED
    BY <1>3, <2>1 DEF Joined
<1> HIDE DEF u
<1> QED
  BY <1>2, <1>3, <1>4 DEF u

LEMMA BytesTerminated ==
  \A n \in Nat : Terminated(Bytes[n])
<1> DEFINE Bad == {n \in Nat : ~Terminated(Bytes[n])}
<1>1. SUFFICES ASSUME Bad # {} PROVE FALSE
  OBVIOUS
<1>2. PICK n \in Bad : \A j \in Bad : n <= j
  <2>1. Bad \subseteq Nat
    OBVIOUS
  <2> HIDE DEF Bad
  <2> QED
    BY <1>1, <2>1, LeastNatural
<1>3. Radix \in Nat \ {0, 1} /\ n \in Nat
  BY RadixAssumption
<1>4. CASE n < Radix
  <2>1. Bytes[n] = <<n>>
    BY <1>3, <1>4, BytesDefined
  <2>2. <<n>> \in Coded /\ Len(<<n>>) = 1 /\ <<n>>[1] = n
    BY <1>3, <1>4 DEF Coded
  <2>3. Terminated(<<n>>)
    BY <1>4, <2>2 DEF Terminated
  <2> QED
    BY <2>1, <2>3
<1>5. CASE n >= Radix
  <2> DEFINE c == (n % Radix) + Radix
             q == n \div Radix
             b == Bytes[q]
  <2>1. c \in 0 .. 2 * Radix - 1 /\ c >= Radix /\ q \in Nat /\ q < n
    BY <1>3, <1>5
  <2>2. Bytes[n] = <<c>> \o b
    <3>1. ~(n < Radix)
      BY <1>3, <1>5
    <3> QED
      BY <1>3, <3>1, BytesDefined, Zenon
  <2>3. Terminated(b)
    BY <1>2, <1>3, <2>1
  <2> HIDE DEF c, q, b
  <2>4. Terminated(<<c>> \o b)
    <3> DEFINE u == <<c>> \o b
    <3>1. b \in Coded /\ Len(b) \in Nat
      BY <2>3, LenProperties DEF Terminated, Coded
    <3>2. /\ u \in Coded /\ Len(u) = Len(b) + 1 /\ u[1] = c
          /\ \A k \in 1 .. Len(b) : u[k + 1] = b[k]
      BY <2>1, <3>1, ByteBefore
    <3> HIDE DEF u
    <3>3. u[Len(u)] = b[Len(b)]
      BY <2>3, <3>1, <3>2 DEF Terminated
    <3>4. ASSUME NEW k \in 1 .. Len(u) - 1 PROVE u[k] >= Radix
      <4>1. CASE k = 1
        BY <2>1, <3>2, <4>1
      <4>2. CASE k # 1
        <5>1. k - 1 \in 1 .. Len(b) - 1 /\ k - 1 \in 1 .. Len(b) /\ (k - 1) + 1 = k
          BY <3>1, <3>2, <4>2
        <5> QED
          BY <2>3, <3>2, <5>1 DEF Terminated
      <4> QED
        BY <4>1, <4>2
    <3> QED
      BY <2>3, <3>1, <3>2, <3>3, <3>4 DEF Terminated, u
  <2> QED
    BY <2>2, <2>4
<1> QED
  BY <1>3, <1>4, <1>5

(* The number that starts behind p is read as it was written.              *)
Tails(bytes, tail) ==
  \A k \in DOMAIN bytes :
    tail[k] = (bytes[k] % Radix) + (IF bytes[k] < Radix THEN 0 ELSE Radix * tail[k + 1])
Holds(bytes, p, b) == p + Len(b) <= Len(bytes) /\ \A k \in 1 .. Len(b) : bytes[p + k] = b[k]
LEMMA NumberReadBack ==
  ASSUME NEW bytes \in Coded, NEW tail, Tails(bytes, tail)
  PROVE  \A n \in Nat : \A p \in Nat : Holds(bytes, p, Bytes[n]) => tail[p + 1] = n
<1> DEFINE Bad == {n \in Nat : ~\A p \in Nat : Holds(bytes, p, Bytes[n]) => tail[p + 1] = n}
<1>1. SUFFICES ASSUME Bad # {} PROVE FALSE
  OBVIOUS
<1>2. PICK n \in Bad : \A j \in Bad : n <= j
  <2>1. Bad \subseteq Nat
    OBVIOUS
  <2> HIDE DEF Bad
  <2> QED
    BY <1>1, <2>1, LeastNatural
<1>3. Radix \in Nat \ {0, 1} /\ n \in Nat
  BY RadixAssumption
<1>4. SUFFICES ASSUME NEW p \in Nat, Holds(bytes, p, Bytes[n]) PROVE tail[p + 1] = n
  OBVIOUS
<1>5. DOMAIN bytes = 1 .. Len(bytes) /\ Len(bytes) \in Nat
  BY LenProperties DEF Coded
<1> DEFINE b == Bytes[n]
<1>6. Terminated(b) /\ Len(b) \in Nat
  BY <1>3, BytesTerminated, LenProperties DEF Terminated, Coded
<1>7. p + 1 \in DOMAIN bytes /\ bytes[p + 1] = b[1] /\ 1 \in 1 .. Len(b)
  BY <1>4, <1>5, <1>6 DEF Holds, Terminated
<1>8. tail[p + 1] = (b[1] % Radix) + (IF b[1] < Radix THEN 0 ELSE Radix * tail[(p + 1) + 1])
  BY <1>7 DEF Tails
<1>9. CASE n < Radix
  <2>1. b = <<n>>
    BY <1>3, <1>9, BytesDefined
  <2>2. b[1] = n
    BY <2>1
  <2> HIDE DEF b
  <2> QED
    BY <1>3, <1>8, <1>9, <2>2
<1>10. CASE n >= Radix
  <2> DEFINE c == (n % Radix) + Radix
             q == n \div Radix
             e == Bytes[q]
  <2>1. c \in 0 .. 2 * Radix - 1 /\ c >= Radix /\ q \in Nat /\ q < n
    BY <1>3, <1>10
  <2>2. b = <<c>> \o e
    <3>1. ~(n < Radix)
      BY <1>3, <1>10
    <3> QED
      BY <1>3, <3>1, BytesDefined, Zenon
  <2>3. Terminated(e) /\ e \in Coded /\ Len(e) \in Nat
    BY <2>1, BytesTerminated, LenProperties DEF Terminated, Coded
  <2> HIDE DEF b, c, e
  <2>4. /\ Len(b) = Len(e) + 1 /\ b[1] = c /\ \A k \in 1 .. Len(e) : b[k + 1] = e[k]
    BY <2>1, <2>2, <2>3, ByteBefore
  <2>5. Holds(bytes, p + 1, e)
    <3>1. (p + 1) + Len(e) <= Len(bytes)
      BY <1>4, <1>5, <2>3, <2>4 DEF Holds, b
    <3>2. ASSUME NEW k \in 1 .. Len(e) PROVE bytes[(p + 1) + k] = e[k]
      <4>1. k + 1 \in 1 .. Len(b) /\ (p + 1) + k = p + (k + 1)
        BY <2>3, <2>4
      <4> QED
        BY <1>4, <2>4, <4>1 DEF Holds, b
    <3> QED
      BY <3>1, <3>2 DEF Holds
  <2>6. tail[(p + 1) + 1] = q
    <3>1. q \notin Bad /\ p + 1 \in Nat
      BY <1>2, <1>3, <2>1
    <3> QED
      BY <2>1, <2>5, <3>1 DEF e
  <2> HIDE DEF q, Bad
  <2>7. tail[p + 1] = (c % Radix) + Radix * q
    BY <1>3, <1>8, <2>1, <2>4, <2>6
  <2>8. (c % Radix) + Radix * q = n
    <3>1. /\ n % Radix \in 0 .. Radix - 1 /\ n = Radix * q + (n % Radix) /\ Radix * q \in Nat
      BY <1>3 DEF q
    <3>2. \A r \in 0 .. Radix - 1 : (r + Radix) % Radix = r
      BY <1>3
    <3>3. c % Radix = n % Radix
      BY <3>1, <3>2 DEF c
    <3> QED
      BY <3>1, <3>3
  <2> QED
    BY <2>7, <2>8
<1> QED
  BY <1>3, <1>9, <1>10

(* What the reader's recursion computes, when the last byte ends a number.  *)
LEMMA TailsDefined ==
  ASSUME NEW bytes \in Coded, bytes = <<>> \/ bytes[Len(bytes)] < Radix
  PROVE  \E tail : /\ Tails(bytes, tail)
                   /\ Uints(bytes) = [j \in DOMAIN Ends(bytes) |->
                                        tail[IF j = 1 THEN 1 ELSE Ends(bytes)[j - 1] + 1]]
<1> DEFINE N == Len(bytes)
           At(n) == IF n \in 1 .. N THEN bytes[N + 1 - n] ELSE 0
           p == [n \in Nat |-> n - 1]
           stop == {n \in Nat : At(n) < Radix}
           base == [n \in Nat |-> At(n) % Radix]
           ext == [x \in Nat \X Nat |-> (At(x[1]) % Radix) + Radix * x[2]]
           Rec(tail) == [k \in DOMAIN bytes |->
                           (bytes[k] % Radix) +
                           (IF bytes[k] < Radix THEN 0 ELSE Radix * tail[k + 1])]
<1>1. Radix \in Nat \ {0, 1}
  BY RadixAssumption
<1>2. /\ N \in Nat /\ DOMAIN bytes = 1 .. N /\ \A k \in 1 .. N : bytes[k] \in Nat
      /\ N > 0 => bytes[N] < Radix
  <2>1. N \in Nat /\ DOMAIN bytes = 1 .. N /\ \A k \in 1 .. N : bytes[k] \in 0 .. 2 * Radix - 1
    BY LenProperties, ElementOfSeq DEF Coded
  <2>2. N > 0 => bytes # <<>>
    BY EmptySeq
  <2> QED
    BY <1>1, <2>1, <2>2
<1> HIDE DEF N
<1>3. \A n \in Nat : At(n) \in Nat /\ At(n) % Radix \in Nat
  <2>1. \A n \in Nat : At(n) \in Nat
    BY <1>1, <1>2
  <2> HIDE DEF At
  <2> QED
    BY <1>1, <2>1
<1>4. \A n \in Nat \ stop : n \in 2 .. N
  <2> TAKE n \in Nat \ stop
  <2>1. ~(At(n) < Radix)
    OBVIOUS
  <2>2. n \in 1 .. N
    BY <1>1, <2>1
  <2>3. n # 1
    BY <1>2, <2>1, <2>2
  <2> QED
    BY <1>2, <2>2, <2>3
<1>5. PICK f \in [Nat -> Nat] :
        \A n \in Nat : f[n] = IF n \in stop THEN base[n] ELSE ext[<<n, f[p[n]]>>]
  <2>1. \A n \in Nat \ stop : p[n] \in Nat /\ p[n] < n
    BY <1>2, <1>4
  <2> HIDE DEF At
  <2>2. \A n \in Nat \cap stop : base[n] \in Nat
    BY <1>3
  <2>3. \A n \in Nat \ stop : \A x \in Nat : ext[<<n, x>>] \in Nat
    <3>1. \A n \in Nat, x \in Nat : ext[<<n, x>>] = (At(n) % Radix) + Radix * x
      OBVIOUS
    <3> HIDE DEF ext, stop
    <3>2. \A a, x \in Nat : a + Radix * x \in Nat
      BY <1>1
    <3>3. \A n \in Nat : At(n) % Radix \in Nat
      BY <1>3
    <3>4. \A n \in Nat, x \in Nat : ext[<<n, x>>] \in Nat
      BY <3>1, <3>2, <3>3, Zenon
    <3> QED
      BY <3>4
  <2> HIDE DEF p, base, ext, stop
  <2>4. Descends(Nat, p, stop, base, ext)
    BY <2>1, <2>2, <2>3 DEF Descends
  <2>5. \E f : Recurs(Nat, p, stop, base, ext, f)
    BY <2>4, RecursionDefines
  <2> QED
    BY <2>5 DEF Recurs
<1> DEFINE tail == [k \in DOMAIN bytes |-> f[N + 1 - k]]
<1>6. tail = Rec(tail)
  <2> SUFFICES ASSUME NEW k \in 1 .. N
               PROVE  f[N + 1 - k] = (bytes[k] % Radix) +
                                     (IF bytes[k] < Radix THEN 0 ELSE Radix * tail[k + 1])
    BY <1>2
  <2> DEFINE n == N + 1 - k
  <2>1. n \in Nat /\ n \in 1 .. N /\ N + 1 - n = k
    BY <1>2
  <2>2. At(n) = bytes[k]
    BY <2>1
  <2>3. CASE bytes[k] < Radix
    <3>1. n \in stop /\ base[n] = bytes[k] % Radix
      BY <2>1, <2>2, <2>3
    <3>2. f[n] = bytes[k] % Radix
      <4> HIDE DEF n, stop, base, ext, p
      <4> QED
        BY <1>5, <2>1, <3>1
    <3>3. bytes[k] % Radix \in Nat
      <4>1. \A a \in Nat : a % Radix \in Nat
        BY <1>1
      <4> QED
        BY <1>2, <4>1
    <3> HIDE DEF tail
    <3> QED
      BY <2>3, <3>2, <3>3
  <2>4. CASE ~(bytes[k] < Radix)
    <3>1. n \notin stop
      BY <2>1, <2>2, <2>4
    <3>2. n \in 2 .. N
      BY <1>4, <2>1, <3>1
    <3>3. p[n] \in Nat /\ p[n] = N + 1 - (k + 1) /\ k + 1 \in 1 .. N
      BY <1>2, <2>1, <3>2
    <3>4. tail[k + 1] = f[p[n]] /\ f[p[n]] \in Nat
      BY <1>2, <3>3
    <3>5. ext[<<n, f[p[n]]>>] = (At(n) % Radix) + Radix * f[p[n]]
      BY <2>1, <3>4
    <3>6. f[n] = ext[<<n, f[p[n]]>>]
      <4> HIDE DEF n, stop, base, ext, p
      <4> QED
        BY <1>5, <2>1, <3>1
    <3> HIDE DEF tail, ext, p, At, n
    <3>7. f[n] = (bytes[k] % Radix) + Radix * tail[k + 1]
      BY <2>2, <3>4, <3>5, <3>6
    <3> QED
      BY <2>4, <3>7, Zenon DEF n
  <2> QED
    BY <2>3, <2>4
<1> DEFINE chosen == CHOOSE t : t = Rec(t)
<1>7. chosen = Rec(chosen)
  <2> HIDE DEF Rec, tail
  <2> QED
    BY <1>6
<1>8. Uints(bytes) = [j \in DOMAIN Ends(bytes) |->
                        chosen[IF j = 1 THEN 1 ELSE Ends(bytes)[j - 1] + 1]]
  BY DEF Uints
<1>9. Tails(bytes, chosen)
  <2> HIDE DEF chosen
  <2> QED
    BY <1>7 DEF Tails
<1> QED
  BY <1>8, <1>9

(* Lists one after another.                                                *)
Flattens(S, n, s, F) ==
  /\ F \in [0 .. n -> Seq(S)] /\ F[0] = <<>>
  /\ \A i \in 1 .. n : F[i] = F[i - 1] \o s[i]
LEMMA FlattenDefined ==
  ASSUME NEW S, NEW n \in Nat, NEW s \in [1 .. n -> Seq(S)]
  PROVE  \E F : Flattens(S, n, s, F) /\ F[n] = Ext!FlattenSeq(s)
<1> DEFINE W == Seq(S)
<1>1. s \in Seq(W) /\ Len(s) = n /\ DOMAIN s = 1 .. n
  <2> HIDE DEF W
  <2> QED
    BY FunctionIsSeq DEF W
<1>2. CASE n = 0
  <2> DEFINE F == [i \in 0 .. 0 |-> <<>>]
  <2>1. s = <<>>
    BY <1>1, <1>2, EmptySeq
  <2>2. Ext!FlattenSeq(s) = <<>>
    BY <1>1, <1>2, <2>1 DEF Ext!FlattenSeq
  <2>3. <<>> \in Seq(S)
    OBVIOUS
  <2>4. Flattens(S, n, s, F) /\ F[n] = <<>>
    BY <1>2, <2>3 DEF Flattens
  <2> QED
    BY <2>2, <2>4
<1>3. CASE n # 0
  <2> DEFINE p == [i \in Nat |-> i - 1]
             stop == {i \in Nat : i \notin 2 .. n}
             base == [i \in Nat |-> IF i = 1 THEN s[1] ELSE <<>>]
             ext == [x \in Nat \X W |-> IF x[1] \in 1 .. n THEN x[2] \o s[x[1]] ELSE <<>>]
             Rec(t) == [i \in 1 .. Len(s) |-> IF i = 1 THEN s[i] ELSE t[i - 1] \o s[i]]
  <2>1. <<>> \in W /\ \A i \in 1 .. n : s[i] \in W
    OBVIOUS
  <2>2. \A a, b \in W : a \o b \in W
    BY ConcatProperties
  <2> HIDE DEF W
  <2>3. PICK f \in [Nat -> W] :
          \A i \in Nat : f[i] = IF i \in stop THEN base[i] ELSE ext[<<i, f[p[i]]>>]
    <3>1. \A i \in Nat \ stop : p[i] \in Nat /\ p[i] < i
      OBVIOUS
    <3>2. \A i \in Nat \cap stop : base[i] \in W
      BY <1>3, <2>1
    <3>3. \A i \in Nat \ stop : \A x \in W : ext[<<i, x>>] \in W
      <4> TAKE i \in Nat \ stop
      <4> TAKE x \in W
      <4>1. i \in 1 .. n /\ i \in Nat
        OBVIOUS
      <4>2. ext[<<i, x>>] = x \o s[i]
        BY <4>1
      <4> HIDE DEF ext
      <4> QED
        BY <2>1, <2>2, <4>1, <4>2
    <3> HIDE DEF p, base, ext, stop
    <3>4. Descends(W, p, stop, base, ext)
      BY <3>1, <3>2, <3>3 DEF Descends
    <3>5. \E f : Recurs(W, p, stop, base, ext, f)
      BY <3>4, RecursionDefines
    <3> QED
      BY <3>5 DEF Recurs
  <2> DEFINE flat == [i \in 1 .. n |-> f[i]]
  <2>4. flat = Rec(flat)
    <3> SUFFICES ASSUME NEW i \in 1 .. n
                 PROVE  f[i] = IF i = 1 THEN s[i] ELSE flat[i - 1] \o s[i]
      BY <1>1
    <3>1. CASE i = 1
      <4>1. i \in stop /\ base[i] = s[i] /\ i \in Nat
        BY <3>1
      <4> HIDE DEF stop, base, ext, p, flat
      <4> QED
        BY <2>3, <3>1, <4>1
    <3>2. CASE i # 1
      <4>1. i \notin stop /\ i \in Nat /\ p[i] \in Nat /\ p[i] = i - 1 /\ i - 1 \in 1 .. n
        BY <3>2
      <4>2. flat[i - 1] = f[p[i]] /\ f[p[i]] \in W
        BY <4>1
      <4>3. ext[<<i, f[p[i]]>>] = f[p[i]] \o s[i]
        BY <4>1, <4>2
      <4> HIDE DEF stop, base, ext, p, flat
      <4> QED
        BY <2>3, <3>2, <4>1, <4>2, <4>3
    <3> QED
      BY <3>1, <3>2
  <2> DEFINE chosen == CHOOSE t : t = Rec(t)
  <2>5. chosen = Rec(chosen)
    <3> HIDE DEF Rec, flat
    <3> QED
      BY <2>4
  <2>6. Ext!FlattenSeq(s) = chosen[n]
    BY <1>1, <1>3 DEF Ext!FlattenSeq
  <2>7. \A i \in 1 .. n : chosen[i] = IF i = 1 THEN s[i] ELSE chosen[i - 1] \o s[i]
    <3> HIDE DEF chosen
    <3> QED
      BY <1>1, <2>5
  <2> HIDE DEF chosen
  <2>8. \A i \in 1 .. n : chosen[i] \in W
    <3> DEFINE Bad == {i \in 1 .. n : chosen[i] \notin W}
    <3>1. SUFFICES ASSUME Bad # {} PROVE FALSE
      OBVIOUS
    <3>2. PICK i \in Bad : \A j \in Bad : i <= j
      <4>1. Bad \subseteq Nat
        OBVIOUS
      <4> HIDE DEF Bad
      <4> QED
        BY <3>1, <4>1, LeastNatural
    <3>3. i # 1
      BY <2>1, <2>7
    <3>4. i - 1 \in 1 .. n /\ i - 1 \notin Bad
      BY <3>2, <3>3
    <3> QED
      BY <2>1, <2>2, <2>7, <3>3, <3>4
  <2> DEFINE F == [i \in 0 .. n |-> IF i = 0 THEN <<>> ELSE chosen[i]]
  <2>9. F \in [0 .. n -> W] /\ F[0] = <<>> /\ F[n] = chosen[n]
    BY <1>3, <2>1, <2>8
  <2>10. \A i \in 1 .. n : F[i] = F[i - 1] \o s[i]
    <3> TAKE i \in 1 .. n
    <3>1. F[i] = chosen[i]
      OBVIOUS
    <3>2. CASE i = 1
      <4>1. F[i - 1] = <<>>
        BY <3>2
      <4>2. <<>> \o s[i] = s[i]
        BY <2>1, ConcatEmptySeq DEF W
      <4> HIDE DEF F
      <4> QED
        BY <2>7, <3>1, <3>2, <4>1, <4>2
    <3>3. CASE i # 1
      <4>1. F[i - 1] = chosen[i - 1]
        BY <3>3
      <4> HIDE DEF F
      <4> QED
        BY <2>7, <3>1, <3>3, <4>1
    <3> QED
      BY <3>2, <3>3
  <2> HIDE DEF F
  <2> QED
    BY <2>6, <2>9, <2>10 DEF Flattens, W
<1> QED
  BY <1>2, <1>3

(* An ascending list of a set is the one that Indices chooses.             *)
LEMMA CountedByList ==
  ASSUME NEW T, NEW k \in Nat, NEW f \in [1 .. k -> T],
         \A i, j \in 1 .. k : f[i] = f[j] => i = j,
         \A x \in T : \E i \in 1 .. k : f[i] = x
  PROVE  IsFiniteSet(T) /\ Cardinality(T) = k
<1>1. IsFiniteSet(1 .. k) /\ Cardinality(1 .. k) = k
  BY FS_Interval
<1>2. f \in Bijection(1 .. k, T)
  BY DEF Bijection, Injection, IsInjective, Surjection
<1>3. ExistsBijection(1 .. k, T)
  BY <1>2 DEF ExistsBijection
<1> QED
  BY <1>1, <1>3, FS_Bijection

LEMMA AscendingList ==
  ASSUME NEW S \in SUBSET Nat, NEW n \in Nat, NEW s \in [1 .. n -> S],
         \A i, j \in 1 .. n : i < j => s[i] < s[j],
         \A x \in S : \E i \in 1 .. n : s[i] = x
  PROVE  IsFiniteSet(S) /\ Cardinality(S) = n /\ Indices(S) = s
<1>0. (\A x \in S : x \in Int) /\ (\A i \in 1 .. n : s[i] \in S /\ s[i] \in Int)
  <2>1. \A x \in S : x \in Int
    OBVIOUS
  <2> QED
    BY <2>1
<1>1. \A i, j \in 1 .. n : s[i] = s[j] => i = j
  <2> TAKE i \in 1 .. n, j \in 1 .. n
  <2>1. s[i] \in Int /\ s[j] \in Int
    BY <1>0
  <2>2. i < j \/ j < i \/ i = j
    OBVIOUS
  <2> QED
    BY <2>1, <2>2
<1>2. IsFiniteSet(S) /\ Cardinality(S) = n
  BY <1>1, CountedByList
<1>3. \A k \in 1 .. n : Below(S, s[k]) = k - 1
  <2> TAKE k \in 1 .. n
  <2> DEFINE T == {x \in S : x < s[k]}
             f == [i \in 1 .. k - 1 |-> s[i]]
  <2>1. f \in [1 .. k - 1 -> T]
    OBVIOUS
  <2>2. \A i, j \in 1 .. k - 1 : f[i] = f[j] => i = j
    BY <1>1
  <2>3. ASSUME NEW x \in T PROVE \E i \in 1 .. k - 1 : f[i] = x
    <3>1. PICK i \in 1 .. n : s[i] = x
      OBVIOUS
    <3>2. x \in Int /\ s[k] \in Int /\ x < s[k]
      BY <1>0
    <3>3. ~(k < i) /\ i # k
      BY <3>1, <3>2
    <3>4. i \in 1 .. k - 1
      BY <3>3
    <3> QED
      BY <3>1, <3>4
  <2>4. k - 1 \in Nat
    OBVIOUS
  <2> HIDE DEF T, f
  <2>5. Cardinality(T) = k - 1
    BY <2>1, <2>2, <2>3, <2>4, CountedByList
  <2> QED
    BY <2>5 DEF Below, T
<1>4. \A k \in 1 .. n : Indices(S)[k] = s[k]
  <2> TAKE k \in 1 .. n
  <2>1. \A x, y \in S : Below(S, x) = Below(S, y) => x = y
    <3> TAKE x \in S, y \in S
    <3>1. PICK i \in 1 .. n : s[i] = x
      OBVIOUS
    <3>2. PICK j \in 1 .. n : s[j] = y
      OBVIOUS
    <3> QED
      BY <1>3, <3>1, <3>2
  <2>2. s[k] \in S /\ Below(S, s[k]) = k - 1
    BY <1>3
  <2>3. \A x \in S : Below(S, x) = k - 1 <=> x = s[k]
    BY <2>1, <2>2
  <2>4. (CHOOSE x \in S : Below(S, x) = k - 1) = s[k]
    BY <2>2, <2>3
  <2>5. Indices(S)[k] = CHOOSE x \in S : Below(S, x) = k - 1
    BY <1>2 DEF Indices
  <2> QED
    BY <2>4, <2>5
<1>5. DOMAIN Indices(S) = 1 .. n /\ Indices(S) = [k \in 1 .. n |-> Indices(S)[k]]
  BY <1>2 DEF Indices
<1> QED
  BY <1>2, <1>4, <1>5

(* Where each number of a list of numbers lies among the bytes.            *)
LEMMA BlocksLie ==
  ASSUME NEW n \in Nat, NEW d \in [1 .. n -> Nat], NEW F,
         Flattens(0 .. 2 * Radix - 1, n, [k \in 1 .. n |-> Bytes[d[k]]], F)
  PROVE  /\ \A i \in 0 .. n : F[i] \in Coded /\ Len(F[i]) \in Nat
         /\ Len(F[0]) = 0
         /\ \A i \in 1 .. n : /\ Len(F[i]) = Len(F[i - 1]) + Len(Bytes[d[i]])
                              /\ Len(F[i - 1]) < Len(F[i])
         /\ \A i \in 1 .. n : Holds(F[n], Len(F[i - 1]), Bytes[d[i]])
<1> DEFINE b(i) == Bytes[d[i]]
           o(i) == Len(F[i])
<1>1. \A i \in 1 .. n : b(i) \in Coded /\ Len(b(i)) \in Nat /\ Len(b(i)) >= 1
  BY BytesTerminated, LenProperties DEF Terminated, Coded
<1>2. \A i \in 0 .. n : F[i] \in Coded /\ o(i) \in Nat
  BY LenProperties DEF Flattens, Coded
<1>3. F[0] = <<>> /\ o(0) = 0
  BY EmptySeq DEF Flattens
<1>4. \A i \in 1 .. n : F[i] = F[i - 1] \o b(i)
  BY DEF Flattens
<1> HIDE DEF b, o
<1>5. \A i \in 1 .. n : /\ i - 1 \in 0 .. n /\ o(i) = o(i - 1) + Len(b(i)) /\ o(i - 1) < o(i)
                        /\ \A k \in 1 .. o(i - 1) : F[i][k] = F[i - 1][k]
                        /\ \A k \in 1 .. Len(b(i)) : F[i][o(i - 1) + k] = b(i)[k]
  <2> TAKE i \in 1 .. n
  <2>1. i - 1 \in 0 .. n /\ i \in 0 .. n
    OBVIOUS
  <2>2. F[i - 1] \in Coded /\ b(i) \in Coded /\ F[i] = F[i - 1] \o b(i)
    BY <1>1, <1>2, <1>4, <2>1
  <2>3. Joined(F[i], F[i - 1], b(i))
    BY <2>2, ConcatJoins DEF Coded
  <2> QED
    BY <1>1, <1>2, <2>1, <2>3 DEF Joined, o
<1> DEFINE Fits(j, i) == /\ o(i) <= o(j) /\ \A k \in 1 .. o(i) : F[j][k] = F[i][k]
<1>6. \A j \in 0 .. n : \A i \in 0 .. j : Fits(j, i)
  <2> DEFINE Bad == {j \in 0 .. n : ~\A i \in 0 .. j : Fits(j, i)}
  <2>1. SUFFICES ASSUME Bad # {} PROVE FALSE
    OBVIOUS
  <2>2. PICK j \in Bad : \A h \in Bad : j <= h
    <3>1. Bad \subseteq Nat
      OBVIOUS
    <3> HIDE DEF Bad
    <3> QED
      BY <2>1, <3>1, LeastNatural
  <2>3. j \in 0 .. n
    OBVIOUS
  <2>4. PICK i \in 0 .. j : ~Fits(j, i)
    OBVIOUS
  <2>5. i \in 0 .. n /\ o(i) \in Nat /\ o(j) \in Nat
    BY <1>2, <2>3
  <2>6. i # j
    BY <2>3, <2>4, <2>5
  <2>7. j \in 1 .. n /\ j - 1 \in 0 .. n /\ i \in 0 .. j - 1
    BY <2>3, <2>6
  <2>8. Fits(j - 1, i)
    <3>1. j - 1 \notin Bad
      BY <2>2, <2>7
    <3> QED
      BY <2>7, <3>1
  <2>9. o(j - 1) \in Nat /\ o(j - 1) < o(j) /\ \A k \in 1 .. o(j - 1) : F[j][k] = F[j - 1][k]
    BY <1>2, <1>5, <2>7
  <2> HIDE DEF Bad
  <2> QED
    BY <2>4, <2>5, <2>8, <2>9
<1>7. ASSUME NEW i \in 1 .. n PROVE Holds(F[n], o(i - 1), b(i))
  <2>1. i \in 0 .. n /\ n \in 0 .. n
    OBVIOUS
  <2>2. Fits(n, i) /\ o(i) \in Nat /\ o(n) \in Nat /\ o(i - 1) \in Nat
    BY <1>2, <1>5, <1>6, <2>1
  <2>3. /\ o(i) = o(i - 1) + Len(b(i)) /\ Len(b(i)) \in Nat
        /\ \A k \in 1 .. Len(b(i)) : F[i][o(i - 1) + k] = b(i)[k]
    BY <1>1, <1>5
  <2>4. o(i - 1) + Len(b(i)) <= Len(F[n])
    BY <2>2, <2>3 DEF o
  <2>5. ASSUME NEW k \in 1 .. Len(b(i)) PROVE F[n][o(i - 1) + k] = b(i)[k]
    <3>1. o(i - 1) + k \in 1 .. o(i)
      BY <2>2, <2>3
    <3> QED
      BY <2>2, <2>3, <3>1
  <2> QED
    BY <2>4, <2>5 DEF Holds
<1> QED
  BY <1>2, <1>3, <1>5, <1>7 DEF b, o

(* The numbers that are read are those that were written.                  *)
LEMMA NumbersReadBack ==
  ASSUME NEW n \in Nat, NEW d \in [1 .. n -> Nat], NEW bytes,
         bytes = Ext!FlattenSeq([k \in 1 .. n |-> Bytes[d[k]]])
  PROVE  bytes \in Coded /\ Uints(bytes) = d
<1> DEFINE s == [k \in 1 .. n |-> Bytes[d[k]]]
           b(i) == Bytes[d[i]]
<1>1. /\ Radix \in Nat \ {0, 1}
      /\ \A i \in 1 .. n : d[i] \in Nat /\ Terminated(b(i)) /\ b(i) \in Coded /\ Len(b(i)) \in Nat
  BY RadixAssumption, BytesTerminated, LenProperties DEF Terminated, Coded
<1>2. s \in [1 .. n -> Seq(0 .. 2 * Radix - 1)]
  BY <1>1 DEF Coded
<1>3. PICK F : Flattens(0 .. 2 * Radix - 1, n, s, F) /\ F[n] = bytes
  <2> HIDE DEF s
  <2>1. \E F : Flattens(0 .. 2 * Radix - 1, n, s, F) /\ F[n] = Ext!FlattenSeq(s)
    BY <1>2, FlattenDefined
  <2> QED
    BY <2>1 DEF s
<1> DEFINE o(i) == Len(F[i])
<1>4. /\ \A i \in 0 .. n : F[i] \in Coded /\ o(i) \in Nat
      /\ o(0) = 0
      /\ \A i \in 1 .. n : o(i) = o(i - 1) + Len(b(i)) /\ o(i - 1) < o(i)
      /\ \A i \in 1 .. n : Holds(bytes, o(i - 1), b(i))
  BY <1>3, BlocksLie
<1>5. bytes \in Coded /\ o(n) = Len(bytes) /\ DOMAIN bytes = 1 .. o(n)
  BY <1>3, <1>4, LenProperties DEF Coded
<1> HIDE DEF o, s
<1>6. \A i \in 1 .. n : i - 1 \in 0 .. n /\ o(i - 1) \in Nat /\ o(i) \in Nat
  <2>1. \A i \in 1 .. n : i - 1 \in 0 .. n /\ i \in 0 .. n
    OBVIOUS
  <2> QED
    BY <1>4, <2>1
<1>7. \A j \in 0 .. n : \A i \in 0 .. j : o(i) <= o(j)
  <2> DEFINE Bad == {j \in 0 .. n : ~\A i \in 0 .. j : o(i) <= o(j)}
  <2>1. SUFFICES ASSUME Bad # {} PROVE FALSE
    OBVIOUS
  <2>2. PICK j \in Bad : \A h \in Bad : j <= h
    <3>1. Bad \subseteq Nat
      OBVIOUS
    <3> HIDE DEF Bad
    <3> QED
      BY <2>1, <3>1, LeastNatural
  <2>3. j \in 0 .. n
    OBVIOUS
  <2>4. PICK i \in 0 .. j : ~(o(i) <= o(j))
    OBVIOUS
  <2>5. i \in 0 .. n /\ o(i) \in Nat /\ o(j) \in Nat
    BY <1>4, <2>3
  <2>6. i # j
    BY <2>3, <2>4, <2>5
  <2>7. j \in 1 .. n /\ j - 1 \in 0 .. n /\ i \in 0 .. j - 1
    BY <2>3, <2>6
  <2>8. o(i) <= o(j - 1)
    <3>1. j - 1 \notin Bad
      BY <2>2, <2>7
    <3> QED
      BY <2>7, <3>1
  <2>9. o(j - 1) \in Nat /\ o(j - 1) < o(j)
    BY <1>4, <2>7
  <2> HIDE DEF Bad
  <2> QED
    BY <2>4, <2>5, <2>8, <2>9
<1> DEFINE E == {k \in DOMAIN bytes : bytes[k] < Radix}
           e == [i \in 1 .. n |-> o(i)]
<1>8. \A i \in 1 .. n : o(i) \in E
  <2> TAKE i \in 1 .. n
  <2>1. o(i) = o(i - 1) + Len(b(i)) /\ o(i - 1) \in Nat /\ Len(b(i)) \in Nat /\ Len(b(i)) >= 1
    BY <1>1, <1>4, <1>6 DEF Terminated
  <2>2. Len(b(i)) \in 1 .. Len(b(i))
    BY <2>1
  <2>3. bytes[o(i)] = b(i)[Len(b(i))]
    BY <1>4, <2>1, <2>2 DEF Holds
  <2>4. b(i)[Len(b(i))] < Radix
    BY <1>1 DEF Terminated
  <2>5. i \in 0 .. n /\ n \in 0 .. n /\ i \in 0 .. n
    OBVIOUS
  <2>6. o(i) <= o(n) /\ o(n) \in Nat /\ o(i) \in Nat
    BY <1>4, <1>7, <2>5
  <2>7. o(i) \in 1 .. o(n)
    BY <2>1, <2>6
  <2> QED
    BY <1>5, <2>3, <2>4, <2>7
<1>9. \A i, j \in 1 .. n : i < j => o(i) < o(j)
  <2> TAKE i \in 1 .. n, j \in 1 .. n
  <2> HAVE i < j
  <2>1. j - 1 \in 0 .. n /\ i \in 0 .. j - 1
    OBVIOUS
  <2>2. o(i) <= o(j - 1) /\ o(j - 1) < o(j) /\ o(i) \in Nat /\ o(j - 1) \in Nat /\ o(j) \in Nat
    BY <1>4, <1>6, <1>7, <2>1
  <2> QED
    BY <2>2
<1>10. \A x \in E : \E i \in 1 .. n : o(i) = x
  <2> TAKE x \in E
  <2>1. x \in 1 .. o(n) /\ bytes[x] < Radix /\ o(n) \in Nat
    BY <1>4, <1>5
  <2> DEFINE Over == {i \in 0 .. n : x <= o(i)}
  <2>2. PICK i \in Over : \A j \in Over : i <= j
    <3>1. n \in Over /\ Over \subseteq Nat
      BY <2>1
    <3> HIDE DEF Over
    <3> QED
      BY <3>1, LeastNatural
  <2>3. i # 0 /\ i \in 0 .. n /\ x <= o(i)
    BY <1>4, <2>1
  <2>4. i \in 1 .. n
    BY <2>3
  <2>5. o(i - 1) \in Nat /\ o(i) \in Nat /\ ~(x <= o(i - 1))
    <3>1. i - 1 \in 0 .. n /\ ~(i <= i - 1)
      BY <2>4
    <3>2. i - 1 \notin Over
      BY <2>2, <3>1
    <3> QED
      BY <1>6, <2>4, <3>1, <3>2
  <2> DEFINE k == x - o(i - 1)
  <2>6. Len(b(i)) \in Nat /\ o(i) = o(i - 1) + Len(b(i))
    BY <1>1, <1>4, <2>4
  <2>7. k \in 1 .. Len(b(i)) /\ x = o(i - 1) + k
    BY <2>1, <2>3, <2>5, <2>6
  <2>8. bytes[x] = b(i)[k]
    BY <1>4, <2>4, <2>7 DEF Holds
  <2>9. k = Len(b(i))
    <3>1. ASSUME k \in 1 .. Len(b(i)) - 1 PROVE FALSE
      <4>1. b(i)[k] >= Radix
        BY <1>1, <2>4, <3>1 DEF Terminated
      <4>2. b(i)[k] \in Int
        BY <1>1, <2>4, <2>7, ElementOfSeq DEF Coded
      <4> QED
        BY <1>1, <2>1, <2>8, <4>1, <4>2
    <3> HIDE DEF k
    <3> QED
      BY <2>6, <2>7, <3>1
  <2> QED
    BY <2>4, <2>6, <2>7, <2>9
<1>11. Ends(bytes) = e
  <2>1. E \in SUBSET Nat
    BY <1>5
  <2>2. e \in [1 .. n -> E]
    BY <1>8
  <2>3. /\ \A i, j \in 1 .. n : i < j => e[i] < e[j]
        /\ \A x \in E : \E i \in 1 .. n : e[i] = x
    BY <1>9, <1>10
  <2> HIDE DEF E, e
  <2>4. Indices(E) = e
    BY <2>1, <2>2, <2>3, AscendingList
  <2> QED
    BY <2>4 DEF Ends, E
<1>12. bytes = <<>> \/ bytes[Len(bytes)] < Radix
  <2>1. CASE n = 0
    BY <1>4, <1>5, <2>1, EmptySeq DEF Coded
  <2>2. CASE n # 0
    <3>1. n \in 1 .. n
      BY <2>2
    <3> QED
      BY <1>5, <1>8, <3>1
  <2> QED
    BY <2>1, <2>2
<1>13. PICK tail : /\ Tails(bytes, tail)
                   /\ Uints(bytes) = [j \in DOMAIN Ends(bytes) |->
                                        tail[IF j = 1 THEN 1 ELSE Ends(bytes)[j - 1] + 1]]
  BY <1>5, <1>12, TailsDefined
<1>14. \A j \in 1 .. n : tail[IF j = 1 THEN 1 ELSE e[j - 1] + 1] = d[j]
  <2> TAKE j \in 1 .. n
  <2>1. tail[o(j - 1) + 1] = d[j]
    <3>1. o(j - 1) \in Nat /\ d[j] \in Nat /\ Holds(bytes, o(j - 1), Bytes[d[j]])
      BY <1>1, <1>4, <1>6
    <3>2. \A m \in Nat : \A p \in Nat : Holds(bytes, p, Bytes[m]) => tail[p + 1] = m
      BY <1>5, <1>13, NumberReadBack
    <3> QED
      BY <3>1, <3>2
  <2>2. CASE j = 1
    <3>1. o(j - 1) + 1 = 1
      BY <1>4, <2>2
    <3> QED
      BY <2>1, <2>2, <3>1
  <2>3. CASE j # 1
    <3>1. j - 1 \in 1 .. n
      BY <2>3
    <3>2. e[j - 1] = o(j - 1)
      BY <3>1
    <3> QED
      BY <2>1, <2>3, <3>2
  <2> QED
    BY <2>2, <2>3
<1>15. Uints(bytes) = [j \in 1 .. n |-> tail[IF j = 1 THEN 1 ELSE e[j - 1] + 1]]
  BY <1>11, <1>13
<1> HIDE DEF e
<1>16. Uints(bytes) = d
  BY <1>14, <1>15
<1> QED
  BY <1>5, <1>16

Splits(S, U, n) == \E c \in 0 .. n : S = 0 .. c - 1 /\ U = c .. n - 1

(* Two sets that make up an interval, all of one below all of the other.    *)
LEMMA IntervalSplits ==
  ASSUME NEW n \in Nat, NEW S, NEW U, S \cup U = 0 .. n - 1, \A x \in S, y \in U : x < y
  PROVE  Splits(S, U, n)
<1> SUFFICES \E c \in 0 .. n : S = 0 .. c - 1 /\ U = c .. n - 1
  BY DEF Splits
<1>1. CASE U = {}
  <2>1. S = 0 .. n - 1 /\ U = n .. n - 1 /\ n \in 0 .. n
    BY <1>1
  <2> QED
    BY <2>1
<1>2. CASE U # {}
  <2>1. U \subseteq Nat
    OBVIOUS
  <2>2. PICK c \in U : \A y \in U : c <= y
    BY <1>2, <2>1, LeastNatural
  <2>3. c \in 0 .. n - 1
    OBVIOUS
  <2>4. \A x \in Int : x \in S \/ x \in U <=> x \in 0 .. n - 1
    OBVIOUS
  <2>5. \A x \in Int : x \in S => x \in 0 .. c - 1
    BY <2>3, <2>4
  <2>6. \A x \in Int : x \in U => x \in c .. n - 1
    BY <2>2, <2>3, <2>4
  <2>7. \A x \in 0 .. c - 1 : x \in S
    <3>1. \A x \in 0 .. c - 1 : x \in Int /\ x \in 0 .. n - 1 /\ x \notin U
      BY <2>2, <2>3
    <3> QED
      BY <2>4, <3>1
  <2>8. \A x \in c .. n - 1 : x \in U
    <3>1. \A x \in c .. n - 1 : x \in Int /\ x \in 0 .. n - 1 /\ ~(x < c)
      BY <2>3
    <3>2. \A x \in S : x < c
      OBVIOUS
    <3> QED
      BY <2>4, <3>1, <3>2
  <2>9. S \subseteq Int /\ U \subseteq Int
    OBVIOUS
  <2>10. S = 0 .. c - 1 /\ U = c .. n - 1 /\ c \in 0 .. n
    <3>1. \A x : x \in 0 .. c - 1 \/ x \in c .. n - 1 => x \in Int
      OBVIOUS
    <3>2. S = 0 .. c - 1
      BY <2>5, <2>7, <2>9, <3>1, Zenon
    <3>3. U = c .. n - 1
      BY <2>6, <2>8, <2>9, <3>1, Zenon
    <3> QED
      BY <2>3, <3>2, <3>3
  <2> QED
    BY <2>10
<1> QED
  BY <1>1, <1>2

Filled(S, a, b) == /\ Cardinality(S) = b - a
                   /\ \A k \in 1 .. b - a : Indices(S)[k] = a + k - 1

(* The members of an interval are listed from the first.                   *)
LEMMA IntervalList ==
  ASSUME NEW a \in Nat, NEW b \in Nat, a <= b
  PROVE  Filled(a .. b - 1, a, b)
<1> DEFINE S == a .. b - 1
           n == b - a
           s == [k \in 1 .. n |-> a + k - 1]
<1>1. n \in Nat /\ S \in SUBSET Nat
  OBVIOUS
<1>2. \A k \in 1 .. n : a + k - 1 \in S
  OBVIOUS
<1>3. s \in [1 .. n -> S]
  BY <1>2
<1>4. \A i, j \in 1 .. n : i < j => s[i] < s[j]
  OBVIOUS
<1>5. \A x \in S : \E i \in 1 .. n : s[i] = x
  <2> TAKE x \in S
  <2>1. x - a + 1 \in 1 .. n /\ a + (x - a + 1) - 1 = x
    OBVIOUS
  <2>2. s[x - a + 1] = x
    BY <2>1
  <2> QED
    BY <2>1, <2>2
<1>6. \A k \in 1 .. n : s[k] = a + k - 1
  OBVIOUS
<1> HIDE DEF s, S, n
<1>7. Cardinality(S) = n /\ Indices(S) = s
  BY <1>1, <1>3, <1>4, <1>5, AscendingList
<1> QED
  BY <1>6, <1>7 DEF n, S, Filled

(* Inputs, latches and gates fill the vector in that order.                *)
LEMMA CompactPlaces ==
  ASSUME NEW m, WellFormed(m), Compact(m)
  PROVE  /\ \A k \in 1 .. Cardinality(Inputs(m)) : Indices(Inputs(m))[k] = k - 1
         /\ \A k \in 1 .. Cardinality(Latches(m)) :
               Indices(Latches(m))[k] = Cardinality(Inputs(m)) + k - 1
         /\ \A k \in 1 .. Cardinality(Gates(m)) :
               Indices(Gates(m))[k] = Cardinality(Inputs(m)) + Cardinality(Latches(m)) + k - 1
         /\ Cardinality(Driven(m))
              = Cardinality(Inputs(m)) + Cardinality(Latches(m)) + Cardinality(Gates(m))
<1> DEFINE n == Cardinality(Driven(m))
<1>1. /\ Driven(m) = (Inputs(m) \cup Latches(m)) \cup Gates(m)
      /\ IsFiniteSet(Driven(m))
  <2>1. IsFiniteSet(VarsOf(m)) /\ Driven(m) \subseteq VarsOf(m)
    BY KindsOf DEF Driven
  <2> QED
    BY <2>1, KindsOf, FS_Subset
<1>2. n \in Nat /\ Driven(m) = 0 .. n - 1
  BY <1>1, FS_CardinalityType DEF Compact
<1> HIDE DEF n
<1>3. PICK c \in 0 .. n : Inputs(m) \cup Latches(m) = 0 .. c - 1 /\ Gates(m) = c .. n - 1
  <2>1. \A x \in Inputs(m) \cup Latches(m), y \in Gates(m) : x < y
    BY DEF Compact
  <2>2. (Inputs(m) \cup Latches(m)) \cup Gates(m) = 0 .. n - 1
    BY <1>1, <1>2, Zenon
  <2> DEFINE both == Inputs(m) \cup Latches(m)
             gates == Gates(m)
  <2>3. both \cup gates = 0 .. n - 1 /\ \A x \in both, y \in gates : x < y
    BY <2>1, <2>2, Zenon
  <2> HIDE DEF both, gates
  <2>4. Splits(both, gates, n)
    BY <1>2, <2>3, IntervalSplits
  <2> QED
    BY <2>4 DEF Splits, both, gates
<1>4. PICK b \in 0 .. c : Inputs(m) = 0 .. b - 1 /\ Latches(m) = b .. c - 1
  <2>1. \A x \in Inputs(m), y \in Latches(m) : x < y
    BY DEF Compact
  <2>2. c \in Nat
    BY <1>2
  <2> DEFINE inputs == Inputs(m)
             latches == Latches(m)
  <2>3. inputs \cup latches = 0 .. c - 1 /\ \A x \in inputs, y \in latches : x < y
    BY <1>3, <2>1
  <2> HIDE DEF inputs, latches
  <2>4. Splits(inputs, latches, c)
    BY <2>2, <2>3, IntervalSplits
  <2> QED
    BY <2>4 DEF Splits, inputs, latches
<1>5. b \in Nat /\ c \in Nat /\ n \in Nat /\ b <= c /\ c <= n /\ 0 <= b
  BY <1>2
<1>6. /\ Cardinality(Inputs(m)) = b - 0 /\ Cardinality(Latches(m)) = c - b
      /\ Cardinality(Gates(m)) = n - c
      /\ \A k \in 1 .. b - 0 : Indices(Inputs(m))[k] = 0 + k - 1
      /\ \A k \in 1 .. c - b : Indices(Latches(m))[k] = b + k - 1
      /\ \A k \in 1 .. n - c : Indices(Gates(m))[k] = c + k - 1
  <2>1. Filled(0 .. b - 1, 0, b) /\ Filled(b .. c - 1, b, c) /\ Filled(c .. n - 1, c, n)
    BY <1>5, IntervalList
  <2>2. Filled(Inputs(m), 0, b) /\ Filled(Latches(m), b, c) /\ Filled(Gates(m), c, n)
    BY <1>3, <1>4, <2>1, Zenon
  <2> QED
    BY <2>2 DEF Filled
<1>7. b - 0 = b /\ b + (c - b) = c /\ c + (n - c) = n /\ \A k \in 1 .. b : 0 + k - 1 = k - 1
  BY <1>5
<1> QED
  BY <1>6, <1>7 DEF n

(* The numbers of the header are the sizes of the lists, 0 where the writer *)
(* drops them.                                                             *)
LEMMA HeaderFields ==
  ASSUME NEW m, WellFormed(m), NEW v \in Versions, NEW t \in Types, Writable(m, t, v),
         NEW text, text.header = Header(m, v)
  PROVE  /\ text.header \in Seq(Nat)
         /\ Field(text, 1) = m.size
         /\ Field(text, 2) = Cardinality(Inputs(m)) /\ Field(text, 3) = Cardinality(Latches(m))
         /\ Field(text, 4) = Len(m.refs["outputs"]) /\ Field(text, 5) = Cardinality(Gates(m))
         /\ Field(text, 6) = Len(m.refs["asserts"]) /\ Field(text, 7) = Len(m.refs["assumes"])
         /\ Field(text, 8) = 0 /\ Field(text, 9) = 0
         /\ VersionOf(text) = "1.0" => m.refs["asserts"] = <<>>
<1> DEFINE a == Len(m.refs["asserts"])
           c == Len(m.refs["assumes"])
           f == <<m.size, Cardinality(Inputs(m)), Cardinality(Latches(m)),
                  Len(m.refs["outputs"]), Cardinality(Gates(m))>>
<1>1. /\ m.size \in Nat /\ Cardinality(Inputs(m)) \in Nat /\ Cardinality(Latches(m)) \in Nat
      /\ Cardinality(Gates(m)) \in Nat
  BY KindsOf, FS_Subset, FS_CardinalityType
<1>2. \A list \in Lists : m.refs[list] \in Seq(Values(m.size))
  BY DEF WellFormed, Machine
<1>3. /\ Len(m.refs["outputs"]) \in Nat /\ a \in Nat /\ c \in Nat
      /\ (a = 0 <=> m.refs["asserts"] = <<>>) /\ (c = 0 <=> m.refs["assumes"] = <<>>)
  <2>1. \A s \in Seq(Values(m.size)) : Len(s) \in Nat /\ (Len(s) = 0 <=> s = <<>>)
    BY EmptySeq, LenProperties
  <2> QED
    BY <1>2, <2>1 DEF Lists
<1>4. /\ f \in Seq(Nat) /\ Len(f) = 5
      /\ f[1] = m.size /\ f[2] = Cardinality(Inputs(m)) /\ f[3] = Cardinality(Latches(m))
      /\ f[4] = Len(m.refs["outputs"]) /\ f[5] = Cardinality(Gates(m))
  BY <1>1, <1>3
<1> HIDE DEF f
<1> DEFINE h == text.header
           Fills == /\ h \in Seq(Nat) /\ Len(h) \in 5 .. 7 /\ \A k \in 1 .. 5 : h[k] = f[k]
                    /\ IF Len(h) < 6 THEN a = 0 ELSE h[6] = a
                    /\ IF Len(h) < 7 THEN c = 0 ELSE h[7] = c
<1>5. ASSUME v = "1.0" \/ (m.refs["asserts"] = <<>> /\ m.refs["assumes"] = <<>>) PROVE Fills
  <2>1. a = 0 /\ c = 0
    BY <1>3, <1>5 DEF Writable
  <2>2. h = f
    BY <1>4, <1>5, ConcatEmptySeq DEF Header, f
  <2>3. f \in Seq(Nat) /\ Len(f) = 5
    BY <1>4
  <2> HIDE DEF h, a, c
  <2> QED
    BY <2>1, <2>2, <2>3
<1>6. \A w \in Seq(Nat) : f \o w \in Seq(Nat) /\ Joined(f \o w, f, w)
  BY <1>4, ConcatJoins
<1>7. ASSUME v = "1.9" /\ m.refs["asserts"] # <<>> /\ m.refs["assumes"] = <<>> PROVE Fills
  <2>1. h = f \o <<a>>
    BY <1>7 DEF Header, f
  <2>2. <<a>> \in Seq(Nat) /\ Len(<<a>>) = 1 /\ <<a>>[1] = a
    BY <1>3
  <2> HIDE DEF h, a
  <2>3. h \in Seq(Nat) /\ Len(h) = 6 /\ (\A k \in 1 .. 5 : h[k] = f[k]) /\ h[5 + 1] = a
    BY <1>4, <1>6, <2>1, <2>2 DEF Joined
  <2> QED
    BY <1>3, <1>7, <2>3
<1>8. ASSUME v = "1.9" /\ m.refs["assumes"] # <<>> PROVE Fills
  <2>1. h = f \o <<a, c>>
    BY <1>8 DEF Header, f
  <2>2. <<a, c>> \in Seq(Nat) /\ Len(<<a, c>>) = 2 /\ <<a, c>>[1] = a /\ <<a, c>>[2] = c
    BY <1>3
  <2> HIDE DEF h, a, c
  <2>3. h \in Seq(Nat) /\ Len(h) = 7 /\ (\A k \in 1 .. 5 : h[k] = f[k]) /\ h[5 + 1] = a /\ h[5 + 2] = c
    BY <1>4, <1>6, <2>1, <2>2, SMTT(30) DEF Joined
  <2> QED
    BY <2>3
<1>9. Fills
  BY <1>5, <1>7, <1>8 DEF Versions
<1>10. /\ \A k \in 1 .. 5 : Field(text, k) = f[k]
       /\ Field(text, 6) = a /\ Field(text, 7) = c /\ Field(text, 8) = 0 /\ Field(text, 9) = 0
       /\ VersionOf(text) = "1.0" => a = 0
  <2> HIDE DEF h, a, c
  <2>1. Len(h) \in {5, 6, 7}
    BY <1>9
  <2>2. \A k \in Nat : Field(text, k) = IF k <= Len(h) THEN h[k] ELSE 0
    BY DEF Field, h
  <2>3. VersionOf(text) = IF Len(h) > 5 THEN "1.9" ELSE "1.0"
    BY DEF VersionOf, h
  <2>4. \A k \in 1 .. 5 : Field(text, k) = f[k]
    BY <1>9, <2>1, <2>2, SMTT(60)
  <2>5. /\ Field(text, 6) = a /\ Field(text, 7) = c
    BY <1>9, <2>1, <2>2
  <2>6. Field(text, 8) = 0 /\ Field(text, 9) = 0
    BY <2>1, <2>2
  <2> QED
    BY <1>9, <2>1, <2>3, <2>4, <2>5, <2>6
<1> HIDE DEF a, c
<1> QED
  BY <1>3, <1>4, <1>9, <1>10 DEF a, c

--------------------------------------------------------------------------------
(* What follows the beginning of a line.                                   *)
LEMMA TailJoined ==
  ASSUME NEW S, NEW s \in Seq(S), NEW rest \in Seq(S)
  PROVE  /\ s \o rest \in Seq(S) /\ Joined(s \o rest, s, rest)
         /\ SubSeq(s \o rest, Len(s) + 1, Len(s \o rest)) = rest
<1> DEFINE u == s \o rest
           n == Len(s)
           p == Len(rest)
           lo == n + 1
           hi == n + p
           w == SubSeq(u, lo, hi)
<1>1. u \in Seq(S) /\ Joined(u, s, rest)
  BY ConcatJoins
<1>2. n \in Nat /\ p \in Nat
  BY LenProperties
<1>3. Len(u) = n + p /\ \A k \in 1 .. p : u[n + k] = rest[k]
  BY <1>1 DEF Joined
<1> HIDE DEF u
<1>4. DOMAIN u = 1 .. n + p /\ \A k \in 1 .. n + p : u[k] \in S
  BY <1>1, <1>3, LenProperties, ElementOfSeq
<1> HIDE DEF n, p
<1>5. \A k \in n + 1 .. n + p : u[k] \in S
  <2>1. \A k \in n + 1 .. n + p : k \in 1 .. n + p
    BY <1>2
  <2> QED
    BY <1>4, <2>1
<1>6. /\ w \in Seq(S) /\ Len(w) = IF lo <= hi THEN hi - lo + 1 ELSE 0
      /\ \A k \in 1 .. hi - lo + 1 : w[k] = u[lo + k - 1]
  <2>1. lo \in Int /\ hi \in Int /\ \A k \in lo .. hi : u[k] \in S
    BY <1>2, <1>5
  <2> HIDE DEF lo, hi
  <2> QED
    BY <2>1, SubSeqProperties
<1> HIDE DEF w
<1>7. Len(w) = p /\ \A k \in 1 .. p : w[k] = rest[k]
  <2>1. Len(w) = p
    BY <1>2, <1>6
  <2>2. /\ hi - lo + 1 = p
        /\ \A k \in 1 .. p : lo + k - 1 = n + k
    BY <1>2
  <2>3. \A k \in 1 .. p : w[k] = u[lo + k - 1]
    BY <1>6, <2>2, Zenon
  <2>4. \A k \in 1 .. p : w[k] = u[n + k]
    BY <2>2, <2>3, Zenon
  <2> QED
    BY <1>3, <2>1, <2>4, Zenon
<1>8. w = rest
  BY <1>6, <1>7, SeqEqual DEF p
<1> QED
  BY <1>1, <1>3, <1>8 DEF u, w, n, p

(* The line of a latch: its variable in an ASCII file, its next value, and   *)
(* its reset value unless that is 0.                                       *)
Skip(t) == IF t = "aag" THEN 1 ELSE 0
LatchRest(d, output) == CASE d.reset = "0" -> <<>> [] d.reset = "1" -> <<1>> [] OTHER -> <<output>>
LEMMA LatchLineParts ==
  ASSUME NEW m, WellFormed(m), NEW v \in Versions, NEW t \in Types, Writable(m, t, v),
         NEW l \in Latches(m)
  PROVE  LET d == m.driver[l]
             output == LitOf(Lit(l, d.sign))
             line == LatchLine(m, l, t, v)
         IN /\ d \in LatchDrivers(m.size) /\ Lit(l, d.sign) \in Values(m.size)
            /\ output \in Nat /\ output >= 2
            /\ line \in Seq(Nat)
            /\ t = "aag" => line[1] = output
            /\ line[1 + Skip(t)] = LitOf(d.input)
            /\ SubSeq(line, 2 + Skip(t), Len(line)) = LatchRest(d, output)
<1> DEFINE d == m.driver[l]
           output == LitOf(Lit(l, d.sign))
           next == LitOf(d.input)
           line == LatchLine(m, l, t, v)
           rest == LatchRest(d, output)
           first == IF t = "aag" THEN <<output>> \o <<next>> ELSE <<next>>
<1>1. d \in LatchDrivers(m.size) /\ l \in 0 .. m.size - 1 /\ m.size \in Nat
  BY DriverShape DEF Latches, Kind, VarsOf
<1>2. /\ d.sign \in BOOLEAN /\ d.input \in Values(m.size) /\ d.reset \in Ternary
      /\ Lit(l, d.sign) \in Values(m.size) /\ Lit(l, d.sign).index # NoVar
  BY <1>1 DEF LatchDrivers, Values, Lit, NoVar
<1>3. output \in Nat /\ output >= 2 /\ next \in Nat
  BY <1>1, <1>2, LiteralRoundTrip
<1>4. v = "1.0" => d.reset = "0"
  BY DEF Writable
<1>5. line = first \o rest
  <2>1. line = ((IF t = "aag" THEN <<output>> ELSE <<>>) \o <<next>>) \o rest
    BY <1>2, <1>4 DEF LatchLine, LatchRest, Ternary, Versions
  <2>2. <<next>> \in Seq(Nat)
    BY <1>3
  <2> HIDE DEF line, output, next, d, rest
  <2>3. <<>> \o <<next>> = <<next>>
    BY <2>2, ConcatEmptySeq
  <2> QED
    BY <2>1, <2>3
<1>6. rest \in Seq(Nat)
  <2>1. rest = <<>> \/ rest = <<1>> \/ rest = <<output>>
    BY DEF LatchRest
  <2>2. <<>> \in Seq(Nat) /\ \A n \in Nat : <<n>> \in Seq(Nat)
    OBVIOUS
  <2> HIDE DEF rest, output
  <2> QED
    BY <1>3, <2>1, <2>2
<1> HIDE DEF line, output, next, d, rest
<1>7. /\ first \in Seq(Nat) /\ Len(first) = 1 + Skip(t)
      /\ t = "aag" => first[1] = output
      /\ first[1 + Skip(t)] = next
  <2>1. \A n \in Nat : <<n>> \in Seq(Nat) /\ Len(<<n>>) = 1 /\ <<n>>[1] = n
    OBVIOUS
  <2>2. CASE t = "aag"
    <3> DEFINE u == <<output>> \o <<next>>
    <3>1. u \in Seq(Nat) /\ Joined(u, <<output>>, <<next>>)
      BY <1>3, <2>1, ConcatJoins
    <3> HIDE DEF u
    <3>2. Len(u) = 2 /\ u[1] = output /\ u[2] = next
      <4>1. /\ Len(<<output>>) = 1 /\ <<output>>[1] = output
            /\ Len(<<next>>) = 1 /\ <<next>>[1] = next
        BY <1>3, <2>1
      <4>2. 1 \in 1 .. 1 /\ 1 + 1 = 2
        OBVIOUS
      <4> QED
        BY <3>1, <4>1, <4>2, Zenon DEF Joined
    <3>3. first = u /\ Skip(t) = 1
      BY <2>2 DEF u, Skip
    <3> HIDE DEF first
    <3> QED
      BY <3>1, <3>2, <3>3
  <2>3. CASE t # "aag"
    <3>1. first = <<next>> /\ Skip(t) = 0
      BY <2>3 DEF Skip
    <3> HIDE DEF first
    <3> QED
      BY <1>3, <2>1, <2>3, <3>1
  <2> QED
    BY <2>2, <2>3
<1> HIDE DEF first
<1>8. /\ line \in Seq(Nat) /\ Joined(line, first, rest)
      /\ SubSeq(line, Len(first) + 1, Len(line)) = rest
  BY <1>5, <1>6, <1>7, TailJoined
<1>9. Skip(t) \in {0, 1} /\ (t = "aag" => Skip(t) = 1)
  BY DEF Skip
<1>10. /\ line[1 + Skip(t)] = next /\ (t = "aag" => line[1] = output)
       /\ SubSeq(line, 2 + Skip(t), Len(line)) = rest
  <2>1. \A k \in 1 .. 1 + Skip(t) : line[k] = first[k]
    BY <1>7, <1>8 DEF Joined
  <2>2. 1 \in 1 .. 1 + Skip(t) /\ 1 + Skip(t) \in 1 .. 1 + Skip(t) /\ 1 + Skip(t) + 1 = 2 + Skip(t)
    BY <1>9
  <2> QED
    BY <1>7, <1>8, <2>1, <2>2
<1> QED
  BY <1>1, <1>2, <1>3, <1>8, <1>10 DEF line, output, next, d, rest

--------------------------------------------------------------------------------
(* The lines of a file, section after section; those of the gates of an     *)
(* ASCII file are there in any order, a binary one has neither inputs nor   *)
(* gates among its lines.                                                  *)
Listed(t, S) == IF t = "aag" THEN Cardinality(S) ELSE 0
InputLine(m, k) == <<LitOf(Lit(Indices(Inputs(m))[k], TRUE))>>
LatchLineAt(t, m, v, k) == LatchLine(m, Indices(Latches(m))[k], t, v)
GateLineAt(m, k) == GateLine(m, Indices(Gates(m))[k])
OutputsFrom(t, m) == Listed(t, Inputs(m)) + Cardinality(Latches(m))
AssertsFrom(t, m) == OutputsFrom(t, m) + Len(m.refs["outputs"])
AssumesFrom(t, m) == AssertsFrom(t, m) + Len(m.refs["asserts"])
GatesFrom(t, m) == AssumesFrom(t, m) + Len(m.refs["assumes"])
Laid(t, m, v, lines) ==
  /\ lines \in Seq(Seq(Nat)) /\ Len(lines) = GatesFrom(t, m) + Listed(t, Gates(m))
  /\ \A k \in 1 .. Listed(t, Inputs(m)) : lines[k] = InputLine(m, k)
  /\ \A k \in 1 .. Cardinality(Latches(m)) :
        lines[Listed(t, Inputs(m)) + k] = LatchLineAt(t, m, v, k)
  /\ \A k \in 1 .. Len(m.refs["outputs"]) :
        lines[OutputsFrom(t, m) + k] = <<LitOf(m.refs["outputs"][k])>>
  /\ \A k \in 1 .. Len(m.refs["asserts"]) :
        lines[AssertsFrom(t, m) + k] = <<LitOf(Xor(m.refs["asserts"][k], TRUE))>>
  /\ \A k \in 1 .. Len(m.refs["assumes"]) :
        lines[AssumesFrom(t, m) + k] = <<LitOf(m.refs["assumes"][k])>>
GatesLaid(m, lines) ==
  LET At(k) == lines[GatesFrom("aag", m) + k]
  IN /\ \A k \in 1 .. Cardinality(Gates(m)) : \E g \in Gates(m) : At(k) = GateLine(m, g)
     /\ \A g \in Gates(m) : \E k \in 1 .. Cardinality(Gates(m)) : At(k) = GateLine(m, g)
     /\ \A j, k \in 1 .. Cardinality(Gates(m)) : At(j) = At(k) => j = k

(* The sizes and the lists of an FSM.                                      *)
LEMMA FsmSizes ==
  ASSUME NEW m, WellFormed(m)
  PROVE  /\ m.size \in Nat
         /\ \A kind \in {"input", "latch", "gate"} :
               /\ Kind(m, kind) \in SUBSET (0 .. m.size - 1) /\ Kind(m, kind) \in SUBSET Nat
               /\ Cardinality(Kind(m, kind)) \in Nat
               /\ Enumerates(Kind(m, kind), Indices(Kind(m, kind)))
         /\ \A list \in Lists : m.refs[list] \in Seq(Values(m.size)) /\ Len(m.refs[list]) \in Nat
<1>1. \A kind \in {"input", "latch", "gate"} :
        Kind(m, kind) \in SUBSET Nat /\ IsFiniteSet(Kind(m, kind))
  BY KindsOf, FS_Subset DEF Inputs, Latches, Gates
<1>2. \A kind : Kind(m, kind) \in SUBSET (0 .. m.size - 1)
  BY DEF Kind, VarsOf
<1>3. m.size \in Nat /\ \A list \in Lists : m.refs[list] \in Seq(Values(m.size))
  BY DEF WellFormed, Machine
<1>4. \A list \in Lists : Len(m.refs[list]) \in Nat
  BY <1>3, LenProperties
<1> QED
  BY <1>1, <1>2, <1>3, <1>4, IndicesList

(* The line of a gate names it.                                            *)
LEMMA GateLineNames ==
  ASSUME NEW m, WellFormed(m), NEW g \in Gates(m)
  PROVE  LET d == m.driver[g]
             a == Xor(d.a, ~d.sign)
             b == Xor(d.b, ~d.sign)
         IN /\ d \in GateDrivers(m.size) /\ a \in Values(m.size) /\ b \in Values(m.size)
            /\ Lit(g, TRUE) \in Values(m.size)
            /\ GateLine(m, g) = <<LitOf(Lit(g, TRUE)), LitOf(a), LitOf(b)>>
            /\ GateLine(m, g) \in Seq(Nat)
<1> DEFINE d == m.driver[g]
           a == Xor(d.a, ~d.sign)
           b == Xor(d.b, ~d.sign)
<1>1. d \in GateDrivers(m.size) /\ g \in 0 .. m.size - 1 /\ m.size \in Nat
  BY DriverShape DEF Gates, Kind, VarsOf
<1>2. d.a \in Values(m.size) /\ d.b \in Values(m.size) /\ d.sign \in BOOLEAN
  BY <1>1 DEF GateDrivers
<1>3. /\ a \in Values(m.size) /\ b \in Values(m.size) /\ Lit(g, TRUE) \in Values(m.size)
  BY <1>1, <1>2 DEF Values, Xor, Lit
<1>4. GateLine(m, g) = <<LitOf(Lit(g, TRUE)), LitOf(a), LitOf(b)>>
  BY DEF GateLine, AndInput
<1>5. LitOf(Lit(g, TRUE)) \in Nat /\ LitOf(a) \in Nat /\ LitOf(b) \in Nat
  BY <1>1, <1>3, LiteralRoundTrip
<1> HIDE DEF a, b
<1>6. GateLine(m, g) \in Seq(Nat)
  <2>1. \A x, y, z \in Nat : <<x, y, z>> \in Seq(Nat)
    OBVIOUS
  <2> QED
    BY <1>4, <1>5, <2>1
<1> QED
  BY <1>1, <1>3, <1>4, <1>6 DEF a, b

(* What FileOf lays out.                                                   *)
LEMMA LinesLaid ==
  ASSUME NEW m, WellFormed(m), NEW v \in Versions, NEW t \in Types, Writable(m, t, v)
  PROVE  Laid(t, m, v, Lines(m, t, v)) /\ (t = "aag" => GatesLaid(m, Lines(m, t, v)))
<1> DEFINE ni == Listed(t, Inputs(m))
           nl == Cardinality(Latches(m))
           ng == Listed(t, Gates(m))
           outputs == m.refs["outputs"]
           asserts == m.refs["asserts"]
           assumes == m.refs["assumes"]
           I == [k \in 1 .. ni |-> InputLine(m, k)]
           L == [k \in 1 .. nl |-> LatchLineAt(t, m, v, k)]
           O == [k \in DOMAIN outputs |-> <<LitOf(outputs[k])>>]
           B == [k \in DOMAIN asserts |-> <<LitOf(Xor(asserts[k], TRUE))>>]
           C == [k \in DOMAIN assumes |-> <<LitOf(assumes[k])>>]
           G == [k \in 1 .. ng |-> GateLineAt(m, k)]
           R == Seq(Nat)
<1>1. /\ ni \in 0 .. Cardinality(Inputs(m)) /\ nl \in Nat /\ ng \in 0 .. Cardinality(Gates(m))
      /\ Cardinality(Inputs(m)) \in Nat /\ Cardinality(Gates(m)) \in Nat
      /\ ni \in Nat /\ ng \in Nat
      /\ Enumerates(Inputs(m), Indices(Inputs(m))) /\ Enumerates(Latches(m), Indices(Latches(m)))
      /\ Enumerates(Gates(m), Indices(Gates(m)))
  <2>1. /\ nl \in Nat /\ Cardinality(Inputs(m)) \in Nat /\ Cardinality(Gates(m)) \in Nat
        /\ Enumerates(Inputs(m), Indices(Inputs(m))) /\ Enumerates(Latches(m), Indices(Latches(m)))
        /\ Enumerates(Gates(m), Indices(Gates(m)))
    BY FsmSizes DEF Inputs, Latches, Gates
  <2> QED
    BY <2>1 DEF Listed
<1>2. /\ Inputs(m) \in SUBSET (0 .. m.size - 1) /\ m.size \in Nat
  BY FsmSizes DEF Inputs
<1>3. /\ outputs \in Seq(Values(m.size)) /\ asserts \in Seq(Values(m.size))
      /\ assumes \in Seq(Values(m.size))
  BY FsmSizes DEF Lists
<1>4. \A w \in Values(m.size) : /\ LitOf(w) \in Nat /\ <<LitOf(w)>> \in R
                                /\ LitOf(Xor(w, TRUE)) \in Nat /\ <<LitOf(Xor(w, TRUE))>> \in R
  <2>1. \A w \in Values(m.size) : Xor(w, TRUE) \in Values(m.size)
    BY DEF Xor, Values
  <2>2. \A n \in Nat : <<n>> \in R
    OBVIOUS
  <2> QED
    BY <1>2, <2>1, <2>2, LiteralRoundTrip
<1>5. I \in [1 .. ni -> R]
  <2>1. \A k \in 1 .. ni : Lit(Indices(Inputs(m))[k], TRUE) \in Values(m.size)
    BY <1>1, <1>2 DEF Enumerates, Lit, Values
  <2> QED
    BY <1>4, <2>1 DEF InputLine
<1>6. L \in [1 .. nl -> R]
  <2>1. \A k \in 1 .. nl : Indices(Latches(m))[k] \in Latches(m)
    BY <1>1 DEF Enumerates
  <2> QED
    BY <2>1, LatchLineParts DEF LatchLineAt
<1>7. G \in [1 .. ng -> R]
  <2>1. \A k \in 1 .. ng : Indices(Gates(m))[k] \in Gates(m)
    BY <1>1 DEF Enumerates
  <2> QED
    BY <2>1, GateLineNames DEF GateLineAt
<1>8. /\ O \in [1 .. Len(outputs) -> R] /\ B \in [1 .. Len(asserts) -> R]
      /\ C \in [1 .. Len(assumes) -> R]
      /\ Len(outputs) \in Nat /\ Len(asserts) \in Nat /\ Len(assumes) \in Nat
  <2>1. \A s \in Seq(Values(m.size)) : /\ DOMAIN s = 1 .. Len(s) /\ Len(s) \in Nat
                                       /\ \A k \in 1 .. Len(s) : s[k] \in Values(m.size)
    BY LenProperties, ElementOfSeq
  <2> QED
    BY <1>3, <1>4, <2>1
<1>9. /\ I \in Seq(R) /\ Len(I) = ni /\ L \in Seq(R) /\ Len(L) = nl
       /\ O \in Seq(R) /\ Len(O) = Len(outputs) /\ B \in Seq(R) /\ Len(B) = Len(asserts)
       /\ C \in Seq(R) /\ Len(C) = Len(assumes) /\ G \in Seq(R) /\ Len(G) = ng
  <2> HIDE DEF R, I, L, O, B, C, G
  <2> QED
    BY <1>1, <1>5, <1>6, <1>7, <1>8, FunctionIsSeq
<1>10. Lines(m, t, v) = (((((I \o L) \o O) \o B) \o C) \o G)
  <2>1. /\ DOMAIN Indices(Inputs(m)) = 1 .. Cardinality(Inputs(m))
        /\ DOMAIN Indices(Latches(m)) = 1 .. nl
        /\ DOMAIN Indices(Gates(m)) = 1 .. Cardinality(Gates(m))
    BY DEF Indices
  <2> DEFINE inputs == IF t = "aag"
                       THEN [k \in DOMAIN Indices(Inputs(m)) |-> <<LitOf(Lit(Indices(Inputs(m))[k], TRUE))>>]
                       ELSE <<>>
             gates == IF t = "aag"
                      THEN [k \in DOMAIN Indices(Gates(m)) |-> GateLine(m, Indices(Gates(m))[k])]
                      ELSE <<>>
  <2>2. Lines(m, t, v) = (((((inputs \o L) \o O) \o B) \o C) \o gates)
    BY <2>1 DEF Lines, Each, LatchLineAt
  <2>3. I = inputs /\ G = gates
    <3>1. CASE t = "aag"
      BY <2>1, <3>1 DEF Listed, InputLine, GateLineAt
    <3>2. CASE t # "aag"
      <4>1. Len(I) = 0 /\ Len(G) = 0
        BY <1>9, <3>2 DEF Listed
      <4> HIDE DEF I, G
      <4>2. I = <<>> /\ G = <<>>
        BY <1>9, <4>1, EmptySeq
      <4> QED
        BY <3>2, <4>2
    <3> QED
      BY <3>1, <3>2
  <2> HIDE DEF inputs, gates, I, L, O, B, C, G
  <2> QED
    BY <2>2, <2>3
<1>11. /\ \A k \in 1 .. ni : I[k] = InputLine(m, k)
       /\ \A k \in 1 .. nl : L[k] = LatchLineAt(t, m, v, k)
       /\ \A k \in 1 .. Len(outputs) : O[k] = <<LitOf(outputs[k])>>
       /\ \A k \in 1 .. Len(asserts) : B[k] = <<LitOf(Xor(asserts[k], TRUE))>>
       /\ \A k \in 1 .. Len(assumes) : C[k] = <<LitOf(assumes[k])>>
       /\ \A k \in 1 .. ng : G[k] = GateLineAt(m, k)
  BY <1>3, LenProperties
<1> DEFINE lines == Lines(m, t, v)
<1>12. /\ lines \in Seq(R) /\ Len(lines) = GatesFrom(t, m) + ng
       /\ \A k \in 1 .. ni : lines[k] = I[k]
       /\ \A k \in 1 .. nl : lines[ni + k] = L[k]
       /\ \A k \in 1 .. Len(outputs) : lines[OutputsFrom(t, m) + k] = O[k]
       /\ \A k \in 1 .. Len(asserts) : lines[AssertsFrom(t, m) + k] = B[k]
       /\ \A k \in 1 .. Len(assumes) : lines[AssumesFrom(t, m) + k] = C[k]
       /\ \A k \in 1 .. ng : lines[GatesFrom(t, m) + k] = G[k]
  <2> HIDE DEF R, I, L, O, B, C, G, lines
  <2>1. lines = ((((I \o L) \o O) \o B) \o C) \o G
    BY <1>10 DEF lines
  <2>2. /\ OutputsFrom(t, m) = Len(I) + Len(L) /\ AssertsFrom(t, m) = Len(I) + Len(L) + Len(O)
        /\ AssumesFrom(t, m) = Len(I) + Len(L) + Len(O) + Len(B)
        /\ GatesFrom(t, m) = Len(I) + Len(L) + Len(O) + Len(B) + Len(C)
    BY <1>9 DEF OutputsFrom, AssertsFrom, AssumesFrom, GatesFrom
  <2>3. lines \in Seq(R) /\ JoinedSix(lines, I, L, O, B, C, G)
    BY <1>9, <2>1, JoinSix
  <2> HIDE DEF ni, nl, ng, outputs, asserts, assumes
  <2> QED
    BY <1>9, <2>2, <2>3, Zenon DEF JoinedSix
<1> HIDE DEF I, L, O, B, C, G, lines
<1>13. Laid(t, m, v, lines)
  BY <1>11, <1>12 DEF Laid
<1>14. ASSUME t = "aag" PROVE GatesLaid(m, lines)
  <2>0. ng = Cardinality(Gates(m))
    BY <1>14 DEF Listed
  <2>1. \A k \in 1 .. ng : lines[GatesFrom(t, m) + k] = GateLine(m, Indices(Gates(m))[k])
    BY <1>11, <1>12 DEF GateLineAt
  <2>2. \A g, h \in Gates(m) : GateLine(m, g) = GateLine(m, h) => g = h
    <3> TAKE g \in Gates(m), h \in Gates(m)
    <3>1. GateLine(m, g)[1] = LitOf(Lit(g, TRUE)) /\ GateLine(m, h)[1] = LitOf(Lit(h, TRUE))
      BY DEF GateLine
    <3>2. /\ ValueOf(LitOf(Lit(g, TRUE))) = Lit(g, TRUE) /\ ValueOf(LitOf(Lit(h, TRUE))) = Lit(h, TRUE)
      BY <1>2, GateLineNames, LiteralRoundTrip
    <3> QED
      BY <3>1, <3>2 DEF Lit
  <2>3. \A k \in 1 .. ng : Indices(Gates(m))[k] \in Gates(m)
    BY <1>1 DEF Enumerates
  <2> QED
    BY <1>1, <1>14, <2>0, <2>1, <2>2, <2>3 DEF GatesLaid, Enumerates
<1> QED
  BY <1>13, <1>14 DEF lines

--------------------------------------------------------------------------------
(* A file of an FSM; one of the ASCII format has its gates in any order, one *)
(* of the binary format is of an FSM whose differences are natural numbers. *)
Written(t, m, v, text) ==
  /\ text = [type |-> t, header |-> Header(m, v), lines |-> text.lines,
             bytes |-> IF t = "aag" THEN <<>> ELSE GateBytes(m), symbols |-> Symbols(m)]
  /\ Laid(t, m, v, text.lines) /\ (t = "aag" => GatesLaid(m, text.lines))
  /\ Encodable(m, t)

LEMMA WriterWrites ==
  ASSUME NEW m, WellFormed(m), NEW v \in Versions, NEW t \in Types, Writable(m, t, v),
         Encodable(m, t)
  PROVE  Written(t, m, v, FileOf(m, t, v))
  BY LinesLaid DEF Written, FileOf

(* Where the reader finds each section.                                    *)
LEMMA SectionStarts ==
  ASSUME NEW m, WellFormed(m), NEW v \in Versions, NEW t \in Types, Writable(m, t, v),
         NEW text, Written(t, m, v, text)
  PROVE  /\ text.type = t
         /\ Skipped(text, "latches") = Listed(t, Inputs(m))
         /\ Skipped(text, "outputs") = OutputsFrom(t, m) /\ Skipped(text, "asserts") = AssertsFrom(t, m)
         /\ Skipped(text, "assumes") = AssumesFrom(t, m) /\ Skipped(text, "gates") = GatesFrom(t, m)
<1>1. text.type = t /\ text.header = Header(m, v)
  BY DEF Written
<1>2. /\ Field(text, 2) = Cardinality(Inputs(m)) /\ Field(text, 3) = Cardinality(Latches(m))
      /\ Field(text, 4) = Len(m.refs["outputs"])
      /\ Field(text, 6) = Len(m.refs["asserts"]) /\ Field(text, 7) = Len(m.refs["assumes"])
  BY <1>1, HeaderFields
<1>3. /\ Cardinality(Inputs(m)) \in Nat /\ Cardinality(Latches(m)) \in Nat
      /\ Len(m.refs["outputs"]) \in Nat /\ Len(m.refs["asserts"]) \in Nat
      /\ Len(m.refs["assumes"]) \in Nat
  BY FsmSizes DEF Inputs, Latches, Lists
<1>4. InputLines(text) = Listed(t, Inputs(m)) /\ Listed(t, Inputs(m)) \in Nat
  BY <1>1, <1>2, <1>3 DEF InputLines, Listed
<1>5. \A a, b, c, d, e \in Nat :
        /\ a + 0 + 0 + 0 + 0 = a
        /\ a + b + 0 + 0 + 0 = a + b /\ a + b + c + 0 + 0 = a + b + c
        /\ a + b + c + d + 0 = a + b + c + d
  OBVIOUS
<1>6. Skipped(text, "latches") = Listed(t, Inputs(m))
  BY <1>2, <1>3, <1>4, <1>5 DEF Skipped
<1>7. Skipped(text, "outputs") = OutputsFrom(t, m)
  BY <1>2, <1>3, <1>4, <1>5 DEF Skipped, OutputsFrom
<1>8. Skipped(text, "asserts") = AssertsFrom(t, m)
  BY <1>2, <1>3, <1>4, <1>5 DEF Skipped, OutputsFrom, AssertsFrom
<1>9. Skipped(text, "assumes") = AssumesFrom(t, m)
  <2>1. Skipped(text, "assumes")
        = InputLines(text) + Field(text, 3) + Field(text, 4) + Field(text, 6) + 0
    <3>1. /\ "assumes" # "latches" /\ "assumes" # "gates"
          /\ "assumes" \in {"asserts", "assumes", "gates"} /\ "assumes" \in {"assumes", "gates"}
      OBVIOUS
    <3> QED
      BY <3>1, Zenon DEF Skipped
  <2> QED
    <3>1. Skipped(text, "assumes")
          = Listed(t, Inputs(m)) + Cardinality(Latches(m)) + Len(m.refs["outputs"])
            + Len(m.refs["asserts"]) + 0
      BY <1>2, <1>4, <2>1, Zenon
    <3>2. \A i \in Nat : i + 0 = i
      OBVIOUS
    <3>3. AssertsFrom(t, m) + Len(m.refs["asserts"]) \in Nat
      <4>1. \A i, j \in Nat : i + j \in Nat
        OBVIOUS
      <4> QED
        BY <1>3, <1>4, <4>1, Zenon DEF OutputsFrom, AssertsFrom
    <3> QED
      BY <3>1, <3>2, <3>3, Zenon DEF OutputsFrom, AssertsFrom, AssumesFrom
<1>10. Skipped(text, "gates") = GatesFrom(t, m)
  <2>1. Skipped(text, "gates")
        = InputLines(text) + Field(text, 3) + Field(text, 4) + Field(text, 6) + Field(text, 7)
    BY DEF Skipped
  <2> QED
    BY <1>2, <1>3, <1>4, <2>1 DEF OutputsFrom, AssertsFrom, AssumesFrom, GatesFrom
<1> QED
  BY <1>1, <1>6, <1>7, <1>8, <1>9, <1>10

(* What the reader makes of the lines of inputs, latches and gates.        *)
LEMMA InputsRead ==
  ASSUME NEW m, WellFormed(m), NEW v \in Versions, NEW t \in Types, Writable(m, t, v),
         NEW text, Written(t, m, v, text)
  PROVE  InputVars(text) = [k \in 1 .. Cardinality(Inputs(m)) |-> Lit(Indices(Inputs(m))[k], TRUE)]
<1>1. text.type = t /\ Field(text, 2) = Cardinality(Inputs(m))
  BY HeaderFields DEF Written
<1>2. ASSUME t = "aag", NEW k \in 1 .. Cardinality(Inputs(m))
      PROVE  ValueOf(text.lines[k][1]) = Lit(Indices(Inputs(m))[k], TRUE)
  <2>1. text.lines[k] = <<LitOf(Lit(Indices(Inputs(m))[k], TRUE))>>
    BY <1>2 DEF Written, Laid, InputLine, Listed
  <2>2. /\ m.size \in Nat /\ Indices(Inputs(m))[k] \in 0 .. m.size - 1
    BY FsmSizes DEF Inputs, Enumerates
  <2>3. Lit(Indices(Inputs(m))[k], TRUE) \in Values(m.size)
    BY <2>2 DEF Lit, Values
  <2>4. ValueOf(LitOf(Lit(Indices(Inputs(m))[k], TRUE))) = Lit(Indices(Inputs(m))[k], TRUE)
    BY <2>2, <2>3, LiteralRoundTrip
  <2>5. \A n : <<n>>[1] = n
    OBVIOUS
  <2>6. text.lines[k][1] = LitOf(Lit(Indices(Inputs(m))[k], TRUE))
    BY <2>1, <2>5, Zenon
  <2> QED
    BY <2>4, <2>6, Zenon
<1>3. ASSUME t # "aag", NEW k \in 1 .. Cardinality(Inputs(m))
      PROVE  k - 1 = Indices(Inputs(m))[k]
  BY <1>3, CompactPlaces DEF Types, Writable
<1> QED
  BY <1>1, <1>2, <1>3 DEF InputVars

LatchRead(m, l) ==
  LET d == m.driver[l]
  IN [var |-> Lit(l, d.sign), input |-> LitOf(d.input),
      rest |-> LatchRest(d, LitOf(Lit(l, d.sign)))]
LEMMA LatchesRead ==
  ASSUME NEW m, WellFormed(m), NEW v \in Versions, NEW t \in Types, Writable(m, t, v),
         NEW text, Written(t, m, v, text)
  PROVE  ReadLatches(text) = [k \in 1 .. Cardinality(Latches(m)) |-> LatchRead(m, Indices(Latches(m))[k])]
<1>1. /\ text.type = t /\ Field(text, 3) = Cardinality(Latches(m))
      /\ Field(text, 2) = Cardinality(Inputs(m))
  BY HeaderFields DEF Written
<1> DEFINE lines == Section(text, "latches", Field(text, 3))
           n == Cardinality(Latches(m))
           LineRead(k) == [var |-> IF text.type = "aag" THEN ValueOf(lines[k][1])
                               ELSE Lit(Field(text, 2) + k - 1, TRUE),
                       input |-> lines[k][1 + Skip(t)],
                       rest |-> SubSeq(lines[k], 2 + Skip(t), Len(lines[k]))]
<1>2. DOMAIN lines = 1 .. n
  BY <1>1 DEF Section
<1>3. ASSUME NEW k \in 1 .. n PROVE LineRead(k) = LatchRead(m, Indices(Latches(m))[k])
  <2> DEFINE l == Indices(Latches(m))[k]
             d == m.driver[l]
  <2>1. lines[k] = LatchLine(m, l, t, v)
    <3>1. text.lines[Listed(t, Inputs(m)) + k] = LatchLine(m, l, t, v)
      BY DEF Written, Laid, LatchLineAt
    <3>2. Skipped(text, "latches") = Listed(t, Inputs(m))
      BY SectionStarts
    <3>3. lines[k] = text.lines[Skipped(text, "latches") + k]
      BY <1>1 DEF Section
    <3> QED
      BY <3>1, <3>2, <3>3, Zenon
  <2>2. m.size \in Nat /\ l \in Latches(m)
    BY FsmSizes DEF Latches, Enumerates
  <2>3. t # "aag" => l = Cardinality(Inputs(m)) + k - 1 /\ (d.sign <=> TRUE) /\ d.sign = TRUE
    <3> SUFFICES ASSUME t # "aag" PROVE l = Cardinality(Inputs(m)) + k - 1 /\ d.sign = TRUE
      OBVIOUS
    <3>1. Compact(m)
      BY DEF Types, Writable
    <3>2. l = Cardinality(Inputs(m)) + k - 1
      BY <3>1, CompactPlaces
    <3>3. d.sign /\ d.sign \in BOOLEAN
      <4>1. d \in LatchDrivers(m.size)
        BY <2>2, LatchLineParts
      <4> QED
        BY <2>2, <3>1, <4>1 DEF Compact, LatchDrivers
    <3> QED
      BY <3>2, <3>3
  <2> HIDE DEF l, lines
  <2>4. /\ t = "aag" => lines[k][1] = LitOf(Lit(l, d.sign))
        /\ lines[k][1 + Skip(t)] = LitOf(d.input)
        /\ SubSeq(lines[k], 2 + Skip(t), Len(lines[k])) = LatchRest(d, LitOf(Lit(l, d.sign)))
        /\ Lit(l, d.sign) \in Values(m.size)
    BY <2>1, <2>2, LatchLineParts
  <2>5. t = "aag" => ValueOf(lines[k][1]) = Lit(l, d.sign)
    BY <2>2, <2>4, LiteralRoundTrip
  <2>6. (IF text.type = "aag" THEN ValueOf(lines[k][1]) ELSE Lit(Field(text, 2) + k - 1, TRUE))
          = Lit(l, d.sign)
    BY <1>1, <2>3, <2>5
  <2> QED
    BY <2>4, <2>6 DEF LatchRead, l
<1>4. ReadLatches(text) = [k \in DOMAIN lines |-> LineRead(k)]
  BY <1>1 DEF ReadLatches, Skip
<1> HIDE DEF lines, LineRead
<1> QED
  BY <1>2, <1>3, <1>4

GateRead(t, m, g) ==
  LET d == m.driver[g]
      a == LitOf(Xor(d.a, ~d.sign))
      b == LitOf(Xor(d.b, ~d.sign))
  IN [var |-> Lit(g, TRUE), a |-> IF t = "aag" THEN a ELSE b, b |-> IF t = "aag" THEN b ELSE a]
GatesListed(t, m, gates) ==
  /\ DOMAIN gates = 1 .. Cardinality(Gates(m))
  /\ \A k \in 1 .. Cardinality(Gates(m)) : \E g \in Gates(m) : gates[k] = GateRead(t, m, g)
  /\ \A g \in Gates(m) : \E k \in 1 .. Cardinality(Gates(m)) : gates[k] = GateRead(t, m, g)
  /\ \A j, k \in 1 .. Cardinality(Gates(m)) : gates[j] = gates[k] => j = k
LEMMA AsciiGatesRead ==
  ASSUME NEW m, WellFormed(m), NEW v \in Versions, NEW t \in Types, Writable(m, t, v),
         NEW text, Written(t, m, v, text), t = "aag"
  PROVE  GatesListed(t, m, ReadGates(text))
<1> DEFINE lines == Section(text, "gates", Field(text, 5))
           gates == ReadGates(text)
<1>1. text.type = "aag" /\ t = "aag" /\ Field(text, 5) = Cardinality(Gates(m))
  BY HeaderFields DEF Written
<1>2. /\ DOMAIN lines = 1 .. Cardinality(Gates(m))
      /\ \A k \in DOMAIN lines : lines[k] = text.lines[GatesFrom(t, m) + k]
  BY <1>1, SectionStarts DEF Section
<1>3. gates = [k \in DOMAIN lines |-> [var |-> ValueOf(lines[k][1]), a |-> lines[k][2], b |-> lines[k][3]]]
  BY <1>1 DEF ReadGates
<1> HIDE DEF lines
<1>4. ASSUME NEW k \in DOMAIN lines, NEW g \in Gates(m), lines[k] = GateLine(m, g)
      PROVE  gates[k] = GateRead(t, m, g)
  <2>1. /\ lines[k][1] = LitOf(Lit(g, TRUE)) /\ lines[k][2] = LitOf(Xor(m.driver[g].a, ~m.driver[g].sign))
        /\ lines[k][3] = LitOf(Xor(m.driver[g].b, ~m.driver[g].sign))
    BY <1>4 DEF GateLine, AndInput
  <2>2. Lit(g, TRUE) \in Values(m.size) /\ m.size \in Nat
    BY GateLineNames, FsmSizes
  <2>3. ValueOf(LitOf(Lit(g, TRUE))) = Lit(g, TRUE)
    BY <2>2, LiteralRoundTrip
  <2>4. gates[k] = [var |-> ValueOf(lines[k][1]), a |-> lines[k][2], b |-> lines[k][3]]
    BY <1>3
  <2>5. gates[k] = [var |-> Lit(g, TRUE), a |-> LitOf(Xor(m.driver[g].a, ~m.driver[g].sign)),
                    b |-> LitOf(Xor(m.driver[g].b, ~m.driver[g].sign))]
    BY <2>1, <2>3, <2>4, Zenon
  <2> QED
    BY <1>1, <2>5 DEF GateRead
<1>5. \A g, h \in Gates(m) : GateRead(t, m, g) = GateRead(t, m, h) => g = h
  BY DEF GateRead, Lit
<1>6. /\ \A k \in DOMAIN lines : \E g \in Gates(m) : lines[k] = GateLine(m, g)
      /\ \A g \in Gates(m) : \E k \in DOMAIN lines : lines[k] = GateLine(m, g)
      /\ \A j, k \in DOMAIN lines : lines[j] = lines[k] => j = k
  BY <1>1, <1>2 DEF Written, GatesLaid
<1>7. DOMAIN gates = DOMAIN lines
  BY <1>3
<1> HIDE DEF gates
<1>8. \A j, k \in DOMAIN lines : gates[j] = gates[k] => j = k
  <2> SUFFICES ASSUME NEW j \in DOMAIN lines, NEW k \in DOMAIN lines, gates[j] = gates[k]
               PROVE  j = k
    OBVIOUS
  <2>1. PICK g \in Gates(m) : lines[j] = GateLine(m, g)
    BY <1>6
  <2>2. PICK h \in Gates(m) : lines[k] = GateLine(m, h)
    BY <1>6
  <2>3. g = h
    BY <1>4, <1>5, <2>1, <2>2
  <2> QED
    BY <1>6, <2>1, <2>2, <2>3
<1> QED
  BY <1>2, <1>4, <1>6, <1>7, <1>8 DEF gates, GatesListed

(* The differences of a gate that can be encoded are natural numbers, and   *)
(* its literals those of the gate.                                         *)
DeltasOf(m, g, x, a, b) ==
  /\ x = LitOf(Lit(g, TRUE)) /\ a = AndInput(m.driver[g], m.driver[g].a)
  /\ b = AndInput(m.driver[g], m.driver[g].b)
  /\ x \in Nat /\ a \in Nat /\ b \in Nat /\ x - b \in Nat /\ b - a \in Nat
  /\ Deltas(m, g)[1] = x - b /\ Deltas(m, g)[2] = b - a
LEMMA GateDeltas ==
  ASSUME NEW m, WellFormed(m), Encodable(m, "aig"), NEW g \in Gates(m)
  PROVE  DeltasOf(m, g, LitOf(Lit(g, TRUE)), AndInput(m.driver[g], m.driver[g].a),
                  AndInput(m.driver[g], m.driver[g].b))
<1> DEFINE d == m.driver[g]
           x == LitOf(Lit(g, TRUE))
           a == AndInput(d, d.a)
           b == AndInput(d, d.b)
<1>1. /\ Xor(d.a, ~d.sign) \in Values(m.size) /\ Xor(d.b, ~d.sign) \in Values(m.size)
      /\ Lit(g, TRUE) \in Values(m.size) /\ m.size \in Nat
  BY GateLineNames, FsmSizes
<1>2. x \in Nat /\ a \in Nat /\ b \in Nat
  BY <1>1, LiteralRoundTrip DEF AndInput
<1>3. Deltas(m, g) = <<x - b, b - a>>
  BY DEF Deltas
<1>4. \A k \in DOMAIN Deltas(m, g) : Deltas(m, g)[k] >= 0
  BY DEF Encodable
<1> HIDE DEF x, a, b, d
<1>5. /\ DOMAIN Deltas(m, g) = {1, 2} /\ Deltas(m, g)[1] = x - b /\ Deltas(m, g)[2] = b - a
  <2>1. \A i, j : DOMAIN <<i, j>> = {1, 2} /\ <<i, j>>[1] = i /\ <<i, j>>[2] = j
    OBVIOUS
  <2> QED
    BY <1>3, <2>1
<1>6. x - b \in Nat /\ b - a \in Nat
  <2>1. x - b >= 0 /\ b - a >= 0
    BY <1>4, <1>5
  <2> QED
    BY <1>2, <2>1
<1> QED
  BY <1>2, <1>5, <1>6 DEF DeltasOf, x, a, b, d

(* The bytes of the gates give their differences back.                     *)
LEMMA DeltasReadBack ==
  ASSUME NEW m, WellFormed(m), Encodable(m, "aig")
  PROVE  /\ GateBytes(m) \in Coded /\ Uints(GateBytes(m)) = AllDeltas(m)
         /\ \A k \in 1 .. Cardinality(Gates(m)) :
              /\ AllDeltas(m)[2 * k - 1] = Deltas(m, Indices(Gates(m))[k])[1]
              /\ AllDeltas(m)[2 * k] = Deltas(m, Indices(Gates(m))[k])[2]
<1> DEFINE n == Cardinality(Gates(m))
           G == Indices(Gates(m))
           d == AllDeltas(m)
<1>1. n \in Nat /\ \A k \in 1 .. n : G[k] \in Gates(m)
  <2>1. n \in Nat /\ Enumerates(Gates(m), G)
    BY FsmSizes DEF Gates
  <2> QED
    BY <2>1 DEF Enumerates
<1>2. d = [k \in 1 .. 2 * n |-> Deltas(m, G[(k + 1) \div 2])[2 - (k % 2)]]
  BY DEF AllDeltas
<1> HIDE DEF n, G, d
<1>3. \A k \in 1 .. 2 * n : (k + 1) \div 2 \in 1 .. n /\ (2 - (k % 2) = 1 \/ 2 - (k % 2) = 2)
  BY <1>1
<1>4. \A g \in Gates(m) : Deltas(m, g)[1] \in Nat /\ Deltas(m, g)[2] \in Nat
  BY GateDeltas DEF DeltasOf
<1>5. d \in [1 .. 2 * n -> Nat]
  <2>1. ASSUME NEW k \in 1 .. 2 * n
        PROVE  Deltas(m, G[(k + 1) \div 2])[2 - (k % 2)] \in Nat
    BY <1>1, <1>3, <1>4
  <2> QED
    BY <1>2, <2>1
<1>6. GateBytes(m) = Ext!FlattenSeq([k \in 1 .. 2 * n |-> Bytes[d[k]]])
  BY <1>2 DEF GateBytes, d
<1>7. GateBytes(m) \in Coded /\ Uints(GateBytes(m)) = d
  <2>1. 2 * n \in Nat
    BY <1>1
  <2> DEFINE N == 2 * n
  <2> HIDE DEF N
  <2> QED
    BY <1>5, <1>6, <2>1, NumbersReadBack
<1>8. ASSUME NEW k \in 1 .. n
      PROVE  d[2 * k - 1] = Deltas(m, G[k])[1] /\ d[2 * k] = Deltas(m, G[k])[2]
  <2>1. /\ 2 * k - 1 \in 1 .. 2 * n /\ 2 * k \in 1 .. 2 * n
        /\ (2 * k - 1 + 1) \div 2 = k /\ (2 * k + 1) \div 2 = k
        /\ 2 - ((2 * k - 1) % 2) = 1 /\ 2 - ((2 * k) % 2) = 2
    BY <1>1
  <2> QED
    BY <1>2, <2>1
<1> QED
  BY <1>7, <1>8 DEF n, G, d

LEMMA BinaryGatesRead ==
  ASSUME NEW m, WellFormed(m), NEW v \in Versions, NEW t \in Types, Writable(m, t, v),
         NEW text, Written(t, m, v, text), t # "aag"
  PROVE  GatesListed(t, m, ReadGates(text))
<1> DEFINE n == Cardinality(Gates(m))
           G == Indices(Gates(m))
           first == Cardinality(Inputs(m)) + Cardinality(Latches(m))
           deltas == AllDeltas(m)
           gates == ReadGates(text)
           X(k) == LitOf(Lit(first + k - 1, TRUE))
<1>1. /\ t = "aig" /\ Compact(m) /\ Encodable(m, "aig") /\ text.bytes = GateBytes(m)
      /\ text.type # "aag"
  BY DEF Types, Writable, Written
<1>2. /\ Field(text, 2) = Cardinality(Inputs(m)) /\ Field(text, 3) = Cardinality(Latches(m))
      /\ Field(text, 5) = n
  BY HeaderFields DEF Written
<1>3. /\ Uints(text.bytes) = deltas
      /\ \A k \in 1 .. n : /\ deltas[2 * k - 1] = Deltas(m, G[k])[1]
                           /\ deltas[2 * k] = Deltas(m, G[k])[2]
  BY <1>1, DeltasReadBack
<1>4. gates = [k \in 1 .. n |-> [var |-> Lit(first + k - 1, TRUE), a |-> X(k) - deltas[2 * k - 1],
                                 b |-> X(k) - deltas[2 * k - 1] - deltas[2 * k]]]
  BY <1>1, <1>2, <1>3 DEF ReadGates
<1>5. \A k \in 1 .. n : G[k] = first + k - 1
  BY <1>1, CompactPlaces
<1>6. Enumerates(Gates(m), G)
  BY FsmSizes DEF Gates
<1>7. \A g \in Gates(m) : DeltasOf(m, g, LitOf(Lit(g, TRUE)), AndInput(m.driver[g], m.driver[g].a),
                                   AndInput(m.driver[g], m.driver[g].b))
  BY <1>1, GateDeltas
<1> HIDE DEF G, first, deltas, gates, n
<1>8. ASSUME NEW k \in 1 .. n PROVE gates[k] = GateRead(t, m, G[k])
  <2> DEFINE g == G[k]
             x == LitOf(Lit(g, TRUE))
             a == AndInput(m.driver[g], m.driver[g].a)
             b == AndInput(m.driver[g], m.driver[g].b)
  <2>1. g \in Gates(m)
    BY <1>6 DEF Enumerates, n
  <2>2. gates[k] = [var |-> Lit(g, TRUE), a |-> x - deltas[2 * k - 1],
                    b |-> x - deltas[2 * k - 1] - deltas[2 * k]]
    BY <1>4, <1>5
  <2>3. GateRead(t, m, g) = [var |-> Lit(g, TRUE), a |-> b, b |-> a]
    BY <1>1 DEF GateRead, AndInput
  <2>4. DeltasOf(m, g, x, a, b)
    BY <1>7, <2>1
  <2>5. deltas[2 * k - 1] = Deltas(m, g)[1] /\ deltas[2 * k] = Deltas(m, g)[2]
    BY <1>3
  <2> HIDE DEF g, x, a, b
  <2>6. deltas[2 * k - 1] = x - b /\ deltas[2 * k] = b - a /\ x \in Nat /\ a \in Nat /\ b \in Nat
    BY <2>4, <2>5 DEF DeltasOf
  <2>7. \A i, j, h \in Nat : i - (i - j) = j /\ i - (i - j) - (j - h) = h
    OBVIOUS
  <2>8. x - deltas[2 * k - 1] = b /\ x - deltas[2 * k - 1] - deltas[2 * k] = a
    <3>1. x - (x - b) = b /\ x - (x - b) - (b - a) = a
      BY <2>6, <2>7
    <3> QED
      BY <2>6, <3>1, Zenon
  <2>9. gates[k] = GateRead(t, m, g)
    BY <2>2, <2>3, <2>8, Zenon
  <2> QED
    BY <2>9 DEF g
<1>9. \A g, h : GateRead(t, m, g) = GateRead(t, m, h) => g = h
  BY DEF GateRead, Lit
<1>10. DOMAIN gates = 1 .. n
  BY <1>4
<1>11. /\ \A k \in 1 .. n : G[k] \in Gates(m)
       /\ \A g \in Gates(m) : \E k \in 1 .. n : G[k] = g
       /\ \A j, k \in 1 .. n : G[j] = G[k] => j = k
  BY <1>6 DEF Enumerates, n
<1>12. /\ \A k \in 1 .. n : \E g \in Gates(m) : gates[k] = GateRead(t, m, g)
       /\ \A g \in Gates(m) : \E k \in 1 .. n : gates[k] = GateRead(t, m, g)
       /\ \A j, k \in 1 .. n : gates[j] = gates[k] => j = k
  BY <1>8, <1>9, <1>11
<1> QED
  BY <1>10, <1>12 DEF GatesListed, gates, n

LEMMA GatesRead ==
  ASSUME NEW m, WellFormed(m), NEW v \in Versions, NEW t \in Types, Writable(m, t, v),
         NEW text, Written(t, m, v, text)
  PROVE  GatesListed(t, m, ReadGates(text))
  BY AsciiGatesRead, BinaryGatesRead

--------------------------------------------------------------------------------
(* The drivers the reader builds.                                          *)
LEMMA LatchReadBack ==
  ASSUME NEW m, WellFormed(m), NEW v \in Versions, NEW t \in Types, Writable(m, t, v), NEW l \in Latches(m)
  PROVE  LET r == LatchRead(m, l)
         IN /\ r.var.index = l
            /\ LatchDriver(r.var.sign, ValueOf(r.input), ResetOf(r)) = m.driver[l]
            /\ ResetOf(r) = "X" => r.rest = <<LitOf(r.var)>>
<1> DEFINE d == m.driver[l]
           output == LitOf(Lit(l, d.sign))
           r == LatchRead(m, l)
<1>1. d \in LatchDrivers(m.size) /\ output \in Nat /\ output >= 2 /\ m.size \in Nat
  BY LatchLineParts, FsmSizes
<1>2. /\ d.sign \in BOOLEAN /\ d.input \in Values(m.size) /\ d.reset \in Ternary
      /\ d = [kind |-> "latch", sign |-> d.sign, input |-> d.input, reset |-> d.reset]
  BY <1>1 DEF LatchDrivers
<1>3. r.var = Lit(l, d.sign) /\ r.input = LitOf(d.input) /\ r.rest = LatchRest(d, output)
  BY DEF LatchRead
<1>4. ValueOf(r.input) = d.input
  BY <1>1, <1>2, <1>3, LiteralRoundTrip
<1> HIDE DEF r, output
<1>5. ResetOf(r) = d.reset /\ (d.reset = "X" => r.rest = <<output>>)
  <2>1. <<1>> # <<>> /\ <<1>> # <<0>> /\ <<output>> # <<>> /\ <<output>> # <<0>> /\ <<output>> # <<1>>
    BY <1>1
  <2> QED
    BY <1>2, <1>3, <2>1 DEF ResetOf, LatchRest, Ternary
<1> HIDE DEF d
<1>6. LatchDriver(r.var.sign, ValueOf(r.input), ResetOf(r)) = d
  BY <1>2, <1>3, <1>4, <1>5 DEF LatchDriver, Lit
<1>7. r.var.index = l /\ (ResetOf(r) = "X" => r.rest = <<LitOf(r.var)>>)
  BY <1>3, <1>5 DEF Lit, output
<1> QED
  BY <1>6, <1>7 DEF r, d

(* The order in which the operands are read does not matter.               *)
LEMMA GateDriverCommutes ==
  ASSUME NEW n \in Nat, NEW a \in Values(n), NEW b \in Values(n)
  PROVE  GateDriver(TRUE, "And", a, b) = GateDriver(TRUE, "And", b, a)
<1> DEFINE ab == [kind |-> "gate", sign |-> TRUE, type |-> "And", a |-> a, b |-> b]
           ba == [kind |-> "gate", sign |-> TRUE, type |-> "And", a |-> b, b |-> a]
<1>1. /\ a.index \in Int /\ a.sign \in BOOLEAN /\ a = [index |-> a.index, sign |-> a.sign]
      /\ b.index \in Int /\ b.sign \in BOOLEAN /\ b = [index |-> b.index, sign |-> b.sign]
  BY DEF Values, NoVar
<1>2. (Precedes(a, b) /\ Precedes(b, a) => a = b) /\ (Precedes(a, b) \/ Precedes(b, a))
  <2>1. \A x, y \in Int, p, q \in BOOLEAN :
          /\ (x < y \/ (x = y /\ (p \/ ~q))) /\ (y < x \/ (y = x /\ (q \/ ~p))) => x = y /\ p = q
          /\ (x < y \/ (x = y /\ (p \/ ~q))) \/ (y < x \/ (y = x /\ (q \/ ~p)))
    OBVIOUS
  <2>2. /\ Precedes(a, b) /\ Precedes(b, a) => a.index = b.index /\ a.sign = b.sign
        /\ Precedes(a, b) \/ Precedes(b, a)
    BY <1>1, <2>1 DEF Precedes
  <2> QED
    BY <1>1, <2>2
<1>3. ab.a = a /\ ab.b = b /\ ba.a = b /\ ba.b = a
  OBVIOUS
<1>4. CASE Precedes(a, b) /\ Precedes(b, a)
  BY <1>2, <1>4
<1>5. CASE Precedes(a, b) /\ ~Precedes(b, a)
  <2>1. GateDriver(TRUE, "And", a, b) = ab
    BY <1>3, <1>5 DEF GateDriver, SortInputs
  <2>2. GateDriver(TRUE, "And", b, a) = ab
    BY <1>3, <1>5 DEF GateDriver, SortInputs
  <2> QED
    BY <2>1, <2>2
<1>6. CASE ~Precedes(a, b) /\ Precedes(b, a)
  <2>1. GateDriver(TRUE, "And", b, a) = ba
    BY <1>3, <1>6 DEF GateDriver, SortInputs
  <2>2. GateDriver(TRUE, "And", a, b) = ba
    BY <1>3, <1>6 DEF GateDriver, SortInputs
  <2> QED
    BY <2>1, <2>2
<1> QED
  BY <1>2, <1>4, <1>5, <1>6

LEMMA GateReadBack ==
  ASSUME NEW m, WellFormed(m), NEW t \in Types, NEW g \in Gates(m)
  PROVE  LET r == GateRead(t, m, g)
         IN /\ r.var.index = g
            /\ GateDriver(r.var.sign, "And", ValueOf(r.a), ValueOf(r.b)) = AndForm(m.driver[g])
<1> DEFINE d == m.driver[g]
           a == Xor(d.a, ~d.sign)
           b == Xor(d.b, ~d.sign)
<1>1. a \in Values(m.size) /\ b \in Values(m.size) /\ m.size \in Nat /\ d.kind = "gate"
  BY GateLineNames, FsmSizes DEF GateDrivers
<1>2. ValueOf(LitOf(a)) = a /\ ValueOf(LitOf(b)) = b
  BY <1>1, LiteralRoundTrip
<1>3. /\ GateRead(t, m, g).var.index = g /\ GateRead(t, m, g).var.sign = TRUE
      /\ \/ GateRead(t, m, g).a = LitOf(a) /\ GateRead(t, m, g).b = LitOf(b)
         \/ GateRead(t, m, g).a = LitOf(b) /\ GateRead(t, m, g).b = LitOf(a)
  BY DEF GateRead, Lit
<1>4. AndForm(d) = GateDriver(TRUE, "And", a, b)
  BY <1>1 DEF AndForm
<1> HIDE DEF a, b
<1>5. GateDriver(TRUE, "And", a, b) = GateDriver(TRUE, "And", b, a)
  BY <1>1, GateDriverCommutes
<1> QED
  BY <1>2, <1>3, <1>4, <1>5

(* A list of entries: each variable of K once, with its driver.             *)
Entry(m, i) == [index |-> i, driver |-> AndForm(m.driver[i])]
Listing(m, K, s) ==
  /\ s \in Seq({Entry(m, i) : i \in VarsOf(m)})
  /\ \A k \in 1 .. Len(s) : \E i \in K : s[k] = Entry(m, i)
  /\ \A i \in K : \E k \in 1 .. Len(s) : s[k] = Entry(m, i)
  /\ \A j, k \in 1 .. Len(s) : s[j] = s[k] => j = k

LEMMA ListingsJoin ==
  ASSUME NEW m, NEW K, NEW M, K \cap M = {}, NEW s, NEW t, Listing(m, K, s), Listing(m, M, t)
  PROVE  Listing(m, K \cup M, s \o t)
<1> DEFINE E == {Entry(m, i) : i \in VarsOf(m)}
           u == s \o t
<1>1. s \in Seq(E) /\ t \in Seq(E)
  BY DEF Listing
<1> HIDE DEF E, u
<1>2. u \in Seq(E) /\ Joined(u, s, t) /\ Len(s) \in Nat /\ Len(t) \in Nat
  BY <1>1, ConcatJoins, LenProperties DEF u
<1>3. /\ Len(u) = Len(s) + Len(t)
      /\ \A k \in 1 .. Len(s) : k \in 1 .. Len(u) /\ u[k] = s[k]
      /\ \A k \in 1 .. Len(t) : Len(s) + k \in 1 .. Len(u) /\ u[Len(s) + k] = t[k]
  BY <1>2 DEF Joined
<1>4. \A k \in 1 .. Len(u) : k \in 1 .. Len(s) \/ \E n \in 1 .. Len(t) : k = Len(s) + n
  <2> TAKE k \in 1 .. Len(u)
  <2>1. k \in Nat /\ k <= Len(s) + Len(t)
    BY <1>2, <1>3
  <2>2. k > Len(s) => k - Len(s) \in 1 .. Len(t) /\ k = Len(s) + (k - Len(s))
    BY <1>2, <2>1
  <2> QED
    BY <1>2, <2>1, <2>2
<1>5. ASSUME NEW k \in 1 .. Len(u) PROVE \E i \in K \cup M : u[k] = Entry(m, i)
  <2>1. CASE k \in 1 .. Len(s)
    <3>1. PICK i \in K : s[k] = Entry(m, i)
      BY <2>1 DEF Listing
    <3> QED
      BY <1>3, <2>1, <3>1
  <2>2. CASE k \notin 1 .. Len(s)
    <3>1. PICK n \in 1 .. Len(t) : k = Len(s) + n
      BY <1>4, <2>2
    <3>2. PICK i \in M : t[n] = Entry(m, i)
      BY DEF Listing
    <3> QED
      BY <1>3, <3>1, <3>2
  <2> QED
    BY <2>1, <2>2
<1>6. ASSUME NEW i \in K \cup M PROVE \E k \in 1 .. Len(u) : u[k] = Entry(m, i)
  <2>1. CASE i \in K
    <3>1. PICK k \in 1 .. Len(s) : s[k] = Entry(m, i)
      BY <2>1 DEF Listing
    <3> QED
      BY <1>3, <3>1
  <2>2. CASE i \in M
    <3>1. PICK k \in 1 .. Len(t) : t[k] = Entry(m, i)
      BY <2>2 DEF Listing
    <3>2. Len(s) + k \in 1 .. Len(u) /\ u[Len(s) + k] = Entry(m, i)
      BY <1>3, <3>1
    <3> QED
      BY <3>2
  <2> QED
    BY <2>1, <2>2
<1>7. \A j \in 1 .. Len(s), k \in 1 .. Len(t) : s[j] # t[k]
  <2> TAKE j \in 1 .. Len(s), k \in 1 .. Len(t)
  <2>1. PICK i \in K : s[j] = Entry(m, i)
    BY DEF Listing
  <2>2. PICK h \in M : t[k] = Entry(m, h)
    BY DEF Listing
  <2>3. Entry(m, i).index = i /\ Entry(m, h).index = h
    BY DEF Entry
  <2> QED
    BY <2>1, <2>2, <2>3
<1>8. \A j, k \in 1 .. Len(u) : u[j] = u[k] => j = k
  <2> TAKE j \in 1 .. Len(u), k \in 1 .. Len(u)
  <2> HAVE u[j] = u[k]
  <2>1. CASE j \in 1 .. Len(s) /\ k \in 1 .. Len(s)
    BY <1>3, <2>1 DEF Listing
  <2>2. CASE j \in 1 .. Len(s) /\ k \notin 1 .. Len(s)
    BY <1>3, <1>4, <1>7, <2>2, SMTT(30)
  <2>3. CASE j \notin 1 .. Len(s) /\ k \in 1 .. Len(s)
    BY <1>3, <1>4, <1>7, <2>3
  <2>4. CASE j \notin 1 .. Len(s) /\ k \notin 1 .. Len(s)
    <3>1. PICK n \in 1 .. Len(t) : j = Len(s) + n
      BY <1>4, <2>4
    <3>2. PICK o \in 1 .. Len(t) : k = Len(s) + o
      BY <1>4, <2>4
    <3>3. t[n] = t[o]
      BY <1>3, <3>1, <3>2
    <3> QED
      BY <3>1, <3>2, <3>3 DEF Listing
  <2> QED
    BY <2>1, <2>2, <2>3, <2>4
<1> QED
  BY <1>2, <1>5, <1>6, <1>8 DEF Listing, E, u

(* Every driven variable of the FSM is an entry of the file, once, with its *)
(* driver.                                                                 *)
LEMMA EntriesComplete ==
  ASSUME NEW m, WellFormed(m), NEW v \in Versions, NEW t \in Types, Writable(m, t, v),
         NEW text, Written(t, m, v, text)
  PROVE  Listing(m, Driven(m), Entries(text))
<1> DEFINE E == {Entry(m, i) : i \in VarsOf(m)}
           ofInputs == [k \in DOMAIN InputVars(text) |->
                          [index |-> InputVars(text)[k].index, driver |-> InputDriver]]
           latches == ReadLatches(text)
           ofLatches == [k \in DOMAIN latches |->
                           [index |-> latches[k].var.index,
                            driver |-> LatchDriver(latches[k].var.sign, ValueOf(latches[k].input),
                                                   ResetOf(latches[k]))]]
           gates == ReadGates(text)
           ofGates == [k \in DOMAIN gates |->
                         [index |-> gates[k].var.index,
                          driver |-> GateDriver(gates[k].var.sign, "And", ValueOf(gates[k].a),
                                                ValueOf(gates[k].b))]]
           ni == Cardinality(Inputs(m))
           nl == Cardinality(Latches(m))
           ng == Cardinality(Gates(m))
<1>1. Entries(text) = (ofInputs \o ofLatches) \o ofGates
  BY DEF Entries, Each
<1>2. /\ ni \in Nat /\ nl \in Nat /\ ng \in Nat
      /\ Enumerates(Inputs(m), Indices(Inputs(m))) /\ Enumerates(Latches(m), Indices(Latches(m)))
  BY FsmSizes DEF Inputs, Latches, Gates
<1>3. /\ Inputs(m) \subseteq VarsOf(m) /\ Latches(m) \subseteq VarsOf(m) /\ Gates(m) \subseteq VarsOf(m)
      /\ \A i \in Inputs(m) : m.driver[i] = InputDriver
      /\ \A l \in Latches(m) : m.driver[l].kind = "latch"
  BY DriverShape DEF Inputs, Latches, Gates, Kind
<1>4. ASSUME NEW K \in SUBSET VarsOf(m), NEW n \in Nat, NEW s, DOMAIN s = 1 .. n,
             s = [k \in 1 .. n |-> s[k]],
             \A k \in 1 .. n : \E i \in K : s[k] = Entry(m, i),
             \A i \in K : \E k \in 1 .. n : s[k] = Entry(m, i),
             \A j, k \in 1 .. n : s[j] = s[k] => j = k
      PROVE  Listing(m, K, s)
  <2>1. s \in [1 .. n -> E]
    BY <1>4
  <2> HIDE DEF E
  <2>2. s \in Seq(E) /\ Len(s) = n
    BY <2>1, FunctionIsSeq
  <2> QED
    BY <1>4, <2>2 DEF Listing, E
<1>5. Listing(m, Inputs(m), ofInputs)
  <2> DEFINE I == Indices(Inputs(m))
  <2>1. \A k \in 1 .. ni : InputVars(text)[k].index = I[k]
    <3>1. \A k \in 1 .. ni : InputVars(text)[k] = Lit(I[k], TRUE)
      <4>1. InputVars(text) = [k \in 1 .. ni |-> Lit(I[k], TRUE)]
        BY InputsRead
      <4> QED
        BY <4>1
    <3>2. \A i : Lit(i, TRUE).index = i
      BY DEF Lit
    <3> QED
      BY <3>1, <3>2, Zenon
  <2>2. DOMAIN InputVars(text) = 1 .. ni
    BY InputsRead
  <2>3. \A k \in 1 .. ni : I[k] \in Inputs(m) /\ ofInputs[k] = Entry(m, I[k])
    <3>1. \A i \in Inputs(m) : Entry(m, i) = [index |-> i, driver |-> InputDriver]
      <4>1. AndForm(InputDriver) = InputDriver
        BY DEF AndForm, InputDriver
      <4> QED
        BY <1>3, <4>1 DEF Entry
    <3>2. \A k \in 1 .. ni : I[k] \in Inputs(m)
      BY <1>2 DEF Enumerates
    <3> HIDE DEF I
    <3> QED
      BY <2>1, <2>2, <3>1, <3>2
  <2>4. DOMAIN ofInputs = 1 .. ni /\ ofInputs = [k \in 1 .. ni |-> ofInputs[k]]
    BY <2>2
  <2> HIDE DEF ofInputs, I, ni
  <2>5. \A i, h \in Inputs(m) : Entry(m, i) = Entry(m, h) => i = h
    BY DEF Entry
  <2>6. /\ \A i \in Inputs(m) : \E k \in 1 .. ni : I[k] = i
        /\ \A j, k \in 1 .. ni : I[j] = I[k] => j = k
    BY <1>2 DEF Enumerates, I, ni
  <2>7. /\ \A k \in 1 .. ni : \E i \in Inputs(m) : ofInputs[k] = Entry(m, i)
        /\ \A i \in Inputs(m) : \E k \in 1 .. ni : ofInputs[k] = Entry(m, i)
        /\ \A j, k \in 1 .. ni : ofInputs[j] = ofInputs[k] => j = k
    BY <2>3, <2>5, <2>6
  <2> QED
    BY <1>2, <1>3, <1>4, <2>4, <2>7
<1>6. Listing(m, Latches(m), ofLatches)
  <2> DEFINE L == Indices(Latches(m))
  <2>1. DOMAIN latches = 1 .. nl /\ \A k \in 1 .. nl : latches[k] = LatchRead(m, L[k])
    <3>1. latches = [k \in 1 .. nl |-> LatchRead(m, L[k])]
      BY LatchesRead
    <3> HIDE DEF latches
    <3> QED
      BY <3>1
  <2>2. \A k \in 1 .. nl : L[k] \in Latches(m)
    BY <1>2 DEF Enumerates
  <2>3. DOMAIN ofLatches = 1 .. nl /\ ofLatches = [k \in 1 .. nl |-> ofLatches[k]]
    BY <2>1
  <2>4. \A l \in Latches(m) : Entry(m, l) = [index |-> l, driver |-> m.driver[l]]
    BY <1>3 DEF Entry, AndForm
  <2> HIDE DEF latches, L
  <2>5. ASSUME NEW k \in 1 .. nl PROVE ofLatches[k] = Entry(m, L[k])
    <3>1. /\ latches[k].var.index = L[k]
          /\ LatchDriver(latches[k].var.sign, ValueOf(latches[k].input), ResetOf(latches[k]))
               = m.driver[L[k]]
      BY <2>1, <2>2, LatchReadBack
    <3> QED
      BY <2>1, <2>2, <2>4, <3>1
  <2> HIDE DEF ofLatches, nl
  <2>6. \A i, h \in Latches(m) : Entry(m, i) = Entry(m, h) => i = h
    BY DEF Entry
  <2>7. /\ \A i \in Latches(m) : \E k \in 1 .. nl : L[k] = i
        /\ \A j, k \in 1 .. nl : L[j] = L[k] => j = k
    BY <1>2 DEF Enumerates, L, nl
  <2>8. /\ \A k \in 1 .. nl : \E i \in Latches(m) : ofLatches[k] = Entry(m, i)
        /\ \A i \in Latches(m) : \E k \in 1 .. nl : ofLatches[k] = Entry(m, i)
        /\ \A j, k \in 1 .. nl : ofLatches[j] = ofLatches[k] => j = k
    BY <2>2, <2>5, <2>6, <2>7
  <2> QED
    BY <1>2, <1>3, <1>4, <2>3, <2>8
<1>7. Listing(m, Gates(m), ofGates)
  <2>1. /\ DOMAIN gates = 1 .. ng
        /\ \A k \in 1 .. ng : \E g \in Gates(m) : gates[k] = GateRead(t, m, g)
        /\ \A g \in Gates(m) : \E k \in 1 .. ng : gates[k] = GateRead(t, m, g)
        /\ \A j, k \in 1 .. ng : gates[j] = gates[k] => j = k
    BY GatesRead DEF GatesListed
  <2>2. DOMAIN ofGates = 1 .. ng /\ ofGates = [k \in 1 .. ng |-> ofGates[k]]
    BY <2>1
  <2> HIDE DEF gates
  <2>3. ASSUME NEW k \in 1 .. ng, NEW g \in Gates(m), gates[k] = GateRead(t, m, g)
        PROVE  ofGates[k] = Entry(m, g)
    <3>1. /\ gates[k].var.index = g
          /\ GateDriver(gates[k].var.sign, "And", ValueOf(gates[k].a), ValueOf(gates[k].b))
               = AndForm(m.driver[g])
      BY <2>3, GateReadBack
    <3> QED
      BY <2>1, <3>1 DEF Entry
  <2> HIDE DEF ofGates, ng
  <2>4. \A i, h \in Gates(m) : Entry(m, i) = Entry(m, h) => i = h
    BY DEF Entry
  <2>5. /\ \A k \in 1 .. ng : \E i \in Gates(m) : ofGates[k] = Entry(m, i)
        /\ \A i \in Gates(m) : \E k \in 1 .. ng : ofGates[k] = Entry(m, i)
    BY <2>1, <2>3
  <2>6. \A j, k \in 1 .. ng : ofGates[j] = ofGates[k] => j = k
    <3> TAKE j \in 1 .. ng, k \in 1 .. ng
    <3> HAVE ofGates[j] = ofGates[k]
    <3>1. PICK g \in Gates(m) : gates[j] = GateRead(t, m, g)
      BY <2>1
    <3>2. PICK h \in Gates(m) : gates[k] = GateRead(t, m, h)
      BY <2>1
    <3>3. g = h
      BY <2>3, <2>4, <3>1, <3>2
    <3> QED
      BY <2>1, <3>1, <3>2, <3>3
  <2> QED
    BY <1>2, <1>3, <1>4, <2>2, <2>5, <2>6
<1>8. /\ Inputs(m) \cap Latches(m) = {} /\ (Inputs(m) \cup Latches(m)) \cap Gates(m) = {}
      /\ Driven(m) = (Inputs(m) \cup Latches(m)) \cup Gates(m)
  BY KindsOf
<1> HIDE DEF ofInputs, ofLatches, ofGates
<1>9. Listing(m, Inputs(m) \cup Latches(m), ofInputs \o ofLatches)
  BY <1>5, <1>6, <1>8, ListingsJoin
<1>10. Listing(m, (Inputs(m) \cup Latches(m)) \cup Gates(m), (ofInputs \o ofLatches) \o ofGates)
  BY <1>7, <1>8, <1>9, ListingsJoin
<1> QED
  BY <1>1, <1>8, <1>10

--------------------------------------------------------------------------------
(* The FSM that is read.                                                   *)
LabelRead(m, i) == IF i \in Inputs(m) \cup Latches(m) THEN m.label[i] ELSE NoLabel
ReadBack(m, n) ==
  /\ n = [size |-> m.size, driver |-> n.driver, label |-> n.label, refs |-> n.refs]
  /\ n.driver = [i \in VarsOf(m) |-> AndForm(m.driver[i])]
  /\ n.label = [i \in VarsOf(m) |-> LabelRead(m, i)]
  /\ DOMAIN n.refs = Lists /\ n.refs = [list \in Lists |-> n.refs[list]]
  /\ \A list \in {"outputs", "assumes", "covers"} : n.refs[list] = m.refs[list]
  /\ \/ n.refs["asserts"] = m.refs["asserts"]
     \/ /\ m.refs["asserts"] = <<>> /\ Len(m.refs["outputs"]) = 1
        /\ n.refs["asserts"] = <<Xor(m.refs["outputs"][1], TRUE)>>

(* A list of literals comes back as the list of values.                     *)
LEMMA ListReadBack ==
  ASSUME NEW n \in Nat, NEW s \in Seq(Values(n)), NEW lines, DOMAIN lines = 1 .. Len(s),
         NEW b \in BOOLEAN, \A k \in 1 .. Len(s) : lines[k] = <<LitOf(Xor(s[k], b))>>
  PROVE  [k \in DOMAIN lines |-> Xor(ValueOf(lines[k][1]), b)] = s
<1>1. Len(s) \in Nat /\ s \in [1 .. Len(s) -> Values(n)]
  BY LenProperties
<1>2. ASSUME NEW k \in 1 .. Len(s) PROVE Xor(ValueOf(lines[k][1]), b) = s[k]
  <2>1. s[k] \in Values(n)
    BY <1>1
  <2>2. Xor(s[k], b) \in Values(n) /\ Xor(Xor(s[k], b), b) = s[k]
    BY <2>1 DEF Values, Xor
  <2>3. ValueOf(LitOf(Xor(s[k], b))) = Xor(s[k], b)
    BY <2>2, LiteralRoundTrip
  <2>4. \A x : <<x>>[1] = x
    OBVIOUS
  <2>5. lines[k][1] = LitOf(Xor(s[k], b))
    BY <2>4, Zenon
  <2> QED
    BY <2>2, <2>3, <2>5, Zenon
<1> QED
  BY <1>1, <1>2

LEMMA XorFalse ==
  ASSUME NEW n \in Nat, NEW w \in Values(n)
  PROVE  Xor(w, FALSE) = w
  BY DEF Values, Xor

LEMMA ListsRead ==
  ASSUME NEW m, WellFormed(m), NEW v \in Versions, NEW t \in Types, Writable(m, t, v),
         NEW text, Written(t, m, v, text)
  PROVE  LET OfLine(line) == ValueOf(line[1])
         IN /\ Each(Section(text, "outputs", Field(text, 4)), OfLine) = m.refs["outputs"]
            /\ Each(Section(text, "assumes", Field(text, 7)), OfLine) = m.refs["assumes"]
            /\ \/ ReadAsserts(text) = m.refs["asserts"]
               \/ /\ m.refs["asserts"] = <<>> /\ Len(m.refs["outputs"]) = 1
                  /\ ReadAsserts(text) = <<Xor(m.refs["outputs"][1], TRUE)>>
<1>1. /\ Field(text, 4) = Len(m.refs["outputs"]) /\ Field(text, 6) = Len(m.refs["asserts"])
      /\ Field(text, 7) = Len(m.refs["assumes"])
      /\ VersionOf(text) = "1.0" => m.refs["asserts"] = <<>>
  BY HeaderFields DEF Written
<1>2. /\ m.size \in Nat
      /\ m.refs["outputs"] \in Seq(Values(m.size)) /\ Len(m.refs["outputs"]) \in Nat
      /\ m.refs["asserts"] \in Seq(Values(m.size)) /\ Len(m.refs["asserts"]) \in Nat
      /\ m.refs["assumes"] \in Seq(Values(m.size)) /\ Len(m.refs["assumes"]) \in Nat
  BY FsmSizes DEF Lists
<1> DEFINE O == Section(text, "outputs", Field(text, 4))
           B == Section(text, "asserts", Field(text, 6))
           C == Section(text, "assumes", Field(text, 7))
<1>3. /\ DOMAIN O = 1 .. Len(m.refs["outputs"]) /\ DOMAIN B = 1 .. Len(m.refs["asserts"])
      /\ DOMAIN C = 1 .. Len(m.refs["assumes"])
  BY <1>1 DEF Section
<1>4. /\ \A k \in 1 .. Len(m.refs["outputs"]) : O[k] = <<LitOf(m.refs["outputs"][k])>>
      /\ \A k \in 1 .. Len(m.refs["asserts"]) : B[k] = <<LitOf(Xor(m.refs["asserts"][k], TRUE))>>
      /\ \A k \in 1 .. Len(m.refs["assumes"]) : C[k] = <<LitOf(m.refs["assumes"][k])>>
  <2>1. Laid(t, m, v, text.lines)
    BY DEF Written
  <2>2. /\ \A k \in 1 .. Len(m.refs["outputs"]) : O[k] = text.lines[OutputsFrom(t, m) + k]
        /\ \A k \in 1 .. Len(m.refs["asserts"]) : B[k] = text.lines[AssertsFrom(t, m) + k]
        /\ \A k \in 1 .. Len(m.refs["assumes"]) : C[k] = text.lines[AssumesFrom(t, m) + k]
    BY <1>1, SectionStarts DEF Section
  <2> HIDE DEF O, B, C
  <2> QED
    BY <2>1, <2>2, Zenon DEF Laid
<1> HIDE DEF O, B, C
<1>5. ASSUME NEW s \in Seq(Values(m.size)), NEW lines, DOMAIN lines = 1 .. Len(s),
             \A k \in 1 .. Len(s) : lines[k] = <<LitOf(s[k])>>
      PROVE  [k \in DOMAIN lines |-> ValueOf(lines[k][1])] = s
  <2>1. \A k \in 1 .. Len(s) : s[k] \in Values(m.size)
    BY ElementOfSeq
  <2>2. ASSUME NEW k \in 1 .. Len(s)
        PROVE  /\ lines[k] = <<LitOf(Xor(s[k], FALSE))>>
               /\ Xor(ValueOf(lines[k][1]), FALSE) = ValueOf(lines[k][1])
    <3>1. Xor(s[k], FALSE) = s[k] /\ ValueOf(LitOf(s[k])) = s[k]
      BY <1>2, <2>1, XorFalse, LiteralRoundTrip
    <3>2. lines[k][1] = LitOf(s[k])
      <4>1. \A x : <<x>>[1] = x
        OBVIOUS
      <4> QED
        BY <1>5, <4>1, Zenon
    <3> QED
      BY <1>5, <3>1, <3>2
  <2>3. [k \in DOMAIN lines |-> Xor(ValueOf(lines[k][1]), FALSE)] = s
    BY <1>2, <1>5, <2>2, ListReadBack
  <2> QED
    BY <1>5, <2>2, <2>3
<1>6. /\ [k \in DOMAIN O |-> ValueOf(O[k][1])] = m.refs["outputs"]
      /\ [k \in DOMAIN C |-> ValueOf(C[k][1])] = m.refs["assumes"]
  BY <1>2, <1>3, <1>4, <1>5
<1>7. [k \in DOMAIN B |-> Xor(ValueOf(B[k][1]), TRUE)] = m.refs["asserts"]
  BY <1>2, <1>3, <1>4, ListReadBack
<1>8. CASE VersionOf(text) = "1.0" /\ Field(text, 4) = 1 /\ Field(text, 6) = 0
  <2>1. ReadAsserts(text) = <<Xor(ValueOf(O[1][1]), TRUE)>>
    BY <1>8 DEF ReadAsserts, O
  <2>2. ValueOf(O[1][1]) = m.refs["outputs"][1]
    BY <1>1, <1>3, <1>6, <1>8
  <2> QED
    BY <1>1, <1>6, <1>8, <2>1, <2>2 DEF Each, O, C
<1>9. CASE ~(VersionOf(text) = "1.0" /\ Field(text, 4) = 1 /\ Field(text, 6) = 0)
  <2>1. ReadAsserts(text) = m.refs["asserts"]
    BY <1>7, <1>9 DEF ReadAsserts, Each, B
  <2> QED
    BY <1>6, <2>1 DEF Each, O, C
<1> QED
  BY <1>8, <1>9

(* The symbols of a file name inputs and latches by their rank.             *)
LEMMA LabelsRead ==
  ASSUME NEW m, WellFormed(m), NEW text, text.symbols = Symbols(m), NEW n, n.size = m.size,
         \A kind \in {"input", "latch"} : Kind(n, kind) = Kind(m, kind)
  PROVE  LabelsOf(text, n) = [i \in VarsOf(m) |-> LabelRead(m, i)]
<1> DEFINE At(kind) == Indices(Kind(m, kind))
           here(i) == {s \in text.symbols : Indices(Kind(n, s.kind))[s.index] = i}
<1>1. \A s : s \in text.symbols <=>
        \E kind \in {"input", "latch"} : \E k \in 1 .. Cardinality(Kind(m, kind)) :
          /\ m.label[At(kind)[k]] # NoLabel
          /\ s = [kind |-> kind, index |-> k, label |-> m.label[At(kind)[k]]]
  <2>1. \A kind : DOMAIN At(kind) = 1 .. Cardinality(Kind(m, kind))
    BY DEF Indices
  <2> DEFINE Sym(kind) == {[kind |-> kind, index |-> k, label |-> m.label[At(kind)[k]]] :
                             k \in {k \in DOMAIN At(kind) : m.label[At(kind)[k]] # NoLabel}}
  <2>2. text.symbols = UNION {Sym(kind) : kind \in {"input", "latch"}}
    BY DEF Symbols
  <2>3. \A s, kind : s \in Sym(kind) <=>
          \E k \in 1 .. Cardinality(Kind(m, kind)) :
            /\ m.label[At(kind)[k]] # NoLabel
            /\ s = [kind |-> kind, index |-> k, label |-> m.label[At(kind)[k]]]
    BY <2>1
  <2> HIDE DEF Sym
  <2> QED
    BY <2>2, <2>3
<1>2. Inputs(m) = Kind(m, "input") /\ Latches(m) = Kind(m, "latch")
  BY DEF Inputs, Latches
<1>3. \A kind \in {"input", "latch"} :
        Enumerates(Kind(m, kind), At(kind)) /\ Kind(m, kind) \subseteq VarsOf(m)
  <2>1. \A kind : Kind(m, kind) \subseteq VarsOf(m)
    BY DEF Kind
  <2>2. Enumerates(Kind(m, "input"), At("input")) /\ Enumerates(Kind(m, "latch"), At("latch"))
    BY <1>2, FsmSizes
  <2> QED
    BY <2>1, <2>2
<1>4. ASSUME NEW i, NEW s \in here(i)
      PROVE  i \in Inputs(m) \cup Latches(m) /\ s.label = m.label[i] /\ m.label[i] # NoLabel
  <2>0. PICK kind \in {"input", "latch"} : \E k \in 1 .. Cardinality(Kind(m, kind)) :
          /\ m.label[At(kind)[k]] # NoLabel
          /\ s = [kind |-> kind, index |-> k, label |-> m.label[At(kind)[k]]]
    BY <1>1
  <2>1. PICK k \in 1 .. Cardinality(Kind(m, kind)) :
          /\ m.label[At(kind)[k]] # NoLabel
          /\ s = [kind |-> kind, index |-> k, label |-> m.label[At(kind)[k]]]
    BY <2>0
  <2>2. Indices(Kind(n, s.kind))[s.index] = i /\ Kind(n, s.kind) = Kind(m, kind) /\ s.index = k
    BY <1>4, <2>1
  <2>3. At(kind)[k] = i
    BY <2>2
  <2>4. At(kind)[k] \in Kind(m, kind)
    BY <1>3 DEF Enumerates
  <2> QED
    BY <1>2, <2>1, <2>3, <2>4
<1>5. ASSUME NEW i \in Inputs(m) \cup Latches(m), m.label[i] # NoLabel
      PROVE  here(i) # {}
  <2>1. PICK kind \in {"input", "latch"} : i \in Kind(m, kind)
    BY <1>2
  <2>2. PICK k \in 1 .. Cardinality(Kind(m, kind)) : At(kind)[k] = i
    BY <1>3, <2>1 DEF Enumerates
  <2> DEFINE s == [kind |-> kind, index |-> k, label |-> m.label[At(kind)[k]]]
  <2>3. s \in text.symbols
    BY <1>1, <1>5, <2>2
  <2>4. Indices(Kind(n, s.kind))[s.index] = i
    BY <2>2
  <2> QED
    BY <2>3, <2>4
<1>6. LabelsOf(text, n) = [i \in VarsOf(n) |-> IF here(i) = {} THEN NoLabel
                                            ELSE (CHOOSE s \in here(i) : TRUE).label]
  BY DEF LabelsOf
<1>7. VarsOf(n) = VarsOf(m)
  BY DEF VarsOf
<1> HIDE DEF here
<1>8. ASSUME NEW i \in VarsOf(m)
      PROVE  (IF here(i) = {} THEN NoLabel ELSE (CHOOSE s \in here(i) : TRUE).label) = LabelRead(m, i)
  <2>1. CASE here(i) = {}
    BY <1>5, <2>1 DEF LabelRead
  <2>2. CASE here(i) # {}
    <3>1. (CHOOSE s \in here(i) : TRUE) \in here(i)
      BY <2>2
    <3> QED
      BY <1>4, <2>2, <3>1 DEF LabelRead
  <2> QED
    BY <2>1, <2>2
<1> QED
  BY <1>6, <1>7, <1>8

(* Writing a gate as an AND leaves it a gate.                              *)
LEMMA AndFormKind ==
  ASSUME NEW d
  PROVE  AndForm(d).kind = d.kind
<1>1. CASE d.kind = "gate"
  BY <1>1 DEF AndForm, GateDriver, SortInputs
<1>2. CASE d.kind # "gate"
  BY <1>2 DEF AndForm
<1> QED
  BY <1>1, <1>2

LEMMA MachineRead ==
  ASSUME NEW m, WellFormed(m), NEW v \in Versions, NEW t \in Types, Writable(m, t, v),
         NEW text, Written(t, m, v, text)
  PROVE  ReadBack(m, MachineIn(text))
<1> DEFINE OfLine(line) == ValueOf(line[1])
           entries == Entries(text)
           size == Ext!Max({Field(text, 1)} \cup
                           {ReadLatches(text)[k].var.index + 1 : k \in 1 .. Field(text, 3)})
           At(i) == {k \in DOMAIN entries : entries[k].index = i}
           driver == [i \in 0 .. size - 1 |-> IF At(i) = {} THEN NoDriver
                                             ELSE entries[CHOOSE k \in At(i) : TRUE].driver]
           refs == [list \in Lists |->
                      CASE list = "outputs" -> Each(Section(text, "outputs", Field(text, 4)), OfLine)
                        [] list = "asserts" -> ReadAsserts(text)
                        [] list = "assumes" -> Each(Section(text, "assumes", Field(text, 7)), OfLine)
                        [] OTHER -> <<>>]
           n == [size |-> size, driver |-> driver, refs |-> refs]
<1>1. MachineIn(text) = [size |-> size, driver |-> driver, label |-> LabelsOf(text, n), refs |-> refs]
  BY DEF MachineIn
<1>2. size = m.size
  <2>1. Field(text, 1) = m.size /\ Field(text, 3) = Cardinality(Latches(m))
    BY HeaderFields DEF Written
  <2>2. m.size \in Nat
    BY FsmSizes
  <2>3. ASSUME NEW k \in 1 .. Field(text, 3)
        PROVE  ReadLatches(text)[k].var.index + 1 \in 0 .. m.size
    <3>1. Indices(Latches(m))[k] \in 0 .. m.size - 1
      BY <2>1, FsmSizes DEF Latches, Enumerates
    <3>2. ReadLatches(text)[k].var.index = Indices(Latches(m))[k]
      <4>1. ReadLatches(text)[k] = LatchRead(m, Indices(Latches(m))[k])
        <5>1. ReadLatches(text) = [j \in 1 .. Cardinality(Latches(m)) |-> LatchRead(m, Indices(Latches(m))[j])]
          BY LatchesRead
        <5> QED
          BY <2>1, <5>1
      <4>2. \A l : LatchRead(m, l).var.index = l
        BY DEF LatchRead, Lit
      <4> QED
        BY <4>1, <4>2
    <3> QED
      BY <2>2, <3>1, <3>2
  <2> DEFINE S == {Field(text, 1)} \cup
                  {ReadLatches(text)[k].var.index + 1 : k \in 1 .. Field(text, 3)}
  <2>4. m.size \in S /\ \A x \in S : x \in Int /\ x <= m.size
    BY <2>1, <2>2, <2>3
  <2>5. size = CHOOSE x \in S : \A y \in S : x >= y
    BY DEF Ext!Max
  <2> HIDE DEF S, size
  <2> QED
    BY <2>2, <2>4, <2>5
<1>3. driver = [i \in VarsOf(m) |-> AndForm(m.driver[i])]
  <2>1. Listing(m, Driven(m), entries)
    BY EntriesComplete
  <2>2. DOMAIN entries = 1 .. Len(entries)
    BY <2>1, LenProperties DEF Listing
  <2>3. \A i : Entry(m, i).index = i /\ Entry(m, i).driver = AndForm(m.driver[i])
    BY DEF Entry
  <2> HIDE DEF entries
  <2>4. ASSUME NEW i \in VarsOf(m)
        PROVE  (IF At(i) = {} THEN NoDriver ELSE entries[CHOOSE k \in At(i) : TRUE].driver)
                 = AndForm(m.driver[i])
    <3>1. CASE At(i) = {}
      <4>1. i \notin Driven(m)
        BY <2>1, <2>2, <2>3, <3>1 DEF Listing
      <4>2. m.driver[i] \in Drivers(m.size) /\ m.driver[i].kind = "none"
        BY <4>1, DriverShape DEF Driven, Kind
      <4>3. m.driver[i] = NoDriver
        BY <4>2 DEF Drivers, NoDriver, InputDriver, LatchDrivers, GateDrivers
      <4>4. AndForm(NoDriver) = NoDriver
        BY DEF AndForm, NoDriver
      <4> QED
        BY <3>1, <4>3, <4>4
    <3>2. CASE At(i) # {}
      <4> DEFINE k == CHOOSE k \in At(i) : TRUE
      <4>1. k \in At(i)
        BY <3>2
      <4> HIDE DEF k
      <4>2. k \in 1 .. Len(entries) /\ entries[k].index = i
        BY <2>2, <4>1
      <4>3. PICK h \in Driven(m) : entries[k] = Entry(m, h)
        BY <2>1, <4>2 DEF Listing
      <4>4. entries[k].driver = AndForm(m.driver[i])
        BY <2>3, <4>2, <4>3
      <4> QED
        BY <3>2, <4>4 DEF k
    <3> QED
      BY <3>1, <3>2
  <2> HIDE DEF At, size
  <2> QED
    BY <1>2, <2>4 DEF VarsOf
<1>4. LabelsOf(text, n) = [i \in VarsOf(m) |-> LabelRead(m, i)]
  <2>1. n.size = m.size
    BY <1>2
  <2>2. n.driver = [i \in VarsOf(m) |-> AndForm(m.driver[i])]
    BY <1>3
  <2> HIDE DEF n
  <2>3. \A kind : Kind(n, kind) = Kind(m, kind)
    BY <2>1, <2>2, AndFormKind DEF Kind, VarsOf
  <2> QED
    BY <2>1, <2>3, LabelsRead DEF Written
<1>5. /\ refs["outputs"] = m.refs["outputs"] /\ refs["assumes"] = m.refs["assumes"]
      /\ \/ refs["asserts"] = m.refs["asserts"]
         \/ /\ m.refs["asserts"] = <<>> /\ Len(m.refs["outputs"]) = 1
            /\ refs["asserts"] = <<Xor(m.refs["outputs"][1], TRUE)>>
      /\ refs["covers"] = m.refs["covers"]
  <2>1. refs["covers"] = <<>> /\ m.refs["covers"] = <<>>
    BY DEF Writable, Lists
  <2>2. /\ refs["outputs"] = Each(Section(text, "outputs", Field(text, 4)), OfLine)
        /\ refs["assumes"] = Each(Section(text, "assumes", Field(text, 7)), OfLine)
        /\ refs["asserts"] = ReadAsserts(text)
    BY DEF Lists
  <2> QED
    <3>1. /\ Each(Section(text, "outputs", Field(text, 4)), OfLine) = m.refs["outputs"]
          /\ Each(Section(text, "assumes", Field(text, 7)), OfLine) = m.refs["assumes"]
          /\ \/ ReadAsserts(text) = m.refs["asserts"]
             \/ /\ m.refs["asserts"] = <<>> /\ Len(m.refs["outputs"]) = 1
                /\ ReadAsserts(text) = <<Xor(m.refs["outputs"][1], TRUE)>>
      BY ListsRead
    <3> HIDE DEF refs
    <3> QED
      BY <2>1, <2>2, <3>1, Zenon
<1>6. DOMAIN refs = Lists /\ refs = [list \in Lists |-> refs[list]]
  OBVIOUS
<1> HIDE DEF size, driver, refs, n
<1> DEFINE r == MachineIn(text)
<1>7. /\ r = [size |-> m.size, driver |-> r.driver, label |-> r.label, refs |-> r.refs]
      /\ r.driver = driver /\ r.label = LabelsOf(text, n) /\ r.refs = refs
  BY <1>1, <1>2
<1> HIDE DEF r
<1>8. ReadBack(m, r)
  BY <1>3, <1>4, <1>5, <1>6, <1>7, Zenon DEF ReadBack
<1> QED
  BY <1>8 DEF r

--------------------------------------------------------------------------------
(* What is read is well-formed, driven and ordered where the FSM is.       *)
LEMMA ReadBackGate ==
  ASSUME NEW m, WellFormed(m), NEW g \in Gates(m)
  PROVE  LET d == m.driver[g]
             e == AndForm(d)
         IN /\ d \in GateDrivers(m.size) /\ e \in GateDrivers(m.size)
            /\ Precedes(e.a, e.b)
            /\ \A w \in GateInputs(e) : \E u \in GateInputs(d) : w.index = u.index
<1> DEFINE d == m.driver[g]
           a == Xor(d.a, ~d.sign)
           b == Xor(d.b, ~d.sign)
           e == GateDriver(TRUE, "And", a, b)
<1>1. /\ d \in GateDrivers(m.size) /\ a \in Values(m.size) /\ b \in Values(m.size) /\ m.size \in Nat
  BY GateLineNames, FsmSizes
<1>2. AndForm(d) = e
  BY <1>1 DEF AndForm, GateDrivers
<1>3. a.index = d.a.index /\ b.index = d.b.index
  BY <1>1 DEF Xor, GateDrivers, Values
<1> HIDE DEF a, b
<1>4. /\ e \in GateDrivers(m.size) /\ Precedes(e.a, e.b) /\ GateInputs(e) = {a, b}
  BY <1>1, GateDriverSorts
<1> HIDE DEF e
<1>5. \A w \in GateInputs(e) : \E u \in GateInputs(d) : w.index = u.index
  BY <1>3, <1>4 DEF GateInputs
<1> QED
  BY <1>1, <1>2, <1>4, <1>5

LEMMA ReadBackKinds ==
  ASSUME NEW m, NEW n, ReadBack(m, n)
  PROVE  /\ n.size = m.size /\ VarsOf(n) = VarsOf(m) /\ \A kind : Kind(n, kind) = Kind(m, kind)
         /\ Driven(n) = Driven(m) /\ Gates(n) = Gates(m) /\ Latches(n) = Latches(m)
         /\ \A i \in VarsOf(m) : n.driver[i] = AndForm(m.driver[i])
         /\ \A w : IsDriven(n, w) <=> IsDriven(m, w)
<1>1. n.size = m.size /\ \A i \in VarsOf(m) : n.driver[i] = AndForm(m.driver[i])
  BY DEF ReadBack
<1>2. VarsOf(n) = VarsOf(m) /\ \A kind : Kind(n, kind) = Kind(m, kind)
  BY <1>1, AndFormKind DEF Kind, VarsOf
<1> QED
  BY <1>1, <1>2 DEF Driven, Gates, Latches, IsDriven

LEMMA ReadBackFits ==
  ASSUME NEW m, WellFormed(m), FullyDriven(m), NEW n, ReadBack(m, n)
  PROVE  WellFormed(n) /\ FullyDriven(n) /\ (OrderedGates(m) => OrderedGates(n))
<1>1. /\ n.size = m.size /\ VarsOf(n) = VarsOf(m)
      /\ Gates(n) = Gates(m) /\ Latches(n) = Latches(m)
      /\ \A i \in VarsOf(m) : n.driver[i] = AndForm(m.driver[i])
      /\ \A w : IsDriven(n, w) <=> IsDriven(m, w)
  BY ReadBackKinds
<1>2. /\ m.size \in Nat /\ VarsOf(m) = 0 .. m.size - 1
      /\ m.driver \in [VarsOf(m) -> Drivers(m.size)] /\ m.label \in [VarsOf(m) -> Nat]
      /\ m.refs \in [Lists -> Seq(Values(m.size))]
  BY DEF WellFormed, Machine, VarsOf
<1>3. \A i \in VarsOf(m) : i \notin Gates(m) => AndForm(m.driver[i]) = m.driver[i]
  BY DEF Gates, Kind, AndForm
<1>4. \A g \in Gates(m) : AndForm(m.driver[g]) \in GateDrivers(m.size)
  BY ReadBackGate
<1>5. n.driver \in [VarsOf(m) -> Drivers(m.size)]
  <2>1. \A i \in VarsOf(m) : AndForm(m.driver[i]) \in Drivers(m.size)
    BY <1>2, <1>3, <1>4 DEF Drivers
  <2> QED
    BY <2>1 DEF ReadBack
<1>6. n.label \in [VarsOf(m) -> Nat]
  <2>1. \A i \in VarsOf(m) : LabelRead(m, i) \in Nat
    BY <1>2 DEF LabelRead, NoLabel
  <2> QED
    BY <2>1 DEF ReadBack
<1>7. ASSUME NEW list \in Lists
      PROVE  /\ n.refs[list] \in Seq(Values(m.size))
             /\ \A k \in DOMAIN n.refs[list] : IsDriven(m, n.refs[list][k])
  <2>1. \A l \in Lists : /\ m.refs[l] \in Seq(Values(m.size))
                         /\ \A k \in DOMAIN m.refs[l] : IsDriven(m, m.refs[l][k])
    BY <1>2 DEF FullyDriven
  <2>2. CASE n.refs[list] = m.refs[list]
    BY <2>1, <2>2
  <2>3. CASE n.refs[list] # m.refs[list]
    <3> DEFINE out == m.refs["outputs"][1]
    <3>1. /\ list = "asserts" /\ Len(m.refs["outputs"]) = 1
          /\ n.refs[list] = <<Xor(out, TRUE)>>
      BY <2>3 DEF ReadBack, Lists
    <3>2. m.refs["outputs"] \in Seq(Values(m.size)) /\ 1 \in DOMAIN m.refs["outputs"]
      BY <2>1, <3>1, LenProperties DEF Lists
    <3>3. out \in Values(m.size) /\ IsDriven(m, out)
      BY <2>1, <3>1, <3>2, ElementOfSeq DEF Lists
    <3>4. Xor(out, TRUE) \in Values(m.size) /\ IsDriven(m, Xor(out, TRUE))
      BY <3>3 DEF Values, Xor, IsDriven
    <3> HIDE DEF out
    <3>5. \A w \in Values(m.size) : <<w>> \in Seq(Values(m.size)) /\ DOMAIN <<w>> = {1} /\ <<w>>[1] = w
      OBVIOUS
    <3> QED
      BY <3>1, <3>4, <3>5
  <2> QED
    BY <2>2, <2>3
<1>8. n.refs \in [Lists -> Seq(Values(m.size))]
  BY <1>7 DEF ReadBack
<1>9. WellFormed(n)
  <2>1. n = [size |-> m.size, driver |-> n.driver, label |-> n.label, refs |-> n.refs]
    BY DEF ReadBack
  <2>2. n \in Machine(m.size)
    BY <1>2, <1>5, <1>6, <1>8, <2>1 DEF Machine
  <2> QED
    BY <1>1, <1>2, <2>2 DEF WellFormed
<1>10. FullyDriven(n)
  <2>1. ASSUME NEW g \in Gates(n)
        PROVE  /\ \A w \in GateInputs(n.driver[g]) : IsDriven(n, w)
               /\ Precedes(n.driver[g].a, n.driver[g].b)
    <3>1. g \in Gates(m) /\ n.driver[g] = AndForm(m.driver[g])
      BY <1>1 DEF Gates, Kind
    <3>2. /\ Precedes(n.driver[g].a, n.driver[g].b)
          /\ \A w \in GateInputs(n.driver[g]) : \E u \in GateInputs(m.driver[g]) : w.index = u.index
      BY <3>1, ReadBackGate
    <3>3. \A u \in GateInputs(m.driver[g]) : IsDriven(m, u)
      BY <3>1 DEF FullyDriven
    <3> QED
      BY <1>1, <3>2, <3>3 DEF IsDriven
  <2>2. ASSUME NEW l \in Latches(n) PROVE IsDriven(n, n.driver[l].input)
    <3>1. l \in Latches(m) /\ n.driver[l] = m.driver[l]
      BY <1>1, <1>3, KindsOf
    <3> QED
      BY <1>1, <3>1 DEF FullyDriven
  <2> QED
    BY <1>1, <1>7, <2>1, <2>2 DEF FullyDriven
<1>11. ASSUME OrderedGates(m) PROVE OrderedGates(n)
  <2> SUFFICES ASSUME NEW g \in Gates(m), NEW w \in GateInputs(n.driver[g]) PROVE w.index < g
    BY <1>1 DEF OrderedGates
  <2>1. n.driver[g] = AndForm(m.driver[g])
    BY <1>1 DEF Gates, Kind
  <2>2. PICK u \in GateInputs(m.driver[g]) : w.index = u.index
    BY <2>1, ReadBackGate
  <2> QED
    BY <1>11, <2>2 DEF OrderedGates
<1> QED
  BY <1>9, <1>10, <1>11

(* The file of an ordered FSM is readable, a binary one when no variable is  *)
(* undriven.                                                               *)
LEMMA WrittenReadable ==
  ASSUME NEW m, WellFormed(m), FullyDriven(m), OrderedGates(m),
         NEW v \in Versions, NEW t \in Types, Writable(m, t, v), NEW text, Written(t, m, v, text),
         t = "aig" => Driven(m) = VarsOf(m)
  PROVE  Readable(text)
<1>1. ReadBack(m, MachineIn(text))
  BY MachineRead
<1>2. Verify(MachineIn(text)) /\ VarsOf(MachineIn(text)) = VarsOf(m)
  BY <1>1, ReadBackFits, ReadBackKinds DEF Verify
<1>3. /\ text.type = t /\ Field(text, 8) = 0 /\ Field(text, 9) = 0
      /\ Field(text, 1) = m.size /\ Field(text, 2) = Cardinality(Inputs(m))
      /\ Field(text, 3) = Cardinality(Latches(m)) /\ Field(text, 5) = Cardinality(Gates(m))
  BY HeaderFields DEF Written
<1>4. ASSUME t = "aig" PROVE Field(text, 1) = Field(text, 2) + Field(text, 3) + Field(text, 5)
  <2>1. Cardinality(VarsOf(m)) = Cardinality(Inputs(m)) + Cardinality(Latches(m)) + Cardinality(Gates(m))
    BY <1>4, CompactPlaces DEF Writable
  <2>2. Cardinality(VarsOf(m)) = m.size
    <3>1. m.size \in Nat /\ VarsOf(m) = 0 .. m.size - 1
      BY FsmSizes DEF VarsOf
    <3> DEFINE last == m.size - 1
    <3>2. Cardinality(0 .. last) = IF 0 > last THEN 0 ELSE last - 0 + 1
      <4>1. last \in Int /\ 0 \in Int
        BY <3>1
      <4> HIDE DEF last
      <4> QED
        BY <4>1, FS_Interval
    <3> QED
      BY <3>1, <3>2
  <2> QED
    BY <1>3, <2>1, <2>2
<1>5. ASSUME NEW k \in DOMAIN ReadLatches(text)
      PROVE  LET latch == ReadLatches(text)[k]
             IN ResetOf(latch) = "X" => latch.rest = <<LitOf(latch.var)>>
  <2>1. /\ k \in 1 .. Cardinality(Latches(m))
        /\ ReadLatches(text)[k] = LatchRead(m, Indices(Latches(m))[k])
    <3>1. ReadLatches(text) = [j \in 1 .. Cardinality(Latches(m)) |-> LatchRead(m, Indices(Latches(m))[j])]
      BY LatchesRead
    <3> QED
      BY <3>1
  <2>2. Indices(Latches(m))[k] \in Latches(m)
    BY <2>1, FsmSizes DEF Latches, Enumerates
  <2> QED
    BY <2>1, <2>2, LatchReadBack
<1>6. ASSUME NEW k \in DOMAIN Entries(text)
      PROVE  /\ Entries(text)[k].index \in VarsOf(m)
             /\ \A j \in DOMAIN Entries(text) :
                   Entries(text)[j].index = Entries(text)[k].index => j = k
  <2> DEFINE e == Entries(text)
  <2>1. Listing(m, Driven(m), e)
    BY EntriesComplete
  <2> HIDE DEF e
  <2>2. DOMAIN e = 1 .. Len(e)
    BY <2>1, LenProperties DEF Listing
  <2>3. \A j \in DOMAIN e : \E i \in Driven(m) : e[j] = Entry(m, i)
    BY <2>1, <2>2 DEF Listing
  <2>4. \A i : Entry(m, i).index = i
    BY DEF Entry
  <2>5. k \in DOMAIN e
    BY DEF e
  <2>6. e[k].index \in VarsOf(m)
    BY <2>3, <2>4, <2>5 DEF Driven
  <2>7. \A j \in DOMAIN e : e[j].index = e[k].index => e[j] = e[k]
    BY <2>3, <2>4, <2>5
  <2> QED
    BY <2>1, <2>2, <2>5, <2>6, <2>7 DEF Listing, e
<1> QED
  BY <1>2, <1>3, <1>5, <1>6, <1>4 DEF Readable

(* What an FSM read back has of the one that was written.                   *)
LEMMA ReadBackMeans ==
  ASSUME WellFormed(fsm), ReadBack(fsm, back)
  PROVE  RoundTrip
<1>1. /\ back.driver = [i \in VarsOf(fsm) |-> AndForm(fsm.driver[i])]
      /\ \A list \in {"outputs", "assumes", "covers"} : back.refs[list] = fsm.refs[list]
      /\ \/ back.refs["asserts"] = fsm.refs["asserts"]
         \/ fsm.refs["asserts"] = <<>> /\ Len(fsm.refs["outputs"]) = 1
  BY DEF ReadBack
<1>2. \A i \in Inputs(fsm) \cup Latches(fsm) : i \in VarsOf(fsm) /\ LabelRead(fsm, i) = fsm.label[i]
  BY DEF Inputs, Latches, Kind, LabelRead
<1>3. \A i \in Inputs(fsm) \cup Latches(fsm) : back.label[i] = fsm.label[i]
  BY <1>2 DEF ReadBack
<1> QED
  BY <1>1, <1>3 DEF RoundTrip

(* Two gate lines of a file change places.                                 *)
LEMMA SwapKeepsWritten ==
  ASSUME NEW m, WellFormed(m), NEW v \in Versions, Writable(m, "aag", v),
         NEW text, Written("aag", m, v, text),
         NEW j \in GatesFrom("aag", m) + 1 .. Len(text.lines), NEW k \in GatesFrom("aag", m) + 1 .. Len(text.lines)
  PROVE  Written("aag", m, v, [text EXCEPT !.lines = Swapped(@, j, k)])
<1> DEFINE new == [text EXCEPT !.lines = Swapped(@, j, k)]
           lines == text.lines
           swapped == Swapped(lines, j, k)
           ng == Cardinality(Gates(m))
<1>1. /\ ng \in Nat /\ Cardinality(Inputs(m)) \in Nat /\ Cardinality(Latches(m)) \in Nat
      /\ Len(m.refs["outputs"]) \in Nat /\ Len(m.refs["asserts"]) \in Nat
      /\ Len(m.refs["assumes"]) \in Nat
      /\ Listed("aag", Inputs(m)) = Cardinality(Inputs(m)) /\ Listed("aag", Gates(m)) = ng
  BY FsmSizes DEF Inputs, Latches, Gates, Lists, Listed
<1>2. /\ lines \in Seq(Seq(Nat)) /\ Len(lines) = GatesFrom("aag", m) + ng
      /\ DOMAIN lines = 1 .. Len(lines) /\ Len(lines) \in Nat
      /\ GatesFrom("aag", m) \in Nat /\ j \in 1 .. Len(lines) /\ k \in 1 .. Len(lines)
      /\ j > GatesFrom("aag", m) /\ k > GatesFrom("aag", m)
  <2>1. lines \in Seq(Seq(Nat)) /\ Len(lines) = GatesFrom("aag", m) + ng
    <3>1. Laid("aag", m, v, lines)
      BY DEF Written
    <3> QED
      BY <1>1, <3>1 DEF Laid
  <2>2. DOMAIN lines = 1 .. Len(lines) /\ Len(lines) \in Nat
    BY <2>1, LenProperties
  <2>3. GatesFrom("aag", m) \in Nat
    <3> HIDE DEF ng
    <3>1. \A p, q \in Nat : p + q \in Nat
      OBVIOUS
    <3>2. OutputsFrom("aag", m) \in Nat
      BY <1>1, <3>1, Zenon DEF OutputsFrom
    <3>3. AssertsFrom("aag", m) \in Nat
      BY <1>1, <3>1, <3>2, Zenon DEF AssertsFrom
    <3>4. AssumesFrom("aag", m) \in Nat
      BY <1>1, <3>1, <3>3, Zenon DEF AssumesFrom
    <3> QED
      BY <1>1, <3>1, <3>4, Zenon DEF GatesFrom
  <2>4. j \in GatesFrom("aag", m) + 1 .. Len(lines) /\ k \in GatesFrom("aag", m) + 1 .. Len(lines)
    OBVIOUS
  <2> HIDE DEF lines
  <2> QED
    BY <2>1, <2>2, <2>3, <2>4
<1>3. new = [type |-> "aag", header |-> Header(m, v), lines |-> swapped,
             bytes |-> <<>>, symbols |-> Symbols(m)]
  <2>1. text = [type |-> "aag", header |-> Header(m, v), lines |-> lines,
                bytes |-> <<>>, symbols |-> Symbols(m)]
    BY DEF Written
  <2> HIDE DEF swapped
  <2>2. new = [[type |-> "aag", header |-> Header(m, v), lines |-> lines,
                bytes |-> <<>>, symbols |-> Symbols(m)] EXCEPT !.lines = swapped]
    BY <2>1, Zenon DEF swapped
  <2> HIDE DEF lines, new
  <2> QED
    BY <2>2
<1> HIDE DEF lines, new
<1>4. swapped \in Seq(Seq(Nat)) /\ Len(swapped) = Len(lines)
  <2>1. lines[j] \in Seq(Nat) /\ lines[k] \in Seq(Nat)
    BY <1>2, ElementOfSeq
  <2> DEFINE first == [lines EXCEPT ![j] = lines[k]]
  <2>2. first \in Seq(Seq(Nat)) /\ Len(first) = Len(lines)
    BY <1>2, <2>1, ExceptSeq
  <2> HIDE DEF first
  <2>3. [first EXCEPT ![k] = lines[j]] \in Seq(Seq(Nat)) /\ Len([first EXCEPT ![k] = lines[j]]) = Len(first)
    BY <1>2, <2>1, <2>2, ExceptSeq
  <2> QED
    BY <2>2, <2>3 DEF first, Swapped
<1>5. \A i \in 1 .. Len(lines) : swapped[i] = IF i = k THEN lines[j] ELSE IF i = j THEN lines[k] ELSE lines[i]
  BY <1>2 DEF Swapped
<1> HIDE DEF swapped
<1>6. \A i \in 1 .. GatesFrom("aag", m) : swapped[i] = lines[i]
  <2>1. \A i \in 1 .. GatesFrom("aag", m) : i \in 1 .. Len(lines) /\ i # j /\ i # k
    BY <1>1, <1>2
  <2> QED
    BY <1>5, <2>1
<1>7. Laid("aag", m, v, swapped)
  <2>1. /\ \A i \in 1 .. Cardinality(Inputs(m)) : i \in 1 .. GatesFrom("aag", m)
        /\ \A i \in 1 .. Cardinality(Latches(m)) : Cardinality(Inputs(m)) + i \in 1 .. GatesFrom("aag", m)
        /\ \A i \in 1 .. Len(m.refs["outputs"]) : OutputsFrom("aag", m) + i \in 1 .. GatesFrom("aag", m)
        /\ \A i \in 1 .. Len(m.refs["asserts"]) : AssertsFrom("aag", m) + i \in 1 .. GatesFrom("aag", m)
        /\ \A i \in 1 .. Len(m.refs["assumes"]) : AssumesFrom("aag", m) + i \in 1 .. GatesFrom("aag", m)
    <3> DEFINE a == Cardinality(Inputs(m))
               b == Cardinality(Latches(m))
               c == Len(m.refs["outputs"])
               d == Len(m.refs["asserts"])
               e == Len(m.refs["assumes"])
    <3>1. /\ OutputsFrom("aag", m) = a + b /\ AssertsFrom("aag", m) = a + b + c /\ AssumesFrom("aag", m) = a + b + c + d
          /\ GatesFrom("aag", m) = a + b + c + d + e
      BY <1>1 DEF GatesFrom, AssumesFrom, AssertsFrom, OutputsFrom
    <3>2. a \in Nat /\ b \in Nat /\ c \in Nat /\ d \in Nat /\ e \in Nat
      BY <1>1
    <3> HIDE DEF a, b, c, d, e
    <3>3. /\ \A i \in 1 .. a : i \in 1 .. GatesFrom("aag", m)
          /\ \A i \in 1 .. b : a + i \in 1 .. GatesFrom("aag", m)
          /\ \A i \in 1 .. c : OutputsFrom("aag", m) + i \in 1 .. GatesFrom("aag", m)
          /\ \A i \in 1 .. d : AssertsFrom("aag", m) + i \in 1 .. GatesFrom("aag", m)
          /\ \A i \in 1 .. e : AssumesFrom("aag", m) + i \in 1 .. GatesFrom("aag", m)
      <4>1. \A i \in 1 .. a : i \in 1 .. GatesFrom("aag", m)
        BY <3>1, <3>2
      <4>2. \A i \in 1 .. b : a + i \in 1 .. GatesFrom("aag", m)
        BY <3>1, <3>2
      <4>3. \A i \in 1 .. c : OutputsFrom("aag", m) + i \in 1 .. GatesFrom("aag", m)
        BY <3>1, <3>2
      <4>4. \A i \in 1 .. d : AssertsFrom("aag", m) + i \in 1 .. GatesFrom("aag", m)
        BY <3>1, <3>2
      <4>5. \A i \in 1 .. e : AssumesFrom("aag", m) + i \in 1 .. GatesFrom("aag", m)
        BY <3>1, <3>2
      <4> QED
        BY <4>1, <4>2, <4>3, <4>4, <4>5
    <3> QED
      BY <3>3 DEF a, b, c, d, e
  <2>2. Laid("aag", m, v, lines)
    BY DEF Written, lines
  <2> QED
    BY <1>1, <1>4, <1>6, <2>1, <2>2 DEF Laid
<1> HIDE DEF ng
<1>8. GatesLaid(m, swapped)
  <2> DEFINE G == 1 .. ng
             At(i) == lines[GatesFrom("aag", m) + i]
             New(i) == swapped[GatesFrom("aag", m) + i]
  <2>1. PICK x \in G : j = GatesFrom("aag", m) + x
    <3>1. j - GatesFrom("aag", m) \in G /\ j = GatesFrom("aag", m) + (j - GatesFrom("aag", m))
      BY <1>1, <1>2, SMTT(30)
    <3> QED
      BY <3>1
  <2>2. PICK y \in G : k = GatesFrom("aag", m) + y
    <3>1. k - GatesFrom("aag", m) \in G /\ k = GatesFrom("aag", m) + (k - GatesFrom("aag", m))
      BY <1>1, <1>2, SMTT(30)
    <3> QED
      BY <3>1
  <2>3. \A i \in G : New(i) = IF i = y THEN At(x) ELSE IF i = x THEN At(y) ELSE At(i)
    <3> TAKE i \in G
    <3>1. GatesFrom("aag", m) + i \in 1 .. Len(lines)
      <4>1. \A p, q \in Nat : \A r \in 1 .. q : p + r \in 1 .. p + q
        OBVIOUS
      <4> QED
        BY <1>1, <1>2, <4>1, Zenon
    <3>2. (GatesFrom("aag", m) + i = k <=> i = y) /\ (GatesFrom("aag", m) + i = j <=> i = x)
      <4>1. GatesFrom("aag", m) \in Int /\ i \in Int /\ x \in Int /\ y \in Int
        BY <1>1, <1>2
      <4>2. \A p, q, r \in Int : p + q = p + r <=> q = r
        OBVIOUS
      <4> QED
        BY <4>1, <4>2, <2>1, <2>2, Zenon
    <3> QED
      BY <1>5, <2>1, <2>2, <3>1, <3>2
  <2>4. /\ \A i \in G : \E g \in Gates(m) : At(i) = GateLine(m, g)
        /\ \A g \in Gates(m) : \E i \in G : At(i) = GateLine(m, g)
        /\ \A h, i \in G : At(h) = At(i) => h = i
    BY DEF Written, GatesLaid, lines, ng
  <2> HIDE DEF At, New, G
  <2>5. \A i \in G : \E g \in Gates(m) : New(i) = GateLine(m, g)
    BY <2>3, <2>4
  <2>6. \A g \in Gates(m) : \E i \in G : New(i) = GateLine(m, g)
    <3> TAKE g \in Gates(m)
    <3>1. PICK i \in G : At(i) = GateLine(m, g)
      BY <2>4
    <3>2. CASE i = x
      BY <2>3, <3>1, <3>2
    <3>3. CASE i = y /\ i # x
      BY <2>3, <3>1, <3>3
    <3>4. CASE i # x /\ i # y
      BY <2>3, <3>1, <3>4
    <3> QED
      BY <3>2, <3>3, <3>4
  <2>7. \A h, i \in G : New(h) = New(i) => h = i
    BY <2>3, <2>4
  <2> QED
    BY <2>5, <2>6, <2>7 DEF GatesLaid, New, G, ng
<1>9. new.lines = swapped
  BY <1>3
<1>10. Encodable(m, "aag")
  BY DEF Encodable
<1> QED
  BY <1>3, <1>7, <1>8, <1>9, <1>10 DEF Written, new

--------------------------------------------------------------------------------
(* A negative difference is one of a gate with a variable and its           *)
(* complement, whatever the FSM: a gate reads below itself, and operands in *)
(* the order of Value with different variables have literals in that order, *)
(* however they are inverted.                                               *)
LEMMA SubtractionsOfDistinct ==
  ASSUME NEW m, WellFormed(m), FullyDriven(m), OrderedGates(m), NEW g \in Gates(m),
         LET d == m.driver[g] IN d.a.index # d.b.index \/ d.a = d.b
  PROVE  \A k \in DOMAIN Deltas(m, g) : Deltas(m, g)[k] >= 0
<1> DEFINE d == m.driver[g]
           a == Xor(d.a, ~d.sign)
           b == Xor(d.b, ~d.sign)
<1>1. /\ g \in Nat
      /\ d.a \in Values(m.size) /\ d.b \in Values(m.size) /\ d.sign \in BOOLEAN
  <2>1. g \in Nat /\ d \in Drivers(m.size) /\ d.kind = "gate"
    BY DEF WellFormed, Machine, Gates, Kind, VarsOf
  <2> QED
    BY <2>1 DEF Drivers, NoDriver, InputDriver, LatchDrivers, GateDrivers
<1>2. /\ d.a.index \in Int /\ d.b.index \in Int /\ d.a.index >= -1 /\ d.b.index >= -1
      /\ a.index = d.a.index /\ b.index = d.b.index
      /\ a.sign \in BOOLEAN /\ b.sign \in BOOLEAN
  BY <1>1 DEF Values, Xor, NoVar
<1>3. d.b.index < g /\ d.a.index <= d.b.index
  BY <1>2 DEF OrderedGates, FullyDriven, GateInputs, Precedes
<1>4. /\ LitOf(a) \in Int /\ 2 * a.index + 2 <= LitOf(a) /\ LitOf(a) <= 2 * a.index + 3
      /\ LitOf(b) \in Int /\ 2 * b.index + 2 <= LitOf(b) /\ LitOf(b) <= 2 * b.index + 3
      /\ LitOf(Lit(g, TRUE)) = 2 * g + 2 /\ LitOf(Lit(g, TRUE)) \in Int
  <2>1. \A v : v.index \in Int /\ v.index >= -1 /\ v.sign \in BOOLEAN =>
          /\ LitOf(v) \in Int /\ 2 * v.index + 2 <= LitOf(v) /\ LitOf(v) <= 2 * v.index + 3
    BY DEF LitOf, NoVar
  <2>2. LitOf(Lit(g, TRUE)) = 2 * g + 2 /\ LitOf(Lit(g, TRUE)) \in Int
    BY <1>1 DEF LitOf, Lit, NoVar
  <2> HIDE DEF d, a, b
  <2> QED
    BY <2>1, <2>2, <1>2
<1>5. d.a = d.b => a = b
  OBVIOUS
<1>6. Deltas(m, g) = <<LitOf(Lit(g, TRUE)) - LitOf(b), LitOf(b) - LitOf(a)>>
  BY DEF Deltas, AndInput
<1>7. d.a = d.b \/ d.a.index < d.b.index
  BY <1>2, <1>3
<1> HIDE DEF d, a, b
<1>8. /\ g \in Int /\ LitOf(a) \in Int /\ LitOf(b) \in Int
      /\ LitOf(b) <= 2 * g + 2 /\ LitOf(a) <= LitOf(b)
  <2>1. a.index \in Int /\ b.index \in Int /\ b.index < g /\ g \in Int
    BY <1>1, <1>2, <1>3
  <2>2. LitOf(b) <= 2 * g + 2
    BY <2>1, <1>4
  <2>3. CASE d.a = d.b
    BY <2>1, <2>2, <2>3, <1>4, <1>5
  <2>4. CASE d.a.index < d.b.index
    <3>1. a.index < b.index
      BY <2>4, <1>2
    <3> QED
      BY <3>1, <2>1, <2>2, <1>4
  <2> QED
    BY <2>3, <2>4, <1>7
<1>9. LitOf(Lit(g, TRUE)) - LitOf(b) >= 0 /\ LitOf(b) - LitOf(a) >= 0
  <2>1. \A x, y, z \in Int : x <= y /\ y <= z => z - y >= 0 /\ y - x >= 0
    OBVIOUS
  <2> QED
    BY <2>1, <1>4, <1>8
<1>10. \A x, y : x >= 0 /\ y >= 0 => \A k \in DOMAIN <<x, y>> : <<x, y>>[k] >= 0
  OBVIOUS
<1> QED
  BY <1>6, <1>9, <1>10

--------------------------------------------------------------------------------
(* What the calls keep: a file is the FSM's until it has been read, and a    *)
(* writer that ends in an overflow has met an FSM it cannot encode.         *)
Calls == /\ stage \in {"fsm", "file", "read"} \cup Panics
         /\ fsm \in Machines /\ type \in Types /\ version \in Versions
FileKept == stage \in {"file", "read", "unreadable"} =>
              Writable(fsm, type, version) /\ Written(type, fsm, version, file)
BackKept == stage = "read" => ReadBack(fsm, back)
PanicsKept == /\ stage = "overflow" => ~Encodable(fsm, type)
              /\ stage = "unreadable" => ~Readable(file)
AInv == Calls /\ FileKept /\ BackKept /\ PanicsKept

LEMMA InitEstablishesAInv == Init => AInv
  BY DEF Init, AInv, Calls, FileKept, BackKept, PanicsKept

LEMMA StepPreservesAInv == AInv /\ [Next]_vars => AInv'
<1> SUFFICES ASSUME AInv, [Next]_vars PROVE AInv'
  OBVIOUS
<1> USE DEF AInv
<1>1. WellFormed(fsm) /\ FullyDriven(fsm)
  BY MachinesAssumption DEF Calls
<1>2. CASE RefuseWrite
  BY <1>2 DEF RefuseWrite, Calls, FileKept, BackKept, PanicsKept, Panics
<1>3. CASE Underflow
  BY <1>3 DEF Underflow, Calls, FileKept, BackKept, PanicsKept, Panics
<1>4. CASE Write
  <2>1. /\ stage' = "file" /\ file' = FileOf(fsm, type, version) /\ Writable(fsm, type, version)
        /\ Encodable(fsm, type) /\ UNCHANGED <<fsm, type, version, back>>
    BY <1>4 DEF Write
  <2>2. Written(type, fsm, version, FileOf(fsm, type, version))
    BY <1>1, <2>1, WriterWrites DEF Calls
  <2> QED
    BY <2>1, <2>2 DEF Calls, FileKept, BackKept, PanicsKept
<1>5. CASE SwapGates
  <2>1. /\ stage = "file" /\ stage' = stage /\ type = "aag" /\ UNCHANGED <<fsm, type, version, back>>
    BY <1>5 DEF SwapGates
  <2>2. Writable(fsm, "aag", version) /\ Written("aag", fsm, version, file)
    BY <2>1 DEF FileKept
  <2>3. PICK j \in GateLines, k \in GateLines : file' = [file EXCEPT !.lines = Swapped(@, j, k)]
    BY <1>5 DEF SwapGates
  <2>4. GateLines = GatesFrom("aag", fsm) + 1 .. Len(file.lines)
    BY <1>1, <2>2, SectionStarts DEF GateLines, Calls, Types
  <2>5. Written("aag", fsm, version, file')
    BY <1>1, <2>2, <2>3, <2>4, SwapKeepsWritten DEF Calls
  <2> QED
    BY <2>1, <2>2, <2>5 DEF Calls, FileKept, BackKept, PanicsKept
<1>6. CASE RefuseRead
  <2>1. /\ stage = "file" /\ stage' = "unreadable" /\ ~Readable(file)
        /\ UNCHANGED <<fsm, type, version, file, back>>
    BY <1>6 DEF RefuseRead
  <2> QED
    BY <2>1 DEF Calls, FileKept, BackKept, PanicsKept, Panics
<1>7. CASE Read
  <2>1. /\ stage = "file" /\ stage' = "read" /\ back' = MachineIn(file)
        /\ UNCHANGED <<fsm, type, version, file>>
    BY <1>7 DEF Read
  <2>2. ReadBack(fsm, MachineIn(file))
    BY <1>1, <2>1, MachineRead DEF Calls, FileKept
  <2> QED
    BY <2>1, <2>2 DEF Calls, FileKept, BackKept, PanicsKept
<1>8. CASE Ended \/ UNCHANGED vars
  <2>1. UNCHANGED vars
    BY <1>8 DEF Ended
  <2> QED
    BY <2>1 DEF vars, Calls, FileKept, BackKept, PanicsKept
<1> QED
  BY <1>2, <1>3, <1>4, <1>5, <1>6, <1>7, <1>8 DEF Next

(* What ties the file and the FSM that is read to the FSM that is written.  *)
THEOREM AigerInvariance == Spec => []AInv
  BY InitEstablishesAInv, StepPreservesAInv, PTL DEF Spec

(* Writers and readers keep to the types of the source, whatever the FSM,   *)
(* the format and the order of the gate lines: a byte of a binary file      *)
(* holds its group of bits.                                                *)
THEOREM AigerTypeCorrect == Spec => []TypeOK
<1>1. AInv => TypeOK
  <2> SUFFICES ASSUME AInv PROVE TypeOK
    OBVIOUS
  <2>1. WellFormed(fsm) /\ FullyDriven(fsm) /\ type \in Types /\ version \in Versions
    BY MachinesAssumption DEF AInv, Calls
  <2>2. ASSUME stage \in {"file", "read", "unreadable"}
        PROVE  /\ file.header \in Seq(Nat) /\ file.lines \in Seq(Seq(Nat))
               /\ file.bytes \in Seq(0 .. 2 * Radix - 1)
    <3>1. Writable(fsm, type, version) /\ Written(type, fsm, version, file)
      BY <2>2 DEF AInv, FileKept
    <3>2. /\ file.header = Header(fsm, version) /\ file.lines \in Seq(Seq(Nat))
          /\ file.bytes = IF type = "aag" THEN <<>> ELSE GateBytes(fsm)
      BY <3>1 DEF Written, Laid
    <3>3. file.header \in Seq(Nat)
      BY <2>1, <3>1, <3>2, HeaderFields
    <3>4. file.bytes \in Coded
      <4>1. CASE type = "aag"
        BY <3>2, <4>1, EmptySeq DEF Coded
      <4>2. CASE type = "aig"
        <5>1. GateBytes(fsm) \in Coded
          BY <2>1, <3>1, <4>2, DeltasReadBack DEF Written
        <5> QED
          BY <3>2, <4>2, <5>1
      <4> QED
        BY <2>1, <4>1, <4>2 DEF Types
    <3> QED
      BY <3>2, <3>3, <3>4 DEF Coded
  <2>3. stage = "read" => WellFormed(back)
    BY <2>1, ReadBackFits DEF AInv, BackKept
  <2> QED
    BY <2>1, <2>2, <2>3 DEF TypeOK, AInv, Calls
<1> QED
  BY <1>1, AigerInvariance, PTL

(* What is read is what was written, in both formats, whatever the FSM and  *)
(* the order of the gate lines.                                            *)
THEOREM ReadIsWritten == Spec => []RoundTrip
<1>1. AInv => RoundTrip
  <2> SUFFICES ASSUME AInv PROVE RoundTrip
    OBVIOUS
  <2>1. WellFormed(fsm)
    BY MachinesAssumption DEF AInv, Calls
  <2>2. CASE stage = "read"
    BY <2>1, <2>2, ReadBackMeans DEF AInv, BackKept
  <2>3. CASE stage # "read"
    BY <2>3 DEF RoundTrip
  <2> QED
    BY <2>2, <2>3
<1> QED
  BY <1>1, AigerInvariance, PTL

(* The reader takes every file of an ordered FSM, a binary one when no      *)
(* variable is undriven.                                                   *)
THEOREM OrderedIsReadable == Spec => []WrittenIsReadable
<1>1. AInv => WrittenIsReadable
  <2> SUFFICES ASSUME AInv, stage = "unreadable", OrderedGates(fsm),
                      ~(type = "aig" /\ Driven(fsm) # VarsOf(fsm))
               PROVE  FALSE
    BY DEF WrittenIsReadable
  <2>1. WellFormed(fsm) /\ FullyDriven(fsm) /\ type \in Types /\ version \in Versions
    BY MachinesAssumption DEF AInv, Calls
  <2>2. Writable(fsm, type, version) /\ Written(type, fsm, version, file) /\ ~Readable(file)
    BY DEF AInv, FileKept, PanicsKept
  <2> QED
    BY <2>1, <2>2, WrittenReadable
<1> QED
  BY <1>1, AigerInvariance, PTL

(* The binary writer's subtractions overflow, on an FSM whose gates are in *)
(* order, only where a gate reads one variable in both polarities (or two   *)
(* different constants).                                                    *)
THEOREM OverflowMeansComplement == Spec => []UnderflowOnlyOnComplement
<1>1. AInv => UnderflowOnlyOnComplement
  BY MachinesAssumption, SubtractionsOfDistinct
     DEF AInv, Calls, PanicsKept, UnderflowOnlyOnComplement, Encodable
<1> QED
  BY <1>1, AigerInvariance, PTL
================================================================================
