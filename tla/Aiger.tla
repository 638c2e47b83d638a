--------------------------------- MODULE Aiger ---------------------------------
(****************************************************************************)
(* The AIGER formats: what write_aiger_ascii and write_aiger_binary put in  *)
(* a file and what the readers make of it.  A file is a header, lines of    *)
(* numbers, the bytes of the binary gates and the symbols; spelling the     *)
(* numbers and splitting lines are left out.                                *)
(****************************************************************************)
EXTENDS Fsm
Ext == INSTANCE SequencesExt

CONSTANT Radix  \* values of the low bits of a byte, 128 in the code

ASSUME RadixAssumption == Radix \in Nat \ {0, 1}

Types == {"aag", "aig"}
Versions == {"1.0", "1.9"}

(* The variables of a set, in ascending order.                             *)
Indices(S) == [k \in 1 .. Cardinality(S) |-> CHOOSE i \in S : Below(S, i) = k - 1]
Each(s, op(_)) == [k \in DOMAIN s |-> op(s[k])]

\* Mutant: literals are counted from the index.
LitOfIndex(v) == 2 * v.index + (IF v.sign THEN 0 ELSE 1)

(* from_value and into_value: literal 2n is the variable of index n - 1,   *)
(* 2n + 1 its negation, 0 and 1 the constants.                             *)
LitOf(v) == IF v.index = NoVar THEN (IF v.sign THEN 1 ELSE 0)
            ELSE 2 * (v.index + 1) + (IF v.sign THEN 0 ELSE 1)
ValueOf(n) == IF n < 2 THEN Const(n = 1) ELSE Lit(n \div 2 - 1, n % 2 = 0)

(* write_compressed_uint and read_compressed_uint: groups from the lowest, *)
(* a byte of Radix or more announces another.                              *)
Bytes == LET b[n \in Nat] == IF n < Radix THEN <<n>>
                             ELSE <<(n % Radix) + Radix>> \o b[n \div Radix]
         IN b
Ends(bytes) == Indices({k \in DOMAIN bytes : bytes[k] < Radix})
Uints(bytes) ==
  LET tail[k \in DOMAIN bytes] ==
        (bytes[k] % Radix) + (IF bytes[k] < Radix THEN 0 ELSE Radix * tail[k + 1])
      ends == Ends(bytes)
  IN [j \in DOMAIN ends |-> tail[IF j = 1 THEN 1 ELSE ends[j - 1] + 1]]

--------------------------------------------------------------------------------
(* What the writers assert.  Only the binary one needs inputs, latches and *)
(* gates to fill the vector in this order.                                 *)
IsAnd(d) == d.type = "And"
Compact(m) ==
  /\ \A i \in Inputs(m), l \in Latches(m) : i < l
  /\ \A i \in Inputs(m) \cup Latches(m), g \in Gates(m) : i < g
  /\ Driven(m) = 0 .. Cardinality(Driven(m)) - 1
  /\ \A l \in Latches(m) : m.driver[l].sign
Writable(m, type, version) ==
  /\ m.refs["covers"] = <<>>
  /\ version = "1.0" => /\ m.refs["asserts"] = <<>> /\ m.refs["assumes"] = <<>>
                        /\ \A l \in Latches(m) : m.driver[l].reset = "0"
  /\ \A g \in Gates(m) : m.driver[g].sign = IsAnd(m.driver[g])
  /\ type = "aig" => Compact(m)

(* The header: the counts of AIGER 1.9 are dropped from the end when 0.    *)
Header(m, version) ==
  <<m.size, Cardinality(Inputs(m)), Cardinality(Latches(m)), Len(m.refs["outputs"]),
    Cardinality(Gates(m))>> \o
  (IF version = "1.0" \/ (m.refs["asserts"] = <<>> /\ m.refs["assumes"] = <<>>) THEN <<>>
   ELSE IF m.refs["assumes"] = <<>> THEN <<Len(m.refs["asserts"])>>
   ELSE <<Len(m.refs["asserts"]), Len(m.refs["assumes"])>>)

\* Mutant: an unknown reset value is the negated literal.
LatchLineNegated(m, l, type, version) ==
  LET d == m.driver[l]
  IN (IF type = "aag" THEN <<LitOf(Lit(l, d.sign))>> ELSE <<>>) \o <<LitOf(d.input)>> \o
     (IF version = "1.0" \/ d.reset = "0" THEN <<>>
      ELSE IF d.reset = "1" THEN <<1>> ELSE <<LitOf(Lit(l, ~d.sign))>>)

LatchLine(m, l, type, version) ==
  LET d == m.driver[l]
      output == LitOf(Lit(l, d.sign))
  IN (IF type = "aag" THEN <<output>> ELSE <<>>) \o <<LitOf(d.input)>> \o
     (IF version = "1.0" \/ d.reset = "0" THEN <<>>
      ELSE IF d.reset = "1" THEN <<1>> ELSE <<output>>)

\* Mutant: inputs of an OR are not inverted.
AndInputPlain(d, v) == LitOf(v)

(* An OR gate is the inverted AND of its inverted inputs.                  *)
AndInput(d, v) == LitOf(Xor(v, ~d.sign))
GateLine(m, g) ==
  LET d == m.driver[g]
  IN <<LitOf(Lit(g, TRUE)), AndInput(d, d.a), AndInput(d, d.b)>>
\* Mutant: operands in the other order.
DeltasSwapped(m, g) ==
  LET d == m.driver[g]
  IN <<LitOf(Lit(g, TRUE)) - AndInput(d, d.a), AndInput(d, d.a) - AndInput(d, d.b)>>

Deltas(m, g) ==
  LET d == m.driver[g]
  IN <<LitOf(Lit(g, TRUE)) - AndInput(d, d.b),
       AndInput(d, d.b) - AndInput(d, d.a)>>

Lines(m, type, version) ==
  LET OneLit(v) == <<LitOf(v)>>
      InputLine(i) == <<LitOf(Lit(i, TRUE))>>
      ALatch(l) == LatchLine(m, l, type, version)
      Bad(v) == <<LitOf(Xor(v, TRUE))>>
      AGate(g) == GateLine(m, g)
  IN (IF type = "aag" THEN Each(Indices(Inputs(m)), InputLine) ELSE <<>>)
     \o Each(Indices(Latches(m)), ALatch)
     \o Each(m.refs["outputs"], OneLit)
     \o Each(m.refs["asserts"], Bad)
     \o Each(m.refs["assumes"], OneLit)
     \o (IF type = "aag" THEN Each(Indices(Gates(m)), AGate) ELSE <<>>)

(* The differences of the binary gates, two of each, are of type usize.    *)
AllDeltas(m) == [k \in 1 .. 2 * Cardinality(Gates(m)) |->
                   Deltas(m, Indices(Gates(m))[(k + 1) \div 2])[2 - (k % 2)]]
GateBytes(m) == Ext!FlattenSeq([k \in DOMAIN AllDeltas(m) |-> Bytes[AllDeltas(m)[k]]])
Encodable(m, type) ==
  type = "aig" => \A g \in Gates(m) : \A k \in DOMAIN Deltas(m, g) : Deltas(m, g)[k] >= 0

Symbols(m) ==
  UNION {LET s == Indices(Kind(m, kind))
         IN {[kind |-> kind, index |-> k, label |-> m.label[s[k]]] :
               k \in {k \in DOMAIN s : m.label[s[k]] # NoLabel}} :
         kind \in {"input", "latch"}}

FileOf(m, type, version) ==
  [type |-> type, header |-> Header(m, version), lines |-> Lines(m, type, version),
   bytes |-> IF type = "aag" THEN <<>> ELSE GateBytes(m), symbols |-> Symbols(m)]

--------------------------------------------------------------------------------
(****************************************************************************)
(* The readers.  Field k of the header is 0 when the line is shorter; more  *)
(* than five fields make the file AIGER 1.9.                                *)
(****************************************************************************)
Field(file, k) == IF k <= Len(file.header) THEN file.header[k] ELSE 0
VersionOf(file) == IF Len(file.header) > 5 THEN "1.9" ELSE "1.0"

(* The lines of a section: those after the sections before it.             *)
InputLines(file) == IF file.type = "aag" THEN Field(file, 2) ELSE 0
Skipped(file, section) ==
  InputLines(file) +
  (IF section = "latches" THEN 0 ELSE Field(file, 3)) +
  (IF section \in {"asserts", "assumes", "gates"} THEN Field(file, 4) ELSE 0) +
  (IF section \in {"assumes", "gates"} THEN Field(file, 6) ELSE 0) +
  (IF section = "gates" THEN Field(file, 7) ELSE 0)
Section(file, section, n) ==
  [k \in 1 .. n |-> file.lines[Skipped(file, section) + k]]

InputVars(file) ==
  [k \in 1 .. Field(file, 2) |-> IF file.type = "aag" THEN ValueOf(file.lines[k][1])
                                 ELSE Lit(k - 1, TRUE)]

(* A latch as read: its variable, the literal of its next value and what   *)
(* follows it on the line.                                                 *)
ReadLatches(file) ==
  LET lines == Section(file, "latches", Field(file, 3))
      skip == IF file.type = "aag" THEN 1 ELSE 0
  IN [k \in DOMAIN lines |->
        [var |-> IF file.type = "aag" THEN ValueOf(lines[k][1])
                 ELSE Lit(Field(file, 2) + k - 1, TRUE),
         input |-> lines[k][1 + skip],
         rest |-> SubSeq(lines[k], 2 + skip, Len(lines[k]))]]
ResetOf(latch) == CASE latch.rest \in {<<>>, <<0>>} -> "0"
                    [] latch.rest = <<1>> -> "1"
                    [] OTHER -> "X"

ReadGates(file) ==
  LET lines == Section(file, "gates", Field(file, 5))
      deltas == Uints(file.bytes)
      first == Field(file, 2) + Field(file, 3)
      Var(k) == Lit(first + k - 1, TRUE)
      B(k) == LitOf(Var(k)) - deltas[2 * k - 1]
  IN IF file.type = "aag"
     THEN [k \in DOMAIN lines |-> [var |-> ValueOf(lines[k][1]), a |-> lines[k][2],
                                   b |-> lines[k][3]]]
     ELSE [k \in 1 .. Field(file, 5) |-> [var |-> Var(k), a |-> B(k),
                                          b |-> B(k) - deltas[2 * k]]]

(* Every variable of the file with its driver, in the order of add_input,  *)
(* add_latch and add_gate.                                                 *)
Entries(file) ==
  LET OfInput(v) == [index |-> v.index, driver |-> InputDriver]
      OfLatch(l) == [index |-> l.var.index,
                     driver |-> LatchDriver(l.var.sign, ValueOf(l.input), ResetOf(l))]
      OfGate(g) == [index |-> g.var.index,
                    driver |-> GateDriver(g.var.sign, "And", ValueOf(g.a), ValueOf(g.b))]
  IN Each(InputVars(file), OfInput) \o Each(ReadLatches(file), OfLatch)
       \o Each(ReadGates(file), OfGate)

LabelsOf(file, m) ==
  [i \in VarsOf(m) |->
     LET here == {s \in file.symbols : Indices(Kind(m, s.kind))[s.index] = i}
     IN IF here = {} THEN NoLabel ELSE (CHOOSE s \in here : TRUE).label]

(* normalize_aiger_assertions: in AIGER 1.0 a single output is a bad state *)
(* when there is no other.                                                 *)
ReadAsserts(file) ==
  LET OfLine(line) == Xor(ValueOf(line[1]), TRUE)
      outputs == Section(file, "outputs", Field(file, 4))
  IN IF VersionOf(file) = "1.0" /\ Field(file, 4) = 1 /\ Field(file, 6) = 0
     THEN <<OfLine(outputs[1])>>
     ELSE Each(Section(file, "asserts", Field(file, 6)), OfLine)

MachineIn(file) ==
  LET OfLine(line) == ValueOf(line[1])
      entries == Entries(file)
      size == Ext!Max({Field(file, 1)} \cup {ReadLatches(file)[k].var.index + 1 : k \in 1 .. Field(file, 3)})
      At(i) == {k \in DOMAIN entries : entries[k].index = i}
      m == [size |-> size,
            driver |-> [i \in 0 .. size - 1 |-> IF At(i) = {} THEN NoDriver
                                               ELSE entries[CHOOSE k \in At(i) : TRUE].driver],
            refs |-> [list \in Lists |->
                        CASE list = "outputs" ->
                               Each(Section(file, "outputs", Field(file, 4)), OfLine)
                          [] list = "asserts" -> ReadAsserts(file)
                          [] list = "assumes" ->
                               Each(Section(file, "assumes", Field(file, 7)), OfLine)
                          [] OTHER -> <<>>]]
  IN [size |-> m.size, driver |-> m.driver, label |-> LabelsOf(file, m), refs |-> m.refs]

(* What the readers assert of a file.                                      *)
Readable(file) ==
  LET entries == Entries(file)
  IN /\ Field(file, 8) = 0 /\ Field(file, 9) = 0
     /\ file.type = "aig" => Field(file, 1) = Field(file, 2) + Field(file, 3) + Field(file, 5)
     /\ \A k \in DOMAIN ReadLatches(file) :
          LET latch == ReadLatches(file)[k]
          IN ResetOf(latch) = "X" => latch.rest = <<LitOf(latch.var)>>
     /\ \A k \in DOMAIN entries :
          /\ entries[k].index \in VarsOf(MachineIn(file))
          /\ \A j \in DOMAIN entries : entries[j].index = entries[k].index => j = k
     /\ Verify(MachineIn(file))
================================================================================
