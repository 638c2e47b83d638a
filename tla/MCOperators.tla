------------------------------- MODULE MCOperators -------------------------------
(* Words to build on, for TLC. *)
EXTENDS Operators

Case(front, inputs, words0, undefined, nodes) ==
  [front |-> front, inputs |-> inputs, words |-> words0, undefined |-> undefined, nodes |-> nodes]

(* Words of the given widths over inputs of their own, and n undefined ones. *)
InputBits(first, n) == [i \in 1 .. n |-> Lit(first + i - 1, TRUE)]
Total(widths) == FoldLeft(LAMBDA n, w : n + w, 0, widths)
OnFree(front, widths, n, nodes) ==
  Case(front, Total(widths) + n,
       [k \in DOMAIN widths |-> InputBits(Total(SubSeq(widths, 1, k - 1)), widths[k])],
       InputBits(Total(widths), n), nodes)

(* Two bits with every kind of repetition: constants, the same and the      *)
(* complementary variable.                                                 *)
Literals == {False, True, Lit(0, TRUE), Lit(0, FALSE), Lit(1, TRUE)}
Repeated(front, n) ==
  {Case(front, 2 + n, <<a, b>>, InputBits(2, n), 1) :
    a \in {<<Lit(0, TRUE), Lit(1, TRUE)>>, <<False, Lit(0, FALSE)>>},
    b \in {<<x, y>> : x \in Literals, y \in Literals}}

MCOperands ==
  {OnFree("verilator", w, 0, 1) :
    w \in {<<3, 3>>, <<3, 2>>, <<2, 3>>, <<1, 3>>, <<4, 2, 1>>, <<4, 1, 2>>, <<4, 3, 2>>, <<2, 2, 2>>}}
  \cup {OnFree("verilator", <<1>>, 0, 2)}
  \cup Repeated("verilator", 0)
  \cup {OnFree("circt", w, 3, 1) : w \in {<<3, 3>>, <<3, 2, 1>>, <<2, 2, 2>>, <<2, 1, 1>>}}
  \cup Repeated("circt", 2)
  \cup {OnFree("library", w, 0, 1) : w \in {<<3, 3>>, <<4, 2, 3>>, <<2, 1>>, <<1, 3>>}}
================================================================================
