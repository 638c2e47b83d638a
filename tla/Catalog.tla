--------------------------------- MODULE Catalog ---------------------------------
(****************************************************************************)
(* A file of CIRCT modules as circt-formal reads it: types, ports,          *)
(* operations, and the symbols that instances resolve.  An SSA value of a   *)
(* module is <<0, k>>, its k-th input, or <<i, r>>, result r of operation i; *)
(* names that only have to be distinct are left out.  No state.             *)
(****************************************************************************)
EXTENDS Integers, Sequences, FiniteSets, SequencesExt

(* Types carry their width, as Ty::width computes it.                      *)
Clock == [kind |-> "clock", width |-> 0]
Integer(w) == [kind |-> "integer", width |-> w]
Array(n, element) == [kind |-> "array", width |-> n * element.width, size |-> n, element |-> element]
Struct(fields) ==
  [kind |-> "struct", width |-> FoldLeft(LAMBDA n, f : n + f.width, 0, fields), fields |-> fields]
Union(members) ==
  [kind |-> "union", members |-> members,
   width |-> FoldLeft(LAMBDA n, f : Max({n, f.offset + f.type.width}), 0, members)]
BitType == Integer(1)
Member(type, k) == IF type.kind = "array" THEN type.element ELSE type.fields[k]
IsInteger(type) == type.kind = "integer"

Variadic == {"Add", "Mul", "And", "Or", "Xor"}
Dyadic == {"Sub", "DivUnsigned", "DivSigned", "ModUnsigned", "ModSigned",
           "ShiftLeft", "ShiftRightSigned", "ShiftRightUnsigned"}

(* result_types: declared are the operand types an operation is written     *)
(* with, type its result type where it has one.                            *)
ResultTypes(op) ==
  CASE op.kind \in {"Output", "Property"} -> <<>>
    [] op.kind = "Instance" -> [k \in DOMAIN op.outputs |-> op.outputs[k].type]
    [] op.kind = "Compare" -> <<BitType>>
    [] op.kind = "ToClock" -> <<Clock>>
    [] op.kind = "Concat" -> <<Integer(FoldLeft(LAMBDA n, t : n + t.width, 0, op.declared))>>
    [] op.kind = "UnionExtract" -> <<op.declared[1].members[op.n].type>>
    [] op.kind = "ArrayGet" -> <<op.declared[1].element>>
    [] op.kind = "ArrayInject" -> <<op.declared[1]>>
    [] OTHER -> <<op.type>>

(* As many bits as the size needs, one at least.                           *)
IndexWidth(size) == CHOOSE w \in 1 .. size : size <= 2 ^ w /\ (w = 1 \/ size > 2 ^ (w - 1))

(* validate_op: type is the node's, types are those of its operands.        *)
WellTyped(op, type, types) ==
  LET All(t) == \A k \in DOMAIN types : types[k] = t
      integers == IsInteger(type) /\ \A k \in DOMAIN types : IsInteger(types[k])
  IN CASE op.kind = "Constant" -> IsInteger(type)
       [] op.kind \in Variadic -> IsInteger(type) /\ types # <<>> /\ All(type)
       [] op.kind \in Dyadic -> IsInteger(type) /\ Len(types) = 2 /\ All(type)
       [] op.kind = "Compare" -> Len(types) = 2 /\ IsInteger(op.declared[1]) /\ All(op.declared[1])
       [] op.kind = "Mux" -> types = <<BitType, type, type>>
       [] op.kind = "Concat" -> types # <<>> /\ types = op.declared /\ integers
       [] op.kind = "UnionExtract" -> types = op.declared
       [] op.kind = "Bitcast" -> types = op.declared /\ types[1].width = type.width
       [] op.kind = "Replicate" -> types = op.declared /\ integers /\ type.width % types[1].width = 0
       [] op.kind = "Extract" -> types = op.declared /\ integers /\ op.n + type.width <= types[1].width
       [] op.kind = "ArrayCreate" -> type.kind = "array" /\ Len(types) = type.size /\ All(type.element)
       [] op.kind \in {"ArrayGet", "ArrayInject"} ->
            /\ SubSeq(types, 1, 2) = op.declared
            /\ types[1].kind = "array" /\ types[2] = Integer(IndexWidth(types[1].size))
            /\ op.kind = "ArrayInject" => types[3] = types[1].element
       [] op.kind = "ToClock" -> types = <<BitType>>
       [] op.kind = "Register" -> types \in {<<type, Clock>>, <<type, Clock, BitType, type>>}
       [] OTHER -> TRUE

--------------------------------------------------------------------------------
(****************************************************************************)
(* The catalog: scopes are numbered as collect meets them, parents[s] is    *)
(* the scope around s and 0 stands for none.  A module is found in the      *)
(* scope of the instance or in the nearest one around it.                  *)
(****************************************************************************)
Defined(file, scope, symbol) ==
  {k \in DOMAIN file.modules : file.modules[k].scope = scope /\ file.modules[k].name = symbol}
NoModule == 0

Resolve(file, scope, symbol) ==
  LET found[s \in 0 .. Len(file.parents)] ==
        IF s = 0 THEN NoModule
        ELSE IF Defined(file, s, symbol) # {} THEN CHOOSE k \in Defined(file, s, symbol) : TRUE
        ELSE found[file.parents[s]]
  IN found[scope]

Duplicates(file) == \E j, k \in DOMAIN file.modules :
  j # k /\ file.modules[j].scope = file.modules[k].scope /\ file.modules[j].name = file.modules[k].name

(* The modules that instances of module k resolve to.                      *)
Instantiated(file, k) ==
  LET body == file.modules[k].body
  IN {Resolve(file, file.modules[k].scope, body[i].module) :
        i \in {j \in DOMAIN body : body[j].kind = "Instance"}} \ {NoModule}
Referenced(file) == UNION {Instantiated(file, k) : k \in DOMAIN file.modules}

(* top: the module that was asked for, by its own name or with its          *)
(* namespaces, or the public one that nothing instantiates.                *)
Candidates(file, requested) ==
  {k \in DOMAIN file.modules :
     IF requested # <<>> THEN requested \in {file.modules[k].qualified, <<file.modules[k].name>>}
     ELSE file.modules[k].public /\ ~file.modules[k].external /\ k \notin Referenced(file)}
================================================================================
