------------------------------ MODULE NodeKeys ------------------------------
(***************************************************************************)
(* The structural identity of a recorded node (node.rs).                   *)
(*                                                                         *)
(* Every variant of NodeKey is one record shape, so that any two keys can  *)
(* be compared; fields a variant lacks hold a fixed default.  Names,       *)
(* descriptors and canonical parameter maps are opaque strings: equality   *)
(* of keys is equality of records, as the derived Eq and Hash have it.     *)
(* An optional string is a sequence of length at most one.                 *)
(***************************************************************************)
EXTENDS Naturals, Sequences

NodeKey(kind, name, params, prep, members, inputs) ==
  [kind |-> kind, name |-> name, params |-> params, prep |-> prep,
   members |-> members, inputs |-> inputs]

Source(name, params) == NodeKey("source", name, params, <<>>, <<>>, <<>>)
Op(name, params, inputs) == NodeKey("op", name, params, <<>>, <<>>, inputs)
Reduction(name, params, inputs) ==
  NodeKey("reduction", name, params, <<>>, <<>>, inputs)
External(descriptor, prep, params, inputs) ==
  NodeKey("external", descriptor, params, prep, <<>>, inputs)
Stage(members, inputs) == NodeKey("stage", "", "", <<>>, members, inputs)

\* What add_* can record, with its inputs left out: no stage among it, and a
\* preprocessing reference with an external only.
Operators ==
  {op \in [kind : {"source", "op", "reduction", "external"}, name : STRING,
            params : STRING, prep : Seq(STRING), members : {<<>>}, inputs : {<<>>}] :
     op.kind # "external" => op.prep = <<>>}

\* References inside a stage: an external input slot or an earlier member.
InputRef(k) == <<"input", k>>
MemberRef(j) == <<"member", j>>
StageOp(token, refs) == [token |-> token, inputs |-> refs]

IsBoundary(key) == key.kind # "op"

\* with_inputs: the operator of key over new inputs; a source takes none.
WithInputs(key, inputs) ==
  IF key.kind = "source" THEN key ELSE [key EXCEPT !.inputs = inputs]

(***************************************************************************)
(* The operator token: the key without its inputs.  It is not injective on *)
(* operators: an absent preprocessing reference and the reference "-" give *)
(* the same token, and a stage keeps only the number of its members.       *)
(***************************************************************************)
Token(key) ==
  CASE key.kind = "source" -> <<"src", key.name, key.params>>
    [] key.kind = "op" -> <<"op", key.name, key.params>>
    [] key.kind = "reduction" -> <<"red", key.name, key.params>>
    [] key.kind = "external" ->
         <<"ext", key.name, IF key.prep = <<>> THEN "-" ELSE key.prep[1],
           key.params>>
    [] key.kind = "stage" -> <<"stage", Len(key.members)>>

\* boundary_from_token: what the engine decides from the token alone.
BoundaryToken(token) == token[1] # "op"

SYMMETRIC_OPS ==
  {"add", "mul", "and", "or", "eq", "ne", "maximum", "minimum"}

IDENTITY_TOKENS ==
  {<<"op", "add", "scalar=0.0;side=r">>, <<"op", "add", "scalar=0.0;side=l">>,
   <<"op", "mul", "scalar=1.0;side=r">>, <<"op", "mul", "scalar=1.0;side=l">>}

SymmetricToken(token) ==
  Len(token) = 3 /\ token[1] = "op" /\ token[2] \in SYMMETRIC_OPS /\ token[3] = ""
=============================================================================
