----------------------------- MODULE Denotation -----------------------------
(***************************************************************************)
(* What a graph computes, as terms: the value of a node is its operator    *)
(* applied to the values of its inputs, up to the two laws the optimizer   *)
(* relies on (a symmetric binary op ignores the order of its inputs; an    *)
(* identity op is its input).  Two nodes have one term exactly when the    *)
(* operators and those laws force their values to be equal, so a graph may *)
(* replace another only if its outputs have the same terms.                *)
(*                                                                         *)
(* Operators, not tokens, are applied here: a token that stands for two    *)
(* operators must not make two terms one.                                  *)
(***************************************************************************)
EXTENDS NodeKeys, SequencesExt

Operator(key) == [key EXCEPT !.inputs = <<>>]

\* One shape for every term, so that any two can be compared.
Apply(op, args) ==
  CASE op.kind = "op" /\ Token(op) \in IDENTITY_TOKENS /\ Len(args) = 1 -> args[1]
    [] op.kind = "op" /\ SymmetricToken(Token(op)) /\ Len(args) = 2 ->
         [op |-> op, args |-> <<>>, unordered |-> ToSet(args)]
    [] OTHER -> [op |-> op, args |-> args, unordered |-> {}]

\* parse_op_token: a stage member's token read back as its operator.
ParseOpToken(token) == Op(token[2], token[3], <<>>)

\* What a reference to a slot the stage does not have stands for.
NoTerm == [op |-> Stage(<<>>, <<>>), args |-> <<>>, unordered |-> {}]

\* A stage computes its last member from the values of its input slots.
StageTerm(members, slots) ==
  LET term[m \in DOMAIN members] ==
        LET arg(ref) == IF ref[1] = "member" THEN term[ref[2] + 1]
                        ELSE IF ref[2] < Len(slots) THEN slots[ref[2] + 1]
                        ELSE NoTerm
        IN Apply(ParseOpToken(members[m].token),
                 [n \in DOMAIN members[m].inputs |-> arg(members[m].inputs[n])])
  IN term[Len(members)]

\* A stage is a closed mini-graph: its members read its slots and earlier
\* members.
StageClosed(key) ==
  \A m \in DOMAIN key.members : \A r \in ToSet(key.members[m].inputs) :
    \/ r[1] = "input" /\ r[2] < Len(key.inputs)
    \/ r[1] = "member" /\ r[2] < m - 1

Terms(ns) ==
  LET term[i \in 0 .. (Len(ns) - 1)] ==
        LET key == ns[i + 1]
            args == [n \in DOMAIN key.inputs |-> term[key.inputs[n]]]
        IN IF key.kind = "stage" THEN StageTerm(key.members, args)
           ELSE Apply(Operator(key), args)
  IN term
=============================================================================
