--------------------------- MODULE MCIncremental ---------------------------
(***************************************************************************)
(* Vocabularies for the incremental reducer.                               *)
(***************************************************************************)
EXTENDS IncrementalReducer

Shape(op, arity) == [op |-> op, arity |-> arity]
Zero == "scalar=0.0;side=r"

SourceX == Shape(Source("x", ""), 0)
SourceY == Shape(Source("y", ""), 0)
Neg == Shape(Op("neg", "", <<>>), 1)
Add == Shape(Op("add", "", <<>>), 2)
AddZero == Shape(Op("add", Zero, <<>>), 1)
AddZeroOfNone == Shape(Op("add", Zero, <<>>), 0)

\* The rules of the engine: commuted twins and identities.
RuleShapes == {SourceX, SourceY, Add, AddZero}

\* An identity op recorded without inputs makes a step panic.
RaceShapes == {SourceX, Neg, AddZeroOfNone}

SingleUseOnly == {"SingleUse"}
=============================================================================
