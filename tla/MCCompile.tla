----------------------------- MODULE MCCompile -----------------------------
(***************************************************************************)
(* Vocabularies of operators for the compile runs.                         *)
(***************************************************************************)
EXTENDS Compile

Shape(op, arity) == [op |-> op, arity |-> arity]
Zero == "scalar=0.0;side=r"

SourceX == Shape(Source("x", ""), 0)
SourceY == Shape(Source("y", ""), 0)
Neg == Shape(Op("neg", "", <<>>), 1)
Abs == Shape(Op("abs", "", <<>>), 1)
Add == Shape(Op("add", "", <<>>), 2)
AddZero == Shape(Op("add", Zero, <<>>), 1)
Total == Shape(Reduction("sum", "", <<>>), 1)

\* The rules of the engine: commuted twins, identities, a boundary.
RuleShapes == {SourceX, SourceY, Add, AddZero, Total}

\* Two outputs, rules and both orders.
OutputShapes == {SourceX, SourceY, Add, AddZero}

\* An external payload with no preprocessing reference, and one with the
\* reference "-": two operators with one token.
Model(prep) == Shape(External("onnx:h1", prep, "", <<>>), 1)

\* Fan-out inside an op region next to boundaries, two of which share a token.
FanOutShapes == {SourceX, Neg, Add, Model(<<>>), Model(<<"-">>)}

\* Two ops with one input, neither of which any rule is about.
StageShapes == {SourceX, Neg, Abs}

BothModes == {"SingleUse", "Maximal"}
SingleUseOnly == {"SingleUse"}
=============================================================================
