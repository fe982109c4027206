-------------------------- MODULE DenotationProofs --------------------------
(***************************************************************************)
(* Lemmas about the terms of a graph: in a topologically ordered list the *)
(* recursion that defines them has a solution, and the term of a node     *)
(* depends on the nodes before it only.                                   *)
(*                                                                        *)
(* Both go by induction on the ids.  No prover instantiates the induction *)
(* theorems of the library, but the least member of the set of ids where  *)
(* a claim fails serves as well.                                          *)
(***************************************************************************)
EXTENDS Reduction, Denotation, SequenceTheorems, WellFoundedInduction, TLAPS

(* A set of naturals that is not empty has a least member. *)
LEMMA LeastMember ==
  ASSUME NEW S, S \subseteq Nat, S # {}
  PROVE  \E n \in S : \A m \in S : n <= m
<1> DEFINE R == OpToRel(<, Nat)
<1>1. IsWellFoundedOn(R, Nat)
  BY NatLessThanWellFounded
<1>2. R = {pair \in Nat \X Nat : pair[1] < pair[2]}
  BY DEF OpToRel
<1> HIDE DEF R
<1>3. PICK n \in S : \A m \in S : ~ (<<m, n>> \in R)
  BY <1>1, WFMin, Zenon
<1>4. \A m \in S : ~ (m < n)
  BY <1>2, <1>3
<1> QED
  BY <1>4

\* Every node reads nodes before it: what a graph store and the reducer keep.
InputsBefore(ns) ==
  /\ Len(ns) \in Nat
  /\ \A i \in 0 .. (Len(ns) - 1) : \A n \in DOMAIN ns[i + 1].inputs :
       ns[i + 1].inputs[n] \in 0 .. (i - 1)

\* One step of the recursion: the term of a key from the terms it reads.
KeyTerm(key, args) ==
  IF key.kind = "stage" THEN StageTerm(key.members, args)
  ELSE Apply(Operator(key), args)

TermFrom(ns, term, i) == KeyTerm(ns[i + 1], Through(term, ns[i + 1].inputs))

(* The recursion determines the terms where it has a solution. *)
LEMMA TermsChosen ==
  ASSUME NEW ns, \E f : f = [i \in 0 .. (Len(ns) - 1) |-> TermFrom(ns, f, i)]
  PROVE  Terms(ns) = [i \in 0 .. (Len(ns) - 1) |-> TermFrom(ns, Terms(ns), i)]
BY Zenon DEF Terms, TermFrom, KeyTerm, Through

(* A term depends on the terms of the inputs only. *)
LEMMA TermFromInputs ==
  ASSUME NEW ns, NEW f, NEW g, NEW i,
         \A n \in DOMAIN ns[i + 1].inputs :
           f[ns[i + 1].inputs[n]] = g[ns[i + 1].inputs[n]]
  PROVE  TermFrom(ns, f, i) = TermFrom(ns, g, i)
<1>1. Through(f, ns[i + 1].inputs) = Through(g, ns[i + 1].inputs)
  BY DEF Through
<1> QED
  BY <1>1, Zenon DEF TermFrom

(* Where inputs come first, the recursion has a solution. *)
LEMMA TermsExist ==
  ASSUME NEW ns, InputsBefore(ns)
  PROVE  \E f : f = [i \in 0 .. (Len(ns) - 1) |-> TermFrom(ns, f, i)]
<1> DEFINE SolvesTo(f, k) == \A i \in 0 .. (k - 1) : f[i] = TermFrom(ns, f, i)
           Missing == {k \in 0 .. Len(ns) : ~ \E f : SolvesTo(f, k)}
<1>1. Len(ns) \in Nat
  BY DEF InputsBefore
<1>2. Missing = {}
  <2> SUFFICES ASSUME Missing # {} PROVE FALSE
    OBVIOUS
  <2>1. PICK k \in Missing : \A m \in Missing : k <= m
    <3>1. Missing \subseteq Nat
      BY <1>1
    <3> HIDE DEF Missing
    <3> QED
      BY <3>1, LeastMember
  <2>2. k \in Nat /\ k <= Len(ns) /\ ~ \E f : SolvesTo(f, k)
    BY <1>1
  <2>3. k # 0
    <3>1. SolvesTo(<<>>, 0)
      OBVIOUS
    <3> QED
      BY <2>2, <3>1
  <2>4. k - 1 \in 0 .. Len(ns) /\ k - 1 \notin Missing
    <3>1. k - 1 \in 0 .. Len(ns) /\ ~ (k <= k - 1)
      BY <1>1, <2>2, <2>3
    <3>2. k - 1 \notin Missing
      BY <3>1, <2>1, Zenon
    <3> QED
      BY <3>1, <3>2
  <2>5. PICK f : SolvesTo(f, k - 1)
    BY <2>4
  <2> DEFINE g == [i \in 0 .. (k - 1) |->
                     IF i < k - 1 THEN f[i] ELSE TermFrom(ns, f, k - 1)]
  <2> HIDE DEF Missing
  <2>6. /\ \A i \in 0 .. (k - 2) : g[i] = f[i]
        /\ g[k - 1] = TermFrom(ns, f, k - 1)
    BY <2>2, <2>3
  <2> HIDE DEF g
  <2>7. ASSUME NEW i \in 0 .. (k - 1)
        PROVE  g[i] = TermFrom(ns, g, i)
    <3>1. i \in 0 .. (Len(ns) - 1)
      BY <1>1, <2>2
    <3>2. \A n \in DOMAIN ns[i + 1].inputs : ns[i + 1].inputs[n] \in 0 .. (i - 1)
      BY <3>1 DEF InputsBefore
    <3>3. \A n \in DOMAIN ns[i + 1].inputs :
            f[ns[i + 1].inputs[n]] = g[ns[i + 1].inputs[n]]
      <4> SUFFICES ASSUME NEW n \in DOMAIN ns[i + 1].inputs
                   PROVE  f[ns[i + 1].inputs[n]] = g[ns[i + 1].inputs[n]]
        OBVIOUS
      <4>1. ns[i + 1].inputs[n] \in 0 .. (i - 1)
        BY <3>2
      <4>2. ns[i + 1].inputs[n] \in 0 .. (k - 2)
        BY <4>1, <2>2
      <4> QED
        BY <4>2, <2>6
    <3>4. TermFrom(ns, f, i) = TermFrom(ns, g, i)
      BY <3>3, TermFromInputs
    <3>5. g[i] = TermFrom(ns, f, i)
      <4>1. CASE i \in 0 .. (k - 2)
        <5>1. i \in 0 .. ((k - 1) - 1)
          BY <4>1, <2>2
        <5> QED
          BY <5>1, <4>1, <2>5, <2>6
      <4>2. CASE i = k - 1
        BY <4>2, <2>6
      <4> QED
        BY <4>1, <4>2, <2>2
    <3> QED
      BY <3>4, <3>5
  <2>8. SolvesTo(g, k)
    BY <2>7
  <2> QED
    BY <2>2, <2>8
<1>3. PICK f : SolvesTo(f, Len(ns))
  <2>1. Len(ns) \in 0 .. Len(ns)
    BY <1>1
  <2> QED
    BY <2>1, <1>2, Zenon
<1> DEFINE h == [i \in 0 .. (Len(ns) - 1) |-> f[i]]
<1>4. ASSUME NEW i \in 0 .. (Len(ns) - 1)
      PROVE  h[i] = TermFrom(ns, h, i)
  <2>1. \A n \in DOMAIN ns[i + 1].inputs : ns[i + 1].inputs[n] \in 0 .. (i - 1)
    BY DEF InputsBefore
  <2>2. \A n \in DOMAIN ns[i + 1].inputs :
          f[ns[i + 1].inputs[n]] = h[ns[i + 1].inputs[n]]
    BY <1>1, <2>1
  <2>3. TermFrom(ns, f, i) = TermFrom(ns, h, i)
    BY <2>2, TermFromInputs
  <2> QED
    BY <1>3, <2>3
<1>5. DOMAIN h = 0 .. (Len(ns) - 1) /\ h = [i \in DOMAIN h |-> h[i]]
  OBVIOUS
<1> HIDE DEF h
<1>6. h = [i \in 0 .. (Len(ns) - 1) |-> TermFrom(ns, h, i)]
  BY <1>4, <1>5
<1> QED
  BY <1>6

(* The recursion equation of the terms. *)
LEMMA TermsEquation ==
  ASSUME NEW ns, InputsBefore(ns), NEW i \in 0 .. (Len(ns) - 1)
  PROVE  Terms(ns)[i] = TermFrom(ns, Terms(ns), i)
<1>1. Terms(ns) = [j \in 0 .. (Len(ns) - 1) |-> TermFrom(ns, Terms(ns), j)]
  BY TermsExist, TermsChosen
<1> QED
  BY <1>1, Zenon

ValuesOf(term) == {term[i] : i \in Nat}

(* The terms a node reads are a sequence, as long as its inputs. *)
LEMMA ArgsOfInputs ==
  ASSUME NEW inputs \in Seq(Nat), NEW term
  PROVE  /\ Through(term, inputs) \in Seq(ValuesOf(term))
         /\ Len(Through(term, inputs)) = Len(inputs)
         /\ DOMAIN Through(term, inputs) = DOMAIN inputs
         /\ \A n \in DOMAIN inputs : Through(term, inputs)[n] = term[inputs[n]]
<1>1. DOMAIN inputs = 1 .. Len(inputs) /\ Len(inputs) \in Nat
  OBVIOUS
<1>2. /\ DOMAIN Through(term, inputs) = DOMAIN inputs
      /\ \A n \in DOMAIN inputs : Through(term, inputs)[n] = term[inputs[n]]
  BY DEF Through
<1>3. \A n \in DOMAIN inputs : inputs[n] \in Nat
  OBVIOUS
<1>4. Through(term, inputs) \in [1 .. Len(inputs) -> ValuesOf(term)]
  BY <1>1, <1>3 DEF Through, ValuesOf
<1> QED
  BY <1>1, <1>2, <1>4, LenProperties, SeqDef

(* Nodes that are added later leave the terms of the nodes before. *)
LEMMA TermsOfPrefix ==
  ASSUME NEW ns, NEW ms, InputsBefore(ns), InputsBefore(ms), Len(ns) <= Len(ms),
         \A i \in 0 .. (Len(ns) - 1) : ms[i + 1] = ns[i + 1]
  PROVE  \A i \in 0 .. (Len(ns) - 1) : Terms(ms)[i] = Terms(ns)[i]
<1> DEFINE Differ == {i \in 0 .. (Len(ns) - 1) : Terms(ms)[i] # Terms(ns)[i]}
<1> SUFFICES ASSUME Differ # {} PROVE FALSE
  OBVIOUS
<1>1. Len(ns) \in Nat /\ Len(ms) \in Nat
  BY DEF InputsBefore
<1>2. PICK i \in Differ : \A j \in Differ : i <= j
  <2>1. Differ \subseteq Nat
    BY <1>1
  <2> HIDE DEF Differ
  <2> QED
    BY <2>1, LeastMember
<1>3. i \in 0 .. (Len(ns) - 1) /\ i \in 0 .. (Len(ms) - 1) /\ i \in Nat
  BY <1>1
<1>4. \A n \in DOMAIN ns[i + 1].inputs : ns[i + 1].inputs[n] \in 0 .. (i - 1)
  BY <1>3 DEF InputsBefore
<1>5. \A n \in DOMAIN ns[i + 1].inputs :
        Terms(ms)[ns[i + 1].inputs[n]] = Terms(ns)[ns[i + 1].inputs[n]]
  BY SMTT(30), <1>1, <1>2, <1>3, <1>4
<1>6. TermFrom(ns, Terms(ms), i) = TermFrom(ns, Terms(ns), i)
  BY <1>5, TermFromInputs
<1>7. ms[i + 1] = ns[i + 1]
  BY <1>3
<1>8. TermFrom(ms, Terms(ms), i) = TermFrom(ns, Terms(ms), i)
  BY <1>7, Zenon DEF TermFrom
<1>9. Terms(ms)[i] = Terms(ns)[i]
  BY <1>3, <1>6, <1>8, TermsEquation
<1> QED
  BY <1>9

-----------------------------------------------------------------------------
(* Recorded keys: an operator over its inputs, no stage.                   *)

PlainKeys == {WithInputs(op, inputs) : op \in Operators, inputs \in Seq(Nat)}

(* The token of a key does not depend on its inputs. *)
LEMMA TokenKept ==
  ASSUME NEW op \in Operators, NEW inputs
  PROVE  Token(WithInputs(op, inputs)) = Token(op)
<1>1. CASE op.kind = "source"
  BY <1>1 DEF WithInputs
<1>2. CASE op.kind # "source"
  <2> DEFINE k == WithInputs(op, inputs)
  <2>1. /\ k.kind = op.kind /\ k.name = op.name /\ k.params = op.params
        /\ k.prep = op.prep /\ k.members = op.members
    BY <1>2 DEF WithInputs, Operators
  <2> QED
    BY <2>1 DEF Token
<1> QED
  BY <1>1, <1>2

(* A recorded key is its operator over its inputs. *)
LEMMA KeyIsOperatorOverInputs ==
  ASSUME NEW k \in PlainKeys
  PROVE  /\ k = [Operator(k) EXCEPT !.inputs = k.inputs]
         /\ Operator(k) \in Operators
         /\ k.inputs \in Seq(Nat)
         /\ k.kind = Operator(k).kind
         /\ Token(Operator(k)) = Token(k)
         /\ k.kind = "source" => k.inputs = <<>>
<1>1. PICK op \in Operators, inputs \in Seq(Nat) : k = WithInputs(op, inputs)
  BY DEF PlainKeys
<1>2. k = [op EXCEPT !.inputs = k.inputs] /\ op.inputs = <<>> /\ k.inputs \in {<<>>, inputs}
      /\ (k.kind = "source" => k.inputs = <<>>)
  <2>1. CASE op.kind = "source"
    BY <1>1, <2>1 DEF WithInputs, Operators
  <2>2. CASE op.kind # "source"
    BY <1>1, <2>2 DEF WithInputs, Operators
  <2> QED
    BY <2>1, <2>2 DEF Operators
<1>3. Operator(k) = op /\ k.kind = op.kind
  BY <1>2 DEF Operators, Operator
<1>4. Token(k) = Token(op)
  BY <1>1, TokenKept
<1>5. <<>> \in Seq(Nat)
  OBVIOUS
<1> QED
  BY <1>2, <1>3, <1>4, <1>5

(* Mapping the inputs of a recorded key keeps its operator and its token. *)
LEMMA MappedKey ==
  ASSUME NEW k \in PlainKeys, NEW inputs \in Seq(Nat),
         k.kind = "source" => inputs = <<>>
  PROVE  /\ WithInputs(k, inputs) \in PlainKeys
         /\ WithInputs(k, inputs).inputs = inputs
         /\ Operator(WithInputs(k, inputs)) = Operator(k)
         /\ Token(WithInputs(k, inputs)) = Token(k)
<1>1. PICK op \in Operators, given \in Seq(Nat) : k = WithInputs(op, given)
  BY DEF PlainKeys
<1>2. WithInputs(k, inputs) = WithInputs(op, inputs)
  BY <1>1 DEF WithInputs, Operators
<1>3. WithInputs(k, inputs).inputs = inputs
  BY <1>1 DEF WithInputs, Operators
<1>4. Operator(WithInputs(k, inputs)) = Operator(k)
  BY <1>1 DEF WithInputs, Operators, Operator
<1>5. Token(WithInputs(k, inputs)) = Token(k)
  BY <1>1, <1>2, TokenKept
<1> QED
  BY <1>2, <1>3, <1>4, <1>5 DEF PlainKeys

(* Keys with one operator and one list of inputs are one key. *)
LEMMA OperatorAndInputsName ==
  ASSUME NEW j \in PlainKeys, NEW k \in PlainKeys,
         Operator(j) = Operator(k), j.inputs = k.inputs
  PROVE  j = k
BY KeyIsOperatorOverInputs

-----------------------------------------------------------------------------
(* The laws.                                                               *)

(* A token says whether its operator is an op. *)
LEMMA TokenOfOp ==
  ASSUME NEW op \in Operators
  PROVE  op.kind = "op" <=> Token(op)[1] = "op"
BY DEF Operators, Token

(* The tokens of identities are tokens of ops, and no symmetric ones. *)
LEMMA IdentityTokens ==
  ASSUME NEW token \in IDENTITY_TOKENS
  PROVE  token[1] = "op" /\ ~ SymmetricToken(token)
<1>1. token[3] # "" /\ token[1] = "op"
  <2>1. CASE token = <<"op", "add", "scalar=0.0;side=r">>
    BY <2>1
  <2>2. CASE token = <<"op", "add", "scalar=0.0;side=l">>
    BY <2>2
  <2>3. CASE token = <<"op", "mul", "scalar=1.0;side=r">>
    BY <2>3
  <2>4. CASE token = <<"op", "mul", "scalar=1.0;side=l">>
    BY <2>4
  <2> QED
    BY <2>1, <2>2, <2>3, <2>4 DEF IDENTITY_TOKENS
<1> QED
  BY <1>1 DEF SymmetricToken

(* An identity op of one input is its input. *)
LEMMA ApplyIdentity ==
  ASSUME NEW op \in Operators, Token(op) \in IDENTITY_TOKENS, NEW args, Len(args) = 1
  PROVE  Apply(op, args) = args[1]
BY TokenOfOp, IdentityTokens, Zenon DEF Apply

(* A symmetric op of two inputs has them in no order. *)
LEMMA ApplySymmetric ==
  ASSUME NEW op \in Operators, SymmetricToken(Token(op)), NEW args, Len(args) = 2
  PROVE  Apply(op, args) = [op |-> op, args |-> <<>>, unordered |-> ToSet(args)]
<1>1. op.kind = "op"
  BY TokenOfOp DEF SymmetricToken
<1>2. ~ (Token(op) \in IDENTITY_TOKENS)
  BY IdentityTokens
<1> QED
  BY <1>1, <1>2, Zenon DEF Apply

(* Any other operator has its inputs in order. *)
LEMMA ApplyOrdered ==
  ASSUME NEW op \in Operators, NEW args,
         ~ (Token(op) \in IDENTITY_TOKENS /\ Len(args) = 1),
         ~ (SymmetricToken(Token(op)) /\ Len(args) = 2)
  PROVE  Apply(op, args) = [op |-> op, args |-> args, unordered |-> {}]
BY Zenon DEF Apply

(* The term of a recorded key is its operator applied to what it reads. *)
LEMMA PlainKeyTerm ==
  ASSUME NEW k \in PlainKeys, NEW args
  PROVE  KeyTerm(k, args) = Apply(Operator(k), args)
<1>1. k.kind # "stage"
  BY KeyIsOperatorOverInputs DEF Operators
<1> QED
  BY <1>1, Zenon DEF KeyTerm

\* Terms are equal by the laws: the second is the first, its commuted twin.
SameArgs(op, xs, ys) ==
  \/ xs = ys
  \/ /\ SymmetricToken(Token(op)) /\ Len(xs) = 2 /\ Len(ys) = 2
     /\ xs[1] = ys[2] /\ xs[2] = ys[1]

(* What the symmetry law makes equal has one term. *)
LEMMA SameArgsSameTerm ==
  ASSUME NEW op \in Operators, NEW T, NEW xs \in Seq(T), NEW ys \in Seq(T),
         SameArgs(op, xs, ys)
  PROVE  Apply(op, xs) = Apply(op, ys)
<1>1. CASE xs = ys
  BY <1>1
<1>2. CASE /\ SymmetricToken(Token(op)) /\ Len(xs) = 2 /\ Len(ys) = 2
           /\ xs[1] = ys[2] /\ xs[2] = ys[1]
  <2>1. DOMAIN xs = {1, 2} /\ DOMAIN ys = {1, 2}
    BY <1>2
  <2>2. ToSet(xs) = ToSet(ys)
    BY <1>2, <2>1 DEF ToSet
  <2>3. /\ Apply(op, xs) = [op |-> op, args |-> <<>>, unordered |-> ToSet(xs)]
        /\ Apply(op, ys) = [op |-> op, args |-> <<>>, unordered |-> ToSet(ys)]
    BY <1>2, ApplySymmetric
  <2> QED
    BY <2>2, <2>3
<1> QED
  BY <1>1, <1>2 DEF SameArgs

(* And nothing else has, but identities: a term gives back what it is made *)
(* of.                                                                     *)
LEMMA SameTermSameArgs ==
  ASSUME NEW f \in Operators, NEW g \in Operators,
         NEW T, NEW xs \in Seq(T), NEW ys \in Seq(T),
         ~ (Token(f) \in IDENTITY_TOKENS /\ Len(xs) = 1),
         ~ (Token(g) \in IDENTITY_TOKENS /\ Len(ys) = 1),
         Apply(f, xs) = Apply(g, ys)
  PROVE  f = g /\ SameArgs(f, xs, ys)
<1> DEFINE SymF == SymmetricToken(Token(f)) /\ Len(xs) = 2
           SymG == SymmetricToken(Token(g)) /\ Len(ys) = 2
           a == Apply(f, xs)
           b == Apply(g, ys)
<1>1. /\ a.op = f
      /\ SymF => a.args = <<>> /\ a.unordered = ToSet(xs)
      /\ ~ SymF => a.args = xs /\ a.unordered = {}
  <2>1. CASE SymF
    <3>1. a = [op |-> f, args |-> <<>>, unordered |-> ToSet(xs)]
      BY <2>1, ApplySymmetric
    <3> HIDE DEF a
    <3> QED
      BY <2>1, <3>1
  <2>2. CASE ~ SymF
    <3>1. a = [op |-> f, args |-> xs, unordered |-> {}]
      BY <2>2, ApplyOrdered
    <3> HIDE DEF a
    <3> QED
      BY <2>2, <3>1
  <2> QED
    BY <2>1, <2>2
<1>2. /\ b.op = g
      /\ SymG => b.args = <<>> /\ b.unordered = ToSet(ys)
      /\ ~ SymG => b.args = ys /\ b.unordered = {}
  <2>1. CASE SymG
    <3>1. b = [op |-> g, args |-> <<>>, unordered |-> ToSet(ys)]
      BY <2>1, ApplySymmetric
    <3> HIDE DEF b
    <3> QED
      BY <2>1, <3>1
  <2>2. CASE ~ SymG
    <3>1. b = [op |-> g, args |-> ys, unordered |-> {}]
      BY <2>2, ApplyOrdered
    <3> HIDE DEF b
    <3> QED
      BY <2>2, <3>1
  <2> QED
    BY <2>1, <2>2
<1>3. a = b
  OBVIOUS
<1> HIDE DEF a, b
<1>4. f = g
  BY <1>1, <1>2, <1>3
<1>5. SymF => DOMAIN xs = {1, 2} /\ ToSet(xs) = {xs[1], xs[2]}
  BY DEF ToSet
<1>6. SymG => DOMAIN ys = {1, 2} /\ ToSet(ys) = {ys[1], ys[2]}
  BY DEF ToSet
<1>7. CASE SymF /\ SymG
  <2>1. {xs[1], xs[2]} = {ys[1], ys[2]}
    BY <1>1, <1>2, <1>3, <1>5, <1>6, <1>7
  <2>2. (xs[1] = ys[1] /\ xs[2] = ys[2]) \/ (xs[1] = ys[2] /\ xs[2] = ys[1])
    BY <2>1
  <2>3. CASE xs[1] = ys[1] /\ xs[2] = ys[2]
    <3>1. DOMAIN xs = DOMAIN ys /\ \A n \in DOMAIN xs : xs[n] = ys[n]
      BY <1>5, <1>6, <1>7, <2>3
    <3>2. xs = ys
      BY <3>1
    <3> QED
      BY <1>4, <3>2 DEF SameArgs
  <2>4. CASE xs[1] = ys[2] /\ xs[2] = ys[1]
    BY <1>4, <1>7, <2>4 DEF SameArgs
  <2> QED
    BY <2>2, <2>3, <2>4
<1>8. CASE ~ SymF /\ ~ SymG
  BY <1>1, <1>2, <1>3, <1>4, <1>8 DEF SameArgs
<1>9. CASE SymF /\ ~ SymG
  <2>1. a.unordered = {xs[1], xs[2]}
    BY <1>1, <1>5, <1>9
  <2>2. a.unordered = {}
    BY <1>2, <1>3, <1>9
  <2> QED
    BY <2>1, <2>2
<1>10. CASE ~ SymF /\ SymG
  <2>1. b.unordered = {ys[1], ys[2]}
    BY <1>2, <1>6, <1>10
  <2>2. b.unordered = {}
    BY <1>1, <1>3, <1>10
  <2> QED
    BY <2>1, <2>2
<1> QED
  BY <1>7, <1>8, <1>9, <1>10

-----------------------------------------------------------------------------
(* Keys of a store: recorded keys, and the stages of a reduced one.        *)

\* A key that a store holds: one that add_* recorded, or a stage.
StageKey(k) ==
  \E members, inputs : /\ Len(members) \in Nat /\ inputs \in Seq(Nat)
                       /\ k = Stage(members, inputs)
StoreKey(k) == k \in PlainKeys \/ StageKey(k)

(* A key over other inputs. *)
LEMMA KeyOverInputs ==
  ASSUME NEW kind, NEW name, NEW params, NEW prep, NEW members, NEW given, NEW inputs
  PROVE  [NodeKey(kind, name, params, prep, members, given) EXCEPT !.inputs = inputs]
           = NodeKey(kind, name, params, prep, members, inputs)
BY DEF NodeKey

(* What a stage is made of; over other inputs it is a stage of the same members. *)
LEMMA StageParts ==
  ASSUME NEW members, NEW given, NEW inputs
  PROVE  /\ [Stage(members, given) EXCEPT !.inputs = inputs] = Stage(members, inputs)
         /\ Stage(members, inputs).kind = "stage"
         /\ Stage(members, inputs).members = members
         /\ Stage(members, inputs).inputs = inputs
<1>1. [Stage(members, given) EXCEPT !.inputs = inputs] = Stage(members, inputs)
  <2>1. [NodeKey("stage", "", "", <<>>, members, given) EXCEPT !.inputs = inputs]
           = NodeKey("stage", "", "", <<>>, members, inputs)
    <3> DEFINE kind == "stage"
               none == ""
               nothing == <<>>
    <3> HIDE DEF kind, none, nothing
    <3>1. [NodeKey(kind, none, none, nothing, members, given) EXCEPT !.inputs = inputs]
            = NodeKey(kind, none, none, nothing, members, inputs)
      BY KeyOverInputs
    <3> QED
      BY <3>1 DEF kind, none, nothing
  <2> QED
    BY <2>1 DEF Stage
<1>2. /\ Stage(members, inputs).kind = "stage"
      /\ Stage(members, inputs).members = members
      /\ Stage(members, inputs).inputs = inputs
  BY DEF Stage, NodeKey
<1> QED
  BY <1>1, <1>2

(* The operator of a stage. *)
LEMMA StageOperator ==
  ASSUME NEW members, NEW given
  PROVE  Operator(Stage(members, given)) = Stage(members, <<>>)
BY StageParts DEF Operator

(* A key of a store is its operator over its inputs. *)
LEMMA StoreKeyShape ==
  ASSUME NEW k, StoreKey(k)
  PROVE  /\ k = [Operator(k) EXCEPT !.inputs = k.inputs]
         /\ k.inputs \in Seq(Nat)
         /\ k.kind = Operator(k).kind /\ k.members = Operator(k).members
         /\ Token(Operator(k)) = Token(k)
         /\ k.kind = "source" => k.inputs = <<>>
         /\ k.kind \in {"source", "op", "reduction", "external", "stage"}
         /\ k.kind # "stage" => k \in PlainKeys
         /\ k.kind = "stage" => Len(k.members) \in Nat
<1>1. CASE k \in PlainKeys
  <2>1. /\ Operator(k) \in Operators /\ k.kind = Operator(k).kind
        /\ k = [Operator(k) EXCEPT !.inputs = k.inputs]
    BY <1>1, KeyIsOperatorOverInputs
  <2>2. k.kind \in {"source", "op", "reduction", "external"}
    BY <2>1 DEF Operators
  <2>3. k.members = Operator(k).members
    BY <2>1 DEF Operators
  <2> QED
    BY <1>1, <2>2, <2>3, KeyIsOperatorOverInputs
<1>2. CASE StageKey(k)
  <2>1. PICK members, inputs : /\ Len(members) \in Nat /\ inputs \in Seq(Nat)
                               /\ k = Stage(members, inputs)
    BY <1>2 DEF StageKey
  <2>2. /\ k.kind = "stage" /\ k.members = members /\ k.inputs = inputs
        /\ k = Stage(members, k.inputs)
    BY <2>1, StageParts
  <2>3. /\ Operator(k).kind = "stage" /\ Operator(k).members = members
        /\ [Operator(k) EXCEPT !.inputs = k.inputs] = Stage(members, k.inputs)
    BY <2>1, StageOperator, StageParts
  <2>4. Token(Operator(k)) = Token(k)
    BY <2>2, <2>3 DEF Token
  <2> QED
    BY <2>1, <2>2, <2>3, <2>4
<1> QED
  BY <1>1, <1>2 DEF StoreKey

(* Keys of one operator compute the same of what they read. *)
LEMMA SameOperatorSameTerm ==
  ASSUME NEW j, NEW k, StoreKey(j), StoreKey(k), Operator(j) = Operator(k), NEW args
  PROVE  KeyTerm(j, args) = KeyTerm(k, args)
<1>1. j.kind = k.kind /\ j.members = k.members
  BY StoreKeyShape
<1> QED
  BY <1>1, Zenon DEF KeyTerm

(* The key of an op is one that was recorded, and its term is its operator *)
(* applied to what it reads.                                               *)
LEMMA OpKey ==
  ASSUME NEW k, StoreKey(k), Token(k)[1] = "op"
  PROVE  /\ k \in PlainKeys /\ Operator(k) \in Operators /\ k.kind = "op"
         /\ \A args : KeyTerm(k, args) = Apply(Operator(k), args)
<1>1. k.kind \in {"source", "op", "reduction", "external", "stage"}
  BY StoreKeyShape
<1>2. k.kind = "op"
  BY <1>1 DEF Token
<1>3. k \in PlainKeys
  BY <1>2, StoreKeyShape
<1> QED
  BY <1>2, <1>3, KeyIsOperatorOverInputs, PlainKeyTerm

(* A key of a store over other inputs is a key of one operator with it. *)
LEMMA MappedStoreKey ==
  ASSUME NEW k, StoreKey(k), NEW inputs \in Seq(Nat), k.kind = "source" => inputs = <<>>
  PROVE  /\ StoreKey(WithInputs(k, inputs))
         /\ WithInputs(k, inputs).inputs = inputs
         /\ Operator(WithInputs(k, inputs)) = Operator(k)
         /\ Token(WithInputs(k, inputs)) = Token(k)
         /\ \A args : KeyTerm(WithInputs(k, inputs), args) = KeyTerm(k, args)
<1>1. /\ StoreKey(WithInputs(k, inputs))
      /\ WithInputs(k, inputs).inputs = inputs
      /\ Operator(WithInputs(k, inputs)) = Operator(k)
  <2>1. CASE k \in PlainKeys
    BY <2>1, MappedKey DEF StoreKey
  <2>2. CASE StageKey(k)
    <3>1. PICK members, given : /\ Len(members) \in Nat /\ given \in Seq(Nat)
                                /\ k = Stage(members, given)
      BY <2>2 DEF StageKey
    <3>2. WithInputs(k, inputs) = Stage(members, inputs)
      BY <3>1, StageParts DEF WithInputs
    <3>3. Stage(members, inputs).inputs = inputs
      BY StageParts
    <3>4. Operator(Stage(members, inputs)) = Operator(Stage(members, given))
      BY StageOperator
    <3> QED
      BY <3>1, <3>2, <3>3, <3>4 DEF StoreKey, StageKey
  <2> QED
    BY <2>1, <2>2 DEF StoreKey
<1>2. Token(WithInputs(k, inputs)) = Token(k)
  BY <1>1, StoreKeyShape
<1>3. \A args : KeyTerm(WithInputs(k, inputs), args) = KeyTerm(k, args)
  BY <1>1, SameOperatorSameTerm
<1> QED
  BY <1>1, <1>2, <1>3

(* The token tells a source from the other keys. *)
LEMMA SourceToken ==
  ASSUME NEW j, NEW k, StoreKey(j), StoreKey(k), Token(j) = Token(k), j.kind = "source"
  PROVE  k.kind = "source"
<1>1. k.kind \in {"source", "op", "reduction", "external", "stage"}
  BY StoreKeyShape
<1>2. Token(j)[1] = "src"
  BY DEF Token
<1>3. k.kind # "source" => Token(k)[1] # "src"
  BY <1>1 DEF Token
<1> QED
  BY <1>2, <1>3

(* Keys with one operator and one list of inputs are one key. *)
LEMMA StoreKeyNamed ==
  ASSUME NEW j, NEW k, StoreKey(j), StoreKey(k),
         Operator(j) = Operator(k), j.inputs = k.inputs
  PROVE  j = k
BY StoreKeyShape
=============================================================================
