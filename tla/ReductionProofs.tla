-------------------------- MODULE ReductionProofs --------------------------
(***************************************************************************)
(* The passes of the reduction keep the meaning of a graph, one pass after *)
(* the other: what the engine merges, what it extracts, CSE, stage fusion  *)
(* and the rebuild.                                                        *)
(*                                                                         *)
(* Meaning is carried through the passes by one function, term, from the   *)
(* ids a node was recorded with to terms: a graph means term when every    *)
(* node's term is its operator applied to the terms of what it reads.      *)
(***************************************************************************)
EXTENDS DenotationProofs, FiniteSetTheorems

\* The nodes of a store, recorded or reduced: each reads nodes before it.
StoreList(ns) ==
  /\ ns = [n \in 1 .. Len(ns) |-> ns[n]]
  /\ InputsBefore(ns)
  /\ \A n \in DOMAIN ns : StoreKey(ns[n])

\* An engine graph over some of the nodes of ns, inputs first.
GraphOf(g, ns) ==
  /\ DOMAIN g.node \subseteq IdsOf(ns)
  /\ \A i \in DOMAIN g.node :
       /\ g.node[i].token = Token(ns[i + 1])
       /\ g.node[i].inputs \in Seq(Nat)
       /\ Len(g.node[i].inputs) = Len(ns[i + 1].inputs)
       /\ \A n \in DOMAIN g.node[i].inputs :
            g.node[i].inputs[n] \in DOMAIN g.node /\ g.node[i].inputs[n] < i

\* Each node computes what its key does of what it reads.
Means(g, ns, term) ==
  \A i \in DOMAIN g.node : term[i] = KeyTerm(ns[i + 1], Through(term, g.node[i].inputs))

\* A token of the graph names one operator.
TokensName(g, ns) ==
  \A i, j \in DOMAIN g.node :
    g.node[i].token = g.node[j].token => Operator(ns[i + 1]) = Operator(ns[j + 1])

(* The nodes of a store, their ids and their inputs. *)
LEMMA StoreNode ==
  ASSUME NEW ns, StoreList(ns), NEW i \in IdsOf(ns)
  PROVE  /\ i \in Nat /\ i < Len(ns) /\ Len(ns) \in Nat
         /\ StoreKey(ns[i + 1])
         /\ ns[i + 1].inputs \in Seq(Nat)
         /\ \A n \in DOMAIN ns[i + 1].inputs : ns[i + 1].inputs[n] \in 0 .. (i - 1)
<1>1. Len(ns) \in Nat /\ i \in Nat /\ i < Len(ns) /\ i + 1 \in DOMAIN ns
  <2>1. Len(ns) \in Nat /\ DOMAIN ns = 1 .. Len(ns)
    BY DEF StoreList, InputsBefore
  <2> QED
    BY <2>1 DEF IdsOf
<1>2. StoreKey(ns[i + 1])
  BY <1>1 DEF StoreList
<1>3. ns[i + 1].inputs \in Seq(Nat)
  BY <1>2, StoreKeyShape
<1> QED
  BY <1>1, <1>2, <1>3 DEF StoreList, InputsBefore, IdsOf

(* The term of a node of a store is what its key makes of what it reads. *)
LEMMA StoreTerm ==
  ASSUME NEW ns, StoreList(ns), NEW i \in IdsOf(ns)
  PROVE  Terms(ns)[i] = KeyTerm(ns[i + 1], Through(Terms(ns), ns[i + 1].inputs))
BY TermsEquation DEF StoreList, IdsOf, TermFrom

(* The ids, the operator and the arguments of a node of an engine graph. *)
LEMMA GraphNode ==
  ASSUME NEW g, NEW ns, StoreList(ns), GraphOf(g, ns), NEW i \in DOMAIN g.node
  PROVE  /\ i \in IdsOf(ns) /\ i \in Nat
         /\ StoreKey(ns[i + 1])
         /\ Token(Operator(ns[i + 1])) = g.node[i].token
         /\ g.node[i].inputs \in Seq(Nat)
         /\ Len(g.node[i].inputs) = Len(ns[i + 1].inputs)
         /\ \A n \in DOMAIN g.node[i].inputs :
              /\ g.node[i].inputs[n] \in DOMAIN g.node
              /\ g.node[i].inputs[n] \in Nat /\ g.node[i].inputs[n] < i
<1>1. i \in IdsOf(ns) /\ DOMAIN g.node \subseteq IdsOf(ns)
  BY DEF GraphOf
<1>2. StoreKey(ns[i + 1]) /\ i \in Nat
  BY <1>1, StoreNode
<1>3. \A j \in DOMAIN g.node : j \in Nat
  BY <1>1, StoreNode
<1> QED
  BY <1>1, <1>2, <1>3, StoreKeyShape DEF GraphOf

(* The node of an op: its operator, and its term. *)
LEMMA OpNode ==
  ASSUME NEW g, NEW ns, NEW term, StoreList(ns), GraphOf(g, ns), Means(g, ns, term),
         NEW i \in DOMAIN g.node, g.node[i].token[1] = "op"
  PROVE  /\ Operator(ns[i + 1]) \in Operators
         /\ term[i] = Apply(Operator(ns[i + 1]), Through(term, g.node[i].inputs))
<1>1. StoreKey(ns[i + 1])
  BY GraphNode
<1>2. Token(ns[i + 1])[1] = "op"
  BY DEF GraphOf
<1>3. /\ Operator(ns[i + 1]) \in Operators
      /\ \A args : KeyTerm(ns[i + 1], args) = Apply(Operator(ns[i + 1]), args)
  BY <1>1, <1>2, OpKey
<1> QED
  BY <1>3 DEF Means

-----------------------------------------------------------------------------
(* Dead code elimination.                                                  *)

(* The nodes of a store refer to earlier nodes. *)
LEMMA StoreOrdered ==
  ASSUME NEW ns, StoreList(ns), NEW n \in DOMAIN ns, NEW i \in ToSet(ns[n].inputs)
  PROVE  i \in IdsOf(ns) /\ i < n - 1
<1> DEFINE k == n - 1
<1>1. DOMAIN ns = 1 .. Len(ns) /\ Len(ns) \in Nat
  BY DEF StoreList, InputsBefore
<1>2. k \in IdsOf(ns) /\ k + 1 = n
  BY <1>1 DEF IdsOf
<1> HIDE DEF k
<1>3. PICK m \in DOMAIN ns[k + 1].inputs : ns[k + 1].inputs[m] = i
  BY <1>2 DEF ToSet
<1>4. i \in 0 .. (k - 1) /\ k \in Nat /\ k < Len(ns)
  BY <1>2, <1>3, StoreNode
<1>5. i \in IdsOf(ns) /\ i < k
  BY <1>1, <1>4 DEF IdsOf
<1> QED
  BY <1>5 DEF k

(* What the outputs reach has the inputs of its nodes. *)
LEMMA ReachableIsClosed ==
  ASSUME NEW ns, NEW os, Closed(ns, IdsOf(ns))
  PROVE  Closed(ns, Reachable(ns, os))
<1> SUFFICES ASSUME NEW i \in Reachable(ns, os), NEW j \in ToSet(ns[i + 1].inputs)
             PROVE  j \in Reachable(ns, os)
  BY DEF Closed
<1>1. j \in IdsOf(ns)
  BY DEF Closed, Reachable
<1>2. ASSUME NEW S \in SUBSET IdsOf(ns), ToSet(os) \subseteq S, Closed(ns, S)
      PROVE  j \in S
  <2>1. i \in S
    BY <1>2 DEF Reachable
  <2> QED
    BY <2>1, <1>2 DEF Closed
<1> QED
  BY <1>1, <1>2 DEF Reachable

(* Dead code elimination never drops an output that is a node. *)
LEMMA ReachableHasOutputs ==
  ASSUME NEW ns, NEW os, ToSet(os) \subseteq IdsOf(ns)
  PROVE  ToSet(os) \subseteq Reachable(ns, os)
BY DEF Reachable

(* And keeps nothing else: it is the least closed set with the outputs. *)
LEMMA ReachableIsLeast ==
  ASSUME NEW ns, NEW os, NEW S \in SUBSET IdsOf(ns),
         ToSet(os) \subseteq S, Closed(ns, S)
  PROVE  Reachable(ns, os) \subseteq S
BY DEF Reachable

(* The inputs of recorded nodes are recorded nodes. *)
LEMMA StoreClosed ==
  ASSUME NEW ns, StoreList(ns)
  PROVE  Closed(ns, IdsOf(ns))
<1> SUFFICES ASSUME NEW i \in IdsOf(ns), NEW j \in ToSet(ns[i + 1].inputs)
             PROVE  j \in IdsOf(ns)
  BY DEF Closed
<1>1. i \in Nat /\ i < Len(ns) /\ Len(ns) \in Nat /\ j \in 0 .. (i - 1)
  BY StoreNode DEF ToSet
<1> QED
  BY <1>1 DEF IdsOf

(* What is kept is a graph over the recorded nodes, with their meaning. *)
LEMMA KeptMeans ==
  ASSUME NEW ns, StoreList(ns), NEW os
  PROVE  /\ GraphOf(ToEngineGraph(ns, os), ns)
         /\ Means(ToEngineGraph(ns, os), ns, Terms(ns))
<1> DEFINE g == ToEngineGraph(ns, os)
<1>1. /\ DOMAIN g.node = Reachable(ns, os)
      /\ \A i \in DOMAIN g.node :
           g.node[i].token = Token(ns[i + 1]) /\ g.node[i].inputs = ns[i + 1].inputs
  BY DEF ToEngineGraph
<1> HIDE DEF g
<1>2. Closed(ns, Reachable(ns, os)) /\ Reachable(ns, os) \subseteq IdsOf(ns)
  BY StoreClosed, ReachableIsClosed DEF Reachable
<1>3. ASSUME NEW i \in DOMAIN g.node
      PROVE  /\ g.node[i].inputs \in Seq(Nat)
             /\ \A n \in DOMAIN g.node[i].inputs :
                  g.node[i].inputs[n] \in DOMAIN g.node /\ g.node[i].inputs[n] < i
  <2>1. i \in IdsOf(ns) /\ g.node[i].inputs = ns[i + 1].inputs
    BY <1>1, <1>2
  <2>2. \A n \in DOMAIN ns[i + 1].inputs : ns[i + 1].inputs[n] \in Reachable(ns, os)
    BY <1>1, <1>2 DEF Closed, ToSet
  <2>3. i \in Nat /\ \A n \in DOMAIN ns[i + 1].inputs : ns[i + 1].inputs[n] \in 0 .. (i - 1)
    BY <2>1, StoreNode
  <2>4. \A n \in DOMAIN ns[i + 1].inputs : ns[i + 1].inputs[n] < i
    BY <2>3
  <2> QED
    BY <2>1, <2>2, <2>4, <1>1, StoreNode
<1>4. GraphOf(g, ns)
  BY <1>1, <1>2, <1>3 DEF GraphOf
<1>5. Means(g, ns, Terms(ns))
  BY <1>1, <1>2, StoreTerm DEF Means
<1> QED
  BY <1>4, <1>5 DEF g

-----------------------------------------------------------------------------
(* The engine.                                                             *)

(* Inputs that are equal through the classes are equal through a map that is *)
(* coarser on them.                                                          *)
LEMMA CoarserInputs ==
  ASSUME NEW class, NEW label, NEW xs, NEW ys,
         \A n \in DOMAIN xs, m \in DOMAIN ys :
           class[xs[n]] = class[ys[m]] => label[xs[n]] = label[ys[m]],
         Through(class, xs) = Through(class, ys)
  PROVE  Through(label, xs) = Through(label, ys)
<1>1. [n \in DOMAIN xs |-> class[xs[n]]] = [n \in DOMAIN ys |-> class[ys[n]]]
  BY DEF Through
<1>2. DOMAIN xs = DOMAIN ys
  BY <1>1
<1>3. \A n \in DOMAIN xs : class[xs[n]] = class[ys[n]]
  BY <1>1
<1>4. \A n \in DOMAIN xs : label[xs[n]] = label[ys[n]]
  BY <1>2, <1>3
<1> QED
  BY <1>2, <1>4 DEF Through

(* What the rules make equal, given classes of equal nodes, is equal. *)
LEMMA EqualMeans ==
  ASSUME NEW ns, NEW g, NEW term, NEW class,
         StoreList(ns), GraphOf(g, ns), Means(g, ns, term), TokensName(g, ns),
         \A x, y \in DOMAIN g.node : class[x] = class[y] => term[x] = term[y],
         NEW i \in DOMAIN g.node, NEW j \in DOMAIN g.node, Equal(g, class, i, j)
  PROVE  term[i] = term[j]
<1> DEFINE in(k) == g.node[k].inputs
           op(k) == Operator(ns[k + 1])
<1>1. \A k \in DOMAIN g.node :
        /\ StoreKey(ns[k + 1]) /\ Token(op(k)) = g.node[k].token
        /\ in(k) \in Seq(Nat)
        /\ \A n \in DOMAIN in(k) : in(k)[n] \in DOMAIN g.node
  <2> SUFFICES ASSUME NEW k \in DOMAIN g.node
               PROVE  /\ StoreKey(ns[k + 1]) /\ Token(op(k)) = g.node[k].token
                      /\ in(k) \in Seq(Nat)
                      /\ \A n \in DOMAIN in(k) : in(k)[n] \in DOMAIN g.node
    OBVIOUS
  <2> QED
    BY GraphNode
<1>2. \A k \in DOMAIN g.node :
        g.node[k].token[1] = "op" =>
          op(k) \in Operators /\ term[k] = Apply(op(k), Through(term, in(k)))
  <2> SUFFICES ASSUME NEW k \in DOMAIN g.node, g.node[k].token[1] = "op"
               PROVE  op(k) \in Operators /\ term[k] = Apply(op(k), Through(term, in(k)))
    OBVIOUS
  <2> QED
    BY OpNode
<1>3. CASE Congruent(g, class, i, j)
  <2>1. op(i) = op(j)
    BY <1>3 DEF Congruent, TokensName
  <2>2. Through(class, in(i)) = Through(class, in(j))
    BY <1>3 DEF Congruent
  <2>3. Through(term, in(i)) = Through(term, in(j))
    <3>1. /\ \A n \in DOMAIN in(i) : in(i)[n] \in DOMAIN g.node
          /\ \A n \in DOMAIN in(j) : in(j)[n] \in DOMAIN g.node
      BY <1>1
    <3>2. \A n \in DOMAIN in(i), m \in DOMAIN in(j) :
            class[in(i)[n]] = class[in(j)[m]] => term[in(i)[n]] = term[in(j)[m]]
      BY <3>1
    <3> HIDE DEF in
    <3> QED
      BY <2>2, <3>2, CoarserInputs
  <2>4. KeyTerm(ns[i + 1], Through(term, in(i))) = KeyTerm(ns[j + 1], Through(term, in(j)))
    BY <1>1, <2>1, <2>3, SameOperatorSameTerm
  <2> QED
    BY <2>4 DEF Means
<1>4. CASE Commuted(g, class, i, j)
  <2>1. op(i) = op(j) /\ SymmetricToken(Token(op(i)))
    BY <1>1, <1>4 DEF Commuted, TokensName
  <2>9. g.node[i].token[1] = "op" /\ g.node[j].token[1] = "op"
    BY <1>4 DEF Commuted, SymmetricToken
  <2>2. /\ Len(in(i)) = 2 /\ Len(in(j)) = 2
        /\ class[in(i)[1]] = class[in(j)[2]] /\ class[in(i)[2]] = class[in(j)[1]]
    BY <1>4 DEF Commuted
  <2>3. {1, 2} \subseteq DOMAIN in(i) /\ {1, 2} \subseteq DOMAIN in(j)
    BY <1>1, <2>2
  <2>4. term[in(i)[1]] = term[in(j)[2]] /\ term[in(i)[2]] = term[in(j)[1]]
    BY <1>1, <2>2, <2>3
  <2>5. ASSUME NEW k \in {i, j}
        PROVE  /\ Through(term, in(k)) \in Seq(ValuesOf(term))
               /\ Len(Through(term, in(k))) = 2
               /\ Through(term, in(k))[1] = term[in(k)[1]]
               /\ Through(term, in(k))[2] = term[in(k)[2]]
    <3>1. in(k) \in Seq(Nat) /\ Len(in(k)) = 2 /\ 1 \in DOMAIN in(k) /\ 2 \in DOMAIN in(k)
      BY <1>1, <2>2, <2>3
    <3> HIDE DEF in
    <3> QED
      BY <3>1, ArgsOfInputs
  <2>6. SameArgs(op(i), Through(term, in(i)), Through(term, in(j)))
    BY <2>1, <2>4, <2>5 DEF SameArgs
  <2>7. /\ op(i) \in Operators /\ term[i] = Apply(op(i), Through(term, in(i)))
        /\ term[j] = Apply(op(j), Through(term, in(j)))
    BY <1>2, <2>9
  <2> HIDE DEF op, in
  <2>8. Apply(op(i), Through(term, in(i))) = Apply(op(i), Through(term, in(j)))
    BY <2>5, <2>6, <2>7, SameArgsSameTerm
  <2> QED
    BY <2>1, <2>7, <2>8
<1>5. CASE IsIdentityOf(g, i, j)
  <2>0. g.node[i].token[1] = "op"
    BY <1>5, IdentityTokens DEF IsIdentityOf
  <2>1. /\ Token(op(i)) \in IDENTITY_TOKENS /\ in(i) = <<j>> /\ op(i) \in Operators
        /\ term[i] = Apply(op(i), Through(term, in(i)))
    BY <1>1, <1>2, <1>5, <2>0 DEF IsIdentityOf
  <2>2. Through(term, <<j>>) = <<term[j]>>
    BY DEF Through
  <2>3. Apply(op(i), <<term[j]>>) = <<term[j]>>[1]
    <3>1. Len(<<term[j]>>) = 1
      OBVIOUS
    <3> HIDE DEF op
    <3> QED
      BY <2>1, <3>1, ApplyIdentity
  <2> QED
    BY <2>1, <2>2, <2>3
<1> QED
  BY <1>3, <1>4, <1>5 DEF Equal

(* Extraction by classes that are named by their earliest nodes is a graph. *)
LEMMA QuotientIsGraph ==
  ASSUME NEW ns, NEW g, NEW class, StoreList(ns), GraphOf(g, ns),
         class \in [DOMAIN g.node -> DOMAIN g.node],
         \A i \in DOMAIN g.node : class[i] <= i /\ class[class[i]] = class[i]
  PROVE  /\ DOMAIN Quotient(g, class).node = {k \in DOMAIN g.node : class[k] = k}
         /\ GraphOf(Quotient(g, class), ns)
         /\ \A i \in DOMAIN Quotient(g, class).node :
              Quotient(g, class).node[i].inputs = Through(class, g.node[i].inputs)
<1> DEFINE q == Quotient(g, class)
           D == DOMAIN g.node
<1>1. /\ DOMAIN q.node = {k \in D : class[k] = k}
      /\ \A i \in DOMAIN q.node :
           /\ q.node[i].token = g.node[i].token
           /\ q.node[i].inputs = Through(class, g.node[i].inputs)
  <2>1. q.node = [i \in {k \in D : class[k] = k} |->
                    [g.node[i] EXCEPT !.inputs = Through(class, @)]]
    BY DEF Quotient
  <2>2. DOMAIN q.node = {k \in D : class[k] = k}
    BY <2>1
  <2>3. ASSUME NEW i \in DOMAIN q.node
        PROVE  /\ q.node[i].token = g.node[i].token
               /\ q.node[i].inputs = Through(class, g.node[i].inputs)
    <3>1. q.node[i] = [g.node[i] EXCEPT !.inputs = Through(class, @)]
      BY <2>1, <2>2
    <3> QED
      BY <3>1
  <2> QED
    BY <2>2, <2>3
<1> HIDE DEF q
<1>2. ASSUME NEW i \in DOMAIN q.node
      PROVE  /\ q.node[i].token = Token(ns[i + 1])
             /\ q.node[i].inputs \in Seq(Nat)
             /\ Len(q.node[i].inputs) = Len(ns[i + 1].inputs)
             /\ \A n \in DOMAIN q.node[i].inputs :
                  q.node[i].inputs[n] \in DOMAIN q.node /\ q.node[i].inputs[n] < i
  <2> DEFINE in == g.node[i].inputs
  <2>1. i \in D /\ i \in Nat
    BY <1>1, GraphNode
  <2>2. /\ in \in Seq(Nat) /\ Len(in) = Len(ns[i + 1].inputs)
        /\ \A n \in DOMAIN in : in[n] \in D /\ in[n] \in Nat /\ in[n] < i
    BY <2>1, GraphNode, Zenon
  <2>3. DOMAIN in = 1 .. Len(in) /\ Len(in) \in Nat
    BY <2>2
  <2> HIDE DEF in
  <2> DEFINE out == Through(class, in)
  <2>4. out = [n \in DOMAIN in |-> class[in[n]]]
    BY DEF Through
  <2>5. DOMAIN out = DOMAIN in /\ \A n \in DOMAIN in : out[n] = class[in[n]]
    BY <2>4
  <2> HIDE DEF out
  <2>6. ASSUME NEW n \in DOMAIN in
        PROVE  out[n] \in Nat /\ out[n] < i /\ out[n] \in DOMAIN q.node
    <3>1. in[n] \in D /\ in[n] \in Nat /\ in[n] < i /\ out[n] = class[in[n]]
      BY <2>2, <2>5
    <3>2. class[in[n]] \in D /\ class[in[n]] \in Nat
      BY <3>1, GraphNode
    <3> QED
      BY <3>1, <3>2, <2>1, <1>1
  <2>7. out \in Seq(Nat) /\ Len(out) = Len(in)
    <3>1. out \in [1 .. Len(in) -> Nat]
      BY <2>3, <2>4, <2>5, <2>6
    <3> QED
      BY <3>1, <2>3, SeqDef, LenProperties
  <2>8. q.node[i].inputs = out /\ q.node[i].token = Token(ns[i + 1])
    BY <1>1, <2>1 DEF out, in, GraphOf
  <2> QED
    BY <2>2, <2>5, <2>6, <2>7, <2>8 DEF in
<1>3. GraphOf(q, ns)
  BY <1>1, <1>2 DEF GraphOf
<1> QED
  BY <1>1, <1>3 DEF q

(* Extraction by classes of equal nodes keeps what the nodes mean. *)
LEMMA QuotientMeans ==
  ASSUME NEW ns, NEW g, NEW term, NEW class,
         StoreList(ns), GraphOf(g, ns), Means(g, ns, term),
         class \in [DOMAIN g.node -> DOMAIN g.node],
         \A i \in DOMAIN g.node :
           class[i] <= i /\ class[class[i]] = class[i] /\ term[class[i]] = term[i]
  PROVE  /\ DOMAIN Quotient(g, class).node = {k \in DOMAIN g.node : class[k] = k}
         /\ GraphOf(Quotient(g, class), ns)
         /\ Means(Quotient(g, class), ns, term)
<1> DEFINE q == Quotient(g, class)
           D == DOMAIN g.node
<1>1. /\ DOMAIN q.node = {k \in D : class[k] = k} /\ GraphOf(q, ns)
      /\ \A i \in DOMAIN q.node : q.node[i].inputs = Through(class, g.node[i].inputs)
  <2>1. \A i \in D : class[i] <= i /\ class[class[i]] = class[i]
    OBVIOUS
  <2>2. /\ DOMAIN Quotient(g, class).node = {k \in DOMAIN g.node : class[k] = k}
        /\ GraphOf(Quotient(g, class), ns)
        /\ \A i \in DOMAIN Quotient(g, class).node :
             Quotient(g, class).node[i].inputs = Through(class, g.node[i].inputs)
    BY <2>1, QuotientIsGraph
  <2> QED
    BY <2>2
<1> HIDE DEF q
<1>2. ASSUME NEW i \in DOMAIN q.node
      PROVE  term[i] = KeyTerm(ns[i + 1], Through(term, q.node[i].inputs))
  <2> DEFINE in == g.node[i].inputs
  <2>1. i \in D
    BY <1>1
  <2>2. \A n \in DOMAIN in : in[n] \in D
    BY <2>1, GraphNode
  <2>3. Through(term, Through(class, in)) = Through(term, in)
    BY <2>2 DEF Through
  <2>4. term[i] = KeyTerm(ns[i + 1], Through(term, in))
    BY <2>1 DEF Means
  <2> QED
    BY <1>1, <2>3, <2>4
<1> QED
  BY <1>1, <1>2 DEF Means, q

(* Where no match of a rule is left unapplied, nodes with one term are in *)
(* one class.                                                             *)
LEMMA SaturatedClasses ==
  ASSUME NEW ns, NEW g, NEW term, NEW class,
         StoreList(ns), GraphOf(g, ns), Means(g, ns, term),
         \A i \in DOMAIN g.node : ns[i + 1] \in PlainKeys,
         \A i, j \in DOMAIN g.node : Equal(g, class, i, j) => class[i] = class[j]
  PROVE  \A i, j \in DOMAIN g.node : term[i] = term[j] => class[i] = class[j]
<1> DEFINE D == DOMAIN g.node
           Apart(i, j) == term[i] = term[j] /\ class[i] # class[j]
           Late == {i \in D : \E j \in D : j <= i /\ Apart(i, j)}
<1>1. \A i \in D : i \in Nat
  BY GraphNode
<1>2. Late = {}
  <2> SUFFICES ASSUME Late # {} PROVE FALSE
    OBVIOUS
  <2>1. PICK i \in Late : \A k \in Late : i <= k
    <3>1. Late \subseteq Nat
      BY <1>1
    <3> HIDE DEF Late
    <3> QED
      BY <3>1, LeastMember
  <2> DEFINE Early == {j \in D : j <= i /\ Apart(i, j)}
  <2>2. PICK j \in Early : \A k \in Early : j <= k
    <3>1. Early \subseteq Nat /\ Early # {}
      BY <1>1, <2>1
    <3> HIDE DEF Early
    <3> QED
      BY <3>1, LeastMember
  <2>3. /\ i \in D /\ j \in D /\ i \in Nat /\ j \in Nat /\ j <= i
        /\ term[i] = term[j] /\ class[i] # class[j]
    BY <1>1, <2>1, <2>2
  \* Of all that are apart: none are, both earlier; none is, with an earlier one.
  <2>4. \A a, b \in D : a < i /\ b < i /\ term[a] = term[b] => class[a] = class[b]
    <3> SUFFICES ASSUME NEW a \in D, NEW b \in D, a < i, b < i, Apart(a, b) PROVE FALSE
      OBVIOUS
    <3>1. a \in Nat /\ b \in Nat
      BY <1>1
    <3>2. CASE b <= a
      <4>1. a \in Late /\ ~ (i <= a)
        BY <3>1, <3>2, <2>3
      <4> QED
        BY <4>1, <2>1
    <3>3. CASE a <= b
      <4>1. b \in Late /\ ~ (i <= b)
        BY <3>1, <3>3, <2>3
      <4> QED
        BY <4>1, <2>1
    <3> QED
      BY <3>1, <3>2, <3>3
  <2>5. \A b \in D : b < j /\ term[i] = term[b] => class[i] = class[b]
    <3> SUFFICES ASSUME NEW b \in D, b < j, Apart(i, b) PROVE FALSE
      OBVIOUS
    <3>1. b <= i /\ ~ (j <= b)
      BY <1>1, <2>3
    <3>2. b \in Early
      BY <3>1
    <3> QED
      BY <3>1, <3>2, <2>2
  <2> HIDE DEF Late, Early
  <2> DEFINE in(k) == g.node[k].inputs
             op(k) == Operator(ns[k + 1])
             Redundant(k) == Token(op(k)) \in IDENTITY_TOKENS /\ Len(in(k)) = 1
  <2>6. ASSUME NEW k \in D
        PROVE  /\ op(k) \in Operators /\ Token(op(k)) = g.node[k].token
               /\ in(k) \in Seq(Nat)
               /\ \A n \in DOMAIN in(k) : in(k)[n] \in D /\ in(k)[n] \in Nat /\ in(k)[n] < k
               /\ term[k] = Apply(op(k), Through(term, in(k)))
    <3>1. ns[k + 1] \in PlainKeys
      OBVIOUS
    <3>2. term[k] = Apply(op(k), Through(term, in(k))) /\ op(k) \in Operators
      BY <3>1, PlainKeyTerm, KeyIsOperatorOverInputs DEF Means
    <3> QED
      BY <3>2, GraphNode
  \* An identity is in the class of its input, and has its term.
  <2>7. ASSUME NEW k \in D, Redundant(k)
        PROVE  /\ in(k)[1] \in D /\ in(k)[1] \in Nat /\ in(k)[1] < k
               /\ class[k] = class[in(k)[1]] /\ term[k] = term[in(k)[1]]
    <3>1. /\ in(k) \in Seq(Nat) /\ Len(in(k)) = 1 /\ 1 \in DOMAIN in(k)
          /\ in(k)[1] \in D /\ in(k)[1] \in Nat /\ in(k)[1] < k
      BY <2>6, <2>7
    <3>2. in(k) = <<in(k)[1]>>
      BY <3>1
    <3>3. Equal(g, class, k, in(k)[1])
      BY <2>6, <2>7, <3>2 DEF Equal, IsIdentityOf
    <3>4. class[k] = class[in(k)[1]]
      BY <3>1, <3>3
    <3>5. term[k] = Apply(op(k), Through(term, in(k))) /\ op(k) \in Operators
          /\ Token(op(k)) \in IDENTITY_TOKENS
      BY <2>6, <2>7
    <3> HIDE DEF in, op
    <3>6. Len(Through(term, in(k))) = 1 /\ Through(term, in(k))[1] = term[in(k)[1]]
      BY <3>1, ArgsOfInputs
    <3>7. Apply(op(k), Through(term, in(k))) = Through(term, in(k))[1]
      BY <3>5, <3>6, ApplyIdentity
    <3> QED
      BY <3>1, <3>4, <3>5, <3>6, <3>7
  <2>8. j < i
    BY <2>3
  <2>9. CASE Redundant(i)
    <3>1. class[in(i)[1]] = class[j]
      BY <2>3, <2>4, <2>7, <2>8, <2>9
    <3> QED
      BY <2>3, <2>7, <2>9, <3>1
  <2>10. CASE Redundant(j)
    <3>1. class[in(j)[1]] = class[i]
      BY <2>3, <2>5, <2>7, <2>10
    <3> QED
      BY <2>3, <2>7, <2>10, <3>1
  <2>11. CASE ~ Redundant(i) /\ ~ Redundant(j)
    <3> DEFINE xs == Through(term, in(i))
               ys == Through(term, in(j))
    <3>1. /\ op(i) \in Operators /\ op(j) \in Operators
          /\ in(i) \in Seq(Nat) /\ in(j) \in Seq(Nat)
          /\ Apply(op(i), xs) = Apply(op(j), ys)
      BY <2>3, <2>6
    <3> HIDE DEF op, in
    <3>2. /\ xs \in Seq(ValuesOf(term)) /\ Len(xs) = Len(in(i))
          /\ DOMAIN xs = DOMAIN in(i)
          /\ \A n \in DOMAIN in(i) : xs[n] = term[in(i)[n]]
      BY <3>1, ArgsOfInputs, ZenonT(30)
    <3>3. /\ ys \in Seq(ValuesOf(term)) /\ Len(ys) = Len(in(j))
          /\ DOMAIN ys = DOMAIN in(j)
          /\ \A n \in DOMAIN in(j) : ys[n] = term[in(j)[n]]
      BY <3>1, ArgsOfInputs, ZenonT(30)
    <3>4. op(i) = op(j) /\ SameArgs(op(i), xs, ys)
      <4> HIDE DEF xs, ys
      <4> QED
        BY <2>11, <3>1, <3>2, <3>3, SameTermSameArgs
    <3>5. \A n \in DOMAIN in(i), m \in DOMAIN in(j) :
            term[in(i)[n]] = term[in(j)[m]] => class[in(i)[n]] = class[in(j)[m]]
      <4> SUFFICES ASSUME NEW n \in DOMAIN in(i), NEW m \in DOMAIN in(j),
                          term[in(i)[n]] = term[in(j)[m]]
                   PROVE  class[in(i)[n]] = class[in(j)[m]]
        OBVIOUS
      <4>1. /\ in(i)[n] \in D /\ in(i)[n] < i /\ in(j)[m] \in D
            /\ in(j)[m] \in Nat /\ in(j)[m] < j
        BY <2>3, <2>6 DEF in
      <4> QED
        BY <4>1, <2>3, <2>4, <2>8
    <3>6. g.node[i].token = g.node[j].token /\ g.node[i].token = Token(op(i))
      BY <2>3, <2>6, <3>4
    <3>7. CASE xs = ys
      <4>1. Through(class, in(i)) = Through(class, in(j))
        BY <3>5, <3>7, CoarserInputs
      <4>2. Congruent(g, class, i, j)
        BY <3>6, <4>1 DEF Congruent, in
      <4> QED
        BY <2>3, <4>2 DEF Equal
    <3>8. CASE /\ SymmetricToken(Token(op(i))) /\ Len(xs) = 2 /\ Len(ys) = 2
               /\ xs[1] = ys[2] /\ xs[2] = ys[1]
      <4>1. Len(in(i)) = 2 /\ Len(in(j)) = 2
        BY <3>2, <3>3, <3>8
      <4>2. 1 \in DOMAIN in(i) /\ 2 \in DOMAIN in(i) /\ 1 \in DOMAIN in(j) /\ 2 \in DOMAIN in(j)
        BY <3>1, <4>1
      <4>3. term[in(i)[1]] = term[in(j)[2]] /\ term[in(i)[2]] = term[in(j)[1]]
        BY <3>2, <3>3, <3>8, <4>2
      <4>4. class[in(i)[1]] = class[in(j)[2]] /\ class[in(i)[2]] = class[in(j)[1]]
        BY <3>5, <4>2, <4>3
      <4>5. Commuted(g, class, i, j)
        BY <3>6, <3>8, <4>1, <4>4 DEF Commuted, in
      <4> QED
        BY <2>3, <4>5 DEF Equal
    <3> QED
      BY <3>4, <3>7, <3>8 DEF SameArgs
  <2> QED
    BY <2>9, <2>10, <2>11
<1> SUFFICES ASSUME NEW i \in D, NEW j \in D, Apart(i, j) PROVE FALSE
  OBVIOUS
<1>3. i \in Nat /\ j \in Nat
  BY <1>1
<1> QED
  BY <1>2, <1>3

-----------------------------------------------------------------------------
(* Common subexpressions.                                                  *)

\* G takes an approximation of a function from S to V to a better one: the
\* value at i depends on the values at lower ranks only.
Improves(G, S, V, rank, bound) ==
  /\ bound \in Nat /\ \A i \in S : rank[i] \in Nat /\ rank[i] < bound
  /\ [S -> V] # {}
  /\ \A f \in [S -> V] : G[f] \in [S -> V]
  /\ \A f, h \in [S -> V] : \A i \in S :
       (\A j \in S : rank[j] < rank[i] => f[j] = h[j]) => G[f][i] = G[h][i]

(* A recursion that looks at lower ranks only has a solution. *)
LEMMA RecursionSolved ==
  ASSUME NEW S, NEW V, NEW rank, NEW bound, NEW G, Improves(G, S, V, rank, bound)
  PROVE  \E f \in [S -> V] : f = G[f]
<1> DEFINE SolvesTo(f, k) == \A i \in S : rank[i] < k => f[i] = G[f][i]
           Missing == {k \in Nat : ~ \E f \in [S -> V] : SolvesTo(f, k)}
<1> USE DEF Improves
<1>1. Missing = {}
  <2> SUFFICES ASSUME Missing # {} PROVE FALSE
    OBVIOUS
  <2>1. PICK k \in Missing : \A m \in Missing : k <= m
    BY LeastMember
  <2>2. k # 0
    <3>1. PICK first \in [S -> V] : TRUE
      OBVIOUS
    <3>2. SolvesTo(first, 0)
      OBVIOUS
    <3> QED
      BY <3>2
  <2>3. k - 1 \in Nat /\ ~ (k <= k - 1)
    BY <2>2
  <2>4. PICK f \in [S -> V] : SolvesTo(f, k - 1)
    BY <2>1, <2>3
  <2> DEFINE h == G[f]
  <2>5. h \in [S -> V]
    OBVIOUS
  <2>6. ASSUME NEW i \in S, rank[i] < k
        PROVE  h[i] = G[h][i]
    <3>1. \A j \in S : rank[j] < rank[i] => f[j] = h[j]
      <4> SUFFICES ASSUME NEW j \in S, rank[j] < rank[i] PROVE f[j] = h[j]
        OBVIOUS
      <4>1. rank[j] < k - 1
        BY <2>3, <2>6
      <4> QED
        BY <2>4, <4>1
    <3> HIDE DEF h
    <3>2. G[f][i] = G[h][i]
      BY <2>5, <3>1
    <3> QED
      BY <3>2 DEF h
  <2>7. SolvesTo(h, k)
    BY <2>6
  <2> QED
    BY <2>5, <2>7
<1>2. PICK f \in [S -> V] : SolvesTo(f, bound)
  BY <1>1
<1>3. G[f] \in [S -> V] /\ \A i \in S : f[i] = G[f][i]
  BY <1>2
<1>4. f = G[f]
  BY <1>3
<1> QED
  BY <1>4

\* The earlier nodes that have the token and the mapped inputs of a node.
Twins(g, map, i) ==
  {j \in DOMAIN g.node :
     /\ j < i
     /\ g.node[j].token = g.node[i].token
     /\ Through(map, g.node[j].inputs) = Through(map, g.node[i].inputs)}

(* CSE maps a node to its first twin, by the ids the twins' inputs map to. *)
LEMMA CseMapEquation ==
  ASSUME NEW ns, NEW g, StoreList(ns), GraphOf(g, ns)
  PROVE  /\ CseMap(g) \in [DOMAIN g.node -> DOMAIN g.node]
         /\ \A i \in DOMAIN g.node :
              CseMap(g)[i] = IF Twins(g, CseMap(g), i) = {} THEN i
                             ELSE Min(Twins(g, CseMap(g), i))
<1> DEFINE D == DOMAIN g.node
           Body(f, i) == IF Twins(g, f, i) = {} THEN i ELSE Min(Twins(g, f, i))
           G == [f \in [D -> D] |-> [i \in D |-> Body(f, i)]]
           rank == [i \in D |-> i]
<1>1. Len(ns) \in Nat /\ \A i \in D : i \in Nat /\ i < Len(ns)
  BY GraphNode, StoreNode DEF StoreList, InputsBefore
<1>2. ASSUME NEW f, NEW i \in D
      PROVE  Body(f, i) \in D
  <2>1. CASE Twins(g, f, i) # {}
    <3>1. Twins(g, f, i) \subseteq Nat /\ Twins(g, f, i) \subseteq D
      BY <1>1 DEF Twins
    <3>2. \E n \in Twins(g, f, i) : \A m \in Twins(g, f, i) : n <= m
      BY <2>1, <3>1, LeastMember
    <3>3. Min(Twins(g, f, i)) \in Twins(g, f, i)
      BY <3>2 DEF Min
    <3> QED
      BY <2>1, <3>1, <3>3
  <2> QED
    BY <2>1
<1>3. \A f \in [D -> D] : G[f] \in [D -> D]
  BY <1>2
<1>4. ASSUME NEW f \in [D -> D], NEW h \in [D -> D], NEW i \in D,
             \A j \in D : rank[j] < rank[i] => f[j] = h[j]
      PROVE  G[f][i] = G[h][i]
  <2>1. \A j \in D : j <= i => Through(f, g.node[j].inputs) = Through(h, g.node[j].inputs)
    <3> SUFFICES ASSUME NEW j \in D, j <= i
                 PROVE  Through(f, g.node[j].inputs) = Through(h, g.node[j].inputs)
      OBVIOUS
    <3>1. \A n \in DOMAIN g.node[j].inputs :
            /\ g.node[j].inputs[n] \in D /\ g.node[j].inputs[n] \in Nat
            /\ g.node[j].inputs[n] < j
      BY GraphNode
    <3>2. \A a \in D : a < j => f[a] = h[a]
      <4> SUFFICES ASSUME NEW a \in D, a < j PROVE f[a] = h[a]
        OBVIOUS
      <4>1. rank[a] < rank[i]
        BY <1>1
      <4> QED
        BY <4>1, <1>4
    <3>3. \A n \in DOMAIN g.node[j].inputs : f[g.node[j].inputs[n]] = h[g.node[j].inputs[n]]
      BY <3>1, <3>2
    <3> QED
      BY <3>3 DEF Through
  <2>2. \A j \in D : j < i => j <= i
    BY <1>1
  <2>3. i <= i
    BY <1>1
  <2>4. ASSUME NEW j \in D, j < i
        PROVE  Through(f, g.node[j].inputs) = Through(f, g.node[i].inputs)
                 <=> Through(h, g.node[j].inputs) = Through(h, g.node[i].inputs)
    BY <2>1, <2>2, <2>3, <2>4, Zenon
  <2>5. Twins(g, f, i) = Twins(g, h, i)
    BY <2>4, Zenon DEF Twins
  <2> QED
    BY <2>5
<1>5. rank \in [D -> D] /\ \A i \in D : rank[i] \in Nat /\ rank[i] < Len(ns)
  BY <1>1
<1>6. \E f \in [D -> D] : f = G[f]
  <2>1. \A f, h \in [D -> D] : \A i \in D :
          (\A j \in D : rank[j] < rank[i] => f[j] = h[j]) => G[f][i] = G[h][i]
    BY <1>4
  <2> HIDE DEF G, rank, D
  <2>2. Improves(G, D, D, rank, Len(ns))
    BY <1>1, <1>3, <1>5, <2>1 DEF Improves
  <2> QED
    BY <2>2, RecursionSolved
<1>7. \E f : f \in [D -> D] /\ f = [i \in D |-> Body(f, i)]
  BY <1>6
<1>8. CseMap(g) = CHOOSE f : f = [i \in D |-> Body(f, i)]
  BY Zenon DEF CseMap, Twins
<1>9. CseMap(g) = [i \in D |-> Body(CseMap(g), i)]
  BY <1>7, <1>8, Zenon
<1> QED
  BY <1>2, <1>9

(* The first twin of a node. *)
LEMMA FirstTwin ==
  ASSUME NEW ns, NEW g, StoreList(ns), GraphOf(g, ns), NEW i \in DOMAIN g.node,
         Twins(g, CseMap(g), i) # {}
  PROVE  /\ CseMap(g)[i] \in Twins(g, CseMap(g), i)
         /\ \A j \in Twins(g, CseMap(g), i) : CseMap(g)[i] <= j
<1> DEFINE T == Twins(g, CseMap(g), i)
<1>1. CseMap(g)[i] = Min(T)
  BY CseMapEquation
<1>2. T \subseteq Nat
  BY GraphNode DEF Twins
<1>3. \E n \in T : \A m \in T : n <= m
  BY <1>2, LeastMember
<1> HIDE DEF T
<1>4. Min(T) \in T /\ \A m \in T : Min(T) <= m
  BY <1>3 DEF Min
<1> QED
  BY <1>1, <1>4 DEF T

(* CSE maps a node to an earlier one of its term, that stands for itself. *)
LEMMA CseMapMeans ==
  ASSUME NEW ns, NEW g, NEW term,
         StoreList(ns), GraphOf(g, ns), Means(g, ns, term), TokensName(g, ns)
  PROVE  /\ CseMap(g) \in [DOMAIN g.node -> DOMAIN g.node]
         /\ \A i \in DOMAIN g.node :
              /\ CseMap(g)[i] <= i /\ CseMap(g)[CseMap(g)[i]] = CseMap(g)[i]
              /\ term[CseMap(g)[i]] = term[i]
<1> DEFINE D == DOMAIN g.node
           map == CseMap(g)
           in(k) == g.node[k].inputs
           Wrong == {i \in D : term[map[i]] # term[i]}
<1>1. map \in [D -> D] /\ \A i \in D : i \in Nat
  BY CseMapEquation, GraphNode
<1>2. ASSUME NEW i \in D, Twins(g, map, i) = {}
      PROVE  map[i] = i
  BY <1>2, CseMapEquation
<1>3. ASSUME NEW i \in D, Twins(g, map, i) # {}
      PROVE  /\ map[i] \in D /\ map[i] < i
             /\ g.node[map[i]].token = g.node[i].token
             /\ Through(map, in(map[i])) = Through(map, in(i))
             /\ \A j \in Twins(g, map, i) : map[i] <= j
  <2>1. map[i] \in Twins(g, map, i) /\ \A j \in Twins(g, map, i) : map[i] <= j
    BY <1>3, FirstTwin
  <2> QED
    BY <2>1 DEF Twins
<1>4. ASSUME NEW i \in D
      PROVE  map[i] <= i /\ map[map[i]] = map[i]
  <2>1. CASE Twins(g, map, i) = {}
    BY <1>1, <1>2, <2>1
  <2>2. CASE Twins(g, map, i) # {}
    <3> DEFINE j == map[i]
    <3>1. /\ j \in D /\ j < i /\ g.node[j].token = g.node[i].token
          /\ Through(map, in(j)) = Through(map, in(i))
          /\ \A k \in Twins(g, map, i) : j <= k
      BY <1>3, <2>2
    <3> HIDE DEF j
    <3>2. Twins(g, map, j) = {}
      <4> SUFFICES ASSUME NEW k \in Twins(g, map, j) PROVE FALSE
        OBVIOUS
      <4>1. /\ k \in D /\ k < j /\ g.node[k].token = g.node[j].token
            /\ Through(map, in(k)) = Through(map, in(j))
        BY DEF Twins
      <4>2. k < i /\ ~ (j <= k)
        BY <1>1, <3>1, <4>1
      <4>3. k \in Twins(g, map, i)
        BY <3>1, <4>1, <4>2 DEF Twins
      <4> QED
        BY <3>1, <4>2, <4>3
    <3>3. map[j] = j
      BY <1>2, <3>1, <3>2
    <3> QED
      BY <1>1, <3>1, <3>3 DEF j
  <2> QED
    BY <2>1, <2>2
<1>5. Wrong = {}
  <2> SUFFICES ASSUME Wrong # {} PROVE FALSE
    OBVIOUS
  <2>1. PICK i \in Wrong : \A k \in Wrong : i <= k
    <3>1. Wrong \subseteq Nat
      BY <1>1
    <3> HIDE DEF Wrong
    <3> QED
      BY <3>1, LeastMember
  <2>2. \A a \in D : a < i => term[map[a]] = term[a]
    BY <1>1, <2>1
  <2>3. i \in D /\ Twins(g, map, i) # {}
    BY <1>2, <2>1
  <2> DEFINE j == map[i]
  <2>4. /\ j \in D /\ j < i /\ g.node[j].token = g.node[i].token
        /\ Through(map, in(j)) = Through(map, in(i))
    BY <1>3, <2>3
  <2> HIDE DEF map, j
  <2>5. ASSUME NEW k \in {i, j}
        PROVE  \A n \in DOMAIN in(k) : in(k)[n] \in D /\ in(k)[n] < i
    <3>1. k \in D /\ k <= i /\ k \in Nat /\ i \in Nat
      BY <1>1, <2>3, <2>4
    <3>2. \A n \in DOMAIN in(k) : in(k)[n] \in D /\ in(k)[n] \in Nat /\ in(k)[n] < k
      BY <3>1, GraphNode, Zenon
    <3> QED
      BY <3>1, <3>2
  <2>6. \A n \in DOMAIN in(j), m \in DOMAIN in(i) :
          map[in(j)[n]] = map[in(i)[m]] => term[in(j)[n]] = term[in(i)[m]]
    <3> SUFFICES ASSUME NEW n \in DOMAIN in(j), NEW m \in DOMAIN in(i),
                        map[in(j)[n]] = map[in(i)[m]]
                 PROVE  term[in(j)[n]] = term[in(i)[m]]
      OBVIOUS
    <3>1. in(j)[n] \in D /\ in(j)[n] < i /\ in(i)[m] \in D /\ in(i)[m] < i
      BY <2>5
    <3>2. term[map[in(j)[n]]] = term[in(j)[n]] /\ term[map[in(i)[m]]] = term[in(i)[m]]
      BY <2>2, <3>1
    <3> QED
      BY <3>2
  <2>7. Through(term, in(j)) = Through(term, in(i))
    <3> HIDE DEF in
    <3> QED
      BY <2>4, <2>6, CoarserInputs
  <2>8. Operator(ns[j + 1]) = Operator(ns[i + 1])
    BY <2>3, <2>4 DEF TokensName
  <2>9. term[j] = term[i]
    <3>1. StoreKey(ns[j + 1]) /\ StoreKey(ns[i + 1])
      BY <2>3, <2>4, GraphNode
    <3>2. KeyTerm(ns[j + 1], Through(term, in(j))) = KeyTerm(ns[i + 1], Through(term, in(i)))
      BY <2>7, <2>8, <3>1, SameOperatorSameTerm
    <3> QED
      BY <2>3, <2>4, <3>2 DEF Means
  <2> QED
    BY <2>1, <2>9 DEF j, map
<1> QED
  BY <1>1, <1>4, <1>5

\* Every node of g is mapped to a node of q that has its term.
KeepsTerms(map, q, g, term) ==
  \A i \in DOMAIN g.node : map[i] \in DOMAIN q.node /\ term[map[i]] = term[i]

(* CSE keeps what the nodes mean, and maps the outputs to their equals. *)
LEMMA CseMeans ==
  ASSUME NEW ns, NEW g, NEW term,
         StoreList(ns), GraphOf(g, ns), Means(g, ns, term), TokensName(g, ns)
  PROVE  /\ DOMAIN Cse(g).node \subseteq DOMAIN g.node
         /\ GraphOf(Cse(g), ns) /\ Means(Cse(g), ns, term)
         /\ Cse(g).outs = Through(CseMap(g), g.outs)
         /\ KeepsTerms(CseMap(g), Cse(g), g, term)
<1> DEFINE map == CseMap(g)
           D == DOMAIN g.node
<1>1. /\ map \in [D -> D]
      /\ \A i \in D : map[i] <= i /\ map[map[i]] = map[i] /\ term[map[i]] = term[i]
  BY CseMapMeans
<1>2. /\ DOMAIN Quotient(g, map).node = {k \in D : map[k] = k}
      /\ GraphOf(Quotient(g, map), ns) /\ Means(Quotient(g, map), ns, term)
  BY <1>1, QuotientMeans, Zenon
<1>3. Quotient(g, map).outs = Through(map, g.outs)
  BY DEF Quotient
<1> QED
  BY <1>1, <1>2, <1>3 DEF Cse, KeepsTerms

(* Tokens that name operators name them in a part of the graph. *)
LEMMA TokensNamePart ==
  ASSUME NEW ns, NEW g, NEW q, GraphOf(g, ns), GraphOf(q, ns), TokensName(g, ns),
         DOMAIN q.node \subseteq DOMAIN g.node
  PROVE  TokensName(q, ns)
BY DEF GraphOf, TokensName

-----------------------------------------------------------------------------
(* Numbering a set of ids in ascending order.                              *)

Rank(S, i) == Cardinality({j \in S : j < i})

(* The ranks of the members of a set are 0, 1, ... in the order of the set. *)
LEMMA RanksNumber ==
  ASSUME NEW S \in SUBSET Nat, IsFiniteSet(S)
  PROVE  /\ Cardinality(S) \in Nat
         /\ \A i \in S : Rank(S, i) \in Nat /\ Rank(S, i) < Cardinality(S)
         /\ \A i, k \in S : i < k => Rank(S, i) < Rank(S, k)
         /\ \A n \in Nat : n < Cardinality(S) => \E i \in S : Rank(S, i) = n
<1> DEFINE Below(i) == {j \in S : j < i}
           N == Cardinality(S)
<1>1. N \in Nat
  BY FS_CardinalityType
<1>2. ASSUME NEW i \in S
      PROVE  /\ IsFiniteSet(Below(i)) /\ Rank(S, i) = Cardinality(Below(i))
             /\ Rank(S, i) \in Nat /\ Rank(S, i) < N
  <2>1. Below(i) \in SUBSET S /\ Below(i) # S
    OBVIOUS
  <2>2. IsFiniteSet(Below(i)) /\ Cardinality(Below(i)) <= N /\ Cardinality(Below(i)) # N
    BY <2>1, FS_Subset
  <2>3. Cardinality(Below(i)) \in Nat
    BY <2>2, FS_CardinalityType
  <2>4. Rank(S, i) = Cardinality(Below(i))
    BY DEF Rank
  <2> HIDE DEF Below, N
  <2> QED
    BY <1>1, <2>2, <2>3, <2>4
<1>3. ASSUME NEW i \in S, NEW k \in S, i < k
      PROVE  Rank(S, i) < Rank(S, k)
  <2>1. Below(i) \in SUBSET Below(k) /\ i \in Below(k) /\ ~ (i \in Below(i))
    <3>1. i \in Nat /\ k \in Nat
      OBVIOUS
    <3>2. \A j \in S : j < i => j < k
      BY <1>3, <3>1
    <3>3. Below(i) \in SUBSET Below(k)
      BY <3>2, Zenon
    <3>4. i \in Below(k)
      BY <1>3
    <3>5. ~ (i \in Below(i))
      BY <3>1
    <3> QED
      BY <3>3, <3>4, <3>5
  <2>2. IsFiniteSet(Below(k)) /\ Below(i) # Below(k)
    BY <1>2, <2>1
  <2> DEFINE a == Cardinality(Below(i))
             b == Cardinality(Below(k))
  <2>3. Rank(S, i) = a /\ Rank(S, k) = b /\ a \in Nat /\ b \in Nat
    BY <1>2
  <2> HIDE DEF Below
  <2>4. a <= b /\ a # b
    BY <2>1, <2>2, FS_Subset
  <2> HIDE DEF a, b
  <2> QED
    BY <2>3, <2>4
<1>4. ASSUME NEW n \in Nat, n < N, \A i \in S : Rank(S, i) # n
      PROVE  FALSE
  <2> DEFINE places == 0 .. (N - 1)
             rank == [i \in S |-> Rank(S, i)]
  <2>1. IsFiniteSet(places) /\ Cardinality(places) = N
    <3> DEFINE card == Cardinality(places)
               top == N - 1
    <3>1. 0 \in Int /\ top \in Int
      BY <1>1
    <3>2. IsFiniteSet(0 .. top) /\ Cardinality(0 .. top) = IF 0 > top THEN 0 ELSE top - 0 + 1
      <4> HIDE DEF top
      <4> QED
        BY <3>1, FS_Interval, Zenon
    <3>3. card = IF 0 > top THEN 0 ELSE top - 0 + 1
      BY <3>2
    <3> HIDE DEF card, N
    <3>4. card = N
      BY <1>1, <3>3
    <3> QED
      BY <3>2, <3>4 DEF card
  <2>2. n \in places
    BY <1>1, <1>4
  <2>3. rank \in [S -> places \ {n}]
    <3> SUFFICES ASSUME NEW i \in S PROVE Rank(S, i) \in places \ {n}
      OBVIOUS
    <3>1. Rank(S, i) \in Nat /\ Rank(S, i) < N /\ Rank(S, i) # n
      BY <1>2, <1>4
    <3> HIDE DEF N
    <3> QED
      BY <1>1, <3>1
  <2> HIDE DEF places
  <2>4. IsFiniteSet(places \ {n}) /\ Cardinality(places \ {n}) = N - 1
    BY <2>1, <2>2, FS_RemoveElement
  <2>5. N - 1 < N
    BY <1>1
  <2> HIDE DEF rank
  <2>6. \E i, k \in S : i # k /\ rank[i] = rank[k]
    BY <2>3, <2>4, <2>5, FS_PigeonHole
  <2>7. PICK i \in S, k \in S : i # k /\ Rank(S, i) = Rank(S, k)
    BY <2>6 DEF rank
  <2>8. i < k \/ k < i
    BY <2>7
  <2>9. Rank(S, i) < Rank(S, k) \/ Rank(S, k) < Rank(S, i)
    BY <1>3, <2>8
  <2>10. Rank(S, i) \in Nat /\ Rank(S, k) \in Nat
    BY <1>2
  <2> QED
    BY <2>7, <2>9, <2>10
<1> QED
  BY <1>1, <1>2, <1>3, <1>4

(* Ascending lists a set of ids, each at its rank, from the least to the  *)
(* greatest.                                                              *)
LEMMA AscendingLists ==
  ASSUME NEW S \in SUBSET Nat, IsFiniteSet(S)
  PROVE  /\ Ascending(S) \in Seq(S)
         /\ Len(Ascending(S)) = Cardinality(S) /\ Cardinality(S) \in Nat
         /\ DOMAIN Ascending(S) = 1 .. Cardinality(S)
         /\ \A n \in 1 .. Cardinality(S) :
              Ascending(S)[n] \in S /\ Rank(S, Ascending(S)[n]) = n - 1
         /\ \A i \in S : /\ Rank(S, i) + 1 \in 1 .. Cardinality(S)
                         /\ Ascending(S)[Rank(S, i) + 1] = i
<1> DEFINE N == Cardinality(S)
           A == Ascending(S)
<1>1. N \in Nat
  BY RanksNumber
<1>2. A = [n \in 1 .. N |-> CHOOSE i \in S : Rank(S, i) = n - 1]
  BY Zenon DEF Ascending, Rank
<1>3. DOMAIN A = 1 .. N /\ \A n \in 1 .. N : A[n] = CHOOSE i \in S : Rank(S, i) = n - 1
  BY <1>2
<1>4. ASSUME NEW n \in 1 .. N
      PROVE  A[n] \in S /\ Rank(S, A[n]) = n - 1
  <2>1. n - 1 \in Nat /\ n - 1 < N
    BY <1>1
  <2>2. \E i \in S : Rank(S, i) = n - 1
    BY <2>1, RanksNumber
  <2> HIDE DEF A
  <2> QED
    BY <1>3, <2>2
<1>5. A \in [1 .. N -> S]
  BY <1>3, <1>4, <1>2
<1> HIDE DEF A
<1>6. A \in Seq(S) /\ Len(A) = N
  BY <1>1, <1>3, <1>5, SeqDef, LenProperties
<1>7. ASSUME NEW i \in S
      PROVE  Rank(S, i) + 1 \in 1 .. N /\ A[Rank(S, i) + 1] = i
  <2>1. Rank(S, i) \in Nat /\ Rank(S, i) < N
    BY RanksNumber
  <2> DEFINE r == Rank(S, i)
             k == A[r + 1]
  <2> HIDE DEF r, N
  <2>2. r + 1 \in 1 .. N
    BY <1>1, <2>1 DEF r
  <2>3. k \in S /\ Rank(S, k) = (r + 1) - 1
    BY <1>4, <2>2
  <2> HIDE DEF k
  <2>4. Rank(S, k) = Rank(S, i)
    BY <2>1, <2>3 DEF r
  <2>5. k = i
    <3>1. k < i => Rank(S, k) < Rank(S, i)
      BY <2>3, RanksNumber
    <3>2. i < k => Rank(S, i) < Rank(S, k)
      BY <2>3, RanksNumber
    <3> QED
      BY <2>1, <2>3, <2>4, <3>1, <3>2 DEF r
  <2> QED
    BY <2>2, <2>5 DEF r, k
<1> QED
  BY <1>1, <1>3, <1>4, <1>6, <1>7 DEF A

-----------------------------------------------------------------------------
(* Stage fusion: the components.                                           *)

\* A consumer of a node, as the fusion picks it.
AnyConsumer(g, i) == CHOOSE c \in Consumers(g, i) : TRUE

SingleUseJoins(g) ==
  {i \in DOMAIN g.node :
     /\ ~ Boundary(g, i) /\ ~ IsOutput(g, i)
     /\ \E c \in Consumers(g, i) : SoleUse(g, i, c) /\ ~ Boundary(g, c)}

MaximalJoins(g, head) ==
  {i \in DOMAIN g.node :
     /\ ~ Boundary(g, i) /\ ~ IsOutput(g, i)
     /\ Consumers(g, i) # {}
     /\ \A c \in Consumers(g, i) : ~ Boundary(g, c)
     /\ Cardinality({head[c] : c \in Consumers(g, i)}) = 1}

\* The recursion both modes follow: who joins has the head of a consumer.
HeadOfConsumer(g, head, joins) ==
  /\ head = [i \in DOMAIN g.node |-> head[i]]
  /\ \A i \in DOMAIN g.node :
       head[i] = IF i \in joins THEN head[AnyConsumer(g, i)] ELSE i

\* What the rest of the fusion needs of the components: a component is named
\* by its last node, outputs and boundaries join none, boundaries have no
\* members, and who joins a component is read inside it only.
Components(g, head) ==
  /\ head \in [DOMAIN g.node -> DOMAIN g.node]
  /\ \A i \in DOMAIN g.node :
       /\ i <= head[i] /\ head[head[i]] = head[i]
       /\ Boundary(g, i) \/ IsOutput(g, i) => head[i] = i
       /\ Boundary(g, head[i]) => head[i] = i
       /\ head[i] # i => \A c \in Consumers(g, i) : head[c] = head[i]

(* A set of naturals below a bound has a greatest member. *)
LEMMA GreatestMember ==
  ASSUME NEW S, S \subseteq Nat, S # {}, NEW bound \in Nat, \A n \in S : n < bound
  PROVE  \E n \in S : \A m \in S : m <= n
<1> DEFINE Above == {k \in Nat : \A n \in S : n < k}
<1>1. PICK k \in Above : \A m \in Above : k <= m
  BY LeastMember
<1>2. k # 0
  <2>1. PICK n \in S : n \in Nat /\ n < k
    BY <1>1
  <2> QED
    BY <2>1
<1>3. k - 1 \in Nat /\ ~ (k <= k - 1)
  BY <1>2
<1>4. ~ (k - 1 \in Above)
  BY <1>1, <1>3
<1>5. PICK n \in S : ~ (n < k - 1)
  BY <1>3, <1>4
<1>6. \A m \in S : m <= n
  BY <1>1, <1>5
<1> QED
  BY <1>6

(* Consumers come after what they read. *)
LEMMA ConsumersAreLater ==
  ASSUME NEW ns, NEW g, StoreList(ns), GraphOf(g, ns), NEW i \in DOMAIN g.node
  PROVE  /\ \A c \in Consumers(g, i) : c \in DOMAIN g.node /\ i < c
         /\ Consumers(g, i) # {} => AnyConsumer(g, i) \in Consumers(g, i)
<1>1. ASSUME NEW c \in Consumers(g, i)
      PROVE  c \in DOMAIN g.node /\ i < c
  <2>1. c \in DOMAIN g.node /\ i \in ToSet(g.node[c].inputs)
    BY DEF Consumers
  <2>2. PICK n \in DOMAIN g.node[c].inputs : i = g.node[c].inputs[n]
    BY <2>1 DEF ToSet
  <2> QED
    BY <2>1, <2>2, GraphNode
<1> QED
  BY <1>1 DEF AnyConsumer

(* The nodes of an engine graph are below the length of the list. *)
LEMMA GraphIsFinite ==
  ASSUME NEW ns, NEW g, StoreList(ns), GraphOf(g, ns)
  PROVE  /\ IsFiniteSet(DOMAIN g.node) /\ DOMAIN g.node \in SUBSET Nat
         /\ Len(ns) \in Nat /\ \A i \in DOMAIN g.node : i < Len(ns)
<1>1. Len(ns) \in Nat
  BY DEF StoreList, InputsBefore
<1>2. ASSUME NEW i \in DOMAIN g.node
      PROVE  i \in Nat /\ i < Len(ns) /\ i <= Len(ns)
  BY GraphNode, StoreNode
<1>3. IsFiniteSet(DOMAIN g.node)
  <2>1. DOMAIN g.node \in SUBSET Nat /\ \A i \in DOMAIN g.node : i <= Len(ns)
    BY <1>2
  <2> QED
    BY <1>1, <2>1, FS_BoundedSetOfNaturals
<1> QED
  BY <1>1, <1>2, <1>3

(* Heads are nodes of the graph. *)
LEMMA HeadsAreNodes ==
  ASSUME NEW ns, NEW g, StoreList(ns), GraphOf(g, ns), NEW head, NEW joins,
         HeadOfConsumer(g, head, joins), \A i \in joins : Consumers(g, i) # {}
  PROVE  \A i \in DOMAIN g.node : head[i] \in DOMAIN g.node /\ i <= head[i]
<1> DEFINE D == DOMAIN g.node
           Wrong == {i \in D : ~ (head[i] \in D /\ i <= head[i])}
<1>1. D \in SUBSET Nat /\ Len(ns) \in Nat /\ \A i \in D : i \in Nat /\ i < Len(ns)
  BY GraphIsFinite
<1>2. Wrong = {}
  <2> SUFFICES ASSUME Wrong # {} PROVE FALSE
    OBVIOUS
  <2>1. PICK i \in Wrong : \A m \in Wrong : m <= i
    <3>1. Wrong \subseteq Nat /\ \A n \in Wrong : n < Len(ns)
      BY <1>1
    <3> HIDE DEF Wrong
    <3> QED
      BY <1>1, <3>1, GreatestMember
  <2>2. i \in D /\ i \in Nat /\ ~ (head[i] \in D /\ i <= head[i])
    BY <1>1, <2>1
  <2> DEFINE c == AnyConsumer(g, i)
  <2>3. i \in joins /\ head[i] = head[c]
    BY <2>2 DEF HeadOfConsumer
  <2>4. c \in D /\ i < c /\ c \in Nat
    BY <1>1, <2>2, <2>3, ConsumersAreLater
  <2> HIDE DEF c
  <2>5. ~ (c \in Wrong)
    BY <2>1, <2>2, <2>4
  <2>6. head[c] \in D /\ c <= head[c] /\ head[c] \in Nat
    BY <1>1, <2>4, <2>5
  <2> QED
    BY <2>2, <2>3, <2>4, <2>6
<1> QED
  BY <1>2

(* Where all consumers of who joins are no boundaries and have one head, the *)
(* heads make components.                                                    *)
LEMMA HeadsMakeComponents ==
  ASSUME NEW ns, NEW g, StoreList(ns), GraphOf(g, ns), NEW head, NEW joins,
         HeadOfConsumer(g, head, joins), head \in [DOMAIN g.node -> DOMAIN g.node],
         \A i \in joins :
           /\ ~ Boundary(g, i) /\ ~ IsOutput(g, i) /\ Consumers(g, i) # {}
           /\ \A c \in Consumers(g, i) : ~ Boundary(g, c) /\ head[c] = head[AnyConsumer(g, i)]
  PROVE  Components(g, head)
<1> DEFINE D == DOMAIN g.node
           Right(i) == head[head[i]] = head[i] /\ (Boundary(g, head[i]) => head[i] = i)
           Wrong == {i \in D : ~ Right(i)}
<1>1. D \in SUBSET Nat /\ Len(ns) \in Nat /\ \A i \in D : i \in Nat /\ i < Len(ns)
  BY GraphIsFinite
<1>2. \A i \in D : head[i] \in D /\ i <= head[i]
  BY HeadsAreNodes
<1>3. \A i \in D : head[i] = IF i \in joins THEN head[AnyConsumer(g, i)] ELSE i
  BY DEF HeadOfConsumer
<1>4. Wrong = {}
  <2> SUFFICES ASSUME Wrong # {} PROVE FALSE
    OBVIOUS
  <2>1. PICK i \in Wrong : \A m \in Wrong : m <= i
    <3>1. Wrong \subseteq Nat /\ \A n \in Wrong : n < Len(ns)
      BY <1>1
    <3> HIDE DEF Wrong
    <3> QED
      BY <1>1, <3>1, GreatestMember
  <2>2. i \in D /\ i \in Nat /\ ~ Right(i)
    BY <1>1, <2>1
  <2> DEFINE c == AnyConsumer(g, i)
  <2>3. i \in joins /\ head[i] = head[c]
    BY <1>3, <2>2
  <2>4. c \in Consumers(g, i) /\ c \in D /\ i < c /\ c \in Nat /\ ~ Boundary(g, c)
    BY <1>1, <2>2, <2>3, ConsumersAreLater
  <2> HIDE DEF c
  <2>5. ~ (c \in Wrong)
    BY <2>1, <2>2, <2>4
  <2>6. Right(c)
    BY <2>4, <2>5
  <2>7. Right(i)
    BY <2>3, <2>4, <2>6
  <2> QED
    BY <2>2, <2>7
<1>5. ASSUME NEW i \in D
      PROVE  /\ Boundary(g, i) \/ IsOutput(g, i) => head[i] = i
             /\ head[i] # i => \A c \in Consumers(g, i) : head[c] = head[i]
  BY <1>3
<1> QED
  BY <1>2, <1>4, <1>5 DEF Components

(* The heads of single-use fusion follow their recursion. *)
LEMMA SingleUseEquation ==
  ASSUME NEW ns, NEW g, StoreList(ns), GraphOf(g, ns)
  PROVE  HeadOfConsumer(g, SingleUseHead(g), SingleUseJoins(g))
<1> DEFINE D == DOMAIN g.node
           Joins == SingleUseJoins(g)
           Body(f, i) == IF i \in Joins THEN f[AnyConsumer(g, i)] ELSE i
           G == [f \in [D -> D] |-> [i \in D |-> Body(f, i)]]
           rank == [i \in D |-> Len(ns) - 1 - i]
<1>1. D \in SUBSET Nat /\ Len(ns) \in Nat /\ \A i \in D : i \in Nat /\ i < Len(ns)
  BY GraphIsFinite
<1>2. ASSUME NEW i \in Joins
      PROVE  /\ AnyConsumer(g, i) \in D /\ i < AnyConsumer(g, i)
             /\ rank[AnyConsumer(g, i)] < rank[i]
  <2>1. i \in D /\ Consumers(g, i) # {}
    BY DEF SingleUseJoins
  <2>2. AnyConsumer(g, i) \in D /\ i < AnyConsumer(g, i)
    BY <2>1, ConsumersAreLater
  <2> QED
    BY <1>1, <2>1, <2>2
<1>3. \A f \in [D -> D] : G[f] \in [D -> D]
  BY <1>2
<1>4. \A f, h \in [D -> D] : \A i \in D :
        (\A j \in D : rank[j] < rank[i] => f[j] = h[j]) => G[f][i] = G[h][i]
  BY <1>2
<1>5. [D -> D] # {} /\ \A i \in D : rank[i] \in Nat /\ rank[i] < Len(ns)
  <2>1. [i \in D |-> i] \in [D -> D]
    OBVIOUS
  <2>2. \A i \in D : rank[i] \in Nat /\ rank[i] < Len(ns)
    BY <1>1
  <2> HIDE DEF rank
  <2> QED
    BY <2>1, <2>2, Zenon
<1>6. \E f \in [D -> D] : f = G[f]
  <2> HIDE DEF G, rank, D
  <2>1. Improves(G, D, D, rank, Len(ns))
    BY <1>1, <1>3, <1>4, <1>5 DEF Improves
  <2> QED
    BY <2>1, RecursionSolved
<1> DEFINE Cond(i) == /\ ~ Boundary(g, i) /\ ~ IsOutput(g, i)
                      /\ \E c \in Consumers(g, i) : SoleUse(g, i, c) /\ ~ Boundary(g, c)
           Text(f, i) == IF Cond(i) THEN f[CHOOSE c \in Consumers(g, i) : TRUE] ELSE i
<1>7. \A f : \A i \in D : Text(f, i) = Body(f, i)
  BY DEF SingleUseJoins, AnyConsumer
<1>8. SingleUseHead(g) = CHOOSE f : f = [i \in D |-> Text(f, i)]
  BY Zenon DEF SingleUseHead
<1>9. \E f : f = [i \in D |-> Text(f, i)]
  <2>1. PICK f \in [D -> D] : f = G[f]
    BY <1>6
  <2>2. f = [i \in D |-> Body(f, i)]
    BY <2>1
  <2>3. \A i \in D : Text(f, i) = Body(f, i)
    BY <1>7
  <2> HIDE DEF Text, Body
  <2> QED
    BY <2>2, <2>3
<1>10. SingleUseHead(g) = [i \in D |-> Text(SingleUseHead(g), i)]
  <2> HIDE DEF Text
  <2> QED
    BY <1>8, <1>9, Zenon
<1>11. /\ SingleUseHead(g) = [i \in D |-> SingleUseHead(g)[i]]
       /\ \A i \in D : SingleUseHead(g)[i] = Text(SingleUseHead(g), i)
  <2> DEFINE head == SingleUseHead(g)
  <2>1. head = [i \in D |-> Text(head, i)]
    BY <1>10
  <2> HIDE DEF Text, head
  <2>2. \A i \in D : head[i] = Text(head, i)
    BY <2>1
  <2>3. head = [i \in D |-> head[i]]
    BY <2>1
  <2> QED
    BY <2>2, <2>3 DEF head
<1>12. \A i \in D : SingleUseHead(g)[i] = Body(SingleUseHead(g), i)
  <2> HIDE DEF Text, Body
  <2> QED
    BY <1>7, <1>11
<1> QED
  BY <1>11, <1>12 DEF HeadOfConsumer

(* Single-use fusion makes components. *)
LEMMA SingleUseComponents ==
  ASSUME NEW ns, NEW g, StoreList(ns), GraphOf(g, ns)
  PROVE  Components(g, SingleUseHead(g))
<1> DEFINE head == SingleUseHead(g)
           joins == SingleUseJoins(g)
<1>1. HeadOfConsumer(g, head, joins)
  BY SingleUseEquation
<1>2. ASSUME NEW i \in joins
      PROVE  /\ ~ Boundary(g, i) /\ ~ IsOutput(g, i) /\ Consumers(g, i) # {}
             /\ \A c \in Consumers(g, i) :
                  ~ Boundary(g, c) /\ head[c] = head[AnyConsumer(g, i)]
  <2>1. PICK c \in Consumers(g, i) : SoleUse(g, i, c) /\ ~ Boundary(g, c)
    BY DEF SingleUseJoins
  <2>2. Consumers(g, i) = {c}
    BY <2>1 DEF SoleUse
  <2>3. AnyConsumer(g, i) = c
    BY <2>2 DEF AnyConsumer
  <2> QED
    BY <2>1, <2>2, <2>3 DEF SingleUseJoins
<1>3. head \in [DOMAIN g.node -> DOMAIN g.node]
  <2>1. \A i \in DOMAIN g.node : head[i] \in DOMAIN g.node
    BY <1>1, <1>2, HeadsAreNodes
  <2>2. head = [i \in DOMAIN g.node |-> head[i]]
    BY <1>1, Zenon DEF HeadOfConsumer
  <2> QED
    BY <2>1, <2>2
<1> HIDE DEF head, joins
<1> QED
  BY <1>1, <1>2, <1>3, HeadsMakeComponents DEF head

(* The heads of maximal fusion follow their recursion. *)
LEMMA MaximalEquation ==
  ASSUME NEW ns, NEW g, StoreList(ns), GraphOf(g, ns)
  PROVE  HeadOfConsumer(g, MaximalHead(g), MaximalJoins(g, MaximalHead(g)))
<1> DEFINE D == DOMAIN g.node
           Body(f, i) == IF i \in MaximalJoins(g, f) THEN f[AnyConsumer(g, i)] ELSE i
           G == [f \in [D -> D] |-> [i \in D |-> Body(f, i)]]
           rank == [i \in D |-> Len(ns) - 1 - i]
<1>1. D \in SUBSET Nat /\ Len(ns) \in Nat /\ \A i \in D : i \in Nat /\ i < Len(ns)
  BY GraphIsFinite
<1>2. ASSUME NEW i \in D, NEW c \in Consumers(g, i)
      PROVE  c \in D /\ i < c /\ rank[c] < rank[i]
  <2>1. c \in D /\ i < c
    BY ConsumersAreLater
  <2> QED
    BY <1>1, <2>1
<1>3. ASSUME NEW f \in [D -> D]
      PROVE  G[f] \in [D -> D]
  <2> SUFFICES ASSUME NEW i \in D PROVE Body(f, i) \in D
    OBVIOUS
  <2>1. CASE i \in MaximalJoins(g, f)
    <3>1. AnyConsumer(g, i) \in Consumers(g, i)
      BY <2>1, ConsumersAreLater DEF MaximalJoins
    <3> QED
      BY <1>2, <2>1, <3>1
  <2> QED
    BY <2>1
<1>4. ASSUME NEW f \in [D -> D], NEW h \in [D -> D], NEW i \in D,
             \A j \in D : rank[j] < rank[i] => f[j] = h[j]
      PROVE  G[f][i] = G[h][i]
  <2>1. \A c \in Consumers(g, i) : f[c] = h[c]
    BY <1>2, <1>4
  <2>2. {f[c] : c \in Consumers(g, i)} = {h[c] : c \in Consumers(g, i)}
    BY <2>1
  <2>3. i \in MaximalJoins(g, f) <=> i \in MaximalJoins(g, h)
    BY <2>2, Zenon DEF MaximalJoins
  <2>4. i \in MaximalJoins(g, f) => AnyConsumer(g, i) \in Consumers(g, i)
    BY ConsumersAreLater DEF MaximalJoins
  <2>5. Body(f, i) = Body(h, i)
    BY <2>1, <2>3, <2>4
  <2> QED
    BY <2>5
<1>5. [D -> D] # {} /\ \A i \in D : rank[i] \in Nat /\ rank[i] < Len(ns)
  <2>1. [i \in D |-> i] \in [D -> D]
    OBVIOUS
  <2>2. \A i \in D : rank[i] \in Nat /\ rank[i] < Len(ns)
    BY <1>1
  <2> HIDE DEF rank
  <2> QED
    BY <2>1, <2>2, Zenon
<1>6. \E f \in [D -> D] : f = G[f]
  <2>1. \A f, h \in [D -> D] : \A i \in D :
          (\A j \in D : rank[j] < rank[i] => f[j] = h[j]) => G[f][i] = G[h][i]
    BY <1>4
  <2> HIDE DEF G, rank, D
  <2>2. Improves(G, D, D, rank, Len(ns))
    BY <1>1, <1>3, <1>5, <2>1 DEF Improves
  <2> QED
    BY <2>2, RecursionSolved
<1> DEFINE Cond(f, i) == /\ ~ Boundary(g, i) /\ ~ IsOutput(g, i)
                         /\ Consumers(g, i) # {}
                         /\ \A c \in Consumers(g, i) : ~ Boundary(g, c)
                         /\ Cardinality({f[c] : c \in Consumers(g, i)}) = 1
           Text(f, i) == IF Cond(f, i) THEN f[CHOOSE c \in Consumers(g, i) : TRUE] ELSE i
<1>7. ASSUME NEW f, NEW i \in D
      PROVE  Text(f, i) = Body(f, i)
  <2>1. Cond(f, i) <=> i \in MaximalJoins(g, f)
    BY Zenon DEF MaximalJoins
  <2>2. AnyConsumer(g, i) = CHOOSE c \in Consumers(g, i) : TRUE
    BY DEF AnyConsumer
  <2> DEFINE next == AnyConsumer(g, i)
  <2>3. Text(f, i) = IF Cond(f, i) THEN f[next] ELSE i
    BY <2>2
  <2> HIDE DEF Cond, Text
  <2> QED
    BY <2>1, <2>3
<1>8. MaximalHead(g) = CHOOSE f : f = [i \in D |-> Text(f, i)]
  BY Zenon DEF MaximalHead
<1>9. \E f : f = [i \in D |-> Text(f, i)]
  <2>1. PICK f \in [D -> D] : f = G[f]
    BY <1>6
  <2>2. f = [i \in D |-> Body(f, i)]
    BY <2>1
  <2>3. \A i \in D : Text(f, i) = Body(f, i)
    BY <1>7
  <2> HIDE DEF Text, Body
  <2> QED
    BY <2>2, <2>3
<1>10. MaximalHead(g) = [i \in D |-> Text(MaximalHead(g), i)]
  <2> HIDE DEF Text
  <2> QED
    BY <1>8, <1>9, Zenon
<1>11. /\ MaximalHead(g) = [i \in D |-> MaximalHead(g)[i]]
       /\ \A i \in D : MaximalHead(g)[i] = Text(MaximalHead(g), i)
  <2> DEFINE head == MaximalHead(g)
  <2>1. head = [i \in D |-> Text(head, i)]
    BY <1>10
  <2> HIDE DEF Text, head
  <2>2. \A i \in D : head[i] = Text(head, i)
    BY <2>1
  <2>3. head = [i \in D |-> head[i]]
    BY <2>1
  <2> QED
    BY <2>2, <2>3 DEF head
<1>12. \A i \in D : MaximalHead(g)[i] = Body(MaximalHead(g), i)
  <2> HIDE DEF Text, Body
  <2> QED
    BY <1>7, <1>11
<1> QED
  BY <1>11, <1>12 DEF HeadOfConsumer

(* Maximal fusion makes components. *)
LEMMA MaximalComponents ==
  ASSUME NEW ns, NEW g, StoreList(ns), GraphOf(g, ns)
  PROVE  Components(g, MaximalHead(g))
<1> DEFINE head == MaximalHead(g)
           joins == MaximalJoins(g, head)
           D == DOMAIN g.node
<1>1. HeadOfConsumer(g, head, joins)
  BY MaximalEquation
<1>2. head \in [D -> D]
  <2>1. \A i \in joins : Consumers(g, i) # {}
    BY DEF MaximalJoins
  <2>2. \A i \in D : head[i] \in D
    BY <1>1, <2>1, HeadsAreNodes
  <2>3. head = [i \in D |-> head[i]]
    BY <1>1, Zenon DEF HeadOfConsumer
  <2> QED
    BY <2>2, <2>3
<1>3. ASSUME NEW i \in joins
      PROVE  /\ ~ Boundary(g, i) /\ ~ IsOutput(g, i) /\ Consumers(g, i) # {}
             /\ \A c \in Consumers(g, i) :
                  ~ Boundary(g, c) /\ head[c] = head[AnyConsumer(g, i)]
  <2> DEFINE named == {head[c] : c \in Consumers(g, i)}
  <2>1. /\ i \in D /\ ~ Boundary(g, i) /\ ~ IsOutput(g, i) /\ Consumers(g, i) # {}
        /\ \A c \in Consumers(g, i) : ~ Boundary(g, c)
        /\ Cardinality(named) = 1
    BY DEF MaximalJoins
  <2>2. named \in SUBSET D
    BY <1>2, <2>1, ConsumersAreLater
  <2>3. IsFiniteSet(named)
    BY <2>2, GraphIsFinite, FS_Subset
  <2>4. \E x : named = {x}
    <3> HIDE DEF named
    <3> QED
      BY <2>1, <2>3, FS_Singleton
  <2>5. AnyConsumer(g, i) \in Consumers(g, i)
    BY <2>1, ConsumersAreLater
  <2>6. \A c \in Consumers(g, i) : head[c] \in named
    OBVIOUS
  <2> HIDE DEF named, head
  <2>7. \A c \in Consumers(g, i) : head[c] = head[AnyConsumer(g, i)]
    BY <2>4, <2>5, <2>6
  <2> QED
    BY <2>1, <2>7
<1> HIDE DEF head, joins
<1> QED
  BY <1>1, <1>2, <1>3, HeadsMakeComponents DEF head

(* Maximal fusion only fuses more. *)
LEMMA MaximalIsCoarser ==
  ASSUME NEW ns, NEW g, StoreList(ns), GraphOf(g, ns)
  PROVE  \A i, j \in DOMAIN g.node :
           SingleUseHead(g)[i] = SingleUseHead(g)[j] => MaximalHead(g)[i] = MaximalHead(g)[j]
<1> DEFINE D == DOMAIN g.node
           single == SingleUseHead(g)
           maximal == MaximalHead(g)
           Wrong == {i \in D : maximal[single[i]] # maximal[i]}
<1>1. D \in SUBSET Nat /\ Len(ns) \in Nat /\ \A i \in D : i \in Nat /\ i < Len(ns)
  BY GraphIsFinite
<1>2. Wrong = {}
  <2> SUFFICES ASSUME Wrong # {} PROVE FALSE
    OBVIOUS
  <2>1. PICK i \in Wrong : \A m \in Wrong : m <= i
    <3>1. Wrong \subseteq Nat /\ \A n \in Wrong : n < Len(ns)
      BY <1>1
    <3> HIDE DEF Wrong
    <3> QED
      BY <1>1, <3>1, GreatestMember
  <2>2. i \in D /\ i \in Nat /\ maximal[single[i]] # maximal[i]
    BY <1>1, <2>1
  <2>3. i \in SingleUseJoins(g) /\ single[i] = single[AnyConsumer(g, i)]
    BY <2>2, SingleUseEquation DEF HeadOfConsumer
  <2>4. PICK c \in Consumers(g, i) : SoleUse(g, i, c) /\ ~ Boundary(g, c)
    BY <2>3 DEF SingleUseJoins
  <2>5. Consumers(g, i) = {c} /\ AnyConsumer(g, i) = c
    BY <2>4 DEF SoleUse, AnyConsumer
  <2>6. c \in D /\ i < c /\ c \in Nat
    BY <1>1, <2>2, <2>4, ConsumersAreLater
  <2>7. i \in MaximalJoins(g, maximal)
    <3>1. {maximal[d] : d \in Consumers(g, i)} = {maximal[c]}
      BY <2>5
    <3>2. Cardinality({maximal[c]}) = 1
      BY FS_Singleton
    <3> HIDE DEF maximal
    <3> QED
      BY <2>3, <2>4, <2>5, <3>1, <3>2 DEF SingleUseJoins, MaximalJoins
  <2>8. maximal[i] = maximal[c]
    BY <2>2, <2>5, <2>7, MaximalEquation DEF HeadOfConsumer
  <2>9. ~ (c \in Wrong)
    BY <2>1, <2>2, <2>6
  <2>10. maximal[single[c]] = maximal[c]
    BY <2>6, <2>9
  <2> QED
    BY <2>2, <2>3, <2>5, <2>8, <2>10
<1> QED
  BY <1>2

-----------------------------------------------------------------------------
(* Lists: what is first seen in one, several in a row, places in one.      *)

(* FirstSeen keeps every entry but those to skip. *)
LEMMA FirstSeenEntries ==
  ASSUME NEW T, NEW s \in Seq(T), NEW skip
  PROVE  /\ FirstSeen(s, skip) \in Seq(T)
         /\ ToSet(FirstSeen(s, skip)) = ToSet(s) \ skip
<1> DEFINE S == {n \in DOMAIN s : s[n] \notin skip /\ \A m \in 1 .. (n - 1) : s[m] # s[n]}
           A == Ascending(S)
           N == Cardinality(S)
<1>1. Len(s) \in Nat /\ DOMAIN s = 1 .. Len(s) /\ \A n \in DOMAIN s : s[n] \in T
  OBVIOUS
<1>2. S \in SUBSET Nat /\ IsFiniteSet(S)
  <2>1. S \in SUBSET Nat /\ \A n \in S : n <= Len(s)
    BY <1>1
  <2> HIDE DEF S
  <2> QED
    BY <1>1, <2>1, FS_BoundedSetOfNaturals
<1>3. /\ A \in Seq(S) /\ Len(A) = N /\ N \in Nat /\ DOMAIN A = 1 .. N
      /\ \A n \in 1 .. N : A[n] \in S
      /\ \A i \in S : Rank(S, i) + 1 \in 1 .. N /\ A[Rank(S, i) + 1] = i
  <2> HIDE DEF S
  <2> QED
    BY <1>2, AscendingLists
<1> DEFINE F == Through(s, A)
<1>4. FirstSeen(s, skip) = F
  BY DEF FirstSeen
<1> HIDE DEF A
<1>5. DOMAIN F = 1 .. N /\ \A n \in 1 .. N : F[n] = s[A[n]]
  BY <1>3 DEF Through
<1>6. F \in [1 .. N -> T]
  BY <1>1, <1>3, <1>5 DEF Through
<1> HIDE DEF F
<1>7. F \in Seq(T)
  <2>1. N \in Nat
    BY <1>3
  <2> HIDE DEF N
  <2> QED
    BY <1>6, <2>1, SeqDef
<1>8. ToSet(F) \subseteq ToSet(s) \ skip
  <2> SUFFICES ASSUME NEW n \in 1 .. N PROVE F[n] \in ToSet(s) \ skip
    BY <1>5 DEF ToSet
  <2> QED
    BY <1>3, <1>5 DEF ToSet
<1>9. ASSUME NEW e \in ToSet(s), e \notin skip
      PROVE  e \in ToSet(F)
  <2> DEFINE At == {n \in DOMAIN s : s[n] = e}
  <2>1. PICK n \in At : \A m \in At : n <= m
    <3>1. At \subseteq Nat /\ At # {}
      BY <1>1 DEF ToSet
    <3> HIDE DEF At
    <3> QED
      BY <3>1, LeastMember
  <2>2. \A m \in 1 .. (n - 1) : s[m] # s[n]
    <3> SUFFICES ASSUME NEW m \in 1 .. (n - 1), s[m] = s[n] PROVE FALSE
      OBVIOUS
    <3>1. m \in At /\ ~ (n <= m)
      BY <1>1, <2>1
    <3> QED
      BY <2>1, <3>1
  <2>3. n \in S /\ s[n] = e
    BY <1>9, <2>1, <2>2
  <2> HIDE DEF S
  <2>4. Rank(S, n) + 1 \in DOMAIN F /\ F[Rank(S, n) + 1] = e
    BY <1>3, <1>5, <2>3
  <2> QED
    BY <2>4 DEF ToSet
<1> QED
  BY <1>4, <1>7, <1>8, <1>9

(* The recursion that puts lists in a row has a solution. *)
LEMMA FlattenSeqSolved ==
  ASSUME NEW T, NEW seqs \in Seq(Seq(T)), seqs # <<>>
  PROVE  \E flat :
           /\ FlattenSeq(seqs) = flat[Len(seqs)]
           /\ \A i \in DOMAIN seqs :
                /\ flat[i] \in Seq(T)
                /\ flat[i] = IF i = 1 THEN seqs[i] ELSE flat[i - 1] \o seqs[i]
<1> DEFINE N == Len(seqs)
           D == 1 .. N
           Body(f, i) == IF i = 1 THEN seqs[i] ELSE f[i - 1] \o seqs[i]
           G == [f \in [D -> Seq(T)] |-> [i \in D |-> Body(f, i)]]
           rank == [i \in D |-> i]
<1>1. N \in Nat /\ N # 0 /\ DOMAIN seqs = D /\ \A i \in D : seqs[i] \in Seq(T)
  OBVIOUS
<1>2. \A f \in [D -> Seq(T)] : G[f] \in [D -> Seq(T)]
  <2> SUFFICES ASSUME NEW f \in [D -> Seq(T)], NEW i \in D PROVE Body(f, i) \in Seq(T)
    OBVIOUS
  <2>1. i = 1 \/ i - 1 \in D
    BY <1>1
  <2> HIDE DEF D
  <2> QED
    BY <1>1, <2>1
<1>3. ASSUME NEW f \in [D -> Seq(T)], NEW h \in [D -> Seq(T)], NEW i \in D,
             \A j \in D : rank[j] < rank[i] => f[j] = h[j]
      PROVE  G[f][i] = G[h][i]
  <2>1. i = 1 \/ f[i - 1] = h[i - 1]
    <3>1. i = 1 \/ (i - 1 \in D /\ rank[i - 1] < rank[i])
      BY <1>1
    <3> QED
      BY <1>3, <3>1
  <2>2. Body(f, i) = Body(h, i)
    BY <2>1
  <2> QED
    BY <2>2
<1>4. [D -> Seq(T)] # {} /\ N + 1 \in Nat /\ \A i \in D : rank[i] \in Nat /\ rank[i] < N + 1
  <2>1. [i \in D |-> <<>>] \in [D -> Seq(T)]
    OBVIOUS
  <2>2. N + 1 \in Nat /\ \A i \in D : rank[i] \in Nat /\ rank[i] < N + 1
    BY <1>1
  <2> HIDE DEF D, rank
  <2> QED
    BY <2>1, <2>2, Zenon
<1>5. \E f \in [D -> Seq(T)] : f = G[f]
  <2> DEFINE V == Seq(T)
  <2>1. \A f, h \in [D -> Seq(T)] : \A i \in D :
          (\A j \in D : rank[j] < rank[i] => f[j] = h[j]) => G[f][i] = G[h][i]
    BY <1>3
  <2> HIDE DEF G, rank, D, V
  <2>2. Improves(G, D, V, rank, N + 1)
    BY <1>2, <1>4, <2>1 DEF Improves, V
  <2>3. \E f \in [D -> V] : f = G[f]
    BY <2>2, RecursionSolved
  <2> QED
    BY <2>3 DEF V
<1> DEFINE flat == CHOOSE f : f = [i \in D |-> Body(f, i)]
<1>6. FlattenSeq(seqs) = flat[N]
  BY <1>1, Zenon DEF FlattenSeq
<1>7. flat = [i \in D |-> Body(flat, i)]
  <2>1. \E f : f = [i \in D |-> Body(f, i)]
    BY <1>5
  <2> HIDE DEF Body, D
  <2> QED
    BY <2>1, Zenon
<1> HIDE DEF flat
<1>8. \A i \in D : flat[i] = Body(flat, i)
  <2> HIDE DEF Body, D
  <2> QED
    BY <1>7
<1> DEFINE Wrong == {i \in D : ~ (flat[i] \in Seq(T))}
<1>9. Wrong = {}
  <2> SUFFICES ASSUME Wrong # {} PROVE FALSE
    OBVIOUS
  <2>1. PICK i \in Wrong : \A m \in Wrong : i <= m
    <3>1. Wrong \subseteq Nat
      OBVIOUS
    <3> HIDE DEF Wrong
    <3> QED
      BY <3>1, LeastMember
  <2>2. i \in D /\ i \in Nat /\ ~ (flat[i] \in Seq(T))
    BY <1>1, <2>1
  <2>3. i = 1 \/ flat[i - 1] \in Seq(T)
    <3>1. i = 1 \/ (i - 1 \in D /\ ~ (i <= i - 1))
      BY <1>1, <2>2
    <3> QED
      BY <2>1, <3>1
  <2>4. flat[i] = Body(flat, i)
    BY <1>8, <2>2, Zenon
  <2> QED
    BY <1>1, <2>2, <2>3, <2>4
<1> QED
  BY <1>1, <1>6, <1>8, <1>9

(* The entries of lists in a row are the entries of the lists. *)
LEMMA FlattenSeqEntries ==
  ASSUME NEW T, NEW seqs \in Seq(Seq(T))
  PROVE  /\ FlattenSeq(seqs) \in Seq(T)
         /\ ToSet(FlattenSeq(seqs)) = UNION {ToSet(seqs[n]) : n \in DOMAIN seqs}
<1> DEFINE N == Len(seqs)
           D == 1 .. N
           Body(f, i) == IF i = 1 THEN seqs[i] ELSE f[i - 1] \o seqs[i]
<1>1. N \in Nat /\ DOMAIN seqs = D /\ \A i \in D : seqs[i] \in Seq(T)
  OBVIOUS
<1>2. CASE N = 0
  <2>1. FlattenSeq(seqs) = seqs /\ seqs = <<>> /\ DOMAIN seqs = {}
    BY <1>2 DEF FlattenSeq
  <2> QED
    BY <2>1 DEF ToSet
<1>3. CASE N # 0
  <2>1. seqs # <<>>
    BY <1>3
  <2>2. PICK flat : /\ FlattenSeq(seqs) = flat[Len(seqs)]
                    /\ \A i \in DOMAIN seqs :
                         /\ flat[i] \in Seq(T)
                         /\ flat[i] = IF i = 1 THEN seqs[i] ELSE flat[i - 1] \o seqs[i]
    BY <2>1, FlattenSeqSolved
  <2>3. FlattenSeq(seqs) = flat[N]
    BY <2>2
  <2>4. \A i \in D : flat[i] = Body(flat, i)
    BY <1>1, <2>2
  <2> DEFINE Right(i) == /\ flat[i] \in Seq(T)
                         /\ ToSet(flat[i]) = UNION {ToSet(seqs[n]) : n \in 1 .. i}
             Wrong == {i \in D : ~ Right(i)}
  <2>5. Wrong = {}
    <3> SUFFICES ASSUME Wrong # {} PROVE FALSE
      OBVIOUS
    <3>1. PICK i \in Wrong : \A m \in Wrong : i <= m
      <4>1. Wrong \subseteq Nat
        OBVIOUS
      <4> HIDE DEF Wrong
      <4> QED
        BY <4>1, LeastMember
    <3>2. i \in D /\ i \in Nat /\ ~ Right(i)
      BY <1>1, <3>1
    <3>3. CASE i = 1
      <4>1. flat[i] = seqs[1] /\ 1 .. i = {1}
        <5>1. flat[i] = seqs[i]
          BY <2>4, <3>2, <3>3, Zenon
        <5>2. 1 .. 1 = {1}
          OBVIOUS
        <5> QED
          BY <3>3, <5>1, <5>2
      <4>2. Right(i)
        BY <1>1, <3>2, <3>3, <4>1
      <4> QED
        BY <3>2, <4>2
    <3>4. CASE i # 1
      <4>1. i - 1 \in D /\ ~ (i <= i - 1)
        BY <1>1, <3>2, <3>4
      <4>2. Right(i - 1)
        BY <3>1, <4>1
      <4>3. flat[i] = flat[i - 1] \o seqs[i]
        BY <2>4, <3>2, <3>4
      <4> DEFINE a == flat[i - 1]
                 b == seqs[i]
      <4>4. a \in Seq(T) /\ b \in Seq(T) /\ flat[i] = a \o b
        BY <1>1, <3>2, <4>2, <4>3
      <4>5. a \o b \in Seq(T) /\ ToSet(a \o b) = ToSet(a) \cup ToSet(b)
        <5> HIDE DEF a, b
        <5>1. /\ a \o b \in Seq(T) /\ Len(a \o b) = Len(a) + Len(b)
              /\ \A n \in 1 .. (Len(a) + Len(b)) :
                   (a \o b)[n] = IF n <= Len(a) THEN a[n] ELSE b[n - Len(a)]
          BY <4>4, ConcatProperties
        <5>2. /\ Len(a) \in Nat /\ Len(b) \in Nat /\ DOMAIN a = 1 .. Len(a)
              /\ DOMAIN b = 1 .. Len(b) /\ DOMAIN (a \o b) = 1 .. (Len(a) + Len(b))
          BY <4>4, <5>1, LenProperties
        <5> DEFINE c == a \o b
        <5>3. /\ DOMAIN c = 1 .. (Len(a) + Len(b))
              /\ \A n \in 1 .. (Len(a) + Len(b)) :
                   c[n] = IF n <= Len(a) THEN a[n] ELSE b[n - Len(a)]
          BY <5>1, <5>2
        <5> HIDE DEF c
        <5>4. \A n \in DOMAIN c : c[n] \in ToSet(a) \cup ToSet(b)
          <6> SUFFICES ASSUME NEW n \in DOMAIN c PROVE c[n] \in ToSet(a) \cup ToSet(b)
            OBVIOUS
          <6>1. n \in 1 .. (Len(a) + Len(b))
            BY <5>3
          <6>2. n \in DOMAIN a \/ (~ (n <= Len(a)) /\ n - Len(a) \in DOMAIN b)
            BY <5>2, <6>1
          <6> QED
            BY <5>2, <5>3, <6>1, <6>2 DEF ToSet
        <5>5. \A n \in DOMAIN a : a[n] \in ToSet(c)
          <6> SUFFICES ASSUME NEW n \in DOMAIN a PROVE a[n] \in ToSet(c)
            OBVIOUS
          <6>1. n \in 1 .. (Len(a) + Len(b)) /\ n <= Len(a)
            BY <5>2
          <6> QED
            BY <5>3, <6>1 DEF ToSet
        <5>6. \A n \in DOMAIN b : b[n] \in ToSet(c)
          <6> SUFFICES ASSUME NEW n \in DOMAIN b PROVE b[n] \in ToSet(c)
            OBVIOUS
          <6>1. /\ n + Len(a) \in 1 .. (Len(a) + Len(b)) /\ ~ (n + Len(a) <= Len(a))
                /\ (n + Len(a)) - Len(a) = n
            BY <5>2
          <6> QED
            BY <5>3, <6>1 DEF ToSet
        <5>7. ToSet(c) = ToSet(a) \cup ToSet(b)
          BY <5>4, <5>5, <5>6 DEF ToSet
        <5> QED
          BY <5>1, <5>7 DEF c
      <4>6. 1 .. i = (1 .. (i - 1)) \cup {i}
        BY <3>2, <4>1
      <4>7. ToSet(flat[i]) = UNION {ToSet(seqs[n]) : n \in 1 .. i}
        <5>1. ToSet(a) = UNION {ToSet(seqs[n]) : n \in 1 .. (i - 1)}
          BY <4>2
        <5> HIDE DEF a
        <5> QED
          BY <4>4, <4>5, <4>6, <5>1
      <4> QED
        BY <3>2, <4>4, <4>5, <4>7
    <3> QED
      BY <3>3, <3>4
  <2>6. N \in D /\ DOMAIN seqs = 1 .. N
    BY <1>1, <1>3
  <2>7. Right(N)
    BY <2>5, <2>6
  <2> QED
    BY <2>3, <2>6, <2>7
<1> QED
  BY <1>2, <1>3

(* The index of an entry is that of a place that holds it. *)
LEMMA IndexOfEntry ==
  ASSUME NEW T, NEW s \in Seq(T), NEW e \in ToSet(s)
  PROVE  /\ IndexOf(s, e) \in Nat /\ IndexOf(s, e) < Len(s) /\ Len(s) \in Nat
         /\ IndexOf(s, e) + 1 \in DOMAIN s /\ s[IndexOf(s, e) + 1] = e
<1> DEFINE n == CHOOSE m \in DOMAIN s : s[m] = e
<1>1. n \in DOMAIN s /\ s[n] = e
  <2>1. \E m \in DOMAIN s : s[m] = e
    BY DEF ToSet
  <2> QED
    BY <2>1
<1>2. IndexOf(s, e) = n - 1
  BY DEF IndexOf
<1> HIDE DEF n
<1>3. Len(s) \in Nat /\ n \in 1 .. Len(s) /\ n \in DOMAIN s
  BY <1>1
<1>4. (n - 1) + 1 = n /\ n - 1 \in Nat /\ n - 1 < Len(s)
  BY <1>3
<1> QED
  BY <1>1, <1>2, <1>3, <1>4

-----------------------------------------------------------------------------
(* Stage fusion: a stage computes what its last member computed.           *)

(* The length of a list that is given by its entries. *)
LEMMA ListOfEntries ==
  ASSUME NEW n \in Nat, NEW s, s = [p \in 1 .. n |-> s[p]]
  PROVE  Len(s) = n /\ DOMAIN s = 1 .. n
<1> DEFINE V == {s[p] : p \in 1 .. n}
<1>1. s \in [1 .. n -> V]
  OBVIOUS
<1> HIDE DEF V
<1>2. s \in Seq(V)
  BY <1>1, SeqDef
<1>3. DOMAIN s = 1 .. n
  BY <1>1
<1> QED
  BY <1>2, <1>3, LenProperties

MemberSet(head, h) == {i \in DOMAIN head : head[i] = h}

(* A component lists its members in order, its head the last. *)
LEMMA MembersList ==
  ASSUME NEW ns, NEW g, StoreList(ns), GraphOf(g, ns),
         NEW head, Components(g, head), NEW h \in Heads(head)
  PROVE  /\ h \in DOMAIN g.node /\ h \in Nat
         /\ Members(head, h) \in Seq(DOMAIN g.node)
         /\ ToSet(Members(head, h)) = MemberSet(head, h)
         /\ Len(Members(head, h)) \in Nat /\ Len(Members(head, h)) > 0
         /\ Members(head, h)[Len(Members(head, h))] = h
         /\ \A p, q \in DOMAIN Members(head, h) :
              Members(head, h)[p] < Members(head, h)[q] => p < q
<1> DEFINE D == DOMAIN g.node
           S == MemberSet(head, h)
           A == Ascending(S)
           N == Cardinality(S)
<1>1. D \in SUBSET Nat /\ IsFiniteSet(D) /\ head \in [D -> D]
  BY GraphIsFinite DEF Components
<1>2. S \in SUBSET D /\ h \in S /\ h \in D
  BY <1>1 DEF MemberSet, Heads
<1>3. S \in SUBSET Nat /\ IsFiniteSet(S)
  BY <1>1, <1>2, FS_Subset
<1>4. \A i \in S : i <= h
  BY <1>1 DEF Components, MemberSet
<1>5. Members(head, h) = A
  BY DEF Members, MemberSet
<1>6. /\ A \in Seq(S) /\ Len(A) = N /\ N \in Nat /\ DOMAIN A = 1 .. N
      /\ \A n \in 1 .. N : A[n] \in S /\ Rank(S, A[n]) = n - 1
      /\ \A i \in S : Rank(S, i) + 1 \in 1 .. N /\ A[Rank(S, i) + 1] = i
  BY <1>3, AscendingLists, Zenon
<1>7. \A i, k \in S : i < k => Rank(S, i) < Rank(S, k)
  BY <1>3, RanksNumber
<1> HIDE DEF A, N, S
<1>8. ToSet(A) = S
  BY <1>6 DEF ToSet
<1>9. N > 0 /\ N \in 1 .. N
  <2>1. Rank(S, h) + 1 \in 1 .. N
    BY <1>2, <1>6
  <2> QED
    BY <1>6, <2>1
<1>10. \A i \in S : Rank(S, i) \in Nat /\ Rank(S, i) < N
  BY <1>3, RanksNumber DEF N
<1>11. A[N] = h
  <2> DEFINE i == A[N]
  <2>1. i \in S /\ Rank(S, i) = N - 1
    BY <1>6, <1>9
  <2> HIDE DEF i
  <2>2. ~ (i < h)
    BY <1>2, <1>6, <1>7, <1>10, <2>1
  <2>3. i <= h /\ i \in Nat /\ h \in Nat
    BY <1>1, <1>2, <1>4, <2>1
  <2>4. i = h
    BY <2>2, <2>3
  <2> QED
    BY <2>4 DEF i
<1>12. ASSUME NEW p \in 1 .. N, NEW q \in 1 .. N, A[p] < A[q]
       PROVE  p < q
  <2>1. Rank(S, A[p]) < Rank(S, A[q])
    BY <1>6, <1>7, <1>12
  <2>2. p - 1 < q - 1
    BY <1>6, <2>1
  <2> QED
    BY <2>2
<1>13. A \in Seq(D)
  BY <1>2, <1>6
<1> QED
  BY <1>1, <1>2, <1>5, <1>6, <1>8, <1>9, <1>11, <1>12, <1>13 DEF S

(* What a node reads of another component is the head of it. *)
LEMMA ReadAcross ==
  ASSUME NEW ns, NEW g, StoreList(ns), GraphOf(g, ns),
         NEW head, Components(g, head),
         NEW i \in DOMAIN g.node, NEW n \in DOMAIN g.node[i].inputs
  PROVE  /\ g.node[i].inputs[n] \in DOMAIN g.node /\ g.node[i].inputs[n] < i
         /\ g.node[i].inputs[n] \in Nat /\ i \in Nat
         /\ head[i] \in Nat /\ g.node[i].inputs[n] < head[i] /\ head[i] \in DOMAIN g.node
         /\ head[g.node[i].inputs[n]] # head[i] =>
              head[g.node[i].inputs[n]] = g.node[i].inputs[n]
<1> DEFINE j == g.node[i].inputs[n]
<1>1. j \in DOMAIN g.node /\ j < i /\ i \in Nat /\ j \in Nat
  BY GraphNode
<1>2. i \in Consumers(g, j)
  BY <1>1 DEF Consumers, ToSet
<1>3. head[i] \in DOMAIN g.node /\ i <= head[i] /\ head[i] \in Nat
  BY GraphNode DEF Components
<1>4. head[j] # j => head[i] = head[j]
  BY <1>1, <1>2 DEF Components
<1> HIDE DEF j
<1>5. j < head[i]
  BY <1>1, <1>3
<1> QED
  BY <1>1, <1>3, <1>4, <1>5 DEF j

(* The slots of a component are the other components its members read. *)
LEMMA SlotsList ==
  ASSUME NEW ns, NEW g, StoreList(ns), GraphOf(g, ns),
         NEW head, Components(g, head), NEW h \in Heads(head)
  PROVE  /\ Slots(g, head, h) \in Seq(DOMAIN g.node)
         /\ \A k \in ToSet(Slots(g, head, h)) :
              k \in Heads(head) /\ k < h
         /\ \A i \in MemberSet(head, h) : \A n \in DOMAIN g.node[i].inputs :
              head[g.node[i].inputs[n]] # h =>
                head[g.node[i].inputs[n]] \in ToSet(Slots(g, head, h))
<1> DEFINE D == DOMAIN g.node
           in(i) == g.node[i].inputs
           reads == [i \in DOMAIN head |-> Through(head, in(i))]
           ops == Members(head, h)
           lists == Through(reads, ops)
           named == FlattenSeq(lists)
<1>1. head \in [D -> D] /\ DOMAIN head = D
  BY DEF Components
<1>2. ops \in Seq(D) /\ ToSet(ops) = MemberSet(head, h)
  BY MembersList
<1>3. ASSUME NEW i \in D
      PROVE  reads[i] \in Seq(D) /\ ToSet(reads[i]) = {head[in(i)[n]] : n \in DOMAIN in(i)}
  <2> DEFINE xs == in(i)
             r == Through(head, xs)
  <2>1. xs \in Seq(Nat) /\ \A n \in DOMAIN xs : xs[n] \in D
    BY GraphNode
  <2>2. DOMAIN xs = 1 .. Len(xs) /\ Len(xs) \in Nat
    BY <2>1
  <2> HIDE DEF xs
  <2>3. r = [n \in DOMAIN xs |-> head[xs[n]]]
    BY DEF Through
  <2>4. r \in [1 .. Len(xs) -> D]
    BY <1>1, <2>1, <2>2, <2>3
  <2>5. r \in Seq(D)
    BY <2>2, <2>4, SeqDef
  <2>6. ToSet(r) = {head[xs[n]] : n \in DOMAIN xs}
    BY <2>3 DEF ToSet
  <2>7. reads[i] = r
    BY <1>1 DEF xs
  <2> HIDE DEF reads, r
  <2> QED
    BY <2>5, <2>6, <2>7 DEF xs
<1> HIDE DEF reads
<1>4. lists \in Seq(Seq(D)) /\ DOMAIN lists = DOMAIN ops /\ \A p \in DOMAIN ops : lists[p] = reads[ops[p]]
  <2>1. DOMAIN ops = 1 .. Len(ops) /\ Len(ops) \in Nat /\ \A p \in DOMAIN ops : ops[p] \in D
    BY <1>2
  <2> HIDE DEF ops
  <2>2. lists = [p \in DOMAIN ops |-> reads[ops[p]]]
    BY DEF Through
  <2>3. lists \in [1 .. Len(ops) -> Seq(D)]
    BY <1>3, <2>1, <2>2
  <2>4. lists \in Seq(Seq(D))
    BY <2>1, <2>3, SeqDef
  <2> QED
    BY <2>2, <2>4
<1> HIDE DEF lists
<1>5. named \in Seq(D) /\ ToSet(named) = UNION {ToSet(lists[p]) : p \in DOMAIN lists}
  BY <1>4, FlattenSeqEntries
<1>6. Slots(g, head, h) = FirstSeen(named, {h})
  BY DEF Slots, lists, reads
<1> HIDE DEF named
<1>7. /\ Slots(g, head, h) \in Seq(D)
      /\ ToSet(Slots(g, head, h)) = ToSet(named) \ {h}
  BY <1>5, <1>6, FirstSeenEntries
<1>8. ASSUME NEW k \in ToSet(Slots(g, head, h))
      PROVE  k \in Heads(head) /\ k < h
  <2>1. k \in ToSet(named) /\ k # h
    BY <1>7
  <2>2. PICK p \in DOMAIN ops : k \in ToSet(reads[ops[p]])
    BY <1>4, <1>5, <2>1
  <2> DEFINE i == ops[p]
  <2>3. i \in D /\ head[i] = h
    BY <1>2, <2>2 DEF MemberSet, ToSet
  <2> HIDE DEF i, ops
  <2>4. PICK n \in DOMAIN in(i) : k = head[in(i)[n]]
    BY <1>3, <2>2, <2>3 DEF i
  <2>5. in(i)[n] \in D /\ in(i)[n] < h /\ head[in(i)[n]] = in(i)[n]
    BY <2>1, <2>3, <2>4, ReadAcross
  <2> QED
    BY <1>1, <2>4, <2>5 DEF Heads
<1>9. ASSUME NEW i \in MemberSet(head, h), NEW n \in DOMAIN in(i), head[in(i)[n]] # h
      PROVE  head[in(i)[n]] \in ToSet(Slots(g, head, h))
  <2>1. i \in D /\ i \in ToSet(ops)
    BY <1>1, <1>2 DEF MemberSet
  <2>2. PICK p \in DOMAIN ops : ops[p] = i
    BY <2>1 DEF ToSet
  <2>3. head[in(i)[n]] \in ToSet(lists[p])
    BY <1>3, <1>4, <2>1, <2>2
  <2>4. head[in(i)[n]] \in ToSet(named)
    BY <1>4, <1>5, <2>2, <2>3
  <2> QED
    BY <1>7, <1>9, <2>4
<1> QED
  BY <1>7, <1>8, <1>9

\* What the m-th member of a stage is applied to, from the terms f of members
\* and the terms of the slots.
MemberArgs(f, members, slots, m) ==
  [n \in DOMAIN members[m].inputs |->
     IF members[m].inputs[n][1] = "member" THEN f[members[m].inputs[n][2] + 1]
     ELSE IF members[m].inputs[n][2] < Len(slots) THEN slots[members[m].inputs[n][2] + 1]
     ELSE NoTerm]

MemberTerm(f, members, slots, m) ==
  Apply(ParseOpToken(members[m].token), MemberArgs(f, members, slots, m))

(* The terms of the members of a closed stage are determined: any terms that *)
(* satisfy the recursion are the ones it computes.                           *)
LEMMA StageTermSolved ==
  ASSUME NEW members, NEW slots, NEW sol, Len(members) \in Nat, Len(members) > 0,
         DOMAIN members = 1 .. Len(members),
         sol = [m \in DOMAIN members |-> MemberTerm(sol, members, slots, m)],
         \A m \in DOMAIN members : \A n \in DOMAIN members[m].inputs :
           members[m].inputs[n][1] = "member" =>
             members[m].inputs[n][2] \in Nat /\ members[m].inputs[n][2] + 1 < m
  PROVE  StageTerm(members, slots) = sol[Len(members)]
<1> DEFINE D == DOMAIN members
           term == CHOOSE f : f = [m \in D |-> MemberTerm(f, members, slots, m)]
           Wrong == {m \in D : term[m] # sol[m]}
<1>1. StageTerm(members, slots) = term[Len(members)]
  BY Zenon DEF StageTerm, MemberTerm, MemberArgs
<1>2. term = [m \in D |-> MemberTerm(term, members, slots, m)]
  BY Zenon
<1> HIDE DEF term
<1>3. \A m \in D : term[m] = MemberTerm(term, members, slots, m)
  BY <1>2
<1>4. \A m \in D : sol[m] = MemberTerm(sol, members, slots, m)
  OBVIOUS
<1>5. Wrong = {}
  <2> SUFFICES ASSUME Wrong # {} PROVE FALSE
    OBVIOUS
  <2>1. PICK m \in Wrong : \A k \in Wrong : m <= k
    <3>1. Wrong \subseteq Nat
      OBVIOUS
    <3> HIDE DEF Wrong
    <3> QED
      BY <3>1, LeastMember
  <2>2. m \in D /\ m \in Nat /\ m <= Len(members)
    BY <2>1
  <2>3. \A n \in DOMAIN members[m].inputs :
          members[m].inputs[n][1] = "member" =>
            term[members[m].inputs[n][2] + 1] = sol[members[m].inputs[n][2] + 1]
    <3> SUFFICES ASSUME NEW n \in DOMAIN members[m].inputs,
                        members[m].inputs[n][1] = "member"
                 PROVE  term[members[m].inputs[n][2] + 1] = sol[members[m].inputs[n][2] + 1]
      OBVIOUS
    <3> DEFINE k == members[m].inputs[n][2] + 1
    <3>1. k \in D /\ ~ (m <= k)
      BY <2>2
    <3> HIDE DEF k
    <3>2. ~ (k \in Wrong)
      BY <2>1, <3>1
    <3> QED
      BY <3>1, <3>2 DEF k
  <2>4. MemberArgs(term, members, slots, m) = MemberArgs(sol, members, slots, m)
    BY <2>3 DEF MemberArgs
  <2>5. term[m] = sol[m]
    BY <1>3, <1>4, <2>2, <2>4 DEF MemberTerm
  <2> QED
    BY <2>1, <2>5
<1>6. Len(members) \in D
  OBVIOUS
<1> QED
  BY <1>1, <1>5, <1>6

(* The token of a recorded op is read back as its operator. *)
LEMMA ParsedToken ==
  ASSUME NEW op \in Operators, Token(op)[1] = "op"
  PROVE  ParseOpToken(Token(op)) = op
<1>1. op.kind = "op"
  BY TokenOfOp
<1>2. Token(op) = <<"op", op.name, op.params>>
  BY <1>1 DEF Token
<1>3. op.prep = <<>> /\ op.members = <<>> /\ op.inputs = <<>>
  BY <1>1 DEF Operators
<1>4. ParseOpToken(Token(op)) = NodeKey("op", op.name, op.params, <<>>, <<>>, <<>>)
  BY <1>2 DEF ParseOpToken, Op
<1> QED
  BY <1>1, <1>3, <1>4 DEF NodeKey, Operators

\* The members and the inputs of a fused stage.
StageRef(g, head, h, j) ==
  IF head[j] = h THEN MemberRef(IndexOf(Members(head, h), j))
  ELSE InputRef(IndexOf(Slots(g, head, h), head[j]))

StageMember(g, head, h, i) ==
  StageOp(g.node[i].token,
          [n \in DOMAIN g.node[i].inputs |-> StageRef(g, head, h, g.node[i].inputs[n])])

(* A fused stage has a member for each op of its component and a slot for *)
(* each component it reads.                                               *)
LEMMA FuseStageParts ==
  ASSUME NEW g, NEW head, NEW h
  PROVE  FuseStage(g, head, h) =
           Stage([n \in DOMAIN Members(head, h) |->
                    StageMember(g, head, h, Members(head, h)[n])],
                 [n \in DOMAIN Slots(g, head, h) |-> Place(head, Slots(g, head, h)[n])])
BY Zenon DEF FuseStage, StageMember, StageRef

(* A fused stage computes, from the terms of its slots, the term of its head. *)
LEMMA FuseStageMeans ==
  ASSUME NEW ns, NEW g, NEW term, StoreList(ns), GraphOf(g, ns), Means(g, ns, term),
         NEW head, Components(g, head), NEW h \in Heads(head), ~ Boundary(g, h),
         NEW args, Len(args) = Len(Slots(g, head, h)),
         \A q \in DOMAIN Slots(g, head, h) : args[q] = term[Slots(g, head, h)[q]]
  PROVE  StageTerm([n \in DOMAIN Members(head, h) |->
                      StageMember(g, head, h, Members(head, h)[n])], args) = term[h]
<1> DEFINE D == DOMAIN g.node
           in(i) == g.node[i].inputs
           ops == Members(head, h)
           slots == Slots(g, head, h)
           members == [n \in DOMAIN ops |-> StageMember(g, head, h, ops[n])]
           sol == [m \in DOMAIN ops |-> term[ops[m]]]
<1>1. head \in [D -> D]
  BY DEF Components
<1>2. /\ ops \in Seq(D) /\ ToSet(ops) = MemberSet(head, h)
      /\ Len(ops) \in Nat /\ Len(ops) > 0 /\ ops[Len(ops)] = h
      /\ \A p, q \in DOMAIN ops : ops[p] < ops[q] => p < q
  BY MembersList
<1>3. /\ slots \in Seq(D)
      /\ \A i \in MemberSet(head, h) : \A n \in DOMAIN in(i) :
           head[in(i)[n]] # h => head[in(i)[n]] \in ToSet(slots)
  BY SlotsList
<1>4. /\ DOMAIN ops = 1 .. Len(ops) /\ DOMAIN members = DOMAIN ops
      /\ members \in [1 .. Len(ops) -> {StageMember(g, head, h, i) : i \in D}]
  BY <1>2
<1>5. Len(members) = Len(ops) /\ \A m \in DOMAIN ops : members[m] = StageMember(g, head, h, ops[m])
  BY <1>2, <1>4, LenProperties
<1> HIDE DEF ops, slots, members
<1>6. ASSUME NEW m \in DOMAIN ops
      PROVE  /\ ops[m] \in D /\ head[ops[m]] = h
             /\ members[m].token = g.node[ops[m]].token
             /\ DOMAIN members[m].inputs = DOMAIN in(ops[m])
             /\ \A n \in DOMAIN in(ops[m]) :
                  members[m].inputs[n] = StageRef(g, head, h, in(ops[m])[n])
  <2>1. ops[m] \in MemberSet(head, h)
    BY <1>2 DEF ToSet
  <2>2. ops[m] \in D /\ head[ops[m]] = h
    BY <1>1, <2>1 DEF MemberSet
  <2>3. members[m] = StageMember(g, head, h, ops[m])
    BY <1>5
  <2> QED
    BY <2>2, <2>3 DEF StageMember, StageOp
\* Where a reference leads: to the term of what it refers to.
<1>7. ASSUME NEW m \in DOMAIN ops, NEW n \in DOMAIN in(ops[m])
      PROVE  LET ref == members[m].inputs[n]
                 j == in(ops[m])[n]
             IN \/ /\ ref[1] = "member" /\ ref[2] \in Nat /\ ref[2] + 1 < m
                   /\ ref[2] + 1 \in DOMAIN ops /\ sol[ref[2] + 1] = term[j]
                \/ /\ ref[1] # "member" /\ ref[2] < Len(args)
                   /\ args[ref[2] + 1] = term[j]
  <2> DEFINE i == ops[m]
             j == in(i)[n]
             ref == members[m].inputs[n]
  <2>1. i \in D /\ head[i] = h /\ ref = StageRef(g, head, h, j)
    BY <1>6
  <2>2. j \in D /\ j < i /\ (head[j] # h => head[j] = j)
    BY <2>1, ReadAcross
  <2> HIDE DEF i, j, ref, sol
  <2>3. CASE head[j] = h
    <3> DEFINE r == IndexOf(ops, j)
    <3>1. j \in ToSet(ops)
      BY <1>1, <1>2, <2>2, <2>3 DEF MemberSet
    <3>2. r \in Nat /\ r + 1 \in DOMAIN ops /\ ops[r + 1] = j
      BY <1>2, <3>1, IndexOfEntry
    <3>3. ref = MemberRef(r)
      BY <2>1, <2>3 DEF StageRef, ops
    <3> HIDE DEF r
    <3>4. r + 1 < m
      BY <1>2, <2>2, <3>2 DEF i
    <3>5. sol[r + 1] = term[j]
      BY <3>2 DEF sol
    <3> QED
      BY <3>2, <3>3, <3>4, <3>5 DEF MemberRef, ref, j, i
  <2>4. CASE head[j] # h
    <3> DEFINE r == IndexOf(slots, j)
    <3>1. j \in ToSet(slots)
      <4>1. i \in MemberSet(head, h)
        BY <1>1, <2>1 DEF MemberSet
      <4>2. n \in DOMAIN in(i) /\ in(i)[n] = j
        BY DEF i, j
      <4>3. head[j] \in ToSet(slots)
        BY <1>3, <2>4, <4>1, <4>2
      <4> QED
        BY <2>2, <2>4, <4>3
    <3>2. r \in Nat /\ r < Len(slots) /\ r + 1 \in DOMAIN slots /\ slots[r + 1] = j
      BY <1>3, <3>1, IndexOfEntry
    <3>3. ref = InputRef(r)
      BY <2>1, <2>2, <2>4 DEF StageRef, slots
    <3>4. Len(args) = Len(slots) /\ args[r + 1] = term[slots[r + 1]]
      BY <3>2 DEF slots
    <3> HIDE DEF r
    <3> QED
      BY <3>2, <3>3, <3>4 DEF InputRef, ref, j, i
  <2> QED
    BY <2>3, <2>4
<1>8. \A m \in DOMAIN members : \A n \in DOMAIN members[m].inputs :
        members[m].inputs[n][1] = "member" =>
          members[m].inputs[n][2] \in Nat /\ members[m].inputs[n][2] + 1 < m
  <2> SUFFICES ASSUME NEW m \in DOMAIN members, NEW n \in DOMAIN members[m].inputs,
                      members[m].inputs[n][1] = "member"
               PROVE  members[m].inputs[n][2] \in Nat /\ members[m].inputs[n][2] + 1 < m
    OBVIOUS
  <2>1. m \in DOMAIN ops /\ n \in DOMAIN in(ops[m])
    BY <1>4, <1>6
  <2> QED
    BY <1>7, <2>1
<1>9. ASSUME NEW m \in DOMAIN ops
      PROVE  sol[m] = MemberTerm(sol, members, args, m)
  <2> DEFINE i == ops[m]
  <2>1. i \in D /\ head[i] = h /\ members[m].token = g.node[i].token
    BY <1>6
  <2>2. MemberArgs(sol, members, args, m) = Through(term, in(i))
    <3>1. \A n \in DOMAIN in(i) :
            (IF members[m].inputs[n][1] = "member" THEN sol[members[m].inputs[n][2] + 1]
             ELSE IF members[m].inputs[n][2] < Len(args) THEN args[members[m].inputs[n][2] + 1]
             ELSE NoTerm) = term[in(i)[n]]
      <4> SUFFICES ASSUME NEW n \in DOMAIN in(i)
                   PROVE  (IF members[m].inputs[n][1] = "member"
                           THEN sol[members[m].inputs[n][2] + 1]
                           ELSE IF members[m].inputs[n][2] < Len(args)
                                THEN args[members[m].inputs[n][2] + 1]
                           ELSE NoTerm) = term[in(i)[n]]
        OBVIOUS
      <4> HIDE DEF sol
      <4> QED
        BY <1>7
    <3>2. DOMAIN members[m].inputs = DOMAIN in(i)
      BY <1>6
    <3> HIDE DEF sol, i, in
    <3> QED
      BY <3>1, <3>2 DEF MemberArgs, Through
  <2>3. ~ Boundary(g, i)
    <3>1. Boundary(g, i) => head[i] = i
      BY <2>1 DEF Components
    <3> QED
      BY <2>1, <3>1
  <2>4. /\ Operator(ns[i + 1]) \in Operators
        /\ Token(Operator(ns[i + 1])) = g.node[i].token
        /\ term[i] = Apply(Operator(ns[i + 1]), Through(term, in(i)))
    <3>1. i \in D /\ g.node[i].token[1] = "op"
      BY <2>1, <2>3 DEF Boundary, BoundaryToken
    <3> HIDE DEF i
    <3> QED
      BY <3>1, GraphNode, OpNode
  <2>5. ParseOpToken(members[m].token) = Operator(ns[i + 1])
    BY <2>1, <2>3, <2>4, ParsedToken DEF Boundary, BoundaryToken
  <2>7. sol[m] = term[i]
    OBVIOUS
  <2> HIDE DEF sol, i
  <2> QED
    BY <2>2, <2>4, <2>5, <2>7 DEF MemberTerm
<1>10. sol = [m \in DOMAIN members |-> MemberTerm(sol, members, args, m)]
  <2>1. DOMAIN sol = DOMAIN members /\ sol = [m \in DOMAIN sol |-> sol[m]]
    BY <1>4
  <2> HIDE DEF sol
  <2> QED
    BY <1>4, <1>9, <2>1
<1>11. sol[Len(members)] = term[h]
  BY <1>2, <1>4, <1>5
<1>12. Len(members) \in Nat /\ Len(members) > 0 /\ DOMAIN members = 1 .. Len(members)
  BY <1>2, <1>4, <1>5
<1> HIDE DEF sol
<1>13. StageTerm(members, args) = sol[Len(members)]
  BY <1>8, <1>10, <1>12, StageTermSolved
<1> QED
  BY <1>11, <1>13 DEF members, ops

-----------------------------------------------------------------------------
(* Stage fusion: the reduced nodes.                                        *)

(* A key of a store over as many inputs is one that computes the same of what *)
(* it reads.                                                                  *)
LEMMA RemappedKey ==
  ASSUME NEW k, StoreKey(k), NEW inputs \in Seq(Nat), Len(inputs) = Len(k.inputs)
  PROVE  /\ StoreKey(WithInputs(k, inputs))
         /\ WithInputs(k, inputs).inputs = inputs
         /\ Operator(WithInputs(k, inputs)) = Operator(k)
         /\ Token(WithInputs(k, inputs)) = Token(k)
         /\ \A args : KeyTerm(WithInputs(k, inputs), args) = KeyTerm(k, args)
<1>1. k.kind = "source" => inputs = <<>>
  <2>1. k.kind = "source" => Len(inputs) = 0
    BY StoreKeyShape
  <2> QED
    BY <2>1, EmptySeq
<1> QED
  BY <1>1, MappedStoreKey

ReducedNode(ns, g0, g, head, h) ==
  IF Boundary(g, h) THEN RebuildBoundary(ns, g0, g, head, h) ELSE FuseStage(g, head, h)

(* The template of a token is a key of the operator it names. *)
LEMMA TemplateOperator ==
  ASSUME NEW ns, NEW g0, StoreList(ns), GraphOf(g0, ns), TokensName(g0, ns),
         NEW h \in DOMAIN g0.node
  PROVE  /\ StoreKey(Template(ns, g0, g0.node[h].token))
         /\ Operator(Template(ns, g0, g0.node[h].token)) = Operator(ns[h + 1])
<1> DEFINE S == {i \in DOMAIN g0.node : g0.node[i].token = g0.node[h].token}
           m == Min(S)
<1>1. S \subseteq Nat /\ S # {}
  BY GraphNode
<1>2. \E n \in S : \A k \in S : n <= k
  BY <1>1, LeastMember
<1>3. m \in S
  <2> HIDE DEF S
  <2> QED
    BY <1>2 DEF Min
<1>4. m \in DOMAIN g0.node /\ g0.node[m].token = g0.node[h].token
  BY <1>3
<1>5. Template(ns, g0, g0.node[h].token) = ns[m + 1]
  BY DEF Template
<1> HIDE DEF m
<1>6. Operator(ns[m + 1]) = Operator(ns[h + 1])
  BY <1>4 DEF TokensName
<1>7. StoreKey(ns[m + 1])
  BY <1>4, GraphNode
<1> QED
  BY <1>5, <1>6, <1>7

(* The places of heads number them in their order. *)
LEMMA HeadsInPlace ==
  ASSUME NEW ns, NEW g, StoreList(ns), GraphOf(g, ns), NEW head, Components(g, head)
  PROVE  /\ Ascending(Heads(head)) \in Seq(Heads(head))
         /\ Len(Ascending(Heads(head))) \in Nat
         /\ DOMAIN Ascending(Heads(head)) = 1 .. Len(Ascending(Heads(head)))
         /\ \A n \in DOMAIN Ascending(Heads(head)) :
              Place(head, Ascending(Heads(head))[n]) = n - 1
         /\ \A h \in Heads(head) :
              /\ h \in Nat /\ h \in DOMAIN g.node /\ Place(head, h) \in Nat
              /\ Place(head, h) < Len(Ascending(Heads(head)))
              /\ Ascending(Heads(head))[Place(head, h) + 1] = h
              /\ \A k \in Heads(head) : k < h => Place(head, k) < Place(head, h)
<1> DEFINE H == Heads(head)
           A == Ascending(H)
           N == Cardinality(H)
<1>1. H \in SUBSET DOMAIN g.node
  BY DEF Heads, Components
<1>2. H \in SUBSET Nat /\ IsFiniteSet(H)
  BY <1>1, GraphIsFinite, FS_Subset
<1>3. /\ A \in Seq(H) /\ Len(A) = N /\ N \in Nat /\ DOMAIN A = 1 .. N
      /\ \A n \in 1 .. N : A[n] \in H /\ Rank(H, A[n]) = n - 1
      /\ \A i \in H : Rank(H, i) + 1 \in 1 .. N /\ A[Rank(H, i) + 1] = i
  BY <1>2, AscendingLists, Zenon
<1>4. /\ \A i \in H : Rank(H, i) \in Nat /\ Rank(H, i) < N
      /\ \A i, k \in H : i < k => Rank(H, i) < Rank(H, k)
  BY <1>2, RanksNumber
<1>5. \A h : Place(head, h) = Rank(H, h)
  BY DEF Place, Rank
<1> HIDE DEF A, N, H
<1> QED
  BY <1>1, <1>2, <1>3, <1>4, <1>5 DEF A, H

\* The terms f of a reduced list agree with term on the heads below h.
AgreesBelow(head, term, f, h) ==
  \A k \in Heads(head) : k < h => f[Place(head, k)] = term[k]

\* A reduced key that stands for the component of h in a reduced list.
StandsFor(key, head, term, h) ==
  /\ StoreKey(key)
  /\ \A n \in DOMAIN key.inputs :
       \E k \in Heads(head) : k < h /\ key.inputs[n] = Place(head, k)
  /\ \A f : AgreesBelow(head, term, f, h) => KeyTerm(key, Through(f, key.inputs)) = term[h]

(* A boundary is rebuilt with its operator, over the heads it reads. *)
LEMMA BoundaryStandsForItself ==
  ASSUME NEW ns, NEW g0, NEW g, NEW term,
         StoreList(ns), GraphOf(g0, ns), TokensName(g0, ns), GraphOf(g, ns),
         DOMAIN g.node \subseteq DOMAIN g0.node, Means(g, ns, term),
         NEW head, Components(g, head), NEW h \in Heads(head), Boundary(g, h)
  PROVE  StandsFor(RebuildBoundary(ns, g0, g, head, h), head, term, h)
<1> DEFINE in == g.node[h].inputs
           template == Template(ns, g0, g.node[h].token)
           places == [n \in DOMAIN in |-> Place(head, head[in[n]])]
           key == WithInputs(template, places)
<1>1. h \in DOMAIN g.node /\ head[h] = h /\ h \in DOMAIN g0.node
  BY DEF Heads, Components
<1>2. StoreKey(template) /\ Operator(template) = Operator(ns[h + 1])
  <2>1. g.node[h].token = g0.node[h].token
    BY <1>1 DEF GraphOf
  <2> QED
    BY <1>1, <2>1, TemplateOperator
<1>3. ASSUME NEW n \in DOMAIN in
      PROVE  in[n] \in Heads(head) /\ in[n] < h /\ head[in[n]] = in[n]
  <2> DEFINE j == in[n]
  <2>1. j \in DOMAIN g.node /\ j < h /\ j \in Nat /\ h \in Nat
    BY <1>1, ReadAcross
  <2>2. head[j] # head[h] => head[j] = j
    BY <1>1, ReadAcross
  <2> HIDE DEF j
  <2>3. head[j] # h
    <3>1. Boundary(g, head[j]) => head[j] = j
      BY <2>1 DEF Components
    <3> QED
      BY <2>1, <3>1
  <2>4. head[j] = j /\ j \in Heads(head)
    BY <1>1, <2>1, <2>2, <2>3 DEF Components, Heads
  <2> QED
    BY <2>1, <2>4 DEF j
<1>4. /\ in \in Seq(Nat) /\ Len(in) = Len(ns[h + 1].inputs)
      /\ DOMAIN in = 1 .. Len(in) /\ Len(in) \in Nat
  <2>1. in \in Seq(Nat) /\ Len(in) = Len(ns[h + 1].inputs)
    BY <1>1, GraphNode
  <2> QED
    BY <2>1
<1>5. places \in Seq(Nat) /\ DOMAIN places = DOMAIN in /\ Len(places) = Len(in)
  <2>1. \A n \in DOMAIN in : Place(head, head[in[n]]) \in Nat
    BY <1>3, HeadsInPlace
  <2> HIDE DEF in
  <2>2. places \in [1 .. Len(in) -> Nat]
    BY <1>4, <2>1
  <2> HIDE DEF places
  <2>3. places \in Seq(Nat)
    BY <1>4, <2>2, SeqDef
  <2> QED
    BY <1>4, <2>2, <2>3, LenProperties
<1>6. template.kind = "source" => places = <<>>
  <2> SUFFICES ASSUME template.kind = "source" PROVE places = <<>>
    OBVIOUS
  <2>1. StoreKey(ns[h + 1])
    BY <1>1, GraphNode
  <2>2. ns[h + 1].kind = "source"
    BY <1>2, <2>1, StoreKeyShape
  <2>3. ns[h + 1].inputs = <<>>
    BY <2>1, <2>2, StoreKeyShape
  <2>4. Len(places) = 0
    BY <1>4, <1>5, <2>3
  <2> HIDE DEF places
  <2> QED
    BY <1>5, <2>4, EmptySeq
<1> HIDE DEF places, template
<1>7. /\ StoreKey(key) /\ key.inputs = places /\ Operator(key) = Operator(ns[h + 1])
  BY <1>2, <1>5, <1>6, MappedStoreKey
<1> HIDE DEF key
<1>8. \A n \in DOMAIN in : places[n] = Place(head, in[n])
  BY <1>3 DEF places
<1>9. \A n \in DOMAIN key.inputs :
        \E k \in Heads(head) : k < h /\ key.inputs[n] = Place(head, k)
  BY <1>3, <1>5, <1>7, <1>8
<1>10. ASSUME NEW f, AgreesBelow(head, term, f, h)
       PROVE  KeyTerm(key, Through(f, key.inputs)) = term[h]
  <2>1. \A n \in DOMAIN in : f[places[n]] = term[in[n]]
    BY <1>3, <1>8, <1>10 DEF AgreesBelow
  <2> HIDE DEF in
  <2>2. Through(f, places) = Through(term, in)
    BY <1>5, <2>1 DEF Through
  <2>3. KeyTerm(key, Through(f, places)) = KeyTerm(ns[h + 1], Through(term, in))
    <3>1. StoreKey(ns[h + 1])
      BY <1>1, GraphNode
    <3> QED
      BY <1>7, <2>2, <3>1, SameOperatorSameTerm
  <2>4. term[h] = KeyTerm(ns[h + 1], Through(term, in))
    BY <1>1 DEF Means, in
  <2> QED
    BY <1>7, <2>3, <2>4
<1>11. RebuildBoundary(ns, g0, g, head, h) = key
  BY Zenon DEF RebuildBoundary, key, places, template
<1> QED
  BY <1>7, <1>9, <1>10, <1>11 DEF StandsFor

(* A stage stands for its component. *)
LEMMA StageStandsForHead ==
  ASSUME NEW ns, NEW g, NEW term, StoreList(ns), GraphOf(g, ns), Means(g, ns, term),
         NEW head, Components(g, head), NEW h \in Heads(head), ~ Boundary(g, h)
  PROVE  StandsFor(FuseStage(g, head, h), head, term, h)
<1> DEFINE slots == Slots(g, head, h)
           places == [n \in DOMAIN slots |-> Place(head, slots[n])]
           ops == Members(head, h)
           members == [n \in DOMAIN ops |-> StageMember(g, head, h, ops[n])]
           key == Stage(members, places)
<1>1. /\ slots \in Seq(DOMAIN g.node)
      /\ \A k \in ToSet(slots) : k \in Heads(head) /\ k < h
  BY SlotsList
<1>2. \A n \in DOMAIN slots : slots[n] \in Heads(head) /\ slots[n] < h
  BY <1>1 DEF ToSet
<1>3. DOMAIN slots = 1 .. Len(slots) /\ Len(slots) \in Nat
  BY <1>1
<1>4. FuseStage(g, head, h) = key
  BY FuseStageParts
<1>5. Len(members) \in Nat
  <2>1. members = [n \in 1 .. Len(ops) |-> members[n]] /\ Len(ops) \in Nat
    BY MembersList
  <2> HIDE DEF members
  <2> QED
    BY <2>1, ListOfEntries
<1> HIDE DEF slots, members
<1>6. /\ places \in Seq(Nat) /\ DOMAIN places = DOMAIN slots
      /\ \A n \in DOMAIN slots : places[n] = Place(head, slots[n])
  <2>1. \A n \in DOMAIN slots : Place(head, slots[n]) \in Nat
    BY <1>2, HeadsInPlace
  <2>2. places \in [1 .. Len(slots) -> Nat]
    BY <1>3, <2>1
  <2>3. places \in Seq(Nat)
    <3> HIDE DEF places
    <3> QED
      BY <1>3, <2>2, SeqDef
  <2> QED
    BY <2>3
<1> HIDE DEF places
<1>7. key.kind = "stage" /\ key.members = members /\ key.inputs = places
  BY DEF Stage, NodeKey
<1>8. StoreKey(key)
  BY <1>6, <1>5 DEF StoreKey, StageKey
<1> HIDE DEF key
<1>9. ASSUME NEW f, AgreesBelow(head, term, f, h)
      PROVE  KeyTerm(key, Through(f, key.inputs)) = term[h]
  <2> DEFINE args == Through(f, places)
  <2>1. /\ DOMAIN args = DOMAIN slots
        /\ \A n \in DOMAIN slots : args[n] = term[slots[n]]
    BY <1>2, <1>6, <1>9 DEF AgreesBelow, Through
  <2>2. Len(args) = Len(slots)
    <3>1. args \in [1 .. Len(slots) -> {f[places[n]] : n \in DOMAIN slots}]
      BY <1>3, <1>6 DEF Through
    <3> HIDE DEF args
    <3>2. args \in Seq({f[places[n]] : n \in DOMAIN slots})
      BY <1>3, <3>1, SeqDef
    <3> DEFINE V == {f[places[n]] : n \in DOMAIN slots}
    <3> HIDE DEF V
    <3> QED
      BY <1>3, <2>1, <3>2, LenProperties DEF V
  <2> HIDE DEF args
  <2>3. StageTerm(members, args) = term[h]
    <3>1. /\ Len(args) = Len(Slots(g, head, h))
          /\ \A q \in DOMAIN Slots(g, head, h) : args[q] = term[Slots(g, head, h)[q]]
      BY <2>1, <2>2 DEF slots
    <3>2. StageTerm([n \in DOMAIN Members(head, h) |->
                       StageMember(g, head, h, Members(head, h)[n])], args) = term[h]
      BY <3>1, FuseStageMeans
    <3> QED
      BY <3>2, Zenon DEF members
  <2>4. KeyTerm(key, args) = StageTerm(members, args)
    BY <1>7, Zenon DEF KeyTerm
  <2> QED
    BY <1>7, <2>3, <2>4 DEF args
<1>10. \A n \in DOMAIN key.inputs :
        \E k \in Heads(head) : k < h /\ key.inputs[n] = Place(head, k)
  BY <1>2, <1>6, <1>7
<1> QED
  BY <1>4, <1>8, <1>9, <1>10 DEF StandsFor

\* A list with a node for each component, in the order of their heads.
StandsForHeads(nodes, head, term) ==
  /\ nodes = [n \in DOMAIN Ascending(Heads(head)) |-> nodes[n]]
  /\ \A n \in DOMAIN Ascending(Heads(head)) :
       StandsFor(nodes[n], head, term, Ascending(Heads(head))[n])

\* The term of each head at its place.
TermsInPlace(nodes, head, term) ==
  \A h \in Heads(head) :
    /\ Place(head, h) \in Nat /\ Place(head, h) < Len(nodes)
    /\ Terms(nodes)[Place(head, h)] = term[h]

(* The list a fusion builds has the term of each head at its place. *)
LEMMA FusedListMeans ==
  ASSUME NEW ns, NEW g, NEW term, StoreList(ns), GraphOf(g, ns),
         NEW head, Components(g, head), NEW nodes, StandsForHeads(nodes, head, term)
  PROVE  StoreList(nodes) /\ TermsInPlace(nodes, head, term)
<1> DEFINE H == Heads(head)
           order == Ascending(H)
           place(h) == Place(head, h)
           Wrong == {h \in H : Terms(nodes)[place(h)] # term[h]}
<1>1. /\ order \in Seq(H) /\ Len(order) \in Nat /\ DOMAIN order = 1 .. Len(order)
      /\ \A n \in DOMAIN order : place(order[n]) = n - 1
      /\ \A h \in H :
           /\ h \in Nat /\ place(h) \in Nat /\ place(h) < Len(order)
           /\ order[place(h) + 1] = h
           /\ \A k \in H : k < h => place(k) < place(h)
  BY HeadsInPlace
<1> HIDE DEF order, H, place
<1>2. DOMAIN nodes = 1 .. Len(order) /\ Len(nodes) = Len(order)
  <2>1. DOMAIN nodes = 1 .. Len(order)
    BY <1>1 DEF order, H, StandsForHeads
  <2>2. nodes \in [1 .. Len(order) -> {nodes[n] : n \in 1 .. Len(order)}]
    BY <2>1 DEF order, H, StandsForHeads
  <2> DEFINE V == {nodes[n] : n \in 1 .. Len(order)}
  <2>3. nodes \in [1 .. Len(order) -> V]
    BY <2>2
  <2> HIDE DEF V
  <2>4. nodes \in Seq(V)
    BY <1>1, <2>3, SeqDef
  <2> QED
    BY <1>1, <2>1, <2>4, LenProperties
<1>3. \A n \in DOMAIN order : order[n] \in H /\ StandsFor(nodes[n], head, term, order[n])
  BY <1>1 DEF order, H, StandsForHeads
<1>4. ASSUME NEW h \in H
      PROVE  /\ place(h) + 1 \in DOMAIN nodes
             /\ StandsFor(nodes[place(h) + 1], head, term, h)
  <2>1. place(h) + 1 \in DOMAIN order
    BY <1>1
  <2> QED
    BY <1>1, <1>2, <1>3, <2>1
<1>5. InputsBefore(nodes)
  <2> SUFFICES ASSUME NEW i \in 0 .. (Len(nodes) - 1),
                      NEW n \in DOMAIN nodes[i + 1].inputs
               PROVE  nodes[i + 1].inputs[n] \in 0 .. (i - 1)
    BY <1>1, <1>2 DEF InputsBefore
  <2>1. i + 1 \in DOMAIN order /\ i \in Nat
    BY <1>1, <1>2
  <2> DEFINE h == order[i + 1]
  <2>2. h \in H /\ StandsFor(nodes[i + 1], head, term, h) /\ place(h) = i
    <3>1. place(h) = i
      <4>1. place(order[i + 1]) = (i + 1) - 1
        BY <1>1, <2>1, Zenon
      <4>2. (i + 1) - 1 = i
        BY <2>1
      <4> QED
        BY <4>1, <4>2
    <3>2. h \in H /\ StandsFor(nodes[i + 1], head, term, h)
      BY <1>3, <2>1, Zenon
    <3> QED
      BY <3>1, <3>2
  <2> HIDE DEF h
  <2>3. PICK k \in H : k < h /\ nodes[i + 1].inputs[n] = place(k)
    BY <2>2 DEF StandsFor, H, place
  <2>4. place(k) \in Nat /\ place(k) < i
    BY <1>1, <2>2, <2>3
  <2> QED
    BY <2>1, <2>3, <2>4
<1>6. StoreList(nodes)
  <2>1. nodes = [n \in 1 .. Len(nodes) |-> nodes[n]]
    BY <1>1, <1>2 DEF order, H, StandsForHeads
  <2>2. \A n \in DOMAIN nodes : StoreKey(nodes[n])
    BY <1>1, <1>2, <1>3 DEF StandsFor
  <2> QED
    BY <1>5, <2>1, <2>2 DEF StoreList
<1>7. Wrong = {}
  <2> SUFFICES ASSUME Wrong # {} PROVE FALSE
    OBVIOUS
  <2>1. PICK h \in Wrong : \A k \in Wrong : h <= k
    <3>1. Wrong \subseteq Nat
      BY <1>1
    <3> HIDE DEF Wrong
    <3> QED
      BY <3>1, LeastMember
  <2>2. h \in H /\ h \in Nat /\ Terms(nodes)[place(h)] # term[h]
    BY <1>1, <2>1
  <2>3. ASSUME NEW k \in H, k < h
        PROVE  Terms(nodes)[place(k)] = term[k]
    <3>1. k \in Nat /\ ~ (h <= k)
      BY <1>1, <2>2, <2>3
    <3>2. ~ (k \in Wrong)
      BY <2>1, <3>1
    <3> QED
      BY <2>3, <3>2
  <2>4. AgreesBelow(head, term, Terms(nodes), h)
    BY <2>3 DEF AgreesBelow, H, place
  <2> DEFINE key == nodes[place(h) + 1]
  <2>5. StandsFor(key, head, term, h)
    BY <1>4, <2>2
  <2>6. KeyTerm(key, Through(Terms(nodes), key.inputs)) = term[h]
    BY <2>4, <2>5 DEF StandsFor
  <2>7. place(h) \in 0 .. (Len(nodes) - 1)
    BY <1>1, <1>2, <2>2
  <2>8. Terms(nodes)[place(h)] = TermFrom(nodes, Terms(nodes), place(h))
    BY <1>5, <2>7, TermsEquation
  <2> QED
    BY <2>2, <2>6, <2>8 DEF TermFrom
<1>8. \A h \in H : place(h) \in Nat /\ place(h) < Len(nodes)
  BY <1>1, <1>2
<1> QED
  BY <1>6, <1>7, <1>8 DEF H, place, TermsInPlace

(* Stage fusion keeps the meaning of every output. *)
LEMMA StageFusionMeans ==
  ASSUME NEW ns, NEW g0, NEW g, NEW term, NEW mode \in FusionModes,
         StoreList(ns), GraphOf(g0, ns), TokensName(g0, ns), GraphOf(g, ns),
         DOMAIN g.node \subseteq DOMAIN g0.node, Means(g, ns, term),
         g.outs \in Seq(DOMAIN g.node)
  PROVE  LET red == StageFusion(ns, g0, g, mode)
         IN /\ StoreList(red.nodes)
            /\ red.outs \in Seq(Nat) /\ Len(red.outs) = Len(g.outs)
            /\ \A n \in DOMAIN g.outs :
                 /\ red.outs[n] < Len(red.nodes)
                 /\ Terms(red.nodes)[red.outs[n]] = term[g.outs[n]]
<1> DEFINE head == HeadOf(g, mode)
           order == Ascending(Heads(head))
           nodes == [n \in DOMAIN order |->
                       IF Boundary(g, order[n])
                       THEN RebuildBoundary(ns, g0, g, head, order[n])
                       ELSE FuseStage(g, head, order[n])]
           outs == [n \in DOMAIN g.outs |-> Place(head, head[g.outs[n]])]
           red == StageFusion(ns, g0, g, mode)
<1>1. Components(g, head)
  <2>1. mode = "SingleUse" \/ mode = "Maximal"
    BY DEF FusionModes
  <2> QED
    BY <2>1, SingleUseComponents, MaximalComponents DEF HeadOf
<1>2. red.nodes = nodes /\ red.outs = outs
  BY DEF StageFusion
<1> HIDE DEF head, red
<1>3. \A n \in DOMAIN order : order[n] \in Heads(head)
  BY <1>1, HeadsInPlace
<1>4. ASSUME NEW n \in DOMAIN order
      PROVE  StandsFor(nodes[n], head, term, order[n])
  <2> DEFINE h == order[n]
  <2>1. h \in Heads(head)
    BY <1>3
  <2>2. nodes[n] = IF Boundary(g, h) THEN RebuildBoundary(ns, g0, g, head, h)
                   ELSE FuseStage(g, head, h)
    OBVIOUS
  <2> HIDE DEF h, nodes
  <2>3. CASE Boundary(g, h)
    BY <1>1, <2>1, <2>2, <2>3, BoundaryStandsForItself DEF h
  <2>4. CASE ~ Boundary(g, h)
    BY <1>1, <2>1, <2>2, <2>4, StageStandsForHead DEF h
  <2> QED
    BY <2>3, <2>4
<1>5. nodes = [n \in DOMAIN order |-> nodes[n]]
  OBVIOUS
<1> HIDE DEF nodes
<1>6. StoreList(nodes) /\ TermsInPlace(nodes, head, term)
  <2>1. \A n \in DOMAIN Ascending(Heads(head)) :
          StandsFor(nodes[n], head, term, Ascending(Heads(head))[n])
    BY <1>4
  <2>2. nodes = [n \in DOMAIN Ascending(Heads(head)) |-> nodes[n]]
    BY <1>5
  <2>3. StandsForHeads(nodes, head, term)
    BY <2>1, <2>2, Zenon DEF StandsForHeads
  <2> QED
    BY <1>1, <2>3, FusedListMeans
<1>7. ASSUME NEW n \in DOMAIN g.outs
      PROVE  /\ outs[n] \in Nat /\ outs[n] < Len(nodes)
             /\ Terms(nodes)[outs[n]] = term[g.outs[n]]
  <2>1. g.outs[n] \in DOMAIN g.node /\ IsOutput(g, g.outs[n])
    BY DEF IsOutput, ToSet
  <2>2. head[g.outs[n]] = g.outs[n] /\ g.outs[n] \in Heads(head)
    BY <1>1, <2>1 DEF Components, Heads
  <2>3. outs[n] = Place(head, g.outs[n])
    BY <2>2
  <2> QED
    BY <1>6, <2>2, <2>3 DEF TermsInPlace
<1>8. DOMAIN outs = DOMAIN g.outs /\ DOMAIN g.outs = 1 .. Len(g.outs) /\ Len(g.outs) \in Nat
  OBVIOUS
<1>9. outs \in [1 .. Len(g.outs) -> Nat]
  BY <1>7, <1>8
<1> HIDE DEF outs
<1>10. outs \in Seq(Nat) /\ Len(outs) = Len(g.outs)
  <2>1. outs \in Seq(Nat)
    BY <1>8, <1>9, SeqDef
  <2> QED
    BY <1>8, <2>1, LenProperties
<1> QED
  BY <1>2, <1>6, <1>7, <1>10 DEF red

-----------------------------------------------------------------------------
(* from_reduced: interning a reduced list.                                 *)

\* One step of interning, from the list of what it made before.
InternStep(keys, acc, n) ==
  IF n = 0 THEN [nodes |-> <<>>, map |-> <<>>] ELSE InternInto(acc[n - 1], keys[n])

(* Interning a list has a step for each key. *)
LEMMA InternSteps ==
  ASSUME NEW keys, Len(keys) \in Nat
  PROVE  \E acc : /\ InternAll(keys) = acc[Len(keys)]
                  /\ \A n \in 0 .. Len(keys) : acc[n] = InternStep(keys, acc, n)
<1> DEFINE N == Len(keys)
           SolvesTo(f, k) == \A n \in 0 .. (k - 1) : f[n] = InternStep(keys, f, n)
           Missing == {k \in 0 .. (N + 1) : ~ \E f : SolvesTo(f, k)}
<1>1. Missing = {}
  <2> SUFFICES ASSUME Missing # {} PROVE FALSE
    OBVIOUS
  <2>1. PICK k \in Missing : \A m \in Missing : k <= m
    <3>1. Missing \subseteq Nat
      OBVIOUS
    <3> HIDE DEF Missing
    <3> QED
      BY <3>1, LeastMember
  <2>2. k \in Nat /\ k <= N + 1 /\ ~ \E f : SolvesTo(f, k)
    BY <2>1
  <2>3. k # 0
    <3>1. SolvesTo(keys, 0)
      OBVIOUS
    <3> QED
      BY <2>2, <3>1
  <2>4. k - 1 \in 0 .. (N + 1) /\ ~ (k <= k - 1)
    BY <2>2, <2>3
  <2>5. PICK f : SolvesTo(f, k - 1)
    BY <2>1, <2>4
  <2> DEFINE h == [n \in 0 .. (k - 1) |->
                     IF n < k - 1 THEN f[n] ELSE InternStep(keys, f, k - 1)]
  <2> HIDE DEF Missing
  <2>6. /\ \A n \in 0 .. (k - 2) : h[n] = f[n]
        /\ h[k - 1] = InternStep(keys, f, k - 1)
    BY <2>2, <2>3
  <2> HIDE DEF h
  <2>7. ASSUME NEW n \in 0 .. (k - 1)
        PROVE  h[n] = InternStep(keys, h, n)
    <3>1. n # 0 => h[n - 1] = f[n - 1]
      BY <2>2, <2>6
    <3>2. InternStep(keys, h, n) = InternStep(keys, f, n)
      BY <3>1 DEF InternStep
    <3>3. CASE n < k - 1
      <4>1. n \in 0 .. ((k - 1) - 1) /\ n \in 0 .. (k - 2)
        BY <2>2, <3>3
      <4> QED
        BY <2>5, <2>6, <3>2, <4>1
    <3>4. CASE n = k - 1
      BY <2>6, <3>2, <3>4
    <3> QED
      BY <2>2, <3>3, <3>4
  <2> QED
    BY <2>2, <2>7
<1>2. \E f : SolvesTo(f, N + 1)
  <2>1. N + 1 \in 0 .. (N + 1)
    OBVIOUS
  <2> HIDE DEF SolvesTo
  <2> QED
    BY <1>1, <2>1
<1>3. PICK f : SolvesTo(f, N + 1)
  BY <1>2
<1> DEFINE h == [n \in 0 .. N |-> f[n]]
<1>4. ASSUME NEW n \in 0 .. N
      PROVE  h[n] = InternStep(keys, h, n)
  <2>1. n \in 0 .. ((N + 1) - 1) /\ (n # 0 => n - 1 \in 0 .. N)
    OBVIOUS
  <2>2. n # 0 => h[n - 1] = f[n - 1]
    BY <2>1
  <2>3. InternStep(keys, h, n) = InternStep(keys, f, n)
    <3> HIDE DEF h
    <3> QED
      BY <2>2 DEF InternStep
  <2>4. f[n] = InternStep(keys, f, n)
    BY <1>3, <2>1
  <2>5. h[n] = f[n]
    OBVIOUS
  <2> QED
    BY <2>3, <2>4, <2>5
<1>5. h = [n \in 0 .. N |-> h[n]]
  OBVIOUS
<1> HIDE DEF h
<1>6. h = [n \in 0 .. N |-> InternStep(keys, h, n)]
  BY <1>4, <1>5
<1> DEFINE acc == CHOOSE a : a = [n \in 0 .. N |-> InternStep(keys, a, n)]
<1>7. acc = [n \in 0 .. N |-> InternStep(keys, acc, n)]
  BY <1>6, Zenon
<1>8. InternAll(keys) = acc[N]
  BY Zenon DEF InternAll, InternStep
<1> HIDE DEF acc
<1>9. \A n \in 0 .. N : acc[n] = InternStep(keys, acc, n)
  BY <1>7, Zenon
<1> QED
  BY <1>8, <1>9

(* Appending to a list. *)
LEMMA AppendedList ==
  ASSUME NEW s, Len(s) \in Nat, s = [n \in 1 .. Len(s) |-> s[n]], NEW e
  PROVE  /\ Len(Append(s, e)) = Len(s) + 1
         /\ DOMAIN Append(s, e) = 1 .. (Len(s) + 1)
         /\ Append(s, e) = [n \in 1 .. (Len(s) + 1) |-> Append(s, e)[n]]
         /\ \A n \in 1 .. Len(s) : Append(s, e)[n] = s[n]
         /\ Append(s, e)[Len(s) + 1] = e
<1> DEFINE V == {s[n] : n \in 1 .. Len(s)} \cup {e}
<1>1. s \in [1 .. Len(s) -> V]
  OBVIOUS
<1>2. e \in V
  OBVIOUS
<1> HIDE DEF V
<1>3. s \in Seq(V)
  BY <1>1, SeqDef
<1>4. /\ Append(s, e) \in Seq(V) /\ Len(Append(s, e)) = Len(s) + 1
      /\ \A n \in 1 .. Len(s) : Append(s, e)[n] = s[n]
      /\ Append(s, e)[Len(s) + 1] = e
  BY <1>2, <1>3, AppendProperties
<1>5. DOMAIN Append(s, e) = 1 .. (Len(s) + 1) /\ Append(s, e) \in [1 .. (Len(s) + 1) -> V]
  BY <1>4, LenProperties
<1> QED
  BY <1>4, <1>5

(* A key over nodes of a list, after them, leaves their terms. *)
LEMMA AppendedKey ==
  ASSUME NEW nodes, StoreList(nodes), NEW key, StoreKey(key),
         \A n \in DOMAIN key.inputs : key.inputs[n] \in 0 .. (Len(nodes) - 1)
  PROVE  /\ StoreList(Append(nodes, key)) /\ Len(Append(nodes, key)) = Len(nodes) + 1
         /\ \A i \in 0 .. (Len(nodes) - 1) : Terms(Append(nodes, key))[i] = Terms(nodes)[i]
         /\ Terms(Append(nodes, key))[Len(nodes)]
              = KeyTerm(key, Through(Terms(nodes), key.inputs))
<1> DEFINE ms == Append(nodes, key)
           N == Len(nodes)
<1>1. /\ N \in Nat /\ nodes = [n \in 1 .. N |-> nodes[n]] /\ InputsBefore(nodes)
      /\ \A n \in DOMAIN nodes : StoreKey(nodes[n])
  BY DEF StoreList, InputsBefore
<1>2. /\ Len(ms) = N + 1 /\ DOMAIN ms = 1 .. (N + 1)
      /\ ms = [n \in 1 .. (N + 1) |-> ms[n]]
      /\ \A n \in 1 .. N : ms[n] = nodes[n]
      /\ ms[N + 1] = key
  BY <1>1, AppendedList
<1>3. DOMAIN nodes = 1 .. N
  BY <1>1
<1> HIDE DEF ms, N
<1>4. ASSUME NEW i \in 0 .. (N - 1)
      PROVE  ms[i + 1] = nodes[i + 1]
  <2>1. N \in Nat
    BY <1>1
  <2>2. i + 1 \in 1 .. N
    BY <2>1
  <2> QED
    BY <1>2, <2>2
<1>5. InputsBefore(ms)
  <2>1. N \in Nat /\ Len(ms) \in Nat /\ Len(ms) = N + 1
    BY <1>1, <1>2
  <2>2. ASSUME NEW i \in 0 .. (Len(ms) - 1), NEW n \in DOMAIN ms[i + 1].inputs
        PROVE  ms[i + 1].inputs[n] \in 0 .. (i - 1)
    <3>1. CASE i \in 0 .. (N - 1)
      <4>1. n \in DOMAIN nodes[i + 1].inputs
        BY <1>4, <3>1
      <4>2. nodes[i + 1].inputs[n] \in 0 .. (i - 1)
        BY <1>1, <3>1, <4>1 DEF InputsBefore, N
      <4> QED
        BY <1>4, <3>1, <4>2
    <3>2. CASE i = N
      BY <1>2, <3>2 DEF N
    <3> QED
      BY <2>1, <3>1, <3>2
  <2> QED
    BY <2>1, <2>2 DEF InputsBefore
<1>6. StoreList(ms)
  <2>1. ms = [n \in 1 .. Len(ms) |-> ms[n]]
    BY <1>2
  <2>2. ASSUME NEW n \in DOMAIN ms
        PROVE  StoreKey(ms[n])
    <3>1. CASE n \in 1 .. N
      BY <1>1, <1>2, <1>3, <3>1
    <3>2. CASE n = N + 1
      BY <1>2, <3>2
    <3> QED
      BY <1>1, <1>2, <3>1, <3>2
  <2> QED
    BY <1>5, <2>1, <2>2 DEF StoreList
<1>7. \A i \in 0 .. (N - 1) : Terms(ms)[i] = Terms(nodes)[i]
  <2>1. Len(nodes) <= Len(ms)
    BY <1>1, <1>2 DEF N
  <2> QED
    BY <1>1, <1>4, <1>5, <2>1, TermsOfPrefix DEF N
<1>8. Terms(ms)[N] = KeyTerm(key, Through(Terms(nodes), key.inputs))
  <2>1. N \in 0 .. (Len(ms) - 1)
    BY <1>1, <1>2
  <2>2. Terms(ms)[N] = TermFrom(ms, Terms(ms), N)
    BY <1>5, <2>1, TermsEquation
  <2>3. Through(Terms(ms), key.inputs) = Through(Terms(nodes), key.inputs)
    BY <1>7 DEF Through, N
  <2> QED
    BY <1>2, <2>2, <2>3 DEF TermFrom
<1> QED
  BY <1>2, <1>6, <1>7, <1>8 DEF ms, N

\* What interning the first k keys has made: a list without repetitions, with
\* the term of each of them where the map says.
Interned(acc, keys, k) ==
  /\ acc = [nodes |-> acc.nodes, map |-> acc.map]
  /\ StoreList(acc.nodes)
  /\ \A p, q \in DOMAIN acc.nodes : acc.nodes[p] = acc.nodes[q] => p = q
  /\ acc.map \in Seq(Nat) /\ Len(acc.map) = k
  /\ \A n \in 1 .. k : /\ acc.map[n] < Len(acc.nodes)
                       /\ Terms(acc.nodes)[acc.map[n]] = Terms(keys)[n - 1]

\* The key that interning looks for: the k-th, over the interned ids.
MappedThrough(acc, key) ==
  WithInputs(key, Through(acc.map, [n \in DOMAIN key.inputs |-> key.inputs[n] + 1]))

(* The key it looks for computes the same of the interned list. *)
LEMMA MappedThroughMeans ==
  ASSUME NEW keys, StoreList(keys), NEW k \in Nat, k < Len(keys),
         NEW acc, Interned(acc, keys, k)
  PROVE  LET key == MappedThrough(acc, keys[k + 1])
         IN /\ StoreKey(key)
            /\ \A n \in DOMAIN key.inputs : key.inputs[n] \in 0 .. (Len(acc.nodes) - 1)
            /\ KeyTerm(key, Through(Terms(acc.nodes), key.inputs)) = Terms(keys)[k]
<1> DEFINE given == keys[k + 1]
           in == given.inputs
           up == [n \in DOMAIN in |-> in[n] + 1]
           inputs == Through(acc.map, up)
           key == WithInputs(given, inputs)
<1>1. Len(keys) \in Nat /\ k \in 0 .. (Len(keys) - 1) /\ k + 1 \in DOMAIN keys
  <2>1. Len(keys) \in Nat
    BY DEF StoreList, InputsBefore
  <2>2. DOMAIN keys = 1 .. Len(keys)
    BY DEF StoreList
  <2> QED
    BY <2>1, <2>2
<1>2. StoreKey(given)
  BY <1>1 DEF StoreList
<1>3. in \in Seq(Nat)
  <2>1. CASE given \in PlainKeys
    BY <2>1, KeyIsOperatorOverInputs
  <2>2. CASE StageKey(given)
    <3>1. PICK members, slots : slots \in Seq(Nat) /\ given = Stage(members, slots)
      BY <2>2 DEF StageKey
    <3>2. Stage(members, slots).inputs = slots
      BY DEF Stage, NodeKey
    <3> QED
      BY <3>1, <3>2
  <2> HIDE DEF given
  <2> QED
    BY <1>2, <2>1, <2>2 DEF StoreKey
<1>4. \A n \in DOMAIN in : in[n] \in 0 .. (k - 1)
  BY <1>1 DEF StoreList, InputsBefore
<1>5. DOMAIN in = 1 .. Len(in) /\ Len(in) \in Nat
  BY <1>3
<1>6. Len(acc.nodes) \in Nat
  BY DEF Interned, StoreList, InputsBefore
<1> HIDE DEF given, in
<1>7. ASSUME NEW n \in DOMAIN in
      PROVE  /\ inputs[n] \in Nat /\ inputs[n] < Len(acc.nodes)
             /\ Terms(acc.nodes)[inputs[n]] = Terms(keys)[in[n]]
  <2>1. inputs[n] = acc.map[in[n] + 1]
    BY DEF Through
  <2>2. in[n] + 1 \in 1 .. k /\ (in[n] + 1) - 1 = in[n]
    BY <1>4
  <2>3. in[n] + 1 \in DOMAIN acc.map /\ acc.map[in[n] + 1] \in Nat
    BY <2>2 DEF Interned
  <2> QED
    BY <2>1, <2>2, <2>3 DEF Interned
<1>8. DOMAIN inputs = DOMAIN in
  BY DEF Through
<1>9. inputs \in [1 .. Len(in) -> Nat]
  <2>1. inputs = [n \in 1 .. Len(in) |-> acc.map[in[n] + 1]]
    BY <1>5 DEF Through
  <2>2. \A n \in 1 .. Len(in) : acc.map[in[n] + 1] \in Nat
    BY <1>5, <1>7, <2>1
  <2> QED
    BY <2>1, <2>2
<1> HIDE DEF inputs
<1>10. inputs \in Seq(Nat) /\ Len(inputs) = Len(in)
  <2>1. inputs \in Seq(Nat)
    BY <1>5, <1>9, SeqDef
  <2> QED
    BY <1>5, <1>8, <2>1, LenProperties
<1>11. /\ StoreKey(key) /\ key.inputs = inputs
       /\ \A args : KeyTerm(key, args) = KeyTerm(given, args)
  BY <1>2, <1>10, RemappedKey DEF in
<1> HIDE DEF key
<1>12. \A n \in DOMAIN key.inputs : key.inputs[n] \in 0 .. (Len(acc.nodes) - 1)
  BY <1>6, <1>7, <1>8, <1>11
<1>13. KeyTerm(key, Through(Terms(acc.nodes), key.inputs)) = Terms(keys)[k]
  <2>1. Through(Terms(acc.nodes), inputs) = Through(Terms(keys), in)
    BY <1>7, <1>8 DEF Through
  <2>2. Terms(keys)[k] = TermFrom(keys, Terms(keys), k)
    BY <1>1, TermsEquation DEF StoreList
  <2> QED
    BY <1>11, <2>1, <2>2 DEF TermFrom, given, in
<1>14. MappedThrough(acc, keys[k + 1]) = key
  BY DEF MappedThrough, key, inputs, given, in
<1> QED
  BY <1>11, <1>12, <1>13, <1>14

(* Interning a key keeps what was interned, and adds the place of its term. *)
LEMMA InternKeeps ==
  ASSUME NEW keys, StoreList(keys), NEW k \in Nat, k < Len(keys),
         NEW acc, Interned(acc, keys, k)
  PROVE  Interned(InternInto(acc, keys[k + 1]), keys, k + 1)
<1> DEFINE key == MappedThrough(acc, keys[k + 1])
           nodes == acc.nodes
           next == InternInto(acc, keys[k + 1])
           N == Len(nodes)
           want(n) == Terms(keys)[n - 1]
<1>1. /\ StoreKey(key)
      /\ \A n \in DOMAIN key.inputs : key.inputs[n] \in 0 .. (N - 1)
      /\ KeyTerm(key, Through(Terms(nodes), key.inputs)) = Terms(keys)[k]
  BY MappedThroughMeans
<1>2. /\ N \in Nat /\ DOMAIN nodes = 1 .. N /\ StoreList(nodes)
      /\ InputsBefore(nodes)
      /\ \A p, q \in DOMAIN nodes : nodes[p] = nodes[q] => p = q
      /\ acc.map \in Seq(Nat) /\ Len(acc.map) = k
      /\ acc = [nodes |-> nodes, map |-> acc.map]
      /\ \A n \in 1 .. k : acc.map[n] < N /\ Terms(nodes)[acc.map[n]] = want(n)
  BY DEF Interned, StoreList, InputsBefore
<1>3. next = IF Contains(nodes, key)
             THEN [acc EXCEPT !.map = Append(@, IndexOf(nodes, key))]
             ELSE [nodes |-> Append(nodes, key), map |-> Append(acc.map, N)]
  BY Zenon DEF InternInto, MappedThrough
<1> HIDE DEF key, next
\* Where the new key goes, whatever list holds the old ones.
<1>4. ASSUME NEW place \in Nat, NEW list,
             next.map = Append(acc.map, place), place < Len(list),
             Terms(list)[place] = Terms(keys)[k], Len(list) \in Nat, N <= Len(list),
             \A i \in 0 .. (N - 1) : Terms(list)[i] = Terms(nodes)[i]
      PROVE  /\ next.map \in Seq(Nat) /\ Len(next.map) = k + 1
             /\ \A n \in 1 .. (k + 1) : /\ next.map[n] < Len(list)
                                        /\ Terms(list)[next.map[n]] = want(n)
  <2>1. /\ next.map \in Seq(Nat) /\ Len(next.map) = k + 1
        /\ \A n \in 1 .. k : next.map[n] = acc.map[n]
        /\ next.map[k + 1] = place
    BY <1>2, <1>4, AppendProperties
  <2>2. ASSUME NEW n \in 1 .. k
        PROVE  next.map[n] < Len(list) /\ Terms(list)[next.map[n]] = want(n)
    <3>1. next.map[n] = acc.map[n] /\ acc.map[n] < N /\ Terms(nodes)[acc.map[n]] = want(n)
      BY <1>2, <2>1
    <3>2. n \in DOMAIN acc.map /\ acc.map[n] \in Nat
      BY <1>2
    <3>3. acc.map[n] \in 0 .. (N - 1)
      BY <1>2, <3>1, <3>2
    <3>4. Terms(list)[acc.map[n]] = want(n)
      BY <1>4, <3>1, <3>3
    <3> HIDE DEF want, nodes, N
    <3> QED
      BY <1>2, <1>4, <3>1, <3>2, <3>4
  <2>3. want(k + 1) = Terms(keys)[k]
    OBVIOUS
  <2>4. next.map[k + 1] < Len(list) /\ Terms(list)[next.map[k + 1]] = want(k + 1)
    BY <1>4, <2>1, <2>3
  <2>5. \A n \in 1 .. (k + 1) : n \in 1 .. k \/ n = k + 1
    OBVIOUS
  <2> HIDE DEF want
  <2>6. \A n \in 1 .. (k + 1) : next.map[n] < Len(list) /\ Terms(list)[next.map[n]] = want(n)
    BY <2>2, <2>4, <2>5
  <2> QED
    BY <2>1, <2>6
<1>5. CASE Contains(nodes, key)
  <2> DEFINE place == IndexOf(nodes, key)
             V == {nodes[n] : n \in 1 .. N}
  <2>1. next = [nodes |-> nodes, map |-> Append(acc.map, place)]
    BY <1>2, <1>3, <1>5
  <2>2. nodes \in Seq(V) /\ key \in ToSet(nodes)
    <3>1. nodes \in [1 .. N -> V]
      BY <1>2 DEF StoreList
    <3>2. nodes \in Seq(V)
      <4> HIDE DEF V, N, nodes
      <4> QED
        BY <1>2, <3>1, SeqDef
    <3>3. key \in ToSet(nodes)
      BY <1>2, <1>5 DEF Contains, ToSet
    <3> QED
      BY <3>2, <3>3
  <2>3. place \in Nat /\ place < N /\ nodes[place + 1] = key
    <3> HIDE DEF V
    <3> QED
      BY <2>2, IndexOfEntry
  <2> HIDE DEF place
  <2>4. Terms(nodes)[place] = Terms(keys)[k]
    <3>1. place \in 0 .. (N - 1)
      BY <1>2, <2>3
    <3>2. Terms(nodes)[place] = TermFrom(nodes, Terms(nodes), place)
      BY <1>2, <3>1, TermsEquation
    <3> QED
      BY <1>1, <2>3, <3>2 DEF TermFrom
  <2>5. next.nodes = nodes /\ next.map = Append(acc.map, place)
        /\ next = [nodes |-> next.nodes, map |-> next.map]
    BY <2>1
  <2>6. N <= N
    BY <1>2
  <2>7. /\ next.map \in Seq(Nat) /\ Len(next.map) = k + 1
        /\ \A n \in 1 .. (k + 1) : /\ next.map[n] < Len(nodes)
                                   /\ Terms(nodes)[next.map[n]] = want(n)
    BY <1>2, <1>4, <2>3, <2>4, <2>5, <2>6
  <2>8. /\ StoreList(next.nodes)
        /\ \A p, q \in DOMAIN next.nodes : next.nodes[p] = next.nodes[q] => p = q
    BY <1>2, <2>5
  <2>9. /\ next.map \in Seq(Nat) /\ Len(next.map) = k + 1
        /\ \A n \in 1 .. (k + 1) : /\ next.map[n] < Len(next.nodes)
                                   /\ Terms(next.nodes)[next.map[n]] = Terms(keys)[n - 1]
    BY <2>5, <2>7
  <2>10. Interned(next, keys, k + 1)
    BY <2>5, <2>8, <2>9, Zenon DEF Interned
  <2> QED
    BY <2>10 DEF next
<1>6. CASE ~ Contains(nodes, key)
  <2> DEFINE list == Append(nodes, key)
  <2>1. next = [nodes |-> list, map |-> Append(acc.map, N)]
    BY <1>3, <1>6
  <2>2. /\ StoreList(list) /\ Len(list) = N + 1
        /\ \A i \in 0 .. (N - 1) : Terms(list)[i] = Terms(nodes)[i]
        /\ Terms(list)[N] = Terms(keys)[k]
    BY <1>1, <1>2, AppendedKey
  <2>3. /\ DOMAIN list = 1 .. (N + 1) /\ \A n \in 1 .. N : list[n] = nodes[n]
        /\ list[N + 1] = key
    BY <1>2, AppendedList DEF StoreList
  <2> HIDE DEF list
  <2>4. next.nodes = list /\ next.map = Append(acc.map, N)
        /\ next = [nodes |-> next.nodes, map |-> next.map]
    BY <2>1
  <2>5. ASSUME NEW p \in DOMAIN list, NEW q \in DOMAIN list, list[p] = list[q]
        PROVE  p = q
    <3>1. \A n \in 1 .. N : nodes[n] # key
      BY <1>6 DEF Contains
    <3>2. \A n \in DOMAIN list : n \in 1 .. N \/ n = N + 1
      BY <1>2, <2>3
    <3> QED
      BY <1>2, <2>3, <2>5, <3>1, <3>2
  <2>6. N < Len(list) /\ Len(list) \in Nat /\ N <= Len(list)
    BY <1>2, <2>2
  <2>7. /\ next.map \in Seq(Nat) /\ Len(next.map) = k + 1
        /\ \A n \in 1 .. (k + 1) : /\ next.map[n] < Len(list)
                                   /\ Terms(list)[next.map[n]] = want(n)
    <3>1. /\ N \in Nat /\ next.map = Append(acc.map, N) /\ N < Len(list)
          /\ Terms(list)[N] = Terms(keys)[k] /\ Len(list) \in Nat /\ N <= Len(list)
          /\ \A i \in 0 .. (N - 1) : Terms(list)[i] = Terms(nodes)[i]
      BY <1>2, <2>2, <2>4, <2>6
    <3> HIDE DEF N, nodes
    <3> QED
      BY <1>4, <3>1
  <2>8. /\ StoreList(next.nodes)
        /\ \A p, q \in DOMAIN next.nodes : next.nodes[p] = next.nodes[q] => p = q
    BY <2>2, <2>4, <2>5
  <2>9. /\ next.map \in Seq(Nat) /\ Len(next.map) = k + 1
        /\ \A n \in 1 .. (k + 1) : /\ next.map[n] < Len(next.nodes)
                                   /\ Terms(next.nodes)[next.map[n]] = Terms(keys)[n - 1]
    BY <2>4, <2>7
  <2>10. Interned(next, keys, k + 1)
    BY <2>4, <2>8, <2>9, Zenon DEF Interned
  <2> QED
    BY <2>10 DEF next
<1> QED
  BY <1>5, <1>6 DEF next

(* Interning a reduced list keeps every term of it. *)
LEMMA InternAllMeans ==
  ASSUME NEW keys, StoreList(keys)
  PROVE  Interned(InternAll(keys), keys, Len(keys))
<1> DEFINE N == Len(keys)
<1>1. N \in Nat
  BY DEF StoreList, InputsBefore
<1>2. PICK acc : /\ InternAll(keys) = acc[N]
                 /\ \A n \in 0 .. N : acc[n] = InternStep(keys, acc, n)
  BY <1>1, InternSteps
<1> DEFINE Wrong == {n \in 0 .. N : ~ Interned(acc[n], keys, n)}
<1>3. Wrong = {}
  <2> SUFFICES ASSUME Wrong # {} PROVE FALSE
    OBVIOUS
  <2>1. PICK n \in Wrong : \A m \in Wrong : n <= m
    <3>1. Wrong \subseteq Nat
      BY <1>1
    <3> HIDE DEF Wrong
    <3> QED
      BY <3>1, LeastMember
  <2>2. n \in 0 .. N /\ ~ Interned(acc[n], keys, n)
    BY <2>1
  <2>3. CASE n = 0
    <3>1. acc[n] = [nodes |-> <<>>, map |-> <<>>]
      BY <1>2, <2>2, <2>3 DEF InternStep
    <3>2. /\ StoreList(<<>>) /\ <<>> \in Seq(Nat) /\ Len(<<>>) = 0
          /\ DOMAIN <<>> = {}
      BY DEF StoreList, InputsBefore
    <3>3. Interned([nodes |-> <<>>, map |-> <<>>], keys, 0)
      BY <3>2 DEF Interned
    <3> QED
      BY <2>2, <2>3, <3>1, <3>3
  <2>4. CASE n # 0
    <3> DEFINE k == n - 1
    <3>1. k \in Nat /\ k < N /\ k + 1 = n /\ ~ (n <= k) /\ k \in 0 .. N
      BY <1>1, <2>2, <2>4
    <3>2. acc[n] = InternInto(acc[k], keys[n])
      BY <1>2, <2>2, <2>4 DEF InternStep
    <3> HIDE DEF k
    <3>3. Interned(acc[k], keys, k)
      BY <2>1, <3>1
    <3>4. Interned(InternInto(acc[k], keys[k + 1]), keys, k + 1)
      BY <3>1, <3>3, InternKeeps
    <3> QED
      BY <2>2, <3>1, <3>2, <3>4
  <2> QED
    BY <2>3, <2>4
<1>4. N \in 0 .. N
  BY <1>1
<1>5. Interned(acc[N], keys, N)
  BY <1>3, <1>4
<1> QED
  BY <1>2, <1>5

\* What the rebuild makes of a reduced list: a list without repetitions whose
\* places have the terms the outputs had.
Rebuilds(fresh, red) ==
  /\ StoreList(fresh.nodes)
  /\ \A p, q \in DOMAIN fresh.nodes : fresh.nodes[p] = fresh.nodes[q] => p = q
  /\ fresh.places \in Seq(Nat) /\ Len(fresh.places) = Len(red.outs)
  /\ \A n \in DOMAIN red.outs :
       /\ fresh.places[n] < Len(fresh.nodes)
       /\ Terms(fresh.nodes)[fresh.places[n]] = Terms(red.nodes)[red.outs[n]]
  /\ fresh.outs = FirstSeen(fresh.places, {})

(* from_reduced keeps every output's term. *)
LEMMA FromReducedMeans ==
  ASSUME NEW red, StoreList(red.nodes), red.outs \in Seq(Nat),
         \A n \in DOMAIN red.outs : red.outs[n] < Len(red.nodes)
  PROVE  Rebuilds(FromReduced(red), red)
<1> DEFINE acc == InternAll(red.nodes)
           N == Len(red.nodes)
           outs == [n \in DOMAIN red.outs |-> acc.map[red.outs[n] + 1]]
           fresh == FromReduced(red)
<1>1. /\ StoreList(acc.nodes)
      /\ \A p, q \in DOMAIN acc.nodes : acc.nodes[p] = acc.nodes[q] => p = q
      /\ acc.map \in Seq(Nat) /\ Len(acc.map) = N
      /\ \A n \in 1 .. N : /\ acc.map[n] < Len(acc.nodes)
                           /\ Terms(acc.nodes)[acc.map[n]] = Terms(red.nodes)[n - 1]
  BY InternAllMeans DEF Interned
<1>2. fresh.nodes = acc.nodes /\ fresh.places = outs /\ fresh.outs = FirstSeen(outs, {})
  BY DEF FromReduced
<1>3. DOMAIN red.outs = 1 .. Len(red.outs) /\ Len(red.outs) \in Nat
  OBVIOUS
<1> HIDE DEF acc, fresh
<1>4. ASSUME NEW n \in DOMAIN red.outs
      PROVE  /\ outs[n] \in Nat /\ outs[n] < Len(acc.nodes)
             /\ Terms(acc.nodes)[outs[n]] = Terms(red.nodes)[red.outs[n]]
  <2> DEFINE k == red.outs[n] + 1
  <2>1. N \in Nat
    BY DEF StoreList, InputsBefore
  <2>2. red.outs[n] \in Nat /\ red.outs[n] < N
    OBVIOUS
  <2>3. k \in 1 .. N /\ k - 1 = red.outs[n]
    BY <2>1, <2>2
  <2>4. outs[n] = acc.map[k]
    OBVIOUS
  <2> HIDE DEF k, outs, N
  <2>5. k \in DOMAIN acc.map /\ acc.map[k] \in Nat
    BY <1>1, <2>1, <2>3
  <2> QED
    BY <1>1, <2>3, <2>4, <2>5
<1>5. DOMAIN outs = DOMAIN red.outs /\ outs \in [1 .. Len(red.outs) -> Nat]
  BY <1>3, <1>4
<1> HIDE DEF outs
<1>6. outs \in Seq(Nat) /\ Len(outs) = Len(red.outs)
  <2>1. outs \in Seq(Nat)
    BY <1>3, <1>5, SeqDef
  <2> QED
    BY <1>3, <1>5, <2>1, LenProperties
<1>7. Rebuilds(fresh, red)
  <2>1. StoreList(fresh.nodes)
    BY <1>1, <1>2
  <2>2. \A p, q \in DOMAIN fresh.nodes : fresh.nodes[p] = fresh.nodes[q] => p = q
    BY <1>1, <1>2
  <2>3. fresh.places \in Seq(Nat) /\ Len(fresh.places) = Len(red.outs)
    BY <1>2, <1>6
  <2>4. \A n \in DOMAIN red.outs :
          /\ fresh.places[n] < Len(fresh.nodes)
          /\ Terms(fresh.nodes)[fresh.places[n]] = Terms(red.nodes)[red.outs[n]]
    BY <1>2, <1>4
  <2> QED
    BY <1>2, <2>1, <2>2, <2>3, <2>4, Zenon DEF Rebuilds
<1> QED
  BY <1>7 DEF fresh

\* What the passes after the engine must keep of its graph.
KeepsOutputs(result, g, term) ==
  /\ StoreList(result.nodes)
  /\ \A p, q \in DOMAIN result.nodes : result.nodes[p] = result.nodes[q] => p = q
  /\ result.places \in Seq(Nat) /\ Len(result.places) = Len(g.outs)
  /\ \A n \in DOMAIN g.outs :
       /\ result.places[n] < Len(result.nodes)
       /\ Terms(result.nodes)[result.places[n]] = term[g.outs[n]]
  /\ result.outs = FirstSeen(result.places, {})

(* CSE, stage fusion and the rebuild keep the term of every output, for any *)
(* graph over a recorded list in which tokens name operators.               *)
LEMMA FinishMeans ==
  ASSUME NEW ns, NEW g0, NEW g, NEW term, NEW mode \in FusionModes,
         StoreList(ns), GraphOf(g0, ns), TokensName(g0, ns), GraphOf(g, ns),
         DOMAIN g.node \subseteq DOMAIN g0.node, Means(g, ns, term),
         g.outs \in Seq(DOMAIN g.node)
  PROVE  KeepsOutputs(Finish(ns, g0, g, mode), g, term)
<1> DEFINE q == Cse(g)
           map == CseMap(g)
           red == StageFusion(ns, g0, q, mode)
           result == Finish(ns, g0, g, mode)
<1>1. TokensName(g, ns)
  BY TokensNamePart
<1>2. /\ DOMAIN q.node \subseteq DOMAIN g.node
      /\ GraphOf(q, ns) /\ Means(q, ns, term)
      /\ q.outs = Through(map, g.outs)
      /\ \A i \in DOMAIN g.node : map[i] \in DOMAIN q.node /\ term[map[i]] = term[i]
  <2>1. /\ DOMAIN Cse(g).node \subseteq DOMAIN g.node
        /\ GraphOf(Cse(g), ns) /\ Means(Cse(g), ns, term)
        /\ Cse(g).outs = Through(CseMap(g), g.outs)
        /\ KeepsTerms(CseMap(g), Cse(g), g, term)
    BY <1>1, CseMeans
  <2> QED
    BY <2>1 DEF KeepsTerms
<1>3. DOMAIN g.outs = 1 .. Len(g.outs) /\ Len(g.outs) \in Nat
      /\ \A n \in DOMAIN g.outs : g.outs[n] \in DOMAIN g.node
  OBVIOUS
<1> HIDE DEF q, map, red
<1>4. /\ q.outs \in Seq(DOMAIN q.node) /\ Len(q.outs) = Len(g.outs)
      /\ DOMAIN q.outs = DOMAIN g.outs
      /\ \A n \in DOMAIN g.outs : q.outs[n] = map[g.outs[n]]
  <2>1. q.outs = [n \in 1 .. Len(g.outs) |-> map[g.outs[n]]]
    BY <1>2, <1>3 DEF Through
  <2>2. q.outs \in [1 .. Len(g.outs) -> DOMAIN q.node]
    BY <1>2, <1>3, <2>1
  <2>3. q.outs \in Seq(DOMAIN q.node)
    BY <1>3, <2>2, SeqDef
  <2> QED
    BY <1>3, <2>1, <2>2, <2>3, LenProperties
<1>5. DOMAIN q.node \subseteq DOMAIN g0.node
  BY <1>2
<1>6. /\ StoreList(red.nodes)
      /\ red.outs \in Seq(Nat) /\ Len(red.outs) = Len(q.outs)
      /\ \A n \in DOMAIN q.outs :
           /\ red.outs[n] < Len(red.nodes)
           /\ Terms(red.nodes)[red.outs[n]] = term[q.outs[n]]
  BY <1>2, <1>4, <1>5, StageFusionMeans DEF red
<1>7. DOMAIN red.outs = DOMAIN g.outs
  BY <1>3, <1>4, <1>6
<1>8. \A n \in DOMAIN red.outs : red.outs[n] < Len(red.nodes)
  BY <1>4, <1>6, <1>7
<1>9. Rebuilds(FromReduced(red), red)
  BY <1>6, <1>8, FromReducedMeans
<1>10. result = FromReduced(red)
  BY DEF Finish, red, q
<1> HIDE DEF result
<1>11. ASSUME NEW n \in DOMAIN g.outs
       PROVE  /\ result.places[n] < Len(result.nodes)
              /\ Terms(result.nodes)[result.places[n]] = term[g.outs[n]]
  <2>1. Terms(red.nodes)[red.outs[n]] = term[g.outs[n]]
    BY <1>2, <1>3, <1>4, <1>6
  <2> QED
    BY <1>7, <1>9, <1>10, <2>1 DEF Rebuilds
<1>12. KeepsOutputs(result, g, term)
  <2>1. Len(red.outs) = Len(g.outs)
    BY <1>4, <1>6
  <2> QED
    BY <1>9, <1>10, <1>11, <2>1, Zenon DEF Rebuilds, KeepsOutputs
<1> QED
  BY <1>12 DEF result

-----------------------------------------------------------------------------
(* What the outputs need is all there is, after every pass.                *)

\* The outputs of g are in S, and so is what the nodes of S read.
Supports(g, S) ==
  ToSet(g.outs) \subseteq S /\ \A i \in S : ToSet(g.node[i].inputs) \subseteq S

\* No node of g is dead.
AllNeeded(g) ==
  \A S \in SUBSET DOMAIN g.node : Supports(g, S) => S = DOMAIN g.node

(* Dead code elimination leaves no dead node. *)
LEMMA KeptNeeded ==
  ASSUME NEW ns, NEW os
  PROVE  AllNeeded(ToEngineGraph(ns, os))
<1> DEFINE g == ToEngineGraph(ns, os)
<1>1. /\ DOMAIN g.node = Reachable(ns, os) /\ g.outs = os
      /\ \A i \in DOMAIN g.node : g.node[i].inputs = ns[i + 1].inputs
  BY DEF ToEngineGraph
<1> HIDE DEF g
<1>2. ASSUME NEW S \in SUBSET DOMAIN g.node, Supports(g, S)
      PROVE  S = DOMAIN g.node
  <2>1. ToSet(os) \subseteq S /\ Closed(ns, S)
    BY <1>1, <1>2 DEF Supports, Closed
  <2>2. S \in SUBSET IdsOf(ns)
    BY <1>1 DEF Reachable
  <2> QED
    BY <1>1, <2>1, <2>2, ReachableIsLeast
<1> QED
  BY <1>2 DEF AllNeeded, g

\* What a node reads is, up to the classes, read by the node that stands for
\* it, or is that node.
ReadsKept(g, class) ==
  \A i \in DOMAIN g.node : \A j \in ToSet(g.node[i].inputs) :
    \/ class[j] = class[i]
    \/ class[j] \in ToSet(Through(class, g.node[class[i]].inputs))

(* Nothing dies in an extraction by such classes. *)
LEMMA QuotientNeeded ==
  ASSUME NEW ns, NEW g, NEW class, StoreList(ns), GraphOf(g, ns), AllNeeded(g),
         class \in [DOMAIN g.node -> DOMAIN g.node],
         \A i \in DOMAIN g.node : class[i] <= i /\ class[class[i]] = class[i],
         ReadsKept(g, class), ToSet(g.outs) \subseteq DOMAIN g.node
  PROVE  AllNeeded(Quotient(g, class))
<1> DEFINE D == DOMAIN g.node
           q == Quotient(g, class)
<1>1. /\ DOMAIN q.node = {k \in D : class[k] = k}
      /\ \A i \in DOMAIN q.node : q.node[i].inputs = Through(class, g.node[i].inputs)
  BY QuotientIsGraph
<1>2. q.outs = Through(class, g.outs)
  BY DEF Quotient
<1> HIDE DEF q
<1>3. ASSUME NEW S \in SUBSET DOMAIN q.node, Supports(q, S)
      PROVE  S = DOMAIN q.node
  <2> DEFINE T == {i \in D : class[i] \in S}
  <2>1. ToSet(g.outs) \subseteq T
    <3> SUFFICES ASSUME NEW n \in DOMAIN g.outs PROVE g.outs[n] \in T
      BY DEF ToSet
    <3>1. g.outs[n] \in D
      BY DEF ToSet
    <3>2. class[g.outs[n]] \in ToSet(q.outs)
      BY <1>2 DEF Through, ToSet
    <3> QED
      BY <1>3, <3>1, <3>2 DEF Supports
  <2>2. ASSUME NEW i \in T, NEW j \in ToSet(g.node[i].inputs)
        PROVE  j \in T
    <3>1. i \in D /\ class[i] \in S
      OBVIOUS
    <3>2. j \in D
      BY <3>1, GraphNode DEF ToSet
    <3>3. ToSet(q.node[class[i]].inputs) \subseteq S
      BY <1>3, <3>1 DEF Supports
    <3>4. q.node[class[i]].inputs = Through(class, g.node[class[i]].inputs)
      BY <1>1, <3>1
    <3>5. class[j] = class[i] \/ class[j] \in ToSet(Through(class, g.node[class[i]].inputs))
      BY <3>1 DEF ReadsKept
    <3> QED
      BY <3>1, <3>2, <3>3, <3>4, <3>5
  <2>3. T \in SUBSET D /\ Supports(g, T)
    BY <2>1, <2>2 DEF Supports
  <2>4. T = D
    BY <2>3 DEF AllNeeded
  <2> QED
    BY <1>1, <2>4
<1> QED
  BY <1>3 DEF AllNeeded, q

(* CSE leaves no two nodes with one token and the same inputs, and no dead *)
(* node.                                                                   *)
LEMMA CseIrredundant ==
  ASSUME NEW ns, NEW g, StoreList(ns), GraphOf(g, ns)
  PROVE  /\ CseMap(g) \in [DOMAIN g.node -> DOMAIN g.node]
         /\ \A i \in DOMAIN g.node :
              CseMap(g)[i] <= i /\ CseMap(g)[CseMap(g)[i]] = CseMap(g)[i]
         /\ \A i, j \in DOMAIN Cse(g).node :
              /\ Cse(g).node[i].token = Cse(g).node[j].token
              /\ Cse(g).node[i].inputs = Cse(g).node[j].inputs
              => i = j
         /\ ReadsKept(g, CseMap(g))
         /\ GraphOf(Cse(g), ns)
         /\ DOMAIN Cse(g).node = {k \in DOMAIN g.node : CseMap(g)[k] = k}
<1> DEFINE map == CseMap(g)
           D == DOMAIN g.node
           q == Quotient(g, map)
<1>1. /\ map \in [D -> D]
      /\ \A i \in D : map[i] = IF Twins(g, map, i) = {} THEN i ELSE Min(Twins(g, map, i))
  BY CseMapEquation
<1>2. ASSUME NEW i \in D, Twins(g, map, i) # {}
      PROVE  map[i] \in Twins(g, map, i) /\ \A j \in Twins(g, map, i) : map[i] <= j
  BY <1>2, FirstTwin
<1>3. D \subseteq Nat
  BY GraphIsFinite
<1> HIDE DEF map
<1>4. ASSUME NEW i \in D
      PROVE  /\ map[i] <= i /\ map[map[i]] = map[i]
             /\ g.node[map[i]].token = g.node[i].token
             /\ Through(map, g.node[map[i]].inputs) = Through(map, g.node[i].inputs)
  <2>1. CASE Twins(g, map, i) = {}
    BY <1>1, <1>3, <2>1
  <2>2. CASE Twins(g, map, i) # {}
    <3> DEFINE r == map[i]
    <3>1. /\ r \in D /\ r < i /\ g.node[r].token = g.node[i].token
          /\ Through(map, g.node[r].inputs) = Through(map, g.node[i].inputs)
      BY <1>2, <2>2 DEF Twins
    <3>2. \A j \in Twins(g, map, i) : r <= j
      BY <1>2, <2>2
    <3> HIDE DEF r
    <3>3. Twins(g, map, r) = {}
      <4> SUFFICES ASSUME NEW j \in Twins(g, map, r) PROVE FALSE
        OBVIOUS
      <4>1. j \in D /\ j < r /\ j \in Nat /\ r \in Nat /\ i \in Nat
        BY <1>3, <3>1 DEF Twins
      <4>2. j \in Twins(g, map, i)
        BY <3>1, <4>1 DEF Twins
      <4> QED
        BY <3>2, <4>1, <4>2
    <3>4. map[r] = r
      BY <1>1, <3>1, <3>3
    <3> QED
      BY <1>3, <3>1, <3>4 DEF r
  <2> QED
    BY <2>1, <2>2
<1>5. /\ DOMAIN q.node = {k \in D : map[k] = k}
      /\ \A i \in DOMAIN q.node : q.node[i].inputs = Through(map, g.node[i].inputs)
      /\ GraphOf(q, ns)
  <2>1. \A i \in D : map[i] <= i /\ map[map[i]] = map[i]
    BY <1>4
  <2>2. map \in [D -> D]
    BY <1>1
  <2> HIDE DEF q
  <2>3. /\ DOMAIN Quotient(g, map).node = {k \in DOMAIN g.node : map[k] = k}
        /\ GraphOf(Quotient(g, map), ns)
        /\ \A i \in DOMAIN Quotient(g, map).node :
             Quotient(g, map).node[i].inputs = Through(map, g.node[i].inputs)
    BY <2>1, <2>2, QuotientIsGraph
  <2> QED
    BY <2>3 DEF q
<1>6. \A i \in DOMAIN q.node : q.node[i].token = g.node[i].token
  BY <1>5 DEF GraphOf
<1> HIDE DEF q
<1>7. ASSUME NEW i \in DOMAIN q.node, NEW j \in DOMAIN q.node,
             q.node[i].token = q.node[j].token, q.node[i].inputs = q.node[j].inputs
      PROVE  ~ (j < i)
  <2> SUFFICES ASSUME j < i PROVE FALSE
    OBVIOUS
  <2>1. j \in Twins(g, map, i)
    BY <1>5, <1>6, <1>7 DEF Twins
  <2>2. map[i] < i
    BY <1>2, <1>5, <2>1 DEF Twins
  <2> QED
    BY <1>3, <1>5, <2>2
<1>8. \A i, j \in DOMAIN q.node :
        q.node[i].token = q.node[j].token /\ q.node[i].inputs = q.node[j].inputs => i = j
  BY <1>3, <1>5, <1>7
<1>9. ReadsKept(g, map)
  <2> SUFFICES ASSUME NEW i \in D, NEW n \in DOMAIN g.node[i].inputs
               PROVE  map[g.node[i].inputs[n]] \in ToSet(Through(map, g.node[map[i]].inputs))
    BY DEF ReadsKept, ToSet
  <2>1. Through(map, g.node[map[i]].inputs) = Through(map, g.node[i].inputs)
    BY <1>4
  <2>2. map[g.node[i].inputs[n]] \in ToSet(Through(map, g.node[i].inputs))
    BY DEF ToSet, Through
  <2> QED
    BY <2>1, <2>2
<1> QED
  BY <1>1, <1>4, <1>5, <1>8, <1>9 DEF q, map, Cse

-----------------------------------------------------------------------------
(* What fusion emits, key by key.                                          *)

(* The template of a token is the key of a kept node of that token. *)
LEMMA TemplateKey ==
  ASSUME NEW ns, NEW g0, StoreList(ns), GraphOf(g0, ns), NEW h \in DOMAIN g0.node
  PROVE  \E m \in DOMAIN g0.node :
           /\ g0.node[m].token = g0.node[h].token
           /\ Template(ns, g0, g0.node[h].token) = ns[m + 1]
<1> DEFINE S == {i \in DOMAIN g0.node : g0.node[i].token = g0.node[h].token}
           m == Min(S)
<1>1. S \subseteq Nat /\ S # {}
  BY GraphNode
<1>2. \E n \in S : \A k \in S : n <= k
  BY <1>1, LeastMember
<1>3. m \in S
  <2> HIDE DEF S
  <2> QED
    BY <1>2 DEF Min
<1>4. m \in DOMAIN g0.node /\ g0.node[m].token = g0.node[h].token
  BY <1>3
<1>5. Template(ns, g0, g0.node[h].token) = ns[m + 1]
  BY DEF Template
<1> QED
  BY <1>4, <1>5

(* What a boundary reads is the head of a component before it. *)
LEMMA BoundaryReads ==
  ASSUME NEW ns, NEW g, StoreList(ns), GraphOf(g, ns), NEW head, Components(g, head),
         NEW h \in Heads(head), Boundary(g, h), NEW n \in DOMAIN g.node[h].inputs
  PROVE  /\ g.node[h].inputs[n] \in Heads(head) /\ g.node[h].inputs[n] < h
         /\ head[g.node[h].inputs[n]] = g.node[h].inputs[n]
<1> DEFINE j == g.node[h].inputs[n]
<1>1. h \in DOMAIN g.node /\ head[h] = h
  BY DEF Heads, Components
<1>2. j \in DOMAIN g.node /\ j < h /\ j \in Nat /\ h \in Nat
  BY <1>1, ReadAcross
<1>3. head[j] # head[h] => head[j] = j
  BY <1>1, ReadAcross
<1> HIDE DEF j
<1>4. head[j] # h
  <2>1. Boundary(g, head[j]) => head[j] = j
    BY <1>2 DEF Components
  <2> QED
    BY <1>2, <2>1
<1>5. head[j] = j /\ j \in Heads(head)
  BY <1>1, <1>2, <1>3, <1>4 DEF Components, Heads
<1> QED
  BY <1>2, <1>5 DEF j

(* A boundary is rebuilt as a key of its token over the places of what it *)
(* reads.                                                                 *)
LEMMA BoundaryKey ==
  ASSUME NEW ns, NEW g0, NEW g, StoreList(ns), GraphOf(g0, ns), GraphOf(g, ns),
         DOMAIN g.node \subseteq DOMAIN g0.node,
         NEW head, Components(g, head), NEW h \in Heads(head), Boundary(g, h),
         NEW key, key = RebuildBoundary(ns, g0, g, head, h)
  PROVE  /\ StoreKey(key) /\ Token(key) = g.node[h].token
         /\ DOMAIN key.inputs = DOMAIN g.node[h].inputs
         /\ \A n \in DOMAIN g.node[h].inputs :
              key.inputs[n] = Place(head, g.node[h].inputs[n])
         /\ \E m \in DOMAIN g0.node : /\ g0.node[m].token = g.node[h].token
                                      /\ Operator(key) = Operator(ns[m + 1])
<1> DEFINE in == g.node[h].inputs
           template == Template(ns, g0, g.node[h].token)
           places == [n \in DOMAIN in |-> Place(head, head[in[n]])]
<1>1. h \in DOMAIN g.node /\ h \in DOMAIN g0.node
  BY DEF Heads, Components
<1>2. g.node[h].token = g0.node[h].token /\ g.node[h].token = Token(ns[h + 1])
  BY <1>1 DEF GraphOf
<1>3. PICK m \in DOMAIN g0.node : g0.node[m].token = g.node[h].token /\ template = ns[m + 1]
  <2>1. \E m \in DOMAIN g0.node :
          /\ g0.node[m].token = g0.node[h].token
          /\ Template(ns, g0, g0.node[h].token) = ns[m + 1]
    BY <1>1, TemplateKey
  <2> QED
    BY <1>2, <2>1
<1>4. StoreKey(template) /\ Token(template) = g.node[h].token
  <2>1. StoreKey(ns[m + 1])
    BY <1>3, GraphNode
  <2>2. g0.node[m].token = Token(ns[m + 1])
    BY <1>3 DEF GraphOf
  <2> QED
    BY <1>3, <2>1, <2>2
<1>5. \A n \in DOMAIN in : in[n] \in Heads(head) /\ head[in[n]] = in[n]
  BY BoundaryReads
<1>6. /\ in \in Seq(Nat) /\ Len(in) = Len(ns[h + 1].inputs)
      /\ DOMAIN in = 1 .. Len(in) /\ Len(in) \in Nat
  <2>1. in \in Seq(Nat) /\ Len(in) = Len(ns[h + 1].inputs)
    BY <1>1, GraphNode
  <2> QED
    BY <2>1
<1> HIDE DEF in
<1>7. places \in Seq(Nat) /\ DOMAIN places = DOMAIN in /\ Len(places) = Len(in)
  <2>1. \A n \in DOMAIN in : Place(head, head[in[n]]) \in Nat
    BY <1>5, HeadsInPlace
  <2>2. places \in [1 .. Len(in) -> Nat]
    BY <1>6, <2>1
  <2> HIDE DEF places
  <2>3. places \in Seq(Nat)
    BY SMTT(30), <1>6, <2>2, SeqDef
  <2> QED
    BY <1>6, <2>2, <2>3, LenProperties
<1>8. template.kind = "source" => places = <<>>
  <2> SUFFICES ASSUME template.kind = "source" PROVE places = <<>>
    OBVIOUS
  <2>1. StoreKey(ns[h + 1])
    BY <1>1, GraphNode
  <2>2. ns[h + 1].kind = "source"
    BY <1>2, <1>4, <2>1, SourceToken
  <2>3. ns[h + 1].inputs = <<>>
    BY <2>1, <2>2, StoreKeyShape
  <2>4. Len(places) = 0
    BY <1>6, <1>7, <2>3
  <2> HIDE DEF places
  <2> QED
    BY <1>7, <2>4, EmptySeq
<1>9. key = WithInputs(template, places)
  BY Zenon DEF RebuildBoundary, places, template, in
<1>10. \A n \in DOMAIN in : places[n] = Place(head, in[n])
  BY <1>5
<1> HIDE DEF places, template
<1>11. /\ StoreKey(key) /\ key.inputs = places /\ Operator(key) = Operator(template)
       /\ Token(key) = Token(template)
  BY <1>4, <1>7, <1>8, <1>9, MappedStoreKey
<1> QED
  BY <1>3, <1>4, <1>7, <1>10, <1>11 DEF in

-----------------------------------------------------------------------------
\* The reference of the m-th member of a stage to the node j: an earlier
\* member, or a slot.
LeadsTo(ref, ops, slots, m, j) ==
  \/ \E r \in Nat : /\ ref = MemberRef(r) /\ r + 1 < m
                    /\ r + 1 \in DOMAIN ops /\ ops[r + 1] = j
  \/ \E r \in Nat : /\ ref = InputRef(r) /\ r < Len(slots)
                    /\ r + 1 \in DOMAIN slots /\ slots[r + 1] = j

(* Each reference of a fused stage leads to the node its member reads. *)
LEMMA StageRefLeads ==
  ASSUME NEW ns, NEW g, StoreList(ns), GraphOf(g, ns),
         NEW head, Components(g, head), NEW h \in Heads(head),
         NEW m \in DOMAIN Members(head, h),
         NEW n \in DOMAIN g.node[Members(head, h)[m]].inputs
  PROVE  LET j == g.node[Members(head, h)[m]].inputs[n]
         IN LeadsTo(StageRef(g, head, h, j), Members(head, h), Slots(g, head, h), m, j)
<1> DEFINE D == DOMAIN g.node
           in(i) == g.node[i].inputs
           ops == Members(head, h)
           slots == Slots(g, head, h)
           i == ops[m]
           j == in(i)[n]
<1>1. head \in [D -> D]
  BY DEF Components
<1>2. /\ ops \in Seq(D) /\ ToSet(ops) = MemberSet(head, h)
      /\ \A p, q \in DOMAIN ops : ops[p] < ops[q] => p < q
  BY MembersList
<1>3. /\ slots \in Seq(D)
      /\ \A x \in MemberSet(head, h) : \A y \in DOMAIN in(x) :
           head[in(x)[y]] # h => head[in(x)[y]] \in ToSet(slots)
  BY SlotsList
<1>4. i \in MemberSet(head, h) /\ i \in D /\ head[i] = h
  <2> HIDE DEF ops
  <2>1. i \in MemberSet(head, h)
    BY <1>2 DEF ToSet, ops
  <2> QED
    BY <1>1, <2>1 DEF MemberSet
<1>5. j \in D /\ j < i /\ (head[j] # h => head[j] = j)
  <2> HIDE DEF i
  <2> QED
    BY <1>4, ReadAcross DEF i, ops
<1>6. head[j] # h => head[j] \in ToSet(slots)
  <2> HIDE DEF i
  <2> QED
    BY <1>3, <1>4 DEF i, ops
<1>7. ops[m] = i /\ m \in DOMAIN ops
  OBVIOUS
<1> HIDE DEF i, j, ops, slots
<1>8. CASE head[j] = h
  <2> DEFINE r == IndexOf(ops, j)
  <2>1. j \in ToSet(ops)
    BY <1>1, <1>2, <1>5, <1>8 DEF MemberSet
  <2>2. r \in Nat /\ r + 1 \in DOMAIN ops /\ ops[r + 1] = j
    BY <1>2, <2>1, IndexOfEntry
  <2>3. StageRef(g, head, h, j) = MemberRef(r)
    BY <1>8 DEF StageRef, ops
  <2> HIDE DEF r
  <2>4. r + 1 < m
    BY <1>2, <1>5, <1>7, <2>2
  <2>5. LeadsTo(StageRef(g, head, h, j), ops, slots, m, j)
    BY <2>2, <2>3, <2>4, Zenon DEF LeadsTo
  <2> QED
    BY <2>5 DEF i, j, ops, slots
<1>9. CASE head[j] # h
  <2> DEFINE r == IndexOf(slots, j)
  <2>1. j \in ToSet(slots)
    BY <1>5, <1>6, <1>9
  <2>2. r \in Nat /\ r < Len(slots) /\ r + 1 \in DOMAIN slots /\ slots[r + 1] = j
    BY <1>3, <2>1, IndexOfEntry
  <2>3. StageRef(g, head, h, j) = InputRef(r)
    BY <1>5, <1>9 DEF StageRef, slots
  <2> HIDE DEF r
  <2>4. LeadsTo(StageRef(g, head, h, j), ops, slots, m, j)
    BY <2>2, <2>3, Zenon DEF LeadsTo
  <2> QED
    BY <2>4 DEF i, j, ops, slots
<1> QED
  BY <1>8, <1>9

(* What a fused stage is made of. *)
LEMMA StageKeyParts ==
  ASSUME NEW ns, NEW g, StoreList(ns), GraphOf(g, ns),
         NEW head, Components(g, head), NEW h \in Heads(head),
         NEW key, key = FuseStage(g, head, h)
  PROVE  /\ StoreKey(key) /\ key.kind = "stage"
         /\ Len(key.members) = Len(Members(head, h))
         /\ DOMAIN key.members = DOMAIN Members(head, h)
         /\ \A m \in DOMAIN Members(head, h) :
              key.members[m] = StageMember(g, head, h, Members(head, h)[m])
         /\ DOMAIN key.inputs = DOMAIN Slots(g, head, h)
         /\ Len(key.inputs) = Len(Slots(g, head, h))
         /\ \A n \in DOMAIN Slots(g, head, h) :
              /\ key.inputs[n] = Place(head, Slots(g, head, h)[n])
              /\ Slots(g, head, h)[n] \in Heads(head) /\ Slots(g, head, h)[n] < h
<1> DEFINE slots == Slots(g, head, h)
           places == [n \in DOMAIN slots |-> Place(head, slots[n])]
           ops == Members(head, h)
           members == [n \in DOMAIN ops |-> StageMember(g, head, h, ops[n])]
<1>1. /\ slots \in Seq(DOMAIN g.node)
      /\ \A k \in ToSet(slots) : k \in Heads(head) /\ k < h
  BY SlotsList
<1>2. \A n \in DOMAIN slots : slots[n] \in Heads(head) /\ slots[n] < h
  BY <1>1 DEF ToSet
<1>3. DOMAIN slots = 1 .. Len(slots) /\ Len(slots) \in Nat
  BY <1>1
<1>4. key = Stage(members, places)
  BY FuseStageParts
<1>5. DOMAIN members = DOMAIN ops /\ \A m \in DOMAIN ops : members[m] = StageMember(g, head, h, ops[m])
  OBVIOUS
<1>6. members = [n \in 1 .. Len(ops) |-> members[n]] /\ Len(ops) \in Nat
  BY MembersList
<1> HIDE DEF slots, members
<1>7. /\ places \in Seq(Nat) /\ DOMAIN places = DOMAIN slots /\ Len(places) = Len(slots)
      /\ \A n \in DOMAIN slots : places[n] = Place(head, slots[n])
  <2>1. \A n \in DOMAIN slots : Place(head, slots[n]) \in Nat
    BY <1>2, HeadsInPlace
  <2>2. places \in [1 .. Len(slots) -> Nat]
    BY <1>3, <2>1
  <2>3. places \in Seq(Nat) /\ DOMAIN places = 1 .. Len(slots)
    <3> HIDE DEF places
    <3> QED
      BY <1>3, <2>2, SeqDef
  <2>4. Len(places) = Len(slots)
    <3> HIDE DEF places
    <3> QED
      BY <1>3, <2>3, LenProperties
  <2> QED
    BY <2>3, <2>4
<1> HIDE DEF places, ops
<1>8. key.kind = "stage" /\ key.members = members /\ key.inputs = places
  <2>1. /\ Stage(members, places).kind = "stage"
        /\ Stage(members, places).members = members
        /\ Stage(members, places).inputs = places
    BY DEF Stage, NodeKey
  <2> QED
    BY <1>4, <2>1
<1>9. Len(members) = Len(ops) /\ Len(ops) \in Nat
  BY <1>6, ListOfEntries
<1>10. StoreKey(key)
  BY <1>4, <1>7, <1>9 DEF StoreKey, StageKey
<1> QED
  BY <1>2, <1>5, <1>7, <1>8, <1>9, <1>10 DEF slots, ops

\* A reduced key for the component of h, over the places of earlier heads.
PlacedBefore(key, head, h) ==
  /\ StoreKey(key)
  /\ \A n \in DOMAIN key.inputs :
       \E k \in Heads(head) : k < h /\ key.inputs[n] = Place(head, k)

\* A list with a node for each component, in the order of their heads.
PlacedList(nodes, head) ==
  /\ nodes = [n \in DOMAIN Ascending(Heads(head)) |-> nodes[n]]
  /\ \A n \in DOMAIN Ascending(Heads(head)) :
       PlacedBefore(nodes[n], head, Ascending(Heads(head))[n])

(* Such a list is a reduced list. *)
LEMMA PlacedListOrdered ==
  ASSUME NEW ns, NEW g, StoreList(ns), GraphOf(g, ns),
         NEW head, Components(g, head), NEW nodes, PlacedList(nodes, head)
  PROVE  /\ StoreList(nodes) /\ Len(nodes) = Len(Ascending(Heads(head)))
         /\ DOMAIN nodes = 1 .. Len(nodes)
<1> DEFINE H == Heads(head)
           order == Ascending(H)
           place(h) == Place(head, h)
<1>1. /\ order \in Seq(H) /\ Len(order) \in Nat /\ DOMAIN order = 1 .. Len(order)
      /\ \A n \in DOMAIN order : place(order[n]) = n - 1
      /\ \A h \in H :
           /\ h \in Nat /\ place(h) \in Nat /\ place(h) < Len(order)
           /\ order[place(h) + 1] = h
           /\ \A k \in H : k < h => place(k) < place(h)
  BY HeadsInPlace
<1> HIDE DEF order, H, place
<1>2. DOMAIN nodes = 1 .. Len(order) /\ Len(nodes) = Len(order)
  <2>1. DOMAIN nodes = 1 .. Len(order)
    BY <1>1 DEF order, H, PlacedList
  <2>2. nodes \in [1 .. Len(order) -> {nodes[n] : n \in 1 .. Len(order)}]
    BY <2>1 DEF order, H, PlacedList
  <2> DEFINE V == {nodes[n] : n \in 1 .. Len(order)}
  <2>3. nodes \in [1 .. Len(order) -> V]
    BY <2>2
  <2> HIDE DEF V
  <2>4. nodes \in Seq(V)
    BY <1>1, <2>3, SeqDef
  <2> QED
    BY <1>1, <2>1, <2>4, LenProperties
<1>3. \A n \in DOMAIN order : order[n] \in H /\ PlacedBefore(nodes[n], head, order[n])
  BY <1>1 DEF order, H, PlacedList
<1>4. InputsBefore(nodes)
  <2> SUFFICES ASSUME NEW i \in 0 .. (Len(nodes) - 1),
                      NEW n \in DOMAIN nodes[i + 1].inputs
               PROVE  nodes[i + 1].inputs[n] \in 0 .. (i - 1)
    BY <1>1, <1>2 DEF InputsBefore
  <2>1. i + 1 \in DOMAIN order /\ i \in Nat
    BY <1>1, <1>2
  <2> DEFINE h == order[i + 1]
  <2>2. h \in H /\ PlacedBefore(nodes[i + 1], head, h) /\ place(h) = i
    <3>1. place(h) = i
      <4>1. place(order[i + 1]) = (i + 1) - 1
        BY <1>1, <2>1, Zenon
      <4>2. (i + 1) - 1 = i
        BY <2>1
      <4> QED
        BY <4>1, <4>2
    <3>2. h \in H /\ PlacedBefore(nodes[i + 1], head, h)
      BY <1>3, <2>1, Zenon
    <3> QED
      BY <3>1, <3>2
  <2> HIDE DEF h
  <2>3. PICK k \in H : k < h /\ nodes[i + 1].inputs[n] = place(k)
    BY <2>2 DEF PlacedBefore, H, place
  <2>4. place(k) \in Nat /\ place(k) < i
    BY <1>1, <2>2, <2>3
  <2> QED
    BY <2>1, <2>3, <2>4
<1>5. nodes = [n \in 1 .. Len(nodes) |-> nodes[n]]
  BY <1>1, <1>2 DEF order, H, PlacedList
<1>6. \A n \in DOMAIN nodes : StoreKey(nodes[n])
  BY <1>1, <1>2, <1>3 DEF PlacedBefore
<1>7. StoreList(nodes)
  BY <1>4, <1>5, <1>6 DEF StoreList
<1> QED
  BY <1>2, <1>7 DEF order, H

\* What fusion emits for the components of head.
FusedList(ns, g0, g, head) ==
  [n \in DOMAIN Ascending(Heads(head)) |->
     ReducedNode(ns, g0, g, head, Ascending(Heads(head))[n])]

(* The node of a component reads nodes of earlier components. *)
LEMMA ReducedNodePlaced ==
  ASSUME NEW ns, NEW g0, NEW g, StoreList(ns), GraphOf(g0, ns), GraphOf(g, ns),
         DOMAIN g.node \subseteq DOMAIN g0.node,
         NEW head, Components(g, head), NEW h \in Heads(head)
  PROVE  PlacedBefore(ReducedNode(ns, g0, g, head, h), head, h)
<1> DEFINE key == ReducedNode(ns, g0, g, head, h)
<1>1. CASE Boundary(g, h)
  <2>1. key = RebuildBoundary(ns, g0, g, head, h)
    BY <1>1 DEF ReducedNode
  <2> HIDE DEF key
  <2>2. /\ StoreKey(key) /\ DOMAIN key.inputs = DOMAIN g.node[h].inputs
        /\ \A n \in DOMAIN g.node[h].inputs :
             key.inputs[n] = Place(head, g.node[h].inputs[n])
    BY <1>1, <2>1, BoundaryKey
  <2>3. \A n \in DOMAIN g.node[h].inputs :
          g.node[h].inputs[n] \in Heads(head) /\ g.node[h].inputs[n] < h
    BY <1>1, BoundaryReads
  <2>4. PlacedBefore(key, head, h)
    BY <2>2, <2>3 DEF PlacedBefore
  <2> QED
    BY <2>4 DEF key
<1>2. CASE ~ Boundary(g, h)
  <2>1. key = FuseStage(g, head, h)
    BY <1>2 DEF ReducedNode
  <2> HIDE DEF key
  <2>2. /\ StoreKey(key) /\ DOMAIN key.inputs = DOMAIN Slots(g, head, h)
        /\ \A n \in DOMAIN Slots(g, head, h) :
             /\ key.inputs[n] = Place(head, Slots(g, head, h)[n])
             /\ Slots(g, head, h)[n] \in Heads(head) /\ Slots(g, head, h)[n] < h
    BY <2>1, StageKeyParts
  <2>3. PlacedBefore(key, head, h)
    BY <2>2 DEF PlacedBefore
  <2> QED
    BY <2>3 DEF key
<1> QED
  BY <1>1, <1>2

(* Fusion emits a reduced list, with the node of each component at its place. *)
LEMMA FusedListOrdered ==
  ASSUME NEW ns, NEW g0, NEW g, StoreList(ns), GraphOf(g0, ns), GraphOf(g, ns),
         DOMAIN g.node \subseteq DOMAIN g0.node, NEW head, Components(g, head),
         NEW nodes, nodes = FusedList(ns, g0, g, head)
  PROVE  /\ StoreList(nodes) /\ Len(nodes) = Len(Ascending(Heads(head)))
         /\ DOMAIN nodes = 1 .. Len(nodes)
         /\ \A n \in DOMAIN nodes :
              nodes[n] = ReducedNode(ns, g0, g, head, Ascending(Heads(head))[n])
         /\ \A h \in Heads(head) :
              /\ Place(head, h) + 1 \in DOMAIN nodes
              /\ nodes[Place(head, h) + 1] = ReducedNode(ns, g0, g, head, h)
<1> DEFINE order == Ascending(Heads(head))
<1>1. /\ order \in Seq(Heads(head)) /\ Len(order) \in Nat /\ DOMAIN order = 1 .. Len(order)
      /\ \A h \in Heads(head) : /\ Place(head, h) \in Nat /\ Place(head, h) < Len(order)
                                /\ order[Place(head, h) + 1] = h
  BY HeadsInPlace
<1>2. /\ DOMAIN nodes = DOMAIN order
      /\ \A n \in DOMAIN order : nodes[n] = ReducedNode(ns, g0, g, head, order[n])
      /\ nodes = [n \in DOMAIN order |-> nodes[n]]
  BY DEF FusedList
<1>3. \A n \in DOMAIN order : order[n] \in Heads(head)
  BY <1>1
<1>4. \A n \in DOMAIN order : PlacedBefore(nodes[n], head, order[n])
  <2> HIDE DEF order
  <2> SUFFICES ASSUME NEW n \in DOMAIN order
               PROVE  PlacedBefore(nodes[n], head, order[n])
    OBVIOUS
  <2>1. order[n] \in Heads(head)
    BY <1>3
  <2>2. PlacedBefore(ReducedNode(ns, g0, g, head, order[n]), head, order[n])
    BY <2>1, ReducedNodePlaced
  <2> QED
    BY <1>2, <2>2
<1>5. PlacedList(nodes, head)
  BY <1>2, <1>4, Zenon DEF PlacedList
<1>6. /\ StoreList(nodes) /\ Len(nodes) = Len(order)
      /\ DOMAIN nodes = 1 .. Len(nodes)
  BY <1>5, PlacedListOrdered
<1> HIDE DEF order
<1>7. ASSUME NEW h \in Heads(head)
      PROVE  /\ Place(head, h) + 1 \in DOMAIN nodes
             /\ nodes[Place(head, h) + 1] = ReducedNode(ns, g0, g, head, h)
  <2>1. Place(head, h) + 1 \in DOMAIN order /\ order[Place(head, h) + 1] = h
    BY <1>1
  <2> QED
    BY <1>2, <2>1
<1> QED
  BY <1>2, <1>6, <1>7 DEF order

\* No key twice.
KeysOnce(ns) == \A p, q \in DOMAIN ns : ns[p] = ns[q] => p = q

(* What the passes rebuild is a store again, whatever tokens name. *)
LEMMA FinishIsStore ==
  ASSUME NEW ns, NEW g0, NEW g, NEW mode \in FusionModes,
         StoreList(ns), GraphOf(g0, ns), GraphOf(g, ns), DOMAIN g.node \subseteq DOMAIN g0.node
  PROVE  StoreList(Finish(ns, g0, g, mode).nodes) /\ KeysOnce(Finish(ns, g0, g, mode).nodes)
<1> DEFINE q == Cse(g)
           head == HeadOf(q, mode)
           red == StageFusion(ns, g0, q, mode)
<1>1. GraphOf(q, ns) /\ DOMAIN q.node \subseteq DOMAIN g0.node
  BY CseIrredundant
<1> HIDE DEF q
<1>2. Components(q, head)
  <2>1. mode = "SingleUse" \/ mode = "Maximal"
    BY DEF FusionModes
  <2> QED
    BY <1>1, <2>1, SingleUseComponents, MaximalComponents DEF HeadOf
<1>3. red.nodes = FusedList(ns, g0, q, head)
  BY DEF StageFusion, FusedList, ReducedNode
<1> HIDE DEF head, red
<1>4. StoreList(red.nodes)
  BY <1>1, <1>2, <1>3, FusedListOrdered
<1>5. Interned(InternAll(red.nodes), red.nodes, Len(red.nodes))
  BY <1>4, InternAllMeans
<1>6. Finish(ns, g0, g, mode).nodes = InternAll(red.nodes).nodes
  BY DEF Finish, FromReduced, q, red
<1> QED
  BY <1>5, <1>6 DEF Interned, KeysOnce

\* No node of the list is dead.
AllListed(nodes, outs) ==
  \A S \in SUBSET IdsOf(nodes) :
    ToSet(outs) \subseteq S /\ Closed(nodes, S) => S = IdsOf(nodes)

(* Fusing a graph without dead nodes emits no dead node. *)
LEMMA FusedNeeded ==
  ASSUME NEW ns, NEW g0, NEW g, StoreList(ns), GraphOf(g0, ns), GraphOf(g, ns),
         DOMAIN g.node \subseteq DOMAIN g0.node, NEW head, Components(g, head),
         NEW nodes, nodes = FusedList(ns, g0, g, head), AllNeeded(g),
         ToSet(g.outs) \subseteq DOMAIN g.node
  PROVE  AllListed(nodes, [n \in DOMAIN g.outs |-> Place(head, head[g.outs[n]])])
<1> DEFINE D == DOMAIN g.node
           in(i) == g.node[i].inputs
           outs == [n \in DOMAIN g.outs |-> Place(head, head[g.outs[n]])]
<1>1. /\ Len(nodes) \in Nat /\ DOMAIN nodes = 1 .. Len(nodes)
      /\ \A n \in DOMAIN nodes :
           nodes[n] = ReducedNode(ns, g0, g, head, Ascending(Heads(head))[n])
      /\ \A h \in Heads(head) :
           /\ Place(head, h) + 1 \in DOMAIN nodes
           /\ nodes[Place(head, h) + 1] = ReducedNode(ns, g0, g, head, h)
  BY FusedListOrdered DEF StoreList, InputsBefore
<1>2. /\ head \in [D -> D]
      /\ \A i \in D : head[head[i]] = head[i] /\ (Boundary(g, head[i]) => head[i] = i)
  BY DEF Components
<1>3. \A h \in Heads(head) :
        Place(head, h) \in Nat /\ h \in Nat /\ h \in D /\ head[h] = h
  BY <1>2, HeadsInPlace DEF Heads
<1> SUFFICES ASSUME NEW S \in SUBSET IdsOf(nodes), ToSet(outs) \subseteq S, Closed(nodes, S)
             PROVE  S = IdsOf(nodes)
  BY DEF AllListed
<1> DEFINE T == {i \in D : Place(head, head[i]) \in S}
<1>4. ToSet(g.outs) \subseteq T
  <2> SUFFICES ASSUME NEW n \in DOMAIN g.outs PROVE g.outs[n] \in T
    BY DEF ToSet
  <2>1. g.outs[n] \in D
    BY DEF ToSet
  <2>2. Place(head, head[g.outs[n]]) \in ToSet(outs)
    BY DEF ToSet
  <2> QED
    BY <2>1, <2>2
<1>5. ASSUME NEW i \in T, NEW n \in DOMAIN in(i)
      PROVE  in(i)[n] \in T
  <2> DEFINE j == in(i)[n]
             h == head[i]
             key == nodes[Place(head, h) + 1]
  <2>1. i \in D /\ h \in Heads(head) /\ Place(head, h) \in S
    BY <1>2 DEF Heads
  <2>2. j \in D /\ (head[j] # h => head[j] = j)
    BY <2>1, ReadAcross
  <2>3. ToSet(key.inputs) \subseteq S
    BY <2>1 DEF Closed
  <2>4. key = ReducedNode(ns, g0, g, head, h)
    BY <1>1, <2>1
  <2> HIDE DEF h, key
  <2>5. head[j] # h => Place(head, head[j]) \in ToSet(key.inputs)
    <3> SUFFICES ASSUME head[j] # h PROVE Place(head, head[j]) \in ToSet(key.inputs)
      OBVIOUS
    <3>1. CASE Boundary(g, h)
      <4>1. i = h
        BY <1>2, <2>1, <3>1 DEF h
      <4>2. key = RebuildBoundary(ns, g0, g, head, h)
        BY <2>4, <3>1 DEF ReducedNode
      <4>3. /\ DOMAIN key.inputs = DOMAIN g.node[h].inputs
            /\ \A m \in DOMAIN g.node[h].inputs :
                 key.inputs[m] = Place(head, g.node[h].inputs[m])
        BY <2>1, <3>1, <4>2, BoundaryKey
      <4>4. n \in DOMAIN key.inputs /\ key.inputs[n] = Place(head, j)
        BY <4>1, <4>3
      <4>5. head[j] = j
        BY <2>2
      <4> HIDE DEF j
      <4> QED
        BY <4>4, <4>5 DEF ToSet
    <3>2. CASE ~ Boundary(g, h)
      <4>1. key = FuseStage(g, head, h)
        BY <2>4, <3>2 DEF ReducedNode
      <4>2. /\ DOMAIN key.inputs = DOMAIN Slots(g, head, h)
            /\ \A m \in DOMAIN Slots(g, head, h) :
                 key.inputs[m] = Place(head, Slots(g, head, h)[m])
        BY <2>1, <4>1, StageKeyParts
      <4>3. i \in MemberSet(head, h)
        BY <1>2, <2>1 DEF MemberSet, h
      <4>4. head[j] \in ToSet(Slots(g, head, h))
        BY <2>1, <4>3, SlotsList
      <4> HIDE DEF j
      <4>5. PICK m \in DOMAIN Slots(g, head, h) : Slots(g, head, h)[m] = head[j]
        BY <4>4 DEF ToSet
      <4>6. m \in DOMAIN key.inputs /\ key.inputs[m] = Place(head, head[j])
        BY <4>2, <4>5
      <4> QED
        BY <4>6 DEF ToSet
    <3> QED
      BY <3>1, <3>2
  <2>6. CASE head[j] = h
    BY <2>1, <2>2, <2>6
  <2>7. CASE head[j] # h
    BY <2>2, <2>3, <2>5, <2>7
  <2> QED
    BY <2>6, <2>7
<1>6. T = D
  <2>1. \A i \in T : ToSet(g.node[i].inputs) \subseteq T
    BY <1>5 DEF ToSet
  <2>2. Supports(g, T) /\ T \in SUBSET D
    BY <1>4, <2>1 DEF Supports
  <2> QED
    BY <2>2 DEF AllNeeded
<1>7. ASSUME NEW p \in IdsOf(nodes)
      PROVE  p \in S
  <2>1. p + 1 \in DOMAIN nodes /\ p \in Nat
    BY <1>1 DEF IdsOf
  <2> DEFINE order == Ascending(Heads(head))
             h == order[p + 1]
  <2>2. Len(order) = Len(nodes)
    BY FusedListOrdered
  <2>3. /\ order \in Seq(Heads(head)) /\ DOMAIN order = 1 .. Len(order)
        /\ \A n \in DOMAIN order : Place(head, order[n]) = n - 1
    BY HeadsInPlace
  <2>4. p + 1 \in DOMAIN order
    BY <1>1, <2>1, <2>2, <2>3
  <2>5. h \in Heads(head)
    <3> HIDE DEF order
    <3> QED
      BY <2>3, <2>4
  <2>6. Place(head, h) = p
    <3>1. Place(head, order[p + 1]) = (p + 1) - 1
      BY <2>3, <2>4, Zenon
    <3>2. (p + 1) - 1 = p
      BY <2>1
    <3> QED
      BY <3>1, <3>2
  <2> HIDE DEF h
  <2>7. h \in T /\ head[h] = h
    BY <1>3, <1>6, <2>5
  <2> QED
    BY <2>6, <2>7
<1> QED
  BY <1>7

-----------------------------------------------------------------------------
(* Fusion emits no key twice.                                              *)

\* No two nodes of g have one token and the same inputs.
NoTwins(g) ==
  \A i, j \in DOMAIN g.node :
    g.node[i].token = g.node[j].token /\ g.node[i].inputs = g.node[j].inputs => i = j

(* Two sequences with the same entries are equal. *)
LEMMA SameEntries ==
  ASSUME NEW T, NEW xs \in Seq(T), NEW ys \in Seq(T), DOMAIN xs = DOMAIN ys,
         \A n \in DOMAIN xs : xs[n] = ys[n]
  PROVE  xs = ys
<1>1. xs \in [1 .. Len(xs) -> T] /\ ys \in [1 .. Len(ys) -> T]
  OBVIOUS
<1>2. xs = [n \in DOMAIN xs |-> xs[n]] /\ ys = [n \in DOMAIN ys |-> ys[n]]
  BY <1>1
<1> QED
  BY <1>2

(* A place names one head. *)
LEMMA PlaceNamesHead ==
  ASSUME NEW ns, NEW g, StoreList(ns), GraphOf(g, ns), NEW head, Components(g, head),
         NEW h \in Heads(head), NEW k \in Heads(head), Place(head, h) = Place(head, k)
  PROVE  h = k
<1>1. /\ Ascending(Heads(head))[Place(head, h) + 1] = h
      /\ Ascending(Heads(head))[Place(head, k) + 1] = k
  BY HeadsInPlace
<1> QED
  BY <1>1

(* References that lead somewhere lead to one node. *)
LEMMA SameReference ==
  ASSUME NEW ref, NEW ops, NEW others, NEW slots, NEW m \in Nat, NEW i, NEW j,
         LeadsTo(ref, ops, slots, m, i), LeadsTo(ref, others, slots, m, j),
         \A n \in Nat : n < m /\ n \in DOMAIN ops => ops[n] = others[n]
  PROVE  i = j
<1>1. \A r, q \in Nat : MemberRef(r) # InputRef(q)
  BY DEF MemberRef, InputRef
<1>2. \A r, q \in Nat : /\ MemberRef(r) = MemberRef(q) => r = q
                        /\ InputRef(r) = InputRef(q) => r = q
  BY DEF MemberRef, InputRef
<1>3. CASE \E r \in Nat : /\ ref = MemberRef(r) /\ r + 1 < m
                          /\ r + 1 \in DOMAIN ops /\ ops[r + 1] = i
  <2>1. PICK r \in Nat : /\ ref = MemberRef(r) /\ r + 1 < m
                         /\ r + 1 \in DOMAIN ops /\ ops[r + 1] = i
    BY <1>3
  <2>2. PICK q \in Nat : ref = MemberRef(q) /\ others[q + 1] = j
    BY <1>1, <2>1, Zenon DEF LeadsTo
  <2>3. q = r
    BY <1>2, <2>1, <2>2
  <2>4. r + 1 \in Nat
    OBVIOUS
  <2> QED
    BY <2>1, <2>2, <2>3, <2>4
<1>4. CASE \E r \in Nat : /\ ref = InputRef(r) /\ r < Len(slots)
                          /\ r + 1 \in DOMAIN slots /\ slots[r + 1] = i
  <2>1. PICK r \in Nat : ref = InputRef(r) /\ slots[r + 1] = i
    BY <1>4
  <2>2. PICK q \in Nat : ref = InputRef(q) /\ slots[q + 1] = j
    BY <1>1, <2>1, Zenon DEF LeadsTo
  <2>3. q = r
    BY <1>2, <2>1, <2>2
  <2> QED
    BY <2>1, <2>2, <2>3
<1> QED
  BY <1>3, <1>4 DEF LeadsTo

(* Equal boundary keys are rebuilt from one node. *)
LEMMA SameBoundary ==
  ASSUME NEW ns, NEW g0, NEW g, StoreList(ns), GraphOf(g0, ns), GraphOf(g, ns), NoTwins(g),
         DOMAIN g.node \subseteq DOMAIN g0.node, NEW head, Components(g, head),
         NEW h \in Heads(head), NEW k \in Heads(head), Boundary(g, h), Boundary(g, k),
         RebuildBoundary(ns, g0, g, head, h) = RebuildBoundary(ns, g0, g, head, k)
  PROVE  h = k
<1> DEFINE key == RebuildBoundary(ns, g0, g, head, h)
           in(i) == g.node[i].inputs
<1>1. h \in DOMAIN g.node /\ k \in DOMAIN g.node
  BY DEF Heads, Components
<1>2. key = RebuildBoundary(ns, g0, g, head, h) /\ key = RebuildBoundary(ns, g0, g, head, k)
  OBVIOUS
<1> HIDE DEF key
<1>3. /\ Token(key) = g.node[h].token /\ DOMAIN key.inputs = DOMAIN in(h)
      /\ \A n \in DOMAIN in(h) : key.inputs[n] = Place(head, in(h)[n])
  BY <1>2, BoundaryKey
<1>4. /\ Token(key) = g.node[k].token /\ DOMAIN key.inputs = DOMAIN in(k)
      /\ \A n \in DOMAIN in(k) : key.inputs[n] = Place(head, in(k)[n])
  BY <1>2, BoundaryKey
<1>5. ASSUME NEW n \in DOMAIN in(h)
      PROVE  in(h)[n] = in(k)[n]
  <2>1. n \in DOMAIN in(k)
    BY <1>3, <1>4
  <2>2. in(h)[n] \in Heads(head)
    BY BoundaryReads
  <2>3. in(k)[n] \in Heads(head)
    BY <2>1, BoundaryReads
  <2>4. Place(head, in(h)[n]) = Place(head, in(k)[n])
    BY <1>3, <1>4, <2>1
  <2> HIDE DEF in
  <2> QED
    BY <2>2, <2>3, <2>4, PlaceNamesHead
<1>6. in(h) \in Seq(Nat) /\ in(k) \in Seq(Nat) /\ DOMAIN in(h) = DOMAIN in(k)
  BY <1>1, <1>3, <1>4, GraphNode
<1>7. in(h) = in(k)
  <2> HIDE DEF in
  <2> QED
    BY <1>5, <1>6, SameEntries
<1> QED
  BY <1>1, <1>3, <1>4, <1>7 DEF NoTwins

(* Equal stages are fused from one component. *)
LEMMA SameStage ==
  ASSUME NEW ns, NEW g, StoreList(ns), GraphOf(g, ns), NoTwins(g),
         NEW head, Components(g, head), NEW h \in Heads(head), NEW k \in Heads(head),
         FuseStage(g, head, h) = FuseStage(g, head, k)
  PROVE  h = k
<1> DEFINE D == DOMAIN g.node
           in(i) == g.node[i].inputs
           key == FuseStage(g, head, h)
           opsH == Members(head, h)
           opsK == Members(head, k)
           slots == Slots(g, head, h)
<1>1. /\ opsH \in Seq(D) /\ Len(opsH) \in Nat /\ Len(opsH) > 0 /\ opsH[Len(opsH)] = h
      /\ opsK \in Seq(D) /\ Len(opsK) \in Nat /\ Len(opsK) > 0 /\ opsK[Len(opsK)] = k
  BY MembersList
<1>2. key = FuseStage(g, head, h) /\ key = FuseStage(g, head, k)
  OBVIOUS
<1> HIDE DEF key
<1>3. /\ DOMAIN key.members = DOMAIN opsH
      /\ \A m \in DOMAIN opsH : key.members[m] = StageMember(g, head, h, opsH[m])
      /\ DOMAIN key.inputs = DOMAIN slots
      /\ \A n \in DOMAIN slots : /\ key.inputs[n] = Place(head, slots[n])
                                 /\ slots[n] \in Heads(head)
  BY <1>2, StageKeyParts
<1>4. /\ DOMAIN key.members = DOMAIN opsK
      /\ \A m \in DOMAIN opsK : key.members[m] = StageMember(g, head, k, opsK[m])
      /\ DOMAIN key.inputs = DOMAIN Slots(g, head, k)
      /\ \A n \in DOMAIN Slots(g, head, k) :
           /\ key.inputs[n] = Place(head, Slots(g, head, k)[n])
           /\ Slots(g, head, k)[n] \in Heads(head)
  BY <1>2, StageKeyParts
<1>5. slots = Slots(g, head, k)
  <2>1. slots \in Seq(D) /\ Slots(g, head, k) \in Seq(D)
    BY SlotsList
  <2>2. ASSUME NEW n \in DOMAIN slots
        PROVE  slots[n] = Slots(g, head, k)[n]
    <3>1. n \in DOMAIN Slots(g, head, k)
      BY <1>3, <1>4
    <3>2. Place(head, slots[n]) = Place(head, Slots(g, head, k)[n])
      BY <1>3, <1>4, <3>1
    <3>3. slots[n] \in Heads(head) /\ Slots(g, head, k)[n] \in Heads(head)
      BY <1>3, <1>4, <3>1
    <3> HIDE DEF slots
    <3> QED
      BY <3>2, <3>3, PlaceNamesHead
  <2>3. DOMAIN slots = DOMAIN Slots(g, head, k)
    BY <1>3, <1>4
  <2> HIDE DEF slots
  <2> QED
    BY <2>1, <2>2, <2>3, SameEntries
<1>6. DOMAIN opsH = DOMAIN opsK /\ DOMAIN opsH = 1 .. Len(opsH) /\ Len(opsH) = Len(opsK)
  <2> HIDE DEF opsH, opsK
  <2>1. DOMAIN opsH = DOMAIN opsK
    BY <1>3, <1>4
  <2>2. DOMAIN opsH = 1 .. Len(opsH) /\ DOMAIN opsK = 1 .. Len(opsK)
    BY <1>1
  <2> DEFINE a == Len(opsH)
             b == Len(opsK)
  <2>3. a \in Nat /\ a > 0 /\ b \in Nat /\ b > 0 /\ 1 .. a = 1 .. b
    BY <1>1, <2>1, <2>2
  <2> HIDE DEF a, b
  <2>4. a \in 1 .. a /\ b \in 1 .. b
    BY <2>3
  <2>5. a \in 1 .. b /\ b \in 1 .. a
    BY <2>3, <2>4
  <2>6. a = b
    BY <2>3, <2>5
  <2> QED
    BY <2>1, <2>2, <2>6 DEF a, b
<1> DEFINE Wrong == {m \in DOMAIN opsH : opsH[m] # opsK[m]}
<1>7. Wrong = {}
  <2> SUFFICES ASSUME Wrong # {} PROVE FALSE
    OBVIOUS
  <2>1. PICK m \in Wrong : \A n \in Wrong : m <= n
    <3>1. Wrong \subseteq Nat
      <4> HIDE DEF opsH, opsK
      <4> QED
        BY <1>6
    <3> HIDE DEF Wrong
    <3> QED
      BY <3>1, LeastMember
  <2> DEFINE i == opsH[m]
             j == opsK[m]
  <2>2. m \in DOMAIN opsH /\ m \in DOMAIN opsK /\ m \in Nat /\ i # j
    <3> HIDE DEF opsH, opsK
    <3> QED
      BY <1>6, <2>1
  <2>3. i \in D /\ j \in D
    <3> HIDE DEF opsH, opsK
    <3> QED
      BY <1>1, <2>2
  <2>4. StageMember(g, head, h, i) = StageMember(g, head, k, j)
    BY <1>3, <1>4, <2>2
  <2>5. /\ g.node[i].token = g.node[j].token
        /\ [n \in DOMAIN in(i) |-> StageRef(g, head, h, in(i)[n])]
             = [n \in DOMAIN in(j) |-> StageRef(g, head, k, in(j)[n])]
    <3> HIDE DEF i, j
    <3> QED
      BY <2>4 DEF StageMember, StageOp
  <2>6. /\ DOMAIN in(i) = DOMAIN in(j)
        /\ \A n \in DOMAIN in(i) : StageRef(g, head, h, in(i)[n]) = StageRef(g, head, k, in(j)[n])
    <3> HIDE DEF i, j, in
    <3> DEFINE F == [n \in DOMAIN in(i) |-> StageRef(g, head, h, in(i)[n])]
               G == [n \in DOMAIN in(j) |-> StageRef(g, head, k, in(j)[n])]
    <3>1. F = G
      BY <2>5
    <3>2. DOMAIN F = DOMAIN in(i) /\ DOMAIN G = DOMAIN in(j)
      OBVIOUS
    <3>3. \A n \in DOMAIN in(i) : F[n] = StageRef(g, head, h, in(i)[n])
      OBVIOUS
    <3>4. \A n \in DOMAIN in(j) : G[n] = StageRef(g, head, k, in(j)[n])
      OBVIOUS
    <3> HIDE DEF F, G
    <3> QED
      BY <3>1, <3>2, <3>3, <3>4
  <2>7. ASSUME NEW n \in DOMAIN in(i)
        PROVE  in(i)[n] = in(j)[n]
    <3> DEFINE ref == StageRef(g, head, h, in(i)[n])
    <3>1. LeadsTo(ref, opsH, slots, m, in(i)[n])
      BY <2>2, StageRefLeads
    <3>2. n \in DOMAIN in(j)
      BY <2>6
    <3>3. LeadsTo(StageRef(g, head, k, in(j)[n]), opsK, Slots(g, head, k), m, in(j)[n])
      BY <2>2, <3>2, StageRefLeads
    <3>4. ref = StageRef(g, head, k, in(j)[n])
      BY <2>6
    <3> HIDE DEF ref, opsH, opsK, slots, i, j, in
    <3>5. LeadsTo(ref, opsK, slots, m, in(j)[n])
      BY <1>5, <3>3, <3>4
    <3>6. \A p \in Nat : p < m /\ p \in DOMAIN opsH => opsH[p] = opsK[p]
      BY <2>1, <2>2
    <3> QED
      BY <2>2, <3>1, <3>5, <3>6, SameReference
  <2>8. in(i) = in(j)
    <3>1. in(i) \in Seq(Nat) /\ in(j) \in Seq(Nat)
      BY <2>3, GraphNode
    <3> HIDE DEF i, j, in
    <3> QED
      BY <2>6, <2>7, <3>1, SameEntries
  <2> HIDE DEF i, j
  <2> QED
    BY <2>2, <2>3, <2>5, <2>8 DEF NoTwins
<1>8. Len(opsH) \in DOMAIN opsH
  BY <1>1, <1>6
<1>9. opsH[Len(opsH)] = opsK[Len(opsH)]
  BY <1>7, <1>8
<1> QED
  BY <1>1, <1>6, <1>9

\* An op that fuses alone could make a stage that is there already.
Unmixed(g) == \A i, j \in DOMAIN g.node :
                g.node[i].token[1] = "stage" => g.node[j].token[1] # "op"

NoStages(g) == \A i \in DOMAIN g.node : g.node[i].token[1] # "stage"

(* Fusing a graph without twins emits no key twice. *)
LEMMA FusedDistinct ==
  ASSUME NEW ns, NEW g0, NEW g, StoreList(ns), GraphOf(g0, ns), GraphOf(g, ns), NoTwins(g),
         Unmixed(g),
         DOMAIN g.node \subseteq DOMAIN g0.node, NEW head, Components(g, head),
         NEW nodes, nodes = FusedList(ns, g0, g, head)
  PROVE  \A p, q \in DOMAIN nodes : nodes[p] = nodes[q] => p = q
<1> DEFINE order == Ascending(Heads(head))
<1> SUFFICES ASSUME NEW p \in DOMAIN nodes, NEW q \in DOMAIN nodes, nodes[p] = nodes[q]
             PROVE  p = q
  OBVIOUS
<1>1. /\ Len(nodes) = Len(order) /\ DOMAIN nodes = 1 .. Len(nodes)
      /\ \A n \in DOMAIN nodes : nodes[n] = ReducedNode(ns, g0, g, head, order[n])
  BY FusedListOrdered
<1>2. /\ order \in Seq(Heads(head)) /\ DOMAIN order = 1 .. Len(order)
      /\ \A n \in DOMAIN order : Place(head, order[n]) = n - 1
  BY HeadsInPlace
<1> DEFINE h == order[p]
           k == order[q]
<1>3. /\ h \in Heads(head) /\ k \in Heads(head)
      /\ Place(head, h) = p - 1 /\ Place(head, k) = q - 1 /\ p \in Nat /\ q \in Nat
  <2> HIDE DEF order
  <2> QED
    BY <1>1, <1>2
<1>4. ReducedNode(ns, g0, g, head, h) = ReducedNode(ns, g0, g, head, k)
  BY <1>1
<1> HIDE DEF h, k, order
<1>5. Boundary(g, h) <=> Boundary(g, k)
  <2>1. ASSUME NEW x \in Heads(head), NEW y \in Heads(head), Boundary(g, x), ~ Boundary(g, y)
        PROVE  ReducedNode(ns, g0, g, head, x) # ReducedNode(ns, g0, g, head, y)
    <3> DEFINE key == ReducedNode(ns, g0, g, head, x)
    <3>1. key = RebuildBoundary(ns, g0, g, head, x)
      BY <2>1 DEF ReducedNode
    <3>2. ReducedNode(ns, g0, g, head, y).kind = "stage"
      BY <2>1, StageKeyParts DEF ReducedNode
    <3> HIDE DEF key
    <3>3. Token(key) = g.node[x].token
      BY <2>1, <3>1, BoundaryKey
    <3>4. x \in DOMAIN g.node /\ y \in DOMAIN g.node
      BY DEF Heads, Components
    <3>5. g.node[y].token[1] = "op"
      BY <2>1 DEF Boundary, BoundaryToken
    <3>6. key.kind # "stage"
      <4>1. key.kind = "stage" => Token(key)[1] = "stage"
        BY DEF Token
      <4> QED
        BY <3>3, <3>4, <3>5, <4>1 DEF Unmixed
    <3> QED
      BY <3>2, <3>6 DEF key
  <2> QED
    BY <1>3, <1>4, <2>1
<1>6. h = k
  <2>1. CASE Boundary(g, h)
    <3>1. Boundary(g, k)
      BY <1>5, <2>1
    <3>2. RebuildBoundary(ns, g0, g, head, h) = RebuildBoundary(ns, g0, g, head, k)
      BY <1>4, <2>1, <3>1 DEF ReducedNode
    <3> QED
      BY <1>3, <2>1, <3>1, <3>2, SameBoundary
  <2>2. CASE ~ Boundary(g, h)
    <3>1. ~ Boundary(g, k)
      BY <1>5, <2>2
    <3>2. FuseStage(g, head, h) = FuseStage(g, head, k)
      BY <1>4, <2>2, <3>1 DEF ReducedNode
    <3> QED
      BY <1>3, <3>2, SameStage
  <2> QED
    BY <2>1, <2>2
<1> QED
  BY <1>3, <1>6

-----------------------------------------------------------------------------
(* The rebuild keeps what fusion emitted.                                  *)

\* What interning the first n keys makes when no two of them are equal.
Unmerged(keys, n) ==
  [nodes |-> [p \in 1 .. n |-> keys[p]], map |-> [p \in 1 .. n |-> p - 1]]

(* A list is extended by its next entry. *)
LEMMA AppendNext ==
  ASSUME NEW n \in Nat, NEW s, NEW t,
         s = [p \in 1 .. n |-> t[p]], DOMAIN t = 1 .. (n + 1), t = [p \in 1 .. (n + 1) |-> t[p]]
  PROVE  Append(s, t[n + 1]) = t
<1>1. s = [p \in 1 .. n |-> s[p]]
  OBVIOUS
<1>2. Len(s) = n
  BY <1>1, ListOfEntries
<1>3. Len(s) \in Nat /\ s = [p \in 1 .. Len(s) |-> s[p]]
  BY <1>1, <1>2
<1> DEFINE u == Append(s, t[n + 1])
<1>4. /\ u = [p \in 1 .. (Len(s) + 1) |-> u[p]]
      /\ \A p \in 1 .. Len(s) : u[p] = s[p]
      /\ u[Len(s) + 1] = t[n + 1]
  BY <1>3, AppendedList
<1> HIDE DEF u
<1>5. \A p \in 1 .. (n + 1) : u[p] = t[p]
  <2> SUFFICES ASSUME NEW p \in 1 .. (n + 1) PROVE u[p] = t[p]
    OBVIOUS
  <2>1. CASE p \in 1 .. n
    <3>1. s[p] = t[p]
      BY <2>1
    <3> QED
      BY <1>2, <1>4, <2>1, <3>1
  <2>2. CASE p = n + 1
    BY <1>2, <1>4, <2>2
  <2> QED
    BY <2>1, <2>2
<1>6. u = t
  BY <1>2, <1>4, <1>5
<1> QED
  BY <1>6 DEF u

(* Interning a key that is not there, over itself, appends it. *)
LEMMA InternUnmerged ==
  ASSUME NEW keys, StoreList(keys), \A p, q \in DOMAIN keys : keys[p] = keys[q] => p = q,
         NEW n \in Nat, n < Len(keys)
  PROVE  InternInto(Unmerged(keys, n), keys[n + 1]) = Unmerged(keys, n + 1)
<1> DEFINE acc == Unmerged(keys, n)
           k == keys[n + 1]
           in == k.inputs
           up == [m \in DOMAIN in |-> in[m] + 1]
           inputs == Through(acc.map, up)
<1>1. /\ Len(keys) \in Nat /\ DOMAIN keys = 1 .. Len(keys)
      /\ n \in 0 .. (Len(keys) - 1) /\ n + 1 \in DOMAIN keys
  <2>1. Len(keys) \in Nat
    BY DEF StoreList, InputsBefore
  <2>2. DOMAIN keys = 1 .. Len(keys)
    BY DEF StoreList
  <2> QED
    BY <2>1, <2>2
<1>2. \A m \in DOMAIN in : in[m] \in 0 .. (n - 1)
  BY <1>1 DEF StoreList, InputsBefore
<1>3. StoreKey(k)
  BY <1>1 DEF StoreList
<1> HIDE DEF k
<1>4. in \in Seq(Nat) /\ WithInputs(k, in) = k
  <2>1. CASE k \in PlainKeys
    <3>1. /\ k = [Operator(k) EXCEPT !.inputs = in] /\ Operator(k) \in Operators
          /\ in \in Seq(Nat)
      BY <2>1, KeyIsOperatorOverInputs
    <3>2. k = [k EXCEPT !.inputs = in]
      BY <3>1 DEF Operators
    <3> QED
      BY <3>1, <3>2 DEF WithInputs
  <2>2. CASE StageKey(k)
    <3>1. PICK members, slots : slots \in Seq(Nat) /\ k = Stage(members, slots)
      BY <2>2 DEF StageKey
    <3>2. /\ Stage(members, slots).inputs = slots
          /\ WithInputs(Stage(members, slots), slots) = Stage(members, slots)
      BY DEF Stage, NodeKey, WithInputs
    <3> QED
      BY <3>1, <3>2
  <2> QED
    BY <1>3, <2>1, <2>2 DEF StoreKey
<1>5. acc.map = [p \in 1 .. n |-> p - 1] /\ acc.nodes = [p \in 1 .. n |-> keys[p]]
  BY DEF Unmerged
<1>6. inputs = in
  <2>1. in = [m \in DOMAIN in |-> in[m]]
    BY <1>4
  <2> HIDE DEF acc, in
  <2>2. \A m \in DOMAIN in : acc.map[up[m]] = in[m]
    <3> SUFFICES ASSUME NEW m \in DOMAIN in PROVE acc.map[up[m]] = in[m]
      OBVIOUS
    <3>1. in[m] \in Nat /\ in[m] + 1 \in 1 .. n /\ up[m] = in[m] + 1
      BY <1>2
    <3> QED
      BY <1>5, <3>1
  <2>3. inputs = [m \in DOMAIN in |-> acc.map[up[m]]]
    BY DEF Through
  <2> HIDE DEF up
  <2> QED
    BY <2>1, <2>2, <2>3
<1>7. WithInputs(k, Through(acc.map, [m \in DOMAIN k.inputs |-> k.inputs[m] + 1])) = k
  BY <1>4, <1>6
<1> HIDE DEF in, up, inputs, acc
<1>8. Len(acc.nodes) = n /\ Len(acc.map) = n
  <2>1. /\ acc.nodes = [p \in 1 .. n |-> acc.nodes[p]]
        /\ acc.map = [p \in 1 .. n |-> acc.map[p]]
    BY <1>5
  <2> QED
    BY <2>1, ListOfEntries
<1>9. ~ Contains(acc.nodes, k)
  <2> SUFFICES ASSUME NEW p \in 1 .. n, acc.nodes[p] = k PROVE FALSE
    BY <1>8 DEF Contains
  <2>1. keys[p] = keys[n + 1] /\ p \in DOMAIN keys /\ p # n + 1
    BY <1>1, <1>5 DEF k
  <2> QED
    BY <1>1, <2>1
<1>10. InternInto(acc, k) = [nodes |-> Append(acc.nodes, k), map |-> Append(acc.map, n)]
  BY <1>7, <1>8, <1>9, Zenon DEF InternInto
<1>11. Append(acc.nodes, k) = [p \in 1 .. (n + 1) |-> keys[p]]
  <2> DEFINE t == [p \in 1 .. (n + 1) |-> keys[p]]
  <2>1. /\ DOMAIN t = 1 .. (n + 1) /\ t = [p \in 1 .. (n + 1) |-> t[p]]
        /\ t[n + 1] = k /\ acc.nodes = [p \in 1 .. n |-> t[p]]
    BY <1>5 DEF k
  <2> HIDE DEF t
  <2>2. Append(acc.nodes, t[n + 1]) = t
    BY <2>1, AppendNext
  <2> QED
    BY <2>1, <2>2 DEF t
<1>12. Append(acc.map, n) = [p \in 1 .. (n + 1) |-> p - 1]
  <2> DEFINE t == [p \in 1 .. (n + 1) |-> p - 1]
  <2>1. /\ DOMAIN t = 1 .. (n + 1) /\ t = [p \in 1 .. (n + 1) |-> t[p]]
        /\ t[n + 1] = n /\ acc.map = [p \in 1 .. n |-> t[p]]
    BY <1>5
  <2> HIDE DEF t
  <2>2. Append(acc.map, t[n + 1]) = t
    BY <2>1, AppendNext
  <2> QED
    BY <2>1, <2>2 DEF t
<1> QED
  BY <1>10, <1>11, <1>12 DEF acc, k, Unmerged

(* Interning a list without repetitions keeps it, id for id. *)
LEMMA InternDistinct ==
  ASSUME NEW keys, StoreList(keys), \A p, q \in DOMAIN keys : keys[p] = keys[q] => p = q
  PROVE  InternAll(keys) = Unmerged(keys, Len(keys))
<1>1. Len(keys) \in Nat
  BY DEF StoreList, InputsBefore
<1>2. PICK acc : /\ InternAll(keys) = acc[Len(keys)]
                 /\ \A n \in 0 .. Len(keys) : acc[n] = InternStep(keys, acc, n)
  BY <1>1, InternSteps
<1> DEFINE Wrong == {n \in 0 .. Len(keys) : acc[n] # Unmerged(keys, n)}
<1>3. Wrong = {}
  <2> SUFFICES ASSUME Wrong # {} PROVE FALSE
    OBVIOUS
  <2>1. PICK n \in Wrong : \A m \in Wrong : n <= m
    <3>1. Wrong \subseteq Nat
      OBVIOUS
    <3> HIDE DEF Wrong
    <3> QED
      BY <3>1, LeastMember
  <2>2. n \in Nat /\ n <= Len(keys) /\ acc[n] = InternStep(keys, acc, n)
    BY <1>2, <2>1
  <2>3. CASE n = 0
    <3>1. acc[n] = [nodes |-> <<>>, map |-> <<>>]
      BY <2>2, <2>3 DEF InternStep
    <3>2. 1 .. 0 = {}
      OBVIOUS
    <3>3. Unmerged(keys, 0) = [nodes |-> <<>>, map |-> <<>>]
      BY <3>2 DEF Unmerged
    <3> QED
      BY <2>1, <2>3, <3>1, <3>3
  <2>4. CASE n # 0
    <3> DEFINE m == n - 1
    <3>1. m \in Nat /\ m \in 0 .. Len(keys) /\ m < Len(keys) /\ m + 1 = n /\ ~ (n <= m)
      BY <1>1, <2>2, <2>4
    <3>2. ~ (m \in Wrong)
      BY <2>1, <3>1
    <3>3. acc[m] = Unmerged(keys, m)
      BY <3>1, <3>2
    <3>4. acc[n] = InternInto(acc[m], keys[n])
      BY <2>2, <2>4 DEF InternStep
    <3> HIDE DEF m
    <3>5. InternInto(Unmerged(keys, m), keys[m + 1]) = Unmerged(keys, m + 1)
      BY <3>1, InternUnmerged
    <3> QED
      BY <2>1, <3>1, <3>3, <3>4, <3>5
  <2> QED
    BY <2>3, <2>4
<1>4. Len(keys) \in 0 .. Len(keys)
  BY <1>1
<1> QED
  BY <1>2, <1>3, <1>4

(* A fused stage is closed: its members read its slots and earlier members. *)
LEMMA FusedStageClosed ==
  ASSUME NEW ns, NEW g, StoreList(ns), GraphOf(g, ns),
         NEW head, Components(g, head), NEW h \in Heads(head)
  PROVE  StageClosed(FuseStage(g, head, h))
<1> DEFINE key == FuseStage(g, head, h)
           ops == Members(head, h)
           slots == Slots(g, head, h)
           in(i) == g.node[i].inputs
<1>1. key = FuseStage(g, head, h)
  OBVIOUS
<1> HIDE DEF key
<1>2. /\ DOMAIN key.members = DOMAIN ops
      /\ \A m \in DOMAIN ops : key.members[m] = StageMember(g, head, h, ops[m])
      /\ Len(key.inputs) = Len(slots)
  BY <1>1, StageKeyParts
<1>3. ops \in Seq(DOMAIN g.node)
  BY MembersList
<1>4. ASSUME NEW m \in DOMAIN ops, NEW n \in DOMAIN in(ops[m])
      PROVE  LET r == StageRef(g, head, h, in(ops[m])[n])
             IN \/ r[1] = "input" /\ r[2] < Len(key.inputs)
                \/ r[1] = "member" /\ r[2] < m - 1
  <2> DEFINE j == in(ops[m])[n]
             ref == StageRef(g, head, h, j)
  <2>1. LeadsTo(ref, ops, slots, m, j)
    BY StageRefLeads
  <2>2. m \in Nat
    BY <1>3
  <2> HIDE DEF ref, j, ops, slots
  <2>3. CASE \E r \in Nat : /\ ref = MemberRef(r) /\ r + 1 < m
                            /\ r + 1 \in DOMAIN ops /\ ops[r + 1] = j
    <3>1. PICK r \in Nat : ref = MemberRef(r) /\ r + 1 < m
      BY <2>3
    <3>2. ref[1] = "member" /\ ref[2] = r
      BY <3>1 DEF MemberRef
    <3> QED
      BY <2>2, <3>1, <3>2 DEF ref, j, ops
  <2>4. CASE \E r \in Nat : /\ ref = InputRef(r) /\ r < Len(slots)
                            /\ r + 1 \in DOMAIN slots /\ slots[r + 1] = j
    <3>1. PICK r \in Nat : ref = InputRef(r) /\ r < Len(slots)
      BY <2>4
    <3>2. ref[1] = "input" /\ ref[2] = r
      BY <3>1 DEF InputRef
    <3> QED
      BY <1>2, <3>1, <3>2 DEF ref, j, ops
  <2> QED
    BY <2>1, <2>3, <2>4 DEF LeadsTo
<1>5. ASSUME NEW m \in DOMAIN key.members, NEW r \in ToSet(key.members[m].inputs)
      PROVE  \/ r[1] = "input" /\ r[2] < Len(key.inputs)
             \/ r[1] = "member" /\ r[2] < m - 1
  <2>1. m \in DOMAIN ops /\ key.members[m] = StageMember(g, head, h, ops[m])
    BY <1>2
  <2>2. key.members[m].inputs = [n \in DOMAIN in(ops[m]) |-> StageRef(g, head, h, in(ops[m])[n])]
    BY <2>1 DEF StageMember, StageOp
  <2> HIDE DEF ops, in
  <2>3. PICK n \in DOMAIN in(ops[m]) : r = StageRef(g, head, h, in(ops[m])[n])
    BY <2>2 DEF ToSet
  <2> QED
    BY <1>4, <2>1, <2>3
<1>6. StageClosed(key)
  BY <1>5 DEF StageClosed
<1> QED
  BY <1>6 DEF key

(* The nodes that fusion emits for a graph without stages are closed. *)
LEMMA FusedClosed ==
  ASSUME NEW ns, NEW g0, NEW g, StoreList(ns), GraphOf(g0, ns), GraphOf(g, ns), NoStages(g),
         DOMAIN g.node \subseteq DOMAIN g0.node, NEW head, Components(g, head),
         NEW nodes, nodes = FusedList(ns, g0, g, head)
  PROVE  \A n \in DOMAIN nodes : StageClosed(nodes[n])
<1> DEFINE order == Ascending(Heads(head))
<1> SUFFICES ASSUME NEW n \in DOMAIN nodes PROVE StageClosed(nodes[n])
  OBVIOUS
<1>1. /\ Len(nodes) = Len(order) /\ DOMAIN nodes = 1 .. Len(nodes)
      /\ nodes[n] = ReducedNode(ns, g0, g, head, order[n])
  BY FusedListOrdered
<1>2. order \in Seq(Heads(head)) /\ DOMAIN order = 1 .. Len(order)
  BY HeadsInPlace
<1> DEFINE h == order[n]
<1>3. h \in Heads(head) /\ nodes[n] = ReducedNode(ns, g0, g, head, h)
  <2> HIDE DEF order
  <2> QED
    BY <1>1, <1>2
<1> HIDE DEF h
<1>4. CASE Boundary(g, h)
  <2>1. nodes[n] = RebuildBoundary(ns, g0, g, head, h)
    BY <1>3, <1>4 DEF ReducedNode
  <2>2. /\ StoreKey(nodes[n]) /\ Token(nodes[n]) = g.node[h].token
        /\ h \in DOMAIN g.node
    BY <1>3, <1>4, <2>1, BoundaryKey DEF Heads, Components
  <2>3. nodes[n].members = <<>>
    <3>1. nodes[n].kind = "stage" => Token(nodes[n])[1] = "stage"
      BY DEF Token
    <3>2. nodes[n].kind # "stage"
      BY <2>2, <3>1 DEF NoStages
    <3>3. Operator(nodes[n]) \in Operators /\ nodes[n].members = Operator(nodes[n]).members
      BY <2>2, <3>2, StoreKeyShape, KeyIsOperatorOverInputs
    <3> QED
      BY <3>3 DEF Operators
  <2> QED
    BY <2>3 DEF StageClosed
<1>5. CASE ~ Boundary(g, h)
  BY <1>3, <1>5, FusedStageClosed DEF ReducedNode
<1> QED
  BY <1>4, <1>5

-----------------------------------------------------------------------------
\* A reduced store is the list that fusion emitted, without repetitions, and
\* a graph without dead nodes.
RebuiltAsFused(result, red) ==
  /\ result.nodes = red.nodes
  /\ Len(red.nodes) = red.stages + red.boundaries
  /\ StoreList(result.nodes)
  /\ \A n \in DOMAIN result.outs : result.outs[n] < Len(result.nodes)
  /\ Reachable(result.nodes, result.outs) = IdsOf(result.nodes)

(* What a graph without dead nodes and twins is rebuilt to. *)
LEMMA FusedIsRebuilt ==
  ASSUME NEW ns, NEW g0, NEW g, NEW mode \in FusionModes,
         StoreList(ns), GraphOf(g0, ns), GraphOf(g, ns), NoTwins(g), AllNeeded(g), Unmixed(g),
         DOMAIN g.node \subseteq DOMAIN g0.node, g.outs \in Seq(DOMAIN g.node)
  PROVE  /\ RebuiltAsFused(FromReduced(StageFusion(ns, g0, g, mode)),
                            StageFusion(ns, g0, g, mode))
         /\ NoStages(g) => \A n \in DOMAIN FromReduced(StageFusion(ns, g0, g, mode)).nodes :
                             StageClosed(FromReduced(StageFusion(ns, g0, g, mode)).nodes[n])
<1> DEFINE head == HeadOf(g, mode)
           order == Ascending(Heads(head))
           red == StageFusion(ns, g0, g, mode)
           fresh == InternAll(red.nodes)
           places == [n \in DOMAIN red.outs |-> fresh.map[red.outs[n] + 1]]
           result == FromReduced(red)
<1>1. Components(g, head)
  <2>1. mode = "SingleUse" \/ mode = "Maximal"
    BY DEF FusionModes
  <2> QED
    BY <2>1, SingleUseComponents, MaximalComponents DEF HeadOf
<1>2. /\ red.nodes = FusedList(ns, g0, g, head)
      /\ red.outs = [n \in DOMAIN g.outs |-> Place(head, head[g.outs[n]])]
      /\ red.stages = Cardinality({h \in Heads(head) : ~ Boundary(g, h)})
      /\ red.boundaries = Cardinality({h \in Heads(head) : Boundary(g, h)})
  BY DEF StageFusion, FusedList, ReducedNode
<1>3. result = [nodes |-> fresh.nodes, outs |-> FirstSeen(places, {}), places |-> places]
  BY DEF FromReduced
<1> HIDE DEF head, red, result
<1>4. /\ StoreList(red.nodes) /\ Len(red.nodes) = Len(order)
      /\ DOMAIN red.nodes = 1 .. Len(red.nodes)
  BY <1>1, <1>2, FusedListOrdered
<1>5. \A p, q \in DOMAIN red.nodes : red.nodes[p] = red.nodes[q] => p = q
  BY <1>1, <1>2, FusedDistinct
<1>6. NoStages(g) => \A n \in DOMAIN red.nodes : StageClosed(red.nodes[n])
  BY <1>1, <1>2, FusedClosed
<1>7. ToSet(g.outs) \subseteq DOMAIN g.node
  BY DEF ToSet
<1>8. AllListed(red.nodes, red.outs)
  <2>1. AllListed(red.nodes, [n \in DOMAIN g.outs |-> Place(head, head[g.outs[n]])])
    BY <1>1, <1>2, <1>7, FusedNeeded
  <2> QED
    BY <1>2, <2>1
<1>9. fresh = Unmerged(red.nodes, Len(red.nodes))
  BY <1>4, <1>5, InternDistinct
<1>10. fresh.nodes = red.nodes
  <2>1. red.nodes = [p \in 1 .. Len(red.nodes) |-> red.nodes[p]]
    BY <1>4 DEF StoreList
  <2>2. fresh.nodes = [p \in 1 .. Len(red.nodes) |-> red.nodes[p]]
    BY <1>9 DEF Unmerged
  <2> QED
    BY <2>1, <2>2
<1>11. ASSUME NEW n \in DOMAIN g.outs
       PROVE  red.outs[n] \in Nat /\ red.outs[n] < Len(red.nodes)
  <2>1. head[g.outs[n]] \in Heads(head)
    BY <1>1 DEF Components, Heads
  <2>2. /\ Place(head, head[g.outs[n]]) \in Nat
        /\ Place(head, head[g.outs[n]]) < Len(order)
    BY <1>1, <2>1, HeadsInPlace
  <2> QED
    BY <1>2, <1>4, <2>2
<1>12. DOMAIN red.outs = DOMAIN g.outs /\ DOMAIN g.outs = 1 .. Len(g.outs) /\ Len(g.outs) \in Nat
  BY <1>2
<1>13. red.outs \in Seq(Nat)
  <2>1. red.outs = [n \in 1 .. Len(g.outs) |-> red.outs[n]]
    BY <1>2, <1>12
  <2>2. red.outs \in [1 .. Len(g.outs) -> Nat]
    BY <1>11, <1>12, <2>1
  <2> QED
    BY <1>12, <2>2, SeqDef
<1>14. places = red.outs
  <2>1. ASSUME NEW n \in DOMAIN red.outs
        PROVE  fresh.map[red.outs[n] + 1] = red.outs[n]
    <3>1. red.outs[n] + 1 \in 1 .. Len(red.nodes) /\ red.outs[n] \in Nat
      BY <1>4, <1>11, <1>12 DEF StoreList, InputsBefore
    <3>2. fresh.map = [p \in 1 .. Len(red.nodes) |-> p - 1]
      BY <1>9 DEF Unmerged
    <3> QED
      BY <3>1, <3>2
  <2>2. red.outs = [n \in DOMAIN red.outs |-> red.outs[n]]
    BY <1>13
  <2> QED
    BY <2>1, <2>2
<1> HIDE DEF fresh, places
<1>15. result.nodes = red.nodes /\ result.outs = FirstSeen(red.outs, {})
  BY <1>3, <1>10, <1>14
<1>16. result.outs \in Seq(Nat) /\ ToSet(result.outs) = ToSet(red.outs)
  <2>1. /\ FirstSeen(red.outs, {}) \in Seq(Nat)
        /\ ToSet(FirstSeen(red.outs, {})) = ToSet(red.outs) \ {}
    BY <1>13, FirstSeenEntries
  <2>2. ToSet(red.outs) \ {} = ToSet(red.outs)
    OBVIOUS
  <2> QED
    BY <1>15, <2>1, <2>2
<1>17. ASSUME NEW n \in DOMAIN result.outs
       PROVE  result.outs[n] < Len(result.nodes)
  <2>1. result.outs[n] \in ToSet(red.outs)
    BY <1>16 DEF ToSet
  <2>2. PICK m \in DOMAIN red.outs : red.outs[m] = result.outs[n]
    BY <2>1 DEF ToSet
  <2> QED
    BY <1>11, <1>12, <1>15, <2>2
<1>18. Reachable(result.nodes, result.outs) = IdsOf(result.nodes)
  <2> SUFFICES ASSUME NEW i \in IdsOf(red.nodes), NEW S \in SUBSET IdsOf(red.nodes),
                      ToSet(result.outs) \subseteq S, Closed(red.nodes, S)
               PROVE  i \in S
    BY <1>15 DEF Reachable
  <2> QED
    BY <1>8, <1>16 DEF AllListed
<1>19. Len(red.nodes) = red.stages + red.boundaries
  <2> DEFINE H == Heads(head)
             A == {h \in H : ~ Boundary(g, h)}
             B == {h \in H : Boundary(g, h)}
  <2>1. H \in SUBSET Nat /\ IsFiniteSet(H)
    <3>1. H \in SUBSET DOMAIN g.node
      BY <1>1 DEF Heads, Components
    <3> QED
      BY <3>1, GraphIsFinite, FS_Subset
  <2>2. Len(order) = Cardinality(H)
    BY <2>1, AscendingLists
  <2>3. IsFiniteSet(A) /\ IsFiniteSet(B) /\ A \cup B = H /\ A \cap B = {}
    <3>1. A \subseteq H /\ B \subseteq H
      OBVIOUS
    <3>2. IsFiniteSet(A) /\ IsFiniteSet(B)
      BY <2>1, <3>1, FS_Subset
    <3> QED
      BY <3>2
  <2> HIDE DEF A, B, H
  <2>4. /\ Cardinality(A \cup B) = Cardinality(A) + Cardinality(B) - Cardinality(A \cap B)
        /\ Cardinality(A) \in Nat /\ Cardinality(B) \in Nat
    BY <2>3, FS_Union, FS_CardinalityType
  <2>5. Cardinality(A \cap B) = 0
    BY <2>3, FS_EmptySet
  <2>6. Cardinality(H) = Cardinality(A) + Cardinality(B)
    <3> DEFINE a == Cardinality(A)
               b == Cardinality(B)
    <3>1. a \in Nat /\ b \in Nat /\ Cardinality(H) = a + b - 0
      BY <2>3, <2>4, <2>5
    <3> HIDE DEF a, b
    <3>2. Cardinality(H) = a + b
      BY <3>1
    <3> QED
      BY <3>2 DEF a, b
  <2> QED
    BY <1>2, <1>4, <2>2, <2>6 DEF A, B, H
<1>20. NoStages(g) => \A n \in DOMAIN result.nodes : StageClosed(result.nodes[n])
  BY <1>6, <1>15
<1>21. RebuiltAsFused(result, red)
  BY <1>4, <1>15, <1>17, <1>18, <1>19, Zenon DEF RebuiltAsFused
<1> QED
  BY <1>20, <1>21 DEF result, red

(* CSE and fusion of a graph without dead nodes. *)
LEMMA FinishIsRebuilt ==
  ASSUME NEW ns, NEW g0, NEW g, NEW mode \in FusionModes,
         StoreList(ns), GraphOf(g0, ns), GraphOf(g, ns), AllNeeded(g), Unmixed(g),
         DOMAIN g.node \subseteq DOMAIN g0.node, g.outs \in Seq(DOMAIN g.node)
  PROVE  /\ RebuiltAsFused(Finish(ns, g0, g, mode), StageFusion(ns, g0, Cse(g), mode))
         /\ NoStages(g) => \A n \in DOMAIN Finish(ns, g0, g, mode).nodes :
                             StageClosed(Finish(ns, g0, g, mode).nodes[n])
<1> DEFINE map == CseMap(g)
           q == Cse(g)
<1>1. /\ map \in [DOMAIN g.node -> DOMAIN g.node]
      /\ \A i \in DOMAIN g.node : map[i] <= i /\ map[map[i]] = map[i]
      /\ \A i, j \in DOMAIN q.node :
           q.node[i].token = q.node[j].token /\ q.node[i].inputs = q.node[j].inputs => i = j
      /\ ReadsKept(g, map)
  BY CseIrredundant
<1>2. q = Quotient(g, map)
  BY DEF Cse
<1> HIDE DEF map, q
<1>3. NoTwins(q)
  BY <1>1 DEF NoTwins
<1>4. /\ DOMAIN q.node = {k \in DOMAIN g.node : map[k] = k}
      /\ GraphOf(q, ns)
  BY CseIrredundant DEF map, q
<1>5. ToSet(g.outs) \subseteq DOMAIN g.node
  BY DEF ToSet
<1>6. AllNeeded(Quotient(g, map))
  BY <1>1, <1>5, QuotientNeeded
<1>7. q.outs \in Seq(DOMAIN q.node)
  <2>1. q.outs = [n \in DOMAIN g.outs |-> map[g.outs[n]]]
    BY <1>2 DEF Quotient, Through
  <2>2. \A n \in DOMAIN g.outs : map[g.outs[n]] \in DOMAIN q.node
    BY <1>1, <1>2, <1>4
  <2>3. DOMAIN g.outs = 1 .. Len(g.outs) /\ Len(g.outs) \in Nat
    OBVIOUS
  <2>4. q.outs \in [1 .. Len(g.outs) -> DOMAIN q.node]
    BY <2>1, <2>2, <2>3
  <2> QED
    BY <2>3, <2>4, SeqDef
<1>8. DOMAIN q.node \subseteq DOMAIN g0.node /\ GraphOf(q, ns) /\ AllNeeded(q)
  BY <1>2, <1>4, <1>6
<1>9. Unmixed(q) /\ (NoStages(g) => NoStages(q))
  <2>1. \A i \in DOMAIN q.node : i \in DOMAIN g.node /\ q.node[i].token = g.node[i].token
    BY <1>2, <1>4 DEF Quotient
  <2> QED
    BY <2>1 DEF Unmixed, NoStages
<1>10. /\ RebuiltAsFused(FromReduced(StageFusion(ns, g0, q, mode)), StageFusion(ns, g0, q, mode))
       /\ NoStages(q) => \A n \in DOMAIN FromReduced(StageFusion(ns, g0, q, mode)).nodes :
                          StageClosed(FromReduced(StageFusion(ns, g0, q, mode)).nodes[n])
  BY <1>3, <1>7, <1>8, <1>9, FusedIsRebuilt
<1> QED
  BY <1>9, <1>10 DEF Finish, q

-----------------------------------------------------------------------------
(* Merging drops no input.                                                 *)

(* Intervals from 1 tell their ends.                                       *)
LEMMA SameBound ==
  ASSUME NEW a \in Nat, NEW b \in Nat, 1 .. a = 1 .. b
  PROVE  a = b
<1>1. CASE a = 0
  <2>1. ~ (1 \in 1 .. a)
    BY <1>1
  <2>2. ~ (1 \in 1 .. b)
    BY <2>1
  <2> QED
    BY <1>1, <2>2
<1>2. CASE a > 0
  <2>1. a \in 1 .. b
    BY <1>2
  <2>2. b > 0 /\ b \in 1 .. b
    BY <2>1
  <2>3. b \in 1 .. a
    BY <2>2
  <2> QED
    BY <2>1, <2>3
<1> QED
  BY <1>1, <1>2

\* An identity op that is in the class of its input.
IsItsInput(g, class, i) ==
  /\ g.node[i].token \in IDENTITY_TOKENS
  /\ \E j \in DOMAIN g.node : g.node[i].inputs = <<j>> /\ class[j] = class[i]

\* Nodes that congruence or symmetry makes equal.
SameNode(g, class, i, j) == Congruent(g, class, i, j) \/ Commuted(g, class, i, j)

\* But for identity ops that are their inputs, the nodes of a class have one
\* operator and the same inputs up to classes.
ClassesAreNodes(g, class) ==
  \A x, y \in DOMAIN g.node :
    class[x] = class[y] =>
      IsItsInput(g, class, x) \/ IsItsInput(g, class, y) \/ SameNode(g, class, x, y)

\* Inputs in one class, position by position.
AlikeInputs(class, xs, ys) ==
  Len(xs) = Len(ys) /\ \A n \in 1 .. Len(xs) : class[xs[n]] = class[ys[n]]

(* Congruent nodes, without sequences of classes.                          *)
LEMMA CongruentInputs ==
  ASSUME NEW ns, NEW g, NEW class, StoreList(ns), GraphOf(g, ns),
         NEW i \in DOMAIN g.node, NEW j \in DOMAIN g.node
  PROVE  Congruent(g, class, i, j)
           <=> /\ g.node[i].token = g.node[j].token
               /\ AlikeInputs(class, g.node[i].inputs, g.node[j].inputs)
<1> DEFINE xs == g.node[i].inputs
           ys == g.node[j].inputs
<1>1. xs \in Seq(Nat) /\ ys \in Seq(Nat)
  BY GraphNode
<1>2. /\ DOMAIN xs = 1 .. Len(xs) /\ Len(xs) \in Nat
      /\ DOMAIN ys = 1 .. Len(ys) /\ Len(ys) \in Nat
  BY <1>1
<1> HIDE DEF xs, ys
<1>3. ASSUME Through(class, xs) = Through(class, ys)
      PROVE  AlikeInputs(class, xs, ys)
  <2>1. 1 .. Len(xs) = 1 .. Len(ys)
    BY <1>2, <1>3 DEF Through
  <2>2. Len(xs) = Len(ys)
    BY <1>2, <2>1, SameBound
  <2>3. \A n \in 1 .. Len(xs) : class[xs[n]] = class[ys[n]]
    <3> SUFFICES ASSUME NEW n \in 1 .. Len(xs) PROVE class[xs[n]] = class[ys[n]]
      OBVIOUS
    <3>1. Through(class, xs)[n] = class[xs[n]]
      BY <1>2 DEF Through
    <3>2. Through(class, ys)[n] = class[ys[n]]
      BY <1>2, <2>2 DEF Through
    <3> QED
      BY <1>3, <3>1, <3>2
  <2> QED
    BY <2>2, <2>3 DEF AlikeInputs
<1>4. ASSUME AlikeInputs(class, xs, ys)
      PROVE  Through(class, xs) = Through(class, ys)
  BY <1>2, <1>4 DEF AlikeInputs, Through
<1> QED
  BY <1>3, <1>4 DEF Congruent, xs, ys

(* The nodes that are one node but for the order of symmetric inputs: the *)
(* relation is symmetric and transitive.                                  *)
LEMMA SameNodeSym ==
  ASSUME NEW g, NEW class, NEW i, NEW j, SameNode(g, class, i, j)
  PROVE  SameNode(g, class, j, i)
<1>1. Congruent(g, class, i, j) => Congruent(g, class, j, i)
  BY DEF Congruent
<1>2. Commuted(g, class, i, j) => Commuted(g, class, j, i)
  BY DEF Commuted
<1> QED
  BY <1>1, <1>2 DEF SameNode

(* The relation is transitive.                                             *)
LEMMA SameNodeTrans ==
  ASSUME NEW ns, NEW g, NEW class, StoreList(ns), GraphOf(g, ns),
         NEW i \in DOMAIN g.node, NEW j \in DOMAIN g.node, NEW k \in DOMAIN g.node,
         SameNode(g, class, i, j), SameNode(g, class, j, k)
  PROVE  SameNode(g, class, i, k)
<1> DEFINE in(x) == g.node[x].inputs
           Swap(x, y) == /\ Len(in(x)) = 2 /\ Len(in(y)) = 2
                         /\ class[in(x)[1]] = class[in(y)[2]]
                         /\ class[in(x)[2]] = class[in(y)[1]]
           Alike(x, y) == AlikeInputs(class, in(x), in(y))
<1>1. ASSUME NEW x \in DOMAIN g.node, NEW y \in DOMAIN g.node, SameNode(g, class, x, y)
      PROVE  /\ g.node[x].token = g.node[y].token
             /\ Alike(x, y) \/ (SymmetricToken(g.node[x].token) /\ Swap(x, y))
  <2>1. CASE Congruent(g, class, x, y)
    <3>1. Alike(x, y)
      BY <2>1, CongruentInputs
    <3> QED
      BY <2>1, <3>1 DEF Congruent
  <2>2. CASE Commuted(g, class, x, y)
    BY <2>2 DEF Commuted
  <2> QED
    BY <1>1, <2>1, <2>2 DEF SameNode
<1>2. ASSUME g.node[i].token = g.node[k].token, Alike(i, k)
      PROVE  SameNode(g, class, i, k)
  BY <1>2, CongruentInputs DEF SameNode
<1>3. ASSUME g.node[i].token = g.node[k].token, SymmetricToken(g.node[i].token), Swap(i, k)
      PROVE  SameNode(g, class, i, k)
  BY <1>3 DEF SameNode, Commuted
<1>4. g.node[i].token = g.node[j].token /\ g.node[j].token = g.node[k].token
  BY <1>1
<1>5. Alike(i, j) \/ (SymmetricToken(g.node[i].token) /\ Swap(i, j))
  BY <1>1
<1>6. Alike(j, k) \/ (SymmetricToken(g.node[j].token) /\ Swap(j, k))
  BY <1>1
<1>7. Alike(i, j) /\ Alike(j, k) => Alike(i, k)
  BY DEF AlikeInputs
<1>8. Alike(i, j) /\ Swap(j, k) => Swap(i, k)
  BY DEF AlikeInputs
<1>9. Swap(i, j) /\ Alike(j, k) => Swap(i, k)
  BY DEF AlikeInputs
<1>10. Swap(i, j) /\ Swap(j, k) => Alike(i, k)
  <2> SUFFICES ASSUME Swap(i, j), Swap(j, k) PROVE Alike(i, k)
    OBVIOUS
  <2>1. 1 .. 2 = {1, 2}
    OBVIOUS
  <2> QED
    BY <2>1 DEF AlikeInputs
<1> HIDE DEF Alike, Swap
<1> QED
  BY <1>2, <1>3, <1>4, <1>5, <1>6, <1>7, <1>8, <1>9, <1>10

(* A coarser class keeps nodes one node. *)
LEMMA SameNodeCoarser ==
  ASSUME NEW ns, NEW g, NEW class, NEW c, StoreList(ns), GraphOf(g, ns),
         \A x, y \in DOMAIN g.node : class[x] = class[y] => c[x] = c[y],
         NEW i \in DOMAIN g.node, NEW j \in DOMAIN g.node, SameNode(g, class, i, j)
  PROVE  SameNode(g, c, i, j)
<1> DEFINE xs == g.node[i].inputs
           ys == g.node[j].inputs
<1>1. /\ xs \in Seq(Nat) /\ \A n \in DOMAIN xs : xs[n] \in DOMAIN g.node
      /\ ys \in Seq(Nat) /\ \A n \in DOMAIN ys : ys[n] \in DOMAIN g.node
  BY GraphNode
<1>2. DOMAIN xs = 1 .. Len(xs) /\ DOMAIN ys = 1 .. Len(ys)
  BY <1>1
<1> HIDE DEF xs, ys
<1>3. CASE Congruent(g, class, i, j)
  <2>1. g.node[i].token = g.node[j].token /\ AlikeInputs(class, xs, ys)
    BY <1>3, CongruentInputs DEF xs, ys
  <2>2. AlikeInputs(c, xs, ys)
    BY <1>1, <1>2, <2>1 DEF AlikeInputs
  <2>3. Congruent(g, c, i, j)
    BY <2>1, <2>2, CongruentInputs DEF xs, ys
  <2> QED
    BY <2>3 DEF SameNode
<1>4. CASE Commuted(g, class, i, j)
  <2>1. /\ g.node[i].token = g.node[j].token /\ SymmetricToken(g.node[i].token)
        /\ Len(xs) = 2 /\ Len(ys) = 2
        /\ class[xs[1]] = class[ys[2]] /\ class[xs[2]] = class[ys[1]]
    BY <1>4 DEF Commuted, xs, ys
  <2>2. /\ xs[1] \in DOMAIN g.node /\ xs[2] \in DOMAIN g.node
        /\ ys[1] \in DOMAIN g.node /\ ys[2] \in DOMAIN g.node
    BY <1>1, <1>2, <2>1
  <2>3. c[xs[1]] = c[ys[2]] /\ c[xs[2]] = c[ys[1]]
    BY <2>1, <2>2
  <2> QED
    BY <2>1, <2>3 DEF SameNode, Commuted, xs, ys
<1> QED
  BY <1>3, <1>4 DEF SameNode

(* One node with an identity op that is its input, and in its class, is its *)
(* input too.                                                               *)
LEMMA SameNodeItsInput ==
  ASSUME NEW ns, NEW g, NEW class, StoreList(ns), GraphOf(g, ns),
         NEW i \in DOMAIN g.node, NEW j \in DOMAIN g.node,
         IsItsInput(g, class, i), SameNode(g, class, i, j)
  PROVE  \E k, l \in DOMAIN g.node :
           /\ g.node[i].inputs = <<k>> /\ g.node[j].inputs = <<l>> /\ class[k] = class[l]
           /\ g.node[j].token \in IDENTITY_TOKENS /\ class[k] = class[i]
<1>1. PICK k \in DOMAIN g.node : g.node[i].inputs = <<k>> /\ class[k] = class[i]
  BY DEF IsItsInput
<1>2. g.node[i].token \in IDENTITY_TOKENS
  BY DEF IsItsInput
<1>3. ~ SymmetricToken(g.node[i].token)
  BY <1>2, IdentityTokens
<1>4. Congruent(g, class, i, j)
  BY <1>3 DEF SameNode, Commuted
<1>5. g.node[i].token = g.node[j].token /\ AlikeInputs(class, g.node[i].inputs, g.node[j].inputs)
  BY <1>4, CongruentInputs
<1> DEFINE ys == g.node[j].inputs
<1>6. ys \in Seq(Nat) /\ \A n \in DOMAIN ys : ys[n] \in DOMAIN g.node
  BY GraphNode
<1> HIDE DEF ys
<1>7. Len(ys) = 1 /\ DOMAIN ys = 1 .. 1
  BY <1>1, <1>5, <1>6 DEF AlikeInputs, ys
<1>8. ys[1] \in DOMAIN g.node /\ ys = <<ys[1]>>
  BY <1>6, <1>7
<1>9. class[k] = class[ys[1]]
  BY <1>1, <1>5 DEF AlikeInputs, ys
<1> QED
  BY <1>1, <1>2, <1>5, <1>8, <1>9 DEF ys

\* The classes c join those of i and of j, and leave the others.
Joins(g, class, c, i, j) ==
  /\ \A x, y \in DOMAIN g.node : class[x] = class[y] => c[x] = c[y]
  /\ c[i] = c[j]
  /\ \A x, y \in DOMAIN g.node :
       c[x] = c[y] => \/ class[x] = class[y]
                      \/ class[x] = class[i] /\ class[y] = class[j]
                      \/ class[x] = class[j] /\ class[y] = class[i]

(* Nodes of two classes that are joined by a rule are one node, or one is an *)
(* identity op that is its input.                                            *)
LEMMA JoinedNodes ==
  ASSUME NEW ns, NEW g, NEW class, NEW c, StoreList(ns), GraphOf(g, ns),
         ClassesAreNodes(g, class), NEW i \in DOMAIN g.node, NEW j \in DOMAIN g.node,
         class[i] # class[j], Joins(g, class, c, i, j), Equal(g, class, i, j),
         NEW x \in DOMAIN g.node, NEW y \in DOMAIN g.node,
         class[x] = class[i], class[y] = class[j],
         ~ IsItsInput(g, c, x), ~ IsItsInput(g, c, y)
  PROVE  SameNode(g, c, x, y)
<1> DEFINE D == DOMAIN g.node
           One(u, v) == SameNode(g, c, u, v)
           Was(u, v) == SameNode(g, class, u, v)
           Own(u) == IsItsInput(g, c, u)
           Owned(u) == IsItsInput(g, class, u)
<1>1. \A u, v \in D : class[u] = class[v] => c[u] = c[v]
  BY DEF Joins
<1>2. \A u, v \in D : Was(u, v) => One(u, v)
  BY <1>1, SameNodeCoarser
<1>3. \A u \in D : Owned(u) => Own(u)
  BY <1>1 DEF IsItsInput
<1>4. \A u, v \in D : One(u, v) => One(v, u)
  BY SameNodeSym
<1>5. \A u, v, w \in D : One(u, v) /\ One(v, w) => One(u, w)
  BY SameNodeTrans
<1>6. ASSUME NEW u \in D, NEW v \in D, Own(u), One(u, v), c[u] = c[v]
      PROVE  Own(v)
  <2>1. \E k, l \in D : /\ g.node[u].inputs = <<k>> /\ g.node[v].inputs = <<l>> /\ c[k] = c[l]
                        /\ g.node[v].token \in IDENTITY_TOKENS /\ c[k] = c[u]
    BY <1>6, SameNodeItsInput
  <2> QED
    BY <1>6, <2>1 DEF IsItsInput
<1>7. Owned(i) \/ Was(x, i)
  <2>1. Owned(x) \/ Owned(i) \/ Was(x, i)
    BY DEF ClassesAreNodes
  <2> QED
    BY <1>3, <2>1
<1>8. Owned(j) \/ Was(y, j)
  <2>1. Owned(y) \/ Owned(j) \/ Was(y, j)
    BY DEF ClassesAreNodes
  <2> QED
    BY <1>3, <2>1
<1>9. c[x] = c[i] /\ c[y] = c[j] /\ c[i] = c[j]
  BY DEF Joins
<1> HIDE DEF D, One, Was, Own, Owned
<1>10. ~ Own(x) /\ ~ Own(y) /\ x \in D /\ y \in D /\ i \in D /\ j \in D
  BY DEF Own, D
\* An identity op that joins its input is its input from now on.
<1>11. CASE IsIdentityOf(g, i, j)
  <2>1. Own(i) /\ ~ Owned(i)
    <3>1. g.node[i].token \in IDENTITY_TOKENS /\ g.node[i].inputs = <<j>>
      BY <1>11 DEF IsIdentityOf
    <3>2. Own(i)
      BY <1>9, <3>1 DEF IsItsInput, Own
    <3>3. ASSUME NEW k, g.node[i].inputs = <<k>> PROVE k = j
      BY <3>1, <3>3
    <3>4. ~ Owned(i)
      BY <3>3 DEF IsItsInput, Owned
    <3> QED
      BY <3>2, <3>4
  <2>2. One(x, i)
    BY <1>2, <1>7, <1>10, <2>1
  <2>3. One(i, x)
    BY <1>4, <1>10, <2>2
  <2>4. Own(x)
    BY <1>6, <1>9, <1>10, <2>1, <2>3
  <2> QED
    BY <1>10, <2>4
<1>12. CASE Was(i, j)
  <2>1. One(i, j) /\ One(j, i)
    BY <1>2, <1>4, <1>10, <1>12
  <2>2. ~ Owned(i)
    <3> SUFFICES ASSUME Owned(i) PROVE FALSE
      OBVIOUS
    <3>1. Own(j)
      BY <1>3, <1>6, <1>9, <1>10, <2>1
    <3>2. ~ Was(y, j)
      BY <1>2, <1>4, <1>6, <1>9, <1>10, <3>1
    <3>3. Owned(j)
      BY <1>8, <3>2
    <3>4. PICK k \in D, l \in D :
            /\ g.node[i].inputs = <<k>> /\ g.node[j].inputs = <<l>> /\ class[k] = class[l]
            /\ class[k] = class[i]
      BY <1>12, SameNodeItsInput DEF Owned, Was, D
    <3>5. PICK m \in D : g.node[j].inputs = <<m>> /\ class[m] = class[j]
      BY <3>3 DEF Owned, IsItsInput, D
    <3>6. m = l
      BY <3>4, <3>5
    <3> QED
      BY <3>4, <3>5, <3>6
  <2>3. ~ Owned(j)
    <3> SUFFICES ASSUME Owned(j) PROVE FALSE
      OBVIOUS
    <3>1. Own(i)
      BY <1>3, <1>6, <1>9, <1>10, <2>1
    <3>2. Was(x, i)
      BY <1>7, <2>2
    <3>3. Own(x)
      BY <1>2, <1>4, <1>6, <1>9, <1>10, <3>1, <3>2
    <3> QED
      BY <1>10, <3>3
  <2>4. One(x, i) /\ One(y, j)
    BY <1>2, <1>7, <1>8, <1>10, <2>2, <2>3
  <2>5. One(j, y)
    BY <1>4, <1>10, <2>4
  <2>6. One(x, j)
    BY <1>5, <1>10, <2>1, <2>4
  <2>7. One(x, y)
    BY <1>5, <1>10, <2>5, <2>6
  <2> QED
    BY <2>7 DEF One
<1> QED
  BY <1>11, <1>12 DEF Equal, SameNode, Was

(* A merge by a rule or by congruence leaves classes of nodes. *)
LEMMA MergedClassesAreNodes ==
  ASSUME NEW ns, NEW g, NEW class, StoreList(ns), GraphOf(g, ns),
         class \in [DOMAIN g.node -> DOMAIN g.node], ClassesAreNodes(g, class),
         NEW i \in DOMAIN g.node, NEW j \in DOMAIN g.node,
         class[i] # class[j], Equal(g, class, i, j)
  PROVE  ClassesAreNodes(g, Merge(class, i, j))
<1> DEFINE D == DOMAIN g.node
           c == Merge(class, i, j)
           low == IF class[i] < class[j] THEN class[i] ELSE class[j]
<1>1. \A k \in D : c[k] = IF class[k] \in {class[i], class[j]} THEN low ELSE class[k]
  BY DEF Merge
<1>2. low \in {class[i], class[j]}
  OBVIOUS
<1> HIDE DEF c, low
<1>3. Joins(g, class, c, i, j)
  <2>1. \A x, y \in D : class[x] = class[y] => c[x] = c[y]
    BY <1>1
  <2>2. c[i] = c[j]
    BY <1>1
  <2>3. ASSUME NEW x \in D, NEW y \in D, c[x] = c[y]
        PROVE  \/ class[x] = class[y]
               \/ class[x] = class[i] /\ class[y] = class[j]
               \/ class[x] = class[j] /\ class[y] = class[i]
    <3>1. CASE class[x] \in {class[i], class[j]}
      <4>1. class[y] \in {class[i], class[j]}
        BY <1>1, <1>2, <2>3, <3>1
      <4> QED
        BY <3>1, <4>1
    <3>2. CASE class[x] \notin {class[i], class[j]}
      <4>1. class[y] \notin {class[i], class[j]}
        BY <1>1, <1>2, <2>3, <3>2
      <4> QED
        BY <1>1, <2>3, <3>2, <4>1
    <3> QED
      BY <3>1, <3>2
  <2> QED
    BY <2>1, <2>2, <2>3 DEF Joins
<1> SUFFICES ASSUME NEW x \in D, NEW y \in D, c[x] = c[y],
                    ~ IsItsInput(g, c, x), ~ IsItsInput(g, c, y)
             PROVE  SameNode(g, c, x, y)
  BY DEF ClassesAreNodes, c
<1>4. \A u, v \in D : class[u] = class[v] => c[u] = c[v]
  BY <1>3 DEF Joins
<1>5. CASE class[x] = class[y]
  <2>1. \A u \in D : IsItsInput(g, class, u) => IsItsInput(g, c, u)
    BY <1>4 DEF IsItsInput
  <2>2. SameNode(g, class, x, y)
    BY <1>5, <2>1 DEF ClassesAreNodes
  <2> QED
    BY <1>4, <2>2, SameNodeCoarser
<1>6. CASE class[x] = class[i] /\ class[y] = class[j]
  BY <1>3, <1>6, JoinedNodes
<1>7. CASE class[x] = class[j] /\ class[y] = class[i]
  <2>1. SameNode(g, c, y, x)
    BY <1>3, <1>7, JoinedNodes
  <2> QED
    BY <2>1, SameNodeSym
<1> QED
  BY <1>3, <1>5, <1>6, <1>7 DEF Joins

(* Nothing that the first node of a class reads is lost when it stands for *)
(* the others.                                                             *)
LEMMA ClassesKeepReads ==
  ASSUME NEW ns, NEW g, NEW class, StoreList(ns), GraphOf(g, ns), ClassesAreNodes(g, class),
         class \in [DOMAIN g.node -> DOMAIN g.node],
         \A i \in DOMAIN g.node : class[i] <= i /\ class[class[i]] = class[i]
  PROVE  ReadsKept(g, class)
<1> SUFFICES ASSUME NEW i \in DOMAIN g.node, NEW j \in ToSet(g.node[i].inputs),
                    class[j] # class[i]
             PROVE  class[j] \in ToSet(Through(class, g.node[class[i]].inputs))
  BY DEF ReadsKept
<1> DEFINE r == class[i]
           xs == g.node[i].inputs
           ys == g.node[r].inputs
<1>1. r \in DOMAIN g.node /\ class[r] = class[i]
  OBVIOUS
<1> HIDE DEF r
<1>2. ~ IsItsInput(g, class, i)
  <2> SUFFICES ASSUME NEW k \in DOMAIN g.node, xs = <<k>>, class[k] = class[i] PROVE FALSE
    BY DEF IsItsInput
  <2>1. j = k
    BY DEF ToSet
  <2> QED
    BY <2>1
<1>3. ~ IsItsInput(g, class, r)
  <2> SUFFICES ASSUME NEW k \in DOMAIN g.node, ys = <<k>>, class[k] = class[r] PROVE FALSE
    BY DEF IsItsInput
  <2>1. 1 \in DOMAIN ys /\ ys[1] = k
    OBVIOUS
  <2>2. k < r /\ k \in Nat /\ r \in Nat
    BY <1>1, <2>1, GraphNode
  <2>3. class[k] <= k /\ class[k] = r
    BY <1>1 DEF r
  <2> QED
    BY <2>2, <2>3
<1>4. SameNode(g, class, i, r)
  BY <1>1, <1>2, <1>3 DEF ClassesAreNodes
<1>5. xs \in Seq(Nat) /\ ys \in Seq(Nat)
  BY <1>1, GraphNode
<1>6. DOMAIN xs = 1 .. Len(xs) /\ DOMAIN ys = 1 .. Len(ys)
  BY <1>5
<1>7. PICK n \in DOMAIN xs : xs[n] = j
  BY DEF ToSet
<1> HIDE DEF xs, ys
<1>8. \E m \in DOMAIN ys : class[ys[m]] = class[j]
  <2>1. CASE Congruent(g, class, i, r)
    <3>1. AlikeInputs(class, xs, ys)
      BY <1>1, <2>1, CongruentInputs DEF xs, ys
    <3> QED
      BY <1>6, <1>7, <3>1 DEF AlikeInputs
  <2>2. CASE Commuted(g, class, i, r)
    <3>1. /\ Len(xs) = 2 /\ Len(ys) = 2
          /\ class[xs[1]] = class[ys[2]] /\ class[xs[2]] = class[ys[1]]
      BY <2>2 DEF Commuted, xs, ys
    <3>2. n = 1 \/ n = 2
      BY <1>6, <3>1
    <3>3. 1 \in DOMAIN ys /\ 2 \in DOMAIN ys
      BY <1>6, <3>1
    <3> QED
      BY <1>7, <3>1, <3>2, <3>3
  <2> QED
    BY <1>4, <2>1, <2>2 DEF SameNode
<1>9. PICK m \in DOMAIN ys : class[ys[m]] = class[j]
  BY <1>8
<1>10. class[j] \in ToSet(Through(class, ys))
  BY <1>9 DEF Through, ToSet
<1> QED
  BY <1>10 DEF ys, r

-----------------------------------------------------------------------------
(* Reducing what is reduced already.                                       *)

\* A graph with the nodes and the outputs of another.
SameGraph(q, g) ==
  /\ DOMAIN q.node = DOMAIN g.node
  /\ \A i \in DOMAIN g.node :
       q.node[i].token = g.node[i].token /\ q.node[i].inputs = g.node[i].inputs
  /\ q.outs = g.outs

(* Reading a list through the identity leaves it. *)
LEMMA ThroughIdentity ==
  ASSUME NEW T, NEW xs \in Seq(T), NEW f, \A x \in ToSet(xs) : f[x] = x
  PROVE  Through(f, xs) = xs
<1>1. xs = [n \in DOMAIN xs |-> xs[n]]
  <2>1. xs \in [1 .. Len(xs) -> T]
    OBVIOUS
  <2> QED
    BY <2>1
<1>2. \A n \in DOMAIN xs : f[xs[n]] = xs[n]
  BY DEF ToSet
<1> QED
  BY <1>1, <1>2 DEF Through

\* The outputs are nodes.
OutputsKnown(g) == g.outs \in Seq(DOMAIN g.node)

\* A map of the nodes that moves none.
Fixes(map, g) == \A i \in DOMAIN g.node : map[i] = i

(* Where no class has two nodes extraction changes nothing. *)
LEMMA QuotientByIdentity ==
  ASSUME NEW ns, NEW g, StoreList(ns), GraphOf(g, ns), OutputsKnown(g),
         NEW class, class \in [DOMAIN g.node -> DOMAIN g.node], Fixes(class, g)
  PROVE  SameGraph(Quotient(g, class), g) /\ GraphOf(Quotient(g, class), ns)
<1> DEFINE q == Quotient(g, class)
<1>1. \A i \in DOMAIN g.node : class[i] <= i /\ class[class[i]] = class[i]
  <2>1. DOMAIN g.node \subseteq Nat
    BY GraphIsFinite
  <2> QED
    BY <2>1 DEF Fixes
<1>2. /\ DOMAIN q.node = {k \in DOMAIN g.node : class[k] = k}
      /\ GraphOf(q, ns)
      /\ \A i \in DOMAIN q.node : q.node[i].inputs = Through(class, g.node[i].inputs)
  BY <1>1, QuotientIsGraph
<1>3. q.outs = Through(class, g.outs)
  BY DEF Quotient
<1> HIDE DEF q
<1>4. q.outs = g.outs
  <2>1. \A x \in ToSet(g.outs) : class[x] = x
    BY DEF ToSet, Fixes, OutputsKnown
  <2> QED
    BY <1>3, <2>1, ThroughIdentity DEF OutputsKnown
<1>5. ASSUME NEW i \in DOMAIN g.node
      PROVE  q.node[i].token = g.node[i].token /\ q.node[i].inputs = g.node[i].inputs
  <2>1. i \in DOMAIN q.node
    BY <1>2 DEF Fixes
  <2>2. /\ g.node[i].inputs \in Seq(Nat)
        /\ \A n \in DOMAIN g.node[i].inputs : g.node[i].inputs[n] \in DOMAIN g.node
    BY GraphNode
  <2>3. \A x \in ToSet(g.node[i].inputs) : class[x] = x
    BY <2>2 DEF ToSet, Fixes
  <2>4. Through(class, g.node[i].inputs) = g.node[i].inputs
    BY <2>2, <2>3, ThroughIdentity
  <2> QED
    BY <1>2, <2>1, <2>4 DEF GraphOf
<1> QED
  BY <1>2, <1>4, <1>5 DEF SameGraph, Fixes, q

(* CSE finds nothing in a graph without twins. *)
LEMMA CseOfTwinless ==
  ASSUME NEW ns, NEW g, StoreList(ns), GraphOf(g, ns), NoTwins(g)
  PROVE  \A i \in DOMAIN g.node : CseMap(g)[i] = i
<1> DEFINE D == DOMAIN g.node
           map == CseMap(g)
           Moved == {i \in D : map[i] # i}
<1>1. /\ map \in [D -> D]
      /\ \A i \in D : map[i] = IF Twins(g, map, i) = {} THEN i ELSE Min(Twins(g, map, i))
  BY CseMapEquation
<1> SUFFICES ASSUME Moved # {} PROVE FALSE
  OBVIOUS
<1>2. D \subseteq Nat
  BY GraphIsFinite
<1>3. PICK i \in Moved : \A j \in Moved : i <= j
  <2>1. Moved \subseteq Nat
    BY <1>2
  <2> HIDE DEF Moved
  <2> QED
    BY <2>1, LeastMember
<1>4. Twins(g, map, i) # {}
  BY <1>1, <1>3
<1>5. map[i] \in Twins(g, map, i)
  BY <1>4, FirstTwin
<1> DEFINE j == map[i]
<1> HIDE DEF map
<1>6. /\ j \in D /\ j < i /\ g.node[j].token = g.node[i].token
      /\ Through(map, g.node[j].inputs) = Through(map, g.node[i].inputs)
  BY <1>5, Zenon DEF Twins
<1> HIDE DEF j
<1>7. ASSUME NEW k \in D, k <= i
      PROVE  Through(map, g.node[k].inputs) = g.node[k].inputs
  <2>1. /\ g.node[k].inputs \in Seq(Nat)
        /\ \A n \in DOMAIN g.node[k].inputs :
             g.node[k].inputs[n] \in D /\ g.node[k].inputs[n] < k
    BY GraphNode
  <2>2. \A x \in ToSet(g.node[k].inputs) : x \in D /\ x < k
    BY <2>1 DEF ToSet
  <2>3. \A x \in ToSet(g.node[k].inputs) : map[x] = x
    BY <1>2, <1>3, <1>7, <2>2
  <2> QED
    BY <2>1, <2>3, ThroughIdentity
<1>8. i \in D /\ j <= i /\ i <= i
  BY <1>2, <1>3, <1>6
<1>9. g.node[j].inputs = g.node[i].inputs
  BY <1>6, <1>7, <1>8
<1>10. j = i
  BY <1>6, <1>8, <1>9 DEF NoTwins
<1> QED
  BY <1>2, <1>6, <1>8, <1>10

(* CSE leaves a graph without twins as it is. *)
LEMMA CseKeepsTwinless ==
  ASSUME NEW ns, NEW g, StoreList(ns), GraphOf(g, ns), NoTwins(g),
         g.outs \in Seq(DOMAIN g.node)
  PROVE  SameGraph(Cse(g), g) /\ GraphOf(Cse(g), ns)
<1>1. CseMap(g) \in [DOMAIN g.node -> DOMAIN g.node]
  BY CseMapEquation
<1>2. Fixes(CseMap(g), g)
  BY CseOfTwinless DEF Fixes
<1> QED
  BY <1>1, <1>2, QuotientByIdentity DEF Cse, OutputsKnown

(* Where all ids are heads, they are their places. *)
LEMMA PlacesOfAll ==
  ASSUME NEW N \in Nat, NEW head, Heads(head) = 0 .. (N - 1)
  PROVE  /\ \A h \in 0 .. (N - 1) : Place(head, h) = h
         /\ DOMAIN Ascending(Heads(head)) = 1 .. N
         /\ \A n \in 1 .. N : Ascending(Heads(head))[n] = n - 1
<1> DEFINE H == 0 .. (N - 1)
<1>1. ASSUME NEW h \in H
      PROVE  Cardinality({k \in H : k < h}) = h
  <2>1. {k \in H : k < h} = 0 .. (h - 1)
    OBVIOUS
  <2>2. Cardinality(0 .. (h - 1)) = h
    <3> DEFINE top == h - 1
    <3>1. top \in Int /\ 0 \in Int /\ (0 > top <=> h = 0) /\ top - 0 + 1 = h
      OBVIOUS
    <3> HIDE DEF top
    <3>2. Cardinality(0 .. top) = IF 0 > top THEN 0 ELSE top - 0 + 1
      BY <3>1, FS_Interval
    <3> QED
      BY <3>1, <3>2 DEF top
  <2> QED
    BY <2>1, <2>2
<1>2. IsFiniteSet(H) /\ Cardinality(H) = N
  <2> DEFINE top == N - 1
  <2>1. top \in Int /\ 0 \in Int /\ (0 > top <=> N = 0) /\ top - 0 + 1 = N
    OBVIOUS
  <2> HIDE DEF top
  <2>2. IsFiniteSet(0 .. top) /\ Cardinality(0 .. top) = IF 0 > top THEN 0 ELSE top - 0 + 1
    BY <2>1, FS_Interval
  <2> QED
    BY <2>1, <2>2 DEF top
<1>3. H \in SUBSET Nat
  OBVIOUS
<1> HIDE DEF H
<1>4. /\ DOMAIN Ascending(H) = 1 .. N
      /\ \A n \in 1 .. N : Ascending(H)[n] \in H /\ Rank(H, Ascending(H)[n]) = n - 1
  BY <1>2, <1>3, AscendingLists
<1>5. \A h \in H : Rank(H, h) = h
  BY <1>1 DEF Rank
<1>6. Heads(head) = H
  BY DEF H
<1> QED
  BY <1>1, <1>4, <1>5, <1>6 DEF Place, H

\* A graph of all the nodes of a store, with their inputs, none of them an op.
WholeStore(g, ns) ==
  /\ GraphOf(g, ns) /\ DOMAIN g.node = IdsOf(ns)
  /\ \A i \in IdsOf(ns) : g.node[i].inputs = ns[i + 1].inputs /\ Boundary(g, i)
  /\ g.outs \in Seq(IdsOf(ns))

(* A store holds a node once, and so does the graph of all its nodes. *)
LEMMA WholeStoreTwinless ==
  ASSUME NEW ns, NEW g, StoreList(ns), KeysOnce(ns), WholeStore(g, ns), TokensName(g, ns)
  PROVE  NoTwins(g)
<1> SUFFICES ASSUME NEW i \in DOMAIN g.node, NEW j \in DOMAIN g.node,
                    g.node[i].token = g.node[j].token, g.node[i].inputs = g.node[j].inputs
             PROVE  i = j
  BY DEF NoTwins
<1>1. i \in IdsOf(ns) /\ j \in IdsOf(ns)
  BY DEF WholeStore
<1>2. StoreKey(ns[i + 1]) /\ StoreKey(ns[j + 1]) /\ i \in Nat /\ j \in Nat
  BY <1>1, StoreNode
<1>3. Operator(ns[i + 1]) = Operator(ns[j + 1])
  BY DEF TokensName
<1>4. ns[i + 1].inputs = ns[j + 1].inputs
  BY <1>1 DEF WholeStore
<1>5. ns[i + 1] = ns[j + 1]
  <2>1. /\ ns[i + 1] = [Operator(ns[i + 1]) EXCEPT !.inputs = ns[i + 1].inputs]
        /\ ns[j + 1] = [Operator(ns[j + 1]) EXCEPT !.inputs = ns[j + 1].inputs]
    BY <1>2, StoreKeyShape
  <2> QED
    BY <1>3, <1>4, <2>1
<1>6. i + 1 \in DOMAIN ns /\ j + 1 \in DOMAIN ns
  <2>1. DOMAIN ns = 1 .. Len(ns) /\ Len(ns) \in Nat
    BY DEF StoreList, InputsBefore
  <2> QED
    BY <1>1, <2>1 DEF IdsOf
<1>7. i + 1 = j + 1
  BY <1>5, <1>6 DEF KeysOnce
<1> QED
  BY <1>2, <1>7

(* Fusion leaves a store without ops as it is. *)
LEMMA WholeStoreFused ==
  ASSUME NEW ns, NEW g0, NEW g, NEW mode \in FusionModes,
         StoreList(ns), GraphOf(g0, ns), TokensName(g0, ns), WholeStore(g, ns),
         DOMAIN g.node \subseteq DOMAIN g0.node
  PROVE  /\ StageFusion(ns, g0, g, mode).nodes = ns
         /\ StageFusion(ns, g0, g, mode).outs = g.outs
<1> DEFINE head == HeadOf(g, mode)
           red == StageFusion(ns, g0, g, mode)
           N == Len(ns)
<1>1. GraphOf(g, ns) /\ DOMAIN g.node = IdsOf(ns) /\ N \in Nat
  BY DEF WholeStore, StoreList, InputsBefore
<1>2. Components(g, head)
  <2>1. mode = "SingleUse" \/ mode = "Maximal"
    BY DEF FusionModes
  <2> QED
    BY <1>1, <2>1, SingleUseComponents, MaximalComponents DEF HeadOf
<1>3. /\ red.nodes = [n \in DOMAIN Ascending(Heads(head)) |->
                         IF Boundary(g, Ascending(Heads(head))[n])
                         THEN RebuildBoundary(ns, g0, g, head, Ascending(Heads(head))[n])
                         ELSE FuseStage(g, head, Ascending(Heads(head))[n])]
      /\ red.outs = [n \in DOMAIN g.outs |-> Place(head, head[g.outs[n]])]
  BY DEF StageFusion
<1> HIDE DEF head, red
<1>4. \A i \in IdsOf(ns) : Boundary(g, i) /\ head[i] = i
  BY <1>1, <1>2 DEF Components, WholeStore
<1>5. Heads(head) = 0 .. (N - 1)
  BY <1>1, <1>2, <1>4 DEF Heads, Components, IdsOf
<1>6. /\ \A h \in 0 .. (N - 1) : Place(head, h) = h
      /\ DOMAIN Ascending(Heads(head)) = 1 .. N
      /\ \A n \in 1 .. N : Ascending(Heads(head))[n] = n - 1
  BY <1>1, <1>5, PlacesOfAll
<1>7. ASSUME NEW h \in IdsOf(ns)
      PROVE  RebuildBoundary(ns, g0, g, head, h) = ns[h + 1]
  <2> DEFINE key == RebuildBoundary(ns, g0, g, head, h)
  <2>1. h \in Heads(head) /\ Boundary(g, h) /\ h \in DOMAIN g0.node
    BY <1>1, <1>4, <1>5, <1>7 DEF IdsOf
  <2>2. /\ StoreKey(key) /\ DOMAIN key.inputs = DOMAIN g.node[h].inputs
        /\ \A n \in DOMAIN g.node[h].inputs :
             key.inputs[n] = Place(head, g.node[h].inputs[n])
        /\ \E m \in DOMAIN g0.node : /\ g0.node[m].token = g.node[h].token
                                     /\ Operator(key) = Operator(ns[m + 1])
    <3> DEFINE k == key
    <3>1. k = RebuildBoundary(ns, g0, g, head, h)
      OBVIOUS
    <3> HIDE DEF k
    <3>2. /\ StoreKey(k) /\ DOMAIN k.inputs = DOMAIN g.node[h].inputs
          /\ \A n \in DOMAIN g.node[h].inputs :
               k.inputs[n] = Place(head, g.node[h].inputs[n])
          /\ \E m \in DOMAIN g0.node : /\ g0.node[m].token = g.node[h].token
                                       /\ Operator(k) = Operator(ns[m + 1])
      BY <1>1, <1>2, <2>1, <3>1, BoundaryKey
    <3> QED
      BY <3>2 DEF k
  <2> HIDE DEF key
  <2>3. Operator(key) = Operator(ns[h + 1])
    <3>1. g0.node[h].token = g.node[h].token
      BY <1>1, <1>7, <2>1 DEF GraphOf
    <3> QED
      BY <2>1, <2>2, <3>1 DEF TokensName
  <2>4. /\ g.node[h].inputs \in Seq(Nat)
        /\ \A n \in DOMAIN g.node[h].inputs : g.node[h].inputs[n] \in 0 .. (N - 1)
    BY <1>1, <1>7, GraphNode DEF IdsOf
  <2>5. key.inputs = g.node[h].inputs
    <3>1. key.inputs \in Seq(Nat)
      BY <2>2, StoreKeyShape
    <3>2. \A n \in DOMAIN key.inputs : key.inputs[n] = g.node[h].inputs[n]
      BY <1>6, <2>2, <2>4
    <3> QED
      BY <2>2, <2>4, <3>1, <3>2, SameEntries
  <2>6. key.inputs = ns[h + 1].inputs
    BY <1>7, <2>5 DEF WholeStore
  <2>7. StoreKey(ns[h + 1])
    BY <1>7, StoreNode
  <2>8. /\ key = [Operator(key) EXCEPT !.inputs = key.inputs]
        /\ ns[h + 1] = [Operator(ns[h + 1]) EXCEPT !.inputs = ns[h + 1].inputs]
    BY <2>2, <2>7, StoreKeyShape
  <2>9. key = ns[h + 1]
    BY <2>3, <2>6, <2>8
  <2> QED
    BY <2>9 DEF key
<1>8. red.nodes = ns
  <2>1. ASSUME NEW n \in 1 .. N
        PROVE  red.nodes[n] = ns[n]
    <3> DEFINE h == n - 1
    <3>1. h \in IdsOf(ns) /\ h + 1 = n
      BY <1>1 DEF IdsOf
    <3>2. red.nodes[n] = RebuildBoundary(ns, g0, g, head, h)
      BY <1>3, <1>4, <1>6, <3>1
    <3> HIDE DEF h
    <3> QED
      BY <1>7, <3>1, <3>2
  <2>2. red.nodes = [n \in 1 .. N |-> red.nodes[n]]
    BY <1>3, <1>6
  <2>3. ns = [n \in 1 .. N |-> ns[n]]
    BY DEF StoreList
  <2> QED
    BY <2>1, <2>2, <2>3
<1>9. red.outs = g.outs
  <2>1. \A n \in DOMAIN g.outs : g.outs[n] \in IdsOf(ns)
    BY DEF WholeStore
  <2>2. \A n \in DOMAIN g.outs : Place(head, head[g.outs[n]]) = g.outs[n]
    BY <1>4, <1>6, <2>1 DEF IdsOf
  <2>3. g.outs = [n \in DOMAIN g.outs |-> g.outs[n]]
    <3>1. g.outs \in [1 .. Len(g.outs) -> IdsOf(ns)]
      BY DEF WholeStore
    <3> QED
      BY <3>1
  <2> QED
    BY <1>3, <2>2, <2>3
<1> QED
  BY <1>8, <1>9 DEF red

(* The passes after the engine leave a store without ops as it is, id for id. *)
LEMMA WholeStoreFixed ==
  ASSUME NEW ns, NEW g0, NEW g, NEW mode \in FusionModes,
         StoreList(ns), KeysOnce(ns), GraphOf(g0, ns), TokensName(g0, ns), WholeStore(g, ns),
         DOMAIN g.node \subseteq DOMAIN g0.node
  PROVE  Finish(ns, g0, g, mode).nodes = ns /\ Finish(ns, g0, g, mode).places = g.outs
<1> DEFINE q == Cse(g)
           red == StageFusion(ns, g0, q, mode)
<1>1. GraphOf(g, ns) /\ DOMAIN g.node = IdsOf(ns) /\ g.outs \in Seq(IdsOf(ns))
  BY DEF WholeStore
<1>2. TokensName(g, ns)
  BY <1>1, TokensNamePart
<1>3. SameGraph(q, g) /\ GraphOf(q, ns)
  BY <1>1, <1>2, WholeStoreTwinless, CseKeepsTwinless
<1> HIDE DEF q
<1>4. WholeStore(q, ns) /\ DOMAIN q.node \subseteq DOMAIN g0.node
  BY <1>3 DEF WholeStore, SameGraph, Boundary
<1>5. red.nodes = ns /\ red.outs = g.outs
  BY <1>3, <1>4, WholeStoreFused DEF SameGraph
<1>6. Finish(ns, g0, g, mode) = FromReduced(red)
  BY DEF Finish, q
<1> HIDE DEF red
<1>7. InternAll(ns) = Unmerged(ns, Len(ns))
  BY InternDistinct DEF KeysOnce
<1>8. /\ FromReduced(red).nodes = Unmerged(ns, Len(ns)).nodes
      /\ FromReduced(red).places = [n \in DOMAIN g.outs |->
                                      Unmerged(ns, Len(ns)).map[g.outs[n] + 1]]
  BY <1>5, <1>7, Zenon DEF FromReduced
<1>9. Unmerged(ns, Len(ns)).nodes = ns
  BY DEF Unmerged, StoreList
<1>10. ASSUME NEW n \in DOMAIN g.outs
       PROVE  Unmerged(ns, Len(ns)).map[g.outs[n] + 1] = g.outs[n]
  <2>1. g.outs[n] \in 0 .. (Len(ns) - 1) /\ Len(ns) \in Nat
    BY <1>1 DEF IdsOf, StoreList, InputsBefore
  <2> QED
    BY <2>1 DEF Unmerged
<1>11. g.outs = [n \in DOMAIN g.outs |-> g.outs[n]]
  <2>1. g.outs \in [1 .. Len(g.outs) -> IdsOf(ns)]
    BY <1>1
  <2> QED
    BY <2>1
<1> QED
  BY <1>6, <1>8, <1>9, <1>10, <1>11

-----------------------------------------------------------------------------
(* Counting nodes: what fusion emits stands for as many as it was given.  *)

\* Each member of S as often as its size.
Units(f, S) == {u \in S \X Nat : u[2] \in 1 .. f[u[1]]}

(* Taking a member away takes its size away. *)
LEMMA UnitsWithout ==
  ASSUME NEW D, NEW f \in [D -> Nat], NEW S \in SUBSET D, NEW x \in S,
         IsFiniteSet(Units(f, S \ {x}))
  PROVE  /\ IsFiniteSet(Units(f, S))
         /\ Cardinality(Units(f, S)) = f[x] + Cardinality(Units(f, S \ {x}))
<1> DEFINE own == 1 .. f[x]
           P == {x} \X own
           R == Units(f, S \ {x})
<1>1. f[x] \in Nat /\ own \subseteq Nat
  OBVIOUS
<1>2. Units(f, S) = P \cup R
  <2>1. ASSUME NEW u \in Units(f, S) PROVE u \in P \cup R
    <3>1. u \in S \X Nat /\ u[2] \in 1 .. f[u[1]]
      BY DEF Units
    <3>2. CASE u[1] = x
      BY <3>1, <3>2
    <3>3. CASE u[1] # x
      BY <3>1, <3>3 DEF Units
    <3> QED
      BY <3>2, <3>3
  <2>2. ASSUME NEW u \in P PROVE u \in Units(f, S)
    BY <1>1 DEF Units
  <2>3. R \subseteq Units(f, S)
    BY DEF Units
  <2> HIDE DEF P, R
  <2> QED
    BY <2>1, <2>2, <2>3
<1>3. P \cap R = {}
  BY DEF Units
<1>4. IsFiniteSet(P) /\ Cardinality(P) = f[x]
  <2>1. IsFiniteSet(own) /\ Cardinality(own) = f[x]
    <3> DEFINE n == f[x]
    <3>1. n \in Int /\ 1 \in Int /\ n \in Nat
      BY <1>1
    <3> HIDE DEF n
    <3>2. IsFiniteSet(1 .. n) /\ Cardinality(1 .. n) = IF 1 > n THEN 0 ELSE n - 1 + 1
      BY <3>1, FS_Interval
    <3> QED
      BY <3>1, <3>2 DEF n
  <2>2. IsFiniteSet({x}) /\ Cardinality({x}) = 1
    BY FS_Singleton
  <2> HIDE DEF own
  <2>3. IsFiniteSet(P) /\ Cardinality(P) = Cardinality({x}) * Cardinality(own)
    BY <2>1, <2>2, FS_Product
  <2> QED
    BY <1>1, <2>1, <2>2, <2>3
<1>5. Cardinality(R) \in Nat
  BY FS_CardinalityType
<1>6. IsFiniteSet(R)
  OBVIOUS
<1>7. /\ IsFiniteSet(P \cup R)
      /\ Cardinality(P \cup R) = Cardinality(P) + Cardinality(R) - Cardinality({})
  <2> HIDE DEF P, R
  <2> QED
    BY <1>3, <1>4, <1>6, FS_Union
<1> QED
  BY <1>1, <1>2, <1>4, <1>5, <1>7, FS_EmptySet

(* Finitely many members have finitely many units. *)
LEMMA UnitsFinite ==
  ASSUME NEW D, IsFiniteSet(D), NEW f \in [D -> Nat]
  PROVE  \A S \in SUBSET D : IsFiniteSet(Units(f, S))
<1> DEFINE Bad == {n \in Nat : \E S \in SUBSET D : Cardinality(S) = n /\ ~ IsFiniteSet(Units(f, S))}
<1>1. \A S \in SUBSET D : IsFiniteSet(S) /\ Cardinality(S) \in Nat
  BY FS_Subset, FS_CardinalityType
<1> SUFFICES ASSUME Bad # {} PROVE FALSE
  BY <1>1
<1>2. PICK n \in Bad : \A m \in Bad : n <= m
  <2>1. Bad \subseteq Nat
    OBVIOUS
  <2> HIDE DEF Bad
  <2> QED
    BY <2>1, LeastMember
<1>3. PICK S \in SUBSET D : Cardinality(S) = n /\ ~ IsFiniteSet(Units(f, S))
  BY <1>2
<1>4. S # {}
  <2>1. Units(f, {}) = {}
    BY DEF Units
  <2> QED
    BY <1>3, <2>1, FS_EmptySet
<1>5. PICK x \in S : TRUE
  BY <1>4
<1>6. Cardinality(S \ {x}) = n - 1 /\ S \ {x} \in SUBSET D
  BY <1>1, <1>3, FS_RemoveElement
<1>7. n - 1 \in Nat /\ ~ (n <= n - 1)
  BY <1>1, <1>2, <1>6
<1>8. IsFiniteSet(Units(f, S \ {x}))
  BY <1>2, <1>6, <1>7
<1>9. IsFiniteSet(Units(f, S))
  BY <1>8, UnitsWithout
<1> QED
  BY <1>3, <1>9

\* A recursion that adds up sizes, taking one member of the set at a time.
SumsUp(g, f, D, pick) ==
  /\ g = [S \in SUBSET D |-> g[S]]
  /\ \A S \in SUBSET D :
       IF S = {} THEN g[S] = 0
       ELSE \/ g[S] = f[pick[S]] + g[S \ {pick[S]}]
            \/ g[S] = g[S \ {pick[S]}] + f[pick[S]]

UnitCounts(f, D) == [S \in SUBSET D |-> Cardinality(Units(f, S))]

AddsUp(total, f, S) ==
  /\ S = {} => total[S] = 0
  /\ \A x \in S : /\ total[S] = f[x] + total[S \ {x}]
                  /\ total[S] = total[S \ {x}] + f[x]

(* A set has the units of a member and those of the others. *)
LEMMA UnitCountsStep ==
  ASSUME NEW D, IsFiniteSet(D), NEW f \in [D -> Nat], NEW S \in SUBSET D
  PROVE  AddsUp(UnitCounts(f, D), f, S)
<1> DEFINE total == UnitCounts(f, D)
<1>1. \A T \in SUBSET D : total[T] = Cardinality(Units(f, T))
  BY DEF UnitCounts
<1> HIDE DEF total
<1>2. S = {} => total[S] = 0
  <2>1. Units(f, {}) = {}
    BY DEF Units
  <2> QED
    BY <1>1, <2>1, FS_EmptySet
<1>3. ASSUME NEW x \in S
      PROVE  /\ total[S] = f[x] + total[S \ {x}]
             /\ total[S] = total[S \ {x}] + f[x]
  <2>1. S \ {x} \in SUBSET D /\ f[x] \in Nat
    OBVIOUS
  <2>2. IsFiniteSet(Units(f, S \ {x}))
    BY <2>1, UnitsFinite
  <2>3. Cardinality(Units(f, S \ {x})) \in Nat
    BY <2>2, FS_CardinalityType
  <2>4. Cardinality(Units(f, S)) = f[x] + Cardinality(Units(f, S \ {x}))
    BY <2>2, UnitsWithout
  <2> QED
    BY <1>1, <2>1, <2>3, <2>4
<1> QED
  BY <1>2, <1>3 DEF total, AddsUp

(* Such a recursion counts units, in whatever order it picks the members. *)
LEMMA SumsAreUnits ==
  ASSUME NEW D, IsFiniteSet(D), NEW f \in [D -> Nat],
         NEW pick, \A S \in SUBSET D : S # {} => pick[S] \in S,
         NEW g, SumsUp(g, f, D, pick)
  PROVE  g = UnitCounts(f, D)
<1> DEFINE total == UnitCounts(f, D)
           Bad == {n \in Nat : \E S \in SUBSET D : Cardinality(S) = n /\ g[S] # total[S]}
<1>1. \A S \in SUBSET D : IsFiniteSet(S) /\ Cardinality(S) \in Nat
  BY FS_Subset, FS_CardinalityType
<1>2. Bad = {}
  <2> SUFFICES ASSUME Bad # {} PROVE FALSE
    OBVIOUS
  <2>1. PICK n \in Bad : \A m \in Bad : n <= m
    <3>1. Bad \subseteq Nat
      OBVIOUS
    <3> HIDE DEF Bad
    <3> QED
      BY <3>1, LeastMember
  <2>2. PICK S \in SUBSET D : Cardinality(S) = n /\ g[S] # total[S]
    BY <2>1
  <2> HIDE DEF total
  <2>3. S # {}
    <3>1. AddsUp(total, f, S)
      BY UnitCountsStep DEF total
    <3> QED
      BY <2>2, <3>1 DEF AddsUp, SumsUp
  <2>4. pick[S] \in S /\ S \ {pick[S]} \in SUBSET D
    BY <2>3
  <2>5. Cardinality(S \ {pick[S]}) = n - 1
    BY <1>1, <2>2, <2>4, FS_RemoveElement
  <2>6. n - 1 \in Nat /\ ~ (n <= n - 1)
    BY <1>1, <2>1, <2>4, <2>5
  <2>7. g[S \ {pick[S]}] = total[S \ {pick[S]}]
    BY <2>1, <2>4, <2>5, <2>6
  <2>8. /\ total[S] = f[pick[S]] + total[S \ {pick[S]}]
        /\ total[S] = total[S \ {pick[S]}] + f[pick[S]]
    <3>1. AddsUp(total, f, S)
      BY UnitCountsStep DEF total
    <3> QED
      BY <2>4, <3>1 DEF AddsUp
  <2> QED
    BY <2>2, <2>3, <2>7, <2>8 DEF SumsUp
<1>3. \A S \in SUBSET D : g[S] = total[S]
  BY <1>1, <1>2
<1>4. g = [S \in SUBSET D |-> g[S]] /\ total = [S \in SUBSET D |-> total[S]]
  BY DEF SumsUp, UnitCounts
<1> HIDE DEF total
<1>5. g = total
  BY <1>3, <1>4
<1> QED
  BY <1>5 DEF total

\* The recursions of a sum from the right and of one from the left.
SumsRight(g, f, D, pick) ==
  g = [S \in SUBSET D |-> IF S = {} THEN 0 ELSE f[pick[S]] + g[S \ {pick[S]}]]

SumsLeft(g, f, D, pick) ==
  g = [S \in SUBSET D |-> IF S = {} THEN 0 ELSE g[S \ {pick[S]}] + f[pick[S]]]

(* Both are solved by counting units, and by nothing else. *)
LEMMA SumsSolved ==
  ASSUME NEW D, IsFiniteSet(D), NEW f \in [D -> Nat],
         NEW pick, \A S \in SUBSET D : S # {} => pick[S] \in S
  PROVE  \A g : /\ SumsRight(g, f, D, pick) <=> g = UnitCounts(f, D)
                /\ SumsLeft(g, f, D, pick) <=> g = UnitCounts(f, D)
<1> DEFINE total == UnitCounts(f, D)
<1>1. ASSUME NEW g, SumsRight(g, f, D, pick) \/ SumsLeft(g, f, D, pick)
      PROVE  g = total
  <2>1. SumsUp(g, f, D, pick)
    <3>1. SumsRight(g, f, D, pick) => SumsUp(g, f, D, pick)
      BY DEF SumsUp, SumsRight
    <3>2. SumsLeft(g, f, D, pick) => SumsUp(g, f, D, pick)
      BY DEF SumsUp, SumsLeft
    <3> QED
      BY <1>1, <3>1, <3>2
  <2> QED
    BY <2>1, SumsAreUnits
<1>2. total = [S \in SUBSET D |-> total[S]]
  BY DEF UnitCounts
<1>3. ASSUME NEW S \in SUBSET D
      PROVE  /\ S = {} => total[S] = 0
             /\ S # {} => /\ total[S] = f[pick[S]] + total[S \ {pick[S]}]
                          /\ total[S] = total[S \ {pick[S]}] + f[pick[S]]
  <2>1. AddsUp(total, f, S)
    BY UnitCountsStep
  <2> HIDE DEF total
  <2> QED
    BY <2>1 DEF AddsUp
<1> HIDE DEF total
<1>4. SumsRight(total, f, D, pick)
  BY <1>2, <1>3 DEF SumsRight
<1>5. SumsLeft(total, f, D, pick)
  BY <1>2, <1>3 DEF SumsLeft
<1> QED
  BY <1>1, <1>4, <1>5 DEF total

(* SumFunction adds up the sizes. *)
LEMMA SumFunctionCounts ==
  ASSUME NEW D, IsFiniteSet(D), NEW f \in [D -> Nat]
  PROVE  SumFunction(f) = Cardinality(Units(f, D))
<1> DEFINE any(S) == CHOOSE x \in S : TRUE
           pick == [S \in SUBSET D |-> any(S)]
           F(g) == g = [S \in SUBSET D |-> IF S = {} THEN 0 ELSE f[any(S)] + g[S \ {any(S)}]]
           sum == CHOOSE g : F(g)
<1>1. SumFunction(f) = sum[D]
  <2>1. SumFunction(f) =
          (CHOOSE g : g = [S \in SUBSET DOMAIN f |-> IF S = {} THEN 0
                             ELSE f[CHOOSE x \in S : TRUE]
                                    + g[S \ {CHOOSE x \in S : TRUE}]])[DOMAIN f]
    BY Zenon DEF SumFunction, SumFunctionOnSet, FoldFunctionOnSet, MapThenFoldSet
  <2>2. DOMAIN f = D
    OBVIOUS
  <2> QED
    BY <2>1, <2>2
<1>2. \A S \in SUBSET D : pick[S] = any(S) /\ (S # {} => any(S) \in S)
  OBVIOUS
<1> HIDE DEF pick, any
<1>3. \A g : SumsRight(g, f, D, pick) <=> g = UnitCounts(f, D)
  BY <1>2, SumsSolved
<1>4. ASSUME NEW g PROVE F(g) <=> SumsRight(g, f, D, pick)
  BY <1>2 DEF SumsRight
<1>5. \A g : F(g) <=> g = UnitCounts(f, D)
  BY <1>3, <1>4
<1> HIDE DEF F
<1>6. sum = UnitCounts(f, D)
  BY <1>5
<1> HIDE DEF sum
<1> QED
  BY <1>1, <1>6 DEF UnitCounts

\* How many nodes a token and a key stand for: a stage for its members.
TokenSize(token) == IF token[1] = "stage" THEN token[2] ELSE 1
KeySize(key) == TokenSize(Token(key))

(* A list of keys is folded to the sum of their sizes. *)
LEMMA FoldLeftCounts ==
  ASSUME NEW N \in Nat, NEW D, D = 1 .. N, NEW keys, DOMAIN keys = D,
         NEW f \in [D -> Nat], \A n \in D : f[n] = KeySize(keys[n])
  PROVE  FoldLeft(LAMBDA sum, key : sum + KeySize(key), 0, keys) = Cardinality(Units(f, D))
<1> DEFINE pick == [S \in SUBSET D |-> Max(S)]
           F(g) == g = [S \in SUBSET D |-> IF S = {} THEN 0
                                           ELSE g[S \ {Max(S)}] + KeySize(keys[Max(S)])]
           sum == CHOOSE g : F(g)
<1>1. IsFiniteSet(D)
  <2>1. N \in Int /\ 1 \in Int
    OBVIOUS
  <2>2. IsFiniteSet(1 .. N)
    BY <2>1, FS_Interval
  <2> QED
    BY <2>2
<1>2. FoldLeft(LAMBDA s, key : s + KeySize(key), 0, keys) = sum[D]
  <2>1. FoldLeft(LAMBDA s, key : s + KeySize(key), 0, keys) =
          (CHOOSE g : g = [S \in SUBSET DOMAIN keys |-> IF S = {} THEN 0
                             ELSE g[S \ {Max(S)}] + KeySize(keys[Max(S)])])[DOMAIN keys]
    BY DEF FoldLeft, MapThenFoldSet
  <2> QED
    BY <2>1
<1>3. ASSUME NEW S \in SUBSET D, S # {}
      PROVE  Max(S) \in S /\ f[Max(S)] = KeySize(keys[Max(S)])
  <2>1. S \subseteq Nat /\ \A n \in S : n < N + 1
    OBVIOUS
  <2>2. N + 1 \in Nat
    OBVIOUS
  <2>3. \E n \in S : \A m \in S : m <= n
    BY <1>3, <2>1, <2>2, GreatestMember
  <2>4. \E n \in S : \A m \in S : n >= m
    BY <2>1, <2>3
  <2>5. Max(S) \in S
    BY <2>4 DEF Max
  <2> QED
    BY <2>5
<1>4. \A S \in SUBSET D : pick[S] = Max(S)
  OBVIOUS
<1> HIDE DEF pick
<1>5. \A S \in SUBSET D : S # {} => pick[S] \in S
  BY <1>3, <1>4
<1>6. \A g : SumsLeft(g, f, D, pick) <=> g = UnitCounts(f, D)
  BY <1>1, <1>5, SumsSolved
<1>7. ASSUME NEW g PROVE F(g) <=> SumsLeft(g, f, D, pick)
  BY <1>3, <1>4 DEF SumsLeft
<1>8. \A g : F(g) <=> g = UnitCounts(f, D)
  BY <1>6, <1>7
<1> HIDE DEF F
<1>9. sum = UnitCounts(f, D)
  BY <1>8
<1> HIDE DEF sum
<1> QED
  BY <1>2, <1>9 DEF UnitCounts

(* The sizes of the keys of a store are numbers. *)
LEMMA KeySizes ==
  ASSUME NEW k, StoreKey(k)
  PROVE  /\ TokenSize(Token(k)) \in Nat /\ KeySize(k) = TokenSize(Token(k))
         /\ k.kind = "stage" => KeySize(k) = Len(k.members)
<1>1. KeySize(k) = TokenSize(Token(k))
  BY DEF KeySize, TokenSize
<1>2. CASE k.kind = "stage"
  <2>1. Token(k) = <<"stage", Len(k.members)>> /\ Len(k.members) \in Nat
    BY <1>2, StoreKeyShape DEF Token
  <2> QED
    BY <1>1, <2>1 DEF TokenSize
<1>3. CASE k.kind # "stage"
  <2>1. k.kind \in {"source", "op", "reduction", "external"}
    BY <1>3, StoreKeyShape
  <2>2. Token(k)[1] # "stage"
    BY <2>1 DEF Token
  <2> QED
    BY <1>1, <1>3, <2>2 DEF TokenSize
<1> QED
  BY <1>2, <1>3

(* A component lists no member twice. *)
LEMMA MembersOnce ==
  ASSUME NEW ns, NEW g, StoreList(ns), GraphOf(g, ns),
         NEW head, Components(g, head), NEW h \in Heads(head)
  PROVE  /\ DOMAIN Members(head, h) = 1 .. Len(Members(head, h))
         /\ \A p \in DOMAIN Members(head, h) :
              Members(head, h)[p] \in DOMAIN g.node /\ head[Members(head, h)[p]] = h
         /\ \A p, q \in DOMAIN Members(head, h) :
              Members(head, h)[p] = Members(head, h)[q] => p = q
         /\ \A i \in DOMAIN g.node :
              head[i] = h => \E p \in DOMAIN Members(head, h) : Members(head, h)[p] = i
<1> DEFINE D == DOMAIN g.node
           S == {i \in DOMAIN head : head[i] = h}
           A == Ascending(S)
           N == Cardinality(S)
<1>1. D \in SUBSET Nat /\ IsFiniteSet(D) /\ DOMAIN head = D
  BY GraphIsFinite DEF Components
<1>2. S \in SUBSET Nat /\ IsFiniteSet(S)
  BY <1>1, FS_Subset
<1>3. /\ A \in Seq(S) /\ Len(A) = N /\ N \in Nat /\ DOMAIN A = 1 .. N
      /\ \A n \in 1 .. N : A[n] \in S /\ Rank(S, A[n]) = n - 1
      /\ \A i \in S : Rank(S, i) + 1 \in 1 .. N /\ A[Rank(S, i) + 1] = i
  BY <1>2, AscendingLists, Zenon
<1>4. Members(head, h) = A
  BY DEF Members
<1>5. \A i \in S : i \in D /\ head[i] = h
  BY <1>1
<1>6. \A i \in D : head[i] = h => i \in S
  BY <1>1
<1> HIDE DEF A, N, S
<1>7. ASSUME NEW p \in 1 .. N, NEW q \in 1 .. N, A[p] = A[q]
      PROVE  p = q
  <2>1. p - 1 = q - 1
    BY <1>3, <1>7
  <2> QED
    BY <2>1
<1> QED
  BY <1>3, <1>4, <1>5, <1>6, <1>7

\* The k-th unit of a component is a unit of the node that it fused.
UnitOf(g, head, h, k) ==
  IF Boundary(g, h) THEN <<h, k>> ELSE <<Members(head, h)[k], 1>>

\* The size of a component is the size of its nodes.
ComponentSize(g, head, h) ==
  IF Boundary(g, h) THEN TokenSize(g.node[h].token) ELSE Len(Members(head, h))

(* The units of a component are those of its nodes. *)
LEMMA UnitsOfComponent ==
  ASSUME NEW ns, NEW g, StoreList(ns), GraphOf(g, ns),
         NEW head, Components(g, head), NEW h \in Heads(head),
         NEW f, f = [i \in DOMAIN g.node |-> TokenSize(g.node[i].token)]
  PROVE  /\ \A k \in 1 .. ComponentSize(g, head, h) :
              /\ UnitOf(g, head, h, k) \in Units(f, DOMAIN g.node)
              /\ head[UnitOf(g, head, h, k)[1]] = h
         /\ \A k, l \in 1 .. ComponentSize(g, head, h) :
              UnitOf(g, head, h, k) = UnitOf(g, head, h, l) => k = l
         /\ \A u \in Units(f, DOMAIN g.node) :
              head[u[1]] = h =>
                \E k \in 1 .. ComponentSize(g, head, h) : UnitOf(g, head, h, k) = u
<1> DEFINE D == DOMAIN g.node
           ops == Members(head, h)
           size == ComponentSize(g, head, h)
<1>1. h \in D /\ head[h] = h
  BY DEF Heads, Components
<1>2. \A i \in D : f[i] = TokenSize(g.node[i].token)
  OBVIOUS
<1>3. CASE Boundary(g, h)
  <2>1. size = f[h] /\ \A k : UnitOf(g, head, h, k) = <<h, k>>
    BY <1>1, <1>2, <1>3 DEF ComponentSize, UnitOf
  <2>2. \A i \in D : head[i] = h => i = h
    BY <1>3 DEF Components
  <2>3. \A k \in 1 .. size : <<h, k>> \in Units(f, D)
    <3>1. f[h] \in Nat
      <4>1. StoreKey(ns[h + 1]) /\ g.node[h].token = Token(ns[h + 1])
        BY <1>1, GraphNode DEF GraphOf
      <4> QED
        BY <1>1, <1>2, <4>1, KeySizes
    <3>2. \A k \in 1 .. size : k \in Nat
      BY <2>1, <3>1
    <3> QED
      BY <1>1, <2>1, <3>2 DEF Units
  <2>4. \A u \in Units(f, D) : u = <<u[1], u[2]>> /\ u[1] \in D /\ u[2] \in 1 .. f[u[1]]
    BY DEF Units
  <2> HIDE DEF size
  <2> QED
    BY <1>1, <2>1, <2>2, <2>3, <2>4 DEF size
<1>4. CASE ~ Boundary(g, h)
  <2>1. size = Len(ops) /\ \A k : UnitOf(g, head, h, k) = <<ops[k], 1>>
    BY <1>4 DEF ComponentSize, UnitOf
  <2>2. ASSUME NEW i \in D, head[i] = h
        PROVE  f[i] = 1
    <3>1. ~ Boundary(g, i)
      BY <1>1, <1>4, <2>2 DEF Components
    <3>2. g.node[i].token[1] = "op"
      BY <3>1 DEF Boundary, BoundaryToken
    <3> QED
      BY <1>2, <3>2 DEF TokenSize
  <2>3. /\ DOMAIN ops = 1 .. size
        /\ \A p \in DOMAIN ops : ops[p] \in D /\ head[ops[p]] = h
        /\ \A p, q \in DOMAIN ops : ops[p] = ops[q] => p = q
        /\ \A i \in D : head[i] = h => \E p \in DOMAIN ops : ops[p] = i
    BY <2>1, MembersOnce
  <2> HIDE DEF ops, size
  <2>4. \A k \in 1 .. size : <<ops[k], 1>> \in Units(f, D)
    BY <2>2, <2>3 DEF Units
  <2>5. ASSUME NEW u \in Units(f, D), head[u[1]] = h
        PROVE  \E k \in 1 .. size : <<ops[k], 1>> = u
    <3>1. u = <<u[1], u[2]>> /\ u[1] \in D /\ u[2] \in 1 .. f[u[1]]
      BY DEF Units
    <3>2. u[2] = 1
      BY <2>2, <2>5, <3>1
    <3> QED
      BY <2>3, <2>5, <3>1, <3>2
  <2>6. \A k, l \in 1 .. size : <<ops[k], 1>> = <<ops[l], 1>> => k = l
    BY <2>3
  <2>7. \A k \in 1 .. size : head[<<ops[k], 1>>[1]] = h
    BY <2>3
  <2> QED
    BY <2>1, <2>4, <2>5, <2>6, <2>7 DEF size
<1> QED
  BY <1>3, <1>4

(* The node of a component has its size. *)
LEMMA ReducedNodeSize ==
  ASSUME NEW ns, NEW g0, NEW g, StoreList(ns), GraphOf(g0, ns), GraphOf(g, ns),
         DOMAIN g.node \subseteq DOMAIN g0.node,
         NEW head, Components(g, head), NEW h \in Heads(head)
  PROVE  /\ KeySize(ReducedNode(ns, g0, g, head, h)) = ComponentSize(g, head, h)
         /\ ComponentSize(g, head, h) \in Nat
<1> DEFINE key == ReducedNode(ns, g0, g, head, h)
<1>1. CASE Boundary(g, h)
  <2>1. key = RebuildBoundary(ns, g0, g, head, h)
    BY <1>1 DEF ReducedNode
  <2> HIDE DEF key
  <2>2. StoreKey(key) /\ Token(key) = g.node[h].token
    BY <1>1, <2>1, BoundaryKey
  <2>3. KeySize(key) = TokenSize(g.node[h].token) /\ KeySize(key) \in Nat
    BY <2>2, KeySizes
  <2> QED
    BY <1>1, <2>3 DEF key, ComponentSize
<1>2. CASE ~ Boundary(g, h)
  <2>1. key = FuseStage(g, head, h)
    BY <1>2 DEF ReducedNode
  <2> HIDE DEF key
  <2>2. StoreKey(key) /\ key.kind = "stage" /\ Len(key.members) = Len(Members(head, h))
    BY <2>1, StageKeyParts
  <2>3. KeySize(key) = Len(Members(head, h)) /\ KeySize(key) \in Nat
    BY <2>2, KeySizes
  <2> QED
    BY <1>2, <2>3 DEF key, ComponentSize
<1> QED
  BY <1>1, <1>2

(* The fused list has as many units as the graph it was fused from. *)
LEMMA FusedUnits ==
  ASSUME NEW ns, NEW g0, NEW g, StoreList(ns), GraphOf(g0, ns), GraphOf(g, ns),
         DOMAIN g.node \subseteq DOMAIN g0.node,
         NEW head, Components(g, head), NEW nodes, nodes = FusedList(ns, g0, g, head),
         NEW f, f = [i \in DOMAIN g.node |-> TokenSize(g.node[i].token)],
         NEW r, r = [n \in DOMAIN nodes |-> KeySize(nodes[n])]
  PROVE  /\ f \in [DOMAIN g.node -> Nat]
         /\ r \in [DOMAIN nodes -> Nat]
         /\ Cardinality(Units(r, DOMAIN nodes)) = Cardinality(Units(f, DOMAIN g.node))
<1> DEFINE D == DOMAIN g.node
           M == DOMAIN nodes
           order == Ascending(Heads(head))
           unit(u) == UnitOf(g, head, order[u[1]], u[2])
           from == [u \in Units(r, M) |-> unit(u)]
<1>1. /\ Len(nodes) = Len(order) /\ M = 1 .. Len(nodes)
      /\ \A n \in M : nodes[n] = ReducedNode(ns, g0, g, head, order[n])
      /\ \A h \in Heads(head) : Place(head, h) + 1 \in M
  BY FusedListOrdered
<1>2. /\ order \in Seq(Heads(head)) /\ Len(order) \in Nat /\ DOMAIN order = 1 .. Len(order)
      /\ \A n \in DOMAIN order : Place(head, order[n]) = n - 1
      /\ \A h \in Heads(head) : order[Place(head, h) + 1] = h
  BY HeadsInPlace
<1>3. M = DOMAIN order /\ M \subseteq Nat
  BY <1>1, <1>2
<1>4. \A n \in M : order[n] \in Heads(head)
  BY <1>2, <1>3
<1> HIDE DEF order
<1>5. \A n \in M : r[n] = ComponentSize(g, head, order[n]) /\ r[n] \in Nat
  <2> SUFFICES ASSUME NEW n \in M
               PROVE  r[n] = ComponentSize(g, head, order[n]) /\ r[n] \in Nat
    OBVIOUS
  <2>1. order[n] \in Heads(head)
    BY <1>4
  <2>2. /\ KeySize(ReducedNode(ns, g0, g, head, order[n])) = ComponentSize(g, head, order[n])
        /\ ComponentSize(g, head, order[n]) \in Nat
    BY <2>1, ReducedNodeSize
  <2>3. r[n] = KeySize(nodes[n])
    OBVIOUS
  <2> QED
    BY <1>1, <2>2, <2>3
<1>6. f \in [D -> Nat]
  <2>1. ASSUME NEW i \in D PROVE TokenSize(g.node[i].token) \in Nat
    <3>1. StoreKey(ns[i + 1]) /\ g.node[i].token = Token(ns[i + 1])
      BY GraphNode DEF GraphOf
    <3> QED
      BY <3>1, KeySizes
  <2> QED
    BY <2>1
<1>7. r \in [M -> Nat]
  BY <1>5
<1>8. IsFiniteSet(M)
  <2>1. Len(nodes) \in Int /\ 1 \in Int
    BY <1>1, <1>2
  <2>2. IsFiniteSet(1 .. Len(nodes))
    BY <2>1, FS_Interval
  <2> QED
    BY <1>1, <2>2
<1>9. IsFiniteSet(Units(r, M))
  <2> DEFINE S == M
  <2>1. S \in SUBSET S /\ IsFiniteSet(S) /\ r \in [S -> Nat]
    BY <1>7, <1>8
  <2> HIDE DEF S
  <2>2. IsFiniteSet(Units(r, S))
    BY <2>1, UnitsFinite
  <2> QED
    BY <2>2 DEF S
<1>10. \A u \in Units(r, M) :
         /\ u = <<u[1], u[2]>> /\ u[1] \in M
         /\ order[u[1]] \in Heads(head) /\ Place(head, order[u[1]]) = u[1] - 1
         /\ u[2] \in 1 .. ComponentSize(g, head, order[u[1]])
  BY <1>2, <1>3, <1>4, <1>5 DEF Units
<1>11. \A u \in Units(r, M) : unit(u) \in Units(f, D) /\ head[unit(u)[1]] = order[u[1]]
  <2> SUFFICES ASSUME NEW u \in Units(r, M)
               PROVE  unit(u) \in Units(f, D) /\ head[unit(u)[1]] = order[u[1]]
    OBVIOUS
  <2> DEFINE h == order[u[1]]
             k == u[2]
  <2>1. h \in Heads(head) /\ k \in 1 .. ComponentSize(g, head, h)
    BY <1>10
  <2> HIDE DEF h, k
  <2>2. /\ UnitOf(g, head, h, k) \in Units(f, D)
        /\ head[UnitOf(g, head, h, k)[1]] = h
    BY <2>1, UnitsOfComponent
  <2> QED
    BY <2>2 DEF h, k
<1>12. ASSUME NEW u \in Units(r, M), NEW v \in Units(r, M), unit(u) = unit(v)
       PROVE  u = v
  <2> DEFINE h == order[u[1]]
             k == u[2]
             l == v[2]
  <2>1. order[v[1]] = h
    BY <1>11, <1>12
  <2>2. u[1] - 1 = v[1] - 1
    BY <1>10, <2>1
  <2>3. u[1] = v[1]
    BY <1>3, <1>10, <2>2
  <2>4. h \in Heads(head) /\ k \in 1 .. ComponentSize(g, head, h)
        /\ l \in 1 .. ComponentSize(g, head, h)
    BY <1>10, <2>1
  <2>5. UnitOf(g, head, h, k) = UnitOf(g, head, h, l)
    BY <1>12, <2>1
  <2> HIDE DEF h, k, l
  <2>6. k = l
    BY <2>4, <2>5, UnitsOfComponent
  <2> QED
    BY <1>10, <2>3, <2>6 DEF k, l
<1>13. ASSUME NEW w \in Units(f, D)
       PROVE  \E u \in Units(r, M) : unit(u) = w
  <2> DEFINE h == head[w[1]]
             n == Place(head, h) + 1
  <2>1. w[1] \in D
    BY DEF Units
  <2>2. h \in Heads(head)
    BY <2>1 DEF Components, Heads
  <2>3. n \in M /\ order[n] = h
    BY <1>1, <1>2, <2>2
  <2> HIDE DEF n
  <2>4. PICK k \in 1 .. ComponentSize(g, head, h) : UnitOf(g, head, h, k) = w
    <3> HIDE DEF h
    <3>1. head[w[1]] = h
      BY DEF h
    <3> QED
      BY <2>2, <3>1, UnitsOfComponent
  <2>5. r[n] = ComponentSize(g, head, h) /\ r[n] \in Nat
    BY <1>5, <2>3
  <2>6. <<n, k>> \in Units(r, M)
    <3>1. k \in 1 .. r[n] /\ k \in Nat
      BY <2>4, <2>5
    <3> QED
      BY <2>3, <3>1 DEF Units
  <2>7. unit(<<n, k>>) = w
    BY <2>3, <2>4
  <2> QED
    BY <2>6, <2>7
<1> HIDE DEF unit
<1>14. from \in [Units(r, M) -> Units(f, D)] /\ \A u \in Units(r, M) : from[u] = unit(u)
  BY <1>11
<1> HIDE DEF from
<1>15. from \in Bijection(Units(r, M), Units(f, D))
  <2>1. \A u, v \in Units(r, M) : from[u] = from[v] => u = v
    BY <1>12, <1>14
  <2>2. \A w \in Units(f, D) : \E u \in Units(r, M) : from[u] = w
    BY <1>13, <1>14
  <2>3. DOMAIN from = Units(r, M)
    BY <1>14
  <2> QED
    BY <1>14, <2>1, <2>2, <2>3, Zenon DEF Bijection, Injection, Surjection, IsInjective
<1>16. ExistsBijection(Units(r, M), Units(f, D))
  BY <1>15 DEF ExistsBijection
<1>17. Cardinality(Units(f, D)) = Cardinality(Units(r, M))
  BY <1>9, <1>16, FS_Bijection
<1> QED
  BY <1>6, <1>7, <1>17

(* Fusion neither drops nor repeats work: the sizes of what it emits add up *)
(* to the sizes of what it fused.                                           *)
LEMMA FusionKeepsSize ==
  ASSUME NEW ns, NEW g0, NEW g, NEW mode \in FusionModes,
         StoreList(ns), GraphOf(g0, ns), GraphOf(g, ns), DOMAIN g.node \subseteq DOMAIN g0.node
  PROVE  SumFunction([i \in DOMAIN g.node |-> TokenSize(g.node[i].token)])
           = FoldLeft(LAMBDA sum, key : sum + KeySize(key), 0, StageFusion(ns, g0, g, mode).nodes)
<1> DEFINE head == HeadOf(g, mode)
           nodes == StageFusion(ns, g0, g, mode).nodes
           f == [i \in DOMAIN g.node |-> TokenSize(g.node[i].token)]
           r == [n \in DOMAIN nodes |-> KeySize(nodes[n])]
<1>1. Components(g, head)
  <2>1. mode = "SingleUse" \/ mode = "Maximal"
    BY DEF FusionModes
  <2> QED
    BY <2>1, SingleUseComponents, MaximalComponents DEF HeadOf
<1>2. nodes = FusedList(ns, g0, g, head)
  BY Zenon DEF StageFusion, FusedList, ReducedNode
<1> HIDE DEF head, nodes
<1>3. StoreList(nodes) /\ Len(nodes) \in Nat /\ DOMAIN nodes = 1 .. Len(nodes)
  <2>1. StoreList(nodes) /\ DOMAIN nodes = 1 .. Len(nodes)
    BY <1>1, <1>2, FusedListOrdered
  <2> QED
    BY <2>1 DEF StoreList, InputsBefore
<1>4. r = [n \in DOMAIN nodes |-> KeySize(nodes[n])]
      /\ f = [i \in DOMAIN g.node |-> TokenSize(g.node[i].token)]
      /\ \A n \in DOMAIN nodes : r[n] = KeySize(nodes[n])
  OBVIOUS
<1> HIDE DEF f, r
<1>5. /\ f \in [DOMAIN g.node -> Nat] /\ r \in [DOMAIN nodes -> Nat]
      /\ Cardinality(Units(r, DOMAIN nodes)) = Cardinality(Units(f, DOMAIN g.node))
  BY <1>1, <1>2, <1>4, FusedUnits
<1>6. SumFunction(f) = Cardinality(Units(f, DOMAIN g.node))
  <2> DEFINE D == DOMAIN g.node
  <2>1. IsFiniteSet(D) /\ f \in [D -> Nat]
    BY <1>5, GraphIsFinite
  <2> HIDE DEF D
  <2>2. SumFunction(f) = Cardinality(Units(f, D))
    BY <2>1, SumFunctionCounts
  <2> QED
    BY <2>2 DEF D
<1>7. FoldLeft(LAMBDA sum, key : sum + KeySize(key), 0, nodes) = Cardinality(Units(r, DOMAIN nodes))
  <2> DEFINE D == DOMAIN nodes
             N == Len(nodes)
  <2>1. N \in Nat /\ D = 1 .. N /\ DOMAIN nodes = D /\ r \in [D -> Nat]
        /\ \A n \in D : r[n] = KeySize(nodes[n])
    BY <1>3, <1>4, <1>5
  <2> HIDE DEF D, N
  <2>2. FoldLeft(LAMBDA sum, key : sum + KeySize(key), 0, nodes) = Cardinality(Units(r, D))
    BY <2>1, FoldLeftCounts
  <2> QED
    BY <2>2 DEF D
<1> QED
  BY <1>5, <1>6, <1>7 DEF f, nodes

-----------------------------------------------------------------------------
(* A pass over renumbered nodes makes the renumbered store of them.       *)

\* What to makes of the members of S.
ImageOf(to, S) == {to[i] : i \in S}

\* to leads from D to E, both ids, and keeps their order.
KeepsOrder(to, D, E) ==
  /\ D \in SUBSET Nat /\ E \in SUBSET Nat /\ to \in [D -> E]
  /\ \A i, j \in D : i < j => to[i] < to[j]

\* to leads from D to E, no two to one.
OneToOne(to, D, E) ==
  to \in [D -> E] /\ \A i, j \in D : to[i] = to[j] => i = j

(* A map that keeps the order is injective, and reflects it. *)
LEMMA OrderReflected ==
  ASSUME NEW D, NEW E, NEW to, KeepsOrder(to, D, E)
  PROVE  OneToOne(to, D, E) /\ \A i, j \in D : to[i] < to[j] => i < j
<1> SUFFICES ASSUME NEW i \in D, NEW j \in D
             PROVE  (to[i] = to[j] => i = j) /\ (to[i] < to[j] => i < j)
  BY DEF OneToOne, KeepsOrder
<1>1. i \in Nat /\ j \in Nat /\ to[i] \in Nat /\ to[j] \in Nat
  BY DEF KeepsOrder
<1>2. (i < j => to[i] < to[j]) /\ (j < i => to[j] < to[i])
  BY DEF KeepsOrder
<1> QED
  BY <1>1, <1>2

(* A set has as many members as its image. *)
LEMMA ImageCounts ==
  ASSUME NEW D, NEW E, NEW to, OneToOne(to, D, E),
         NEW S \in SUBSET D, IsFiniteSet(S)
  PROVE  IsFiniteSet(ImageOf(to, S)) /\ Cardinality(ImageOf(to, S)) = Cardinality(S)
<1> DEFINE f == [i \in S |-> to[i]]
           T == ImageOf(to, S)
<1>1. f \in [S -> T] /\ \A i \in S : f[i] = to[i]
  BY DEF ImageOf
<1> HIDE DEF f
<1>2. f \in Injection(S, T)
  <2>1. DOMAIN f = S /\ \A i, j \in S : f[i] = f[j] => i = j
    BY <1>1 DEF OneToOne
  <2> QED
    BY <1>1, <2>1, Zenon DEF Injection, IsInjective
<1>3. f \in Surjection(S, T)
  <2>1. \A k \in T : \E i \in S : f[i] = k
    BY <1>1 DEF ImageOf
  <2> QED
    BY <1>1, <2>1, Zenon DEF Surjection
<1>4. ExistsBijection(S, T)
  BY <1>2, <1>3 DEF ExistsBijection, Bijection
<1> QED
  BY <1>4, FS_Bijection

(* A member of the image has the rank it had in the set. *)
LEMMA RankKept ==
  ASSUME NEW D, NEW E, NEW to, KeepsOrder(to, D, E),
         NEW S \in SUBSET D, IsFiniteSet(S), NEW i \in D
  PROVE  Rank(ImageOf(to, S), to[i]) = Rank(S, i)
<1> DEFINE B == {j \in S : j < i}
<1>1. {k \in ImageOf(to, S) : k < to[i]} = ImageOf(to, B)
  <2>1. ASSUME NEW j \in S PROVE to[j] < to[i] <=> j < i
    BY OrderReflected DEF KeepsOrder
  <2> QED
    BY <2>1 DEF ImageOf
<1>2. B \in SUBSET D /\ IsFiniteSet(B)
  <2>1. B \in SUBSET S
    OBVIOUS
  <2> HIDE DEF B
  <2> QED
    BY <2>1, FS_Subset
<1>3. OneToOne(to, D, E)
  BY OrderReflected
<1> HIDE DEF B
<1>4. Cardinality(ImageOf(to, B)) = Cardinality(B)
  BY <1>2, <1>3, ImageCounts
<1> QED
  BY <1>1, <1>4 DEF Rank, B

(* The image of a set is listed in the order of the set. *)
LEMMA AscendingKept ==
  ASSUME NEW D, NEW E, NEW to, KeepsOrder(to, D, E),
         NEW S \in SUBSET D, IsFiniteSet(S)
  PROVE  Ascending(ImageOf(to, S)) = Through(to, Ascending(S))
<1> DEFINE T == ImageOf(to, S)
           A == Ascending(S)
           B == Ascending(T)
           N == Cardinality(S)
<1>1. to \in [D -> E] /\ S \in SUBSET Nat /\ T \in SUBSET Nat
  BY DEF KeepsOrder, ImageOf
<1>2. IsFiniteSet(T) /\ Cardinality(T) = N
  <2>1. OneToOne(to, D, E)
    BY OrderReflected
  <2>2. IsFiniteSet(ImageOf(to, S)) /\ Cardinality(ImageOf(to, S)) = Cardinality(S)
    BY <2>1, ImageCounts
  <2> QED
    BY <2>2
<1>3. /\ DOMAIN A = 1 .. N /\ N \in Nat
      /\ \A n \in 1 .. N : A[n] \in S /\ Rank(S, A[n]) = n - 1
  BY <1>1, AscendingLists
<1>4. /\ DOMAIN B = 1 .. N /\ B = [n \in 1 .. N |-> B[n]]
      /\ \A k \in T : B[Rank(T, k) + 1] = k
  <2>1. /\ B \in Seq(T) /\ DOMAIN B = 1 .. Cardinality(T)
        /\ \A k \in T : B[Rank(T, k) + 1] = k
    <3> HIDE DEF T
    <3> QED
      BY <1>1, <1>2, AscendingLists
  <2> HIDE DEF B, T
  <2>2. B = [n \in DOMAIN B |-> B[n]]
    BY <2>1
  <2> QED
    BY <1>2, <2>1, <2>2
<1> HIDE DEF A, B, N
<1>5. ASSUME NEW n \in 1 .. N PROVE B[n] = to[A[n]]
  <2>1. A[n] \in S /\ A[n] \in D /\ Rank(S, A[n]) = n - 1 /\ to[A[n]] \in T
    BY <1>3 DEF ImageOf
  <2>2. Rank(T, to[A[n]]) = n - 1
    BY <2>1, RankKept
  <2>3. (n - 1) + 1 = n
    BY <1>3
  <2> HIDE DEF T
  <2> QED
    BY <1>4, <2>1, <2>2, <2>3
<1>6. B = [n \in DOMAIN A |-> to[A[n]]]
  BY <1>3, <1>4, <1>5
<1> QED
  BY <1>6 DEF Through, A, B, T

(* Where a list is read through an injective map, an entry first appears  *)
(* where it did.                                                          *)
LEMMA FirstSeenKept ==
  ASSUME NEW D, NEW E, NEW to, OneToOne(to, D, E),
         NEW s \in Seq(D), NEW skip \in SUBSET D
  PROVE  FirstSeen(Through(to, s), ImageOf(to, skip)) = Through(to, FirstSeen(s, skip))
<1> DEFINE S == {n \in DOMAIN s : s[n] \notin skip /\ \A m \in 1 .. (n - 1) : s[m] # s[n]}
           r == Through(to, s)
           R == {n \in DOMAIN r : r[n] \notin ImageOf(to, skip)
                                    /\ \A m \in 1 .. (n - 1) : r[m] # r[n]}
           A == Ascending(S)
<1>1. Len(s) \in Nat /\ DOMAIN s = 1 .. Len(s) /\ \A n \in DOMAIN s : s[n] \in D
  OBVIOUS
<1>2. DOMAIN r = DOMAIN s /\ \A n \in DOMAIN s : r[n] = to[s[n]]
  BY DEF Through
<1> HIDE DEF r
<1>3. ASSUME NEW n \in DOMAIN s PROVE n \in S <=> n \in R
  <2>1. r[n] \in ImageOf(to, skip) <=> s[n] \in skip
    BY <1>1, <1>2 DEF ImageOf, OneToOne
  <2>2. \A m \in 1 .. (n - 1) : m \in DOMAIN s
    BY <1>1
  <2>3. \A m \in 1 .. (n - 1) : r[m] = r[n] <=> s[m] = s[n]
    BY <1>1, <1>2, <2>2 DEF OneToOne
  <2> QED
    BY <1>2, <2>1, <2>3
<1>4. R = S
  <2>1. R \subseteq DOMAIN s /\ S \subseteq DOMAIN s
    BY <1>2
  <2> HIDE DEF R, S
  <2> QED
    BY <1>3, <2>1
<1>5. DOMAIN A = 1 .. Cardinality(S) /\ \A n \in DOMAIN A : A[n] \in DOMAIN s
  <2>1. S \in SUBSET Nat /\ \A n \in S : n <= Len(s) /\ n \in DOMAIN s
    BY <1>1
  <2> HIDE DEF S
  <2>2. IsFiniteSet(S)
    BY <1>1, <2>1, FS_BoundedSetOfNaturals
  <2> QED
    BY <2>1, <2>2, AscendingLists
<1>6. FirstSeen(r, ImageOf(to, skip)) = Through(r, A) /\ FirstSeen(s, skip) = Through(s, A)
  <2>1. FirstSeen(r, ImageOf(to, skip)) = Through(r, Ascending(R))
    BY DEF FirstSeen
  <2>2. FirstSeen(s, skip) = Through(s, A)
    BY DEF FirstSeen
  <2> HIDE DEF R, S
  <2> QED
    BY <1>4, <2>1, <2>2
<1> HIDE DEF A
<1>7. Through(r, A) = Through(to, Through(s, A))
  BY <1>2, <1>5 DEF Through
<1> QED
  BY <1>6, <1>7 DEF r

(* An entry has the index it had. *)
LEMMA IndexKept ==
  ASSUME NEW D, NEW E, NEW to, OneToOne(to, D, E),
         NEW s \in Seq(D), NEW e \in D
  PROVE  IndexOf(Through(to, s), to[e]) = IndexOf(s, e)
<1> DEFINE r == Through(to, s)
<1>1. DOMAIN r = DOMAIN s /\ \A n \in DOMAIN s : r[n] = to[s[n]] /\ s[n] \in D
  BY DEF Through
<1> HIDE DEF r
<1>2. \A n \in DOMAIN s : r[n] = to[e] <=> s[n] = e
  BY <1>1 DEF OneToOne
<1>3. (CHOOSE n \in DOMAIN r : r[n] = to[e]) = (CHOOSE n \in DOMAIN s : s[n] = e)
  BY <1>1, <1>2
<1> QED
  BY <1>3 DEF IndexOf, r

\* to renumbers the nodes of g to those of q, in their order.
Renumbers(to, g, q) ==
  /\ KeepsOrder(to, DOMAIN g.node, DOMAIN q.node)
  /\ \A k \in DOMAIN q.node : \E i \in DOMAIN g.node : to[i] = k
  /\ \A i \in DOMAIN g.node : /\ q.node[to[i]].token = g.node[i].token
                              /\ q.node[to[i]].inputs = Through(to, g.node[i].inputs)
  /\ q.outs = Through(to, g.outs)

(* A renumbered list has the renumbered entries. *)
LEMMA EntriesKept ==
  ASSUME NEW to, NEW s
  PROVE  ToSet(Through(to, s)) = ImageOf(to, ToSet(s))
BY DEF ToSet, Through, ImageOf

(* What a renumbered node is, and who uses it. *)
LEMMA NodeRenumbered ==
  ASSUME NEW ns, NEW g, StoreList(ns), GraphOf(g, ns), g.outs \in Seq(DOMAIN g.node),
         NEW to, NEW q, Renumbers(to, g, q), NEW i \in DOMAIN g.node
  PROVE  /\ to[i] \in DOMAIN q.node
         /\ Boundary(q, to[i]) <=> Boundary(g, i)
         /\ IsOutput(q, to[i]) <=> IsOutput(g, i)
         /\ Consumers(q, to[i]) = ImageOf(to, Consumers(g, i))
         /\ \A c \in Consumers(g, i) : SoleUse(q, to[i], to[c]) <=> SoleUse(g, i, c)
<1> DEFINE D == DOMAIN g.node
           E == DOMAIN q.node
<1>1. /\ D \in SUBSET Nat /\ to \in [D -> E]
      /\ \A x, y \in D : to[x] = to[y] => x = y
  BY OrderReflected DEF Renumbers, KeepsOrder, OneToOne
<1>2. \A x \in D : /\ q.node[to[x]].token = g.node[x].token
                   /\ q.node[to[x]].inputs = Through(to, g.node[x].inputs)
  BY DEF Renumbers
<1>3. Boundary(q, to[i]) <=> Boundary(g, i)
  BY <1>2 DEF Boundary
<1>4. IsOutput(q, to[i]) <=> IsOutput(g, i)
  <2>1. \A x \in ToSet(g.outs) : x \in D
    BY DEF ToSet
  <2>2. ToSet(q.outs) = ImageOf(to, ToSet(g.outs))
    BY EntriesKept DEF Renumbers
  <2> QED
    BY <1>1, <2>1, <2>2 DEF IsOutput, ImageOf
<1>5. ASSUME NEW c \in D PROVE to[i] \in ToSet(q.node[to[c]].inputs) <=> i \in ToSet(g.node[c].inputs)
  <2>1. \A x \in ToSet(g.node[c].inputs) : x \in D
    BY GraphNode DEF ToSet
  <2>2. ToSet(q.node[to[c]].inputs) = ImageOf(to, ToSet(g.node[c].inputs))
    BY <1>2, EntriesKept
  <2> QED
    BY <1>1, <2>1, <2>2 DEF ImageOf
<1>6. Consumers(q, to[i]) = ImageOf(to, Consumers(g, i))
  <2>1. ASSUME NEW k \in Consumers(q, to[i]) PROVE k \in ImageOf(to, Consumers(g, i))
    <3>1. k \in E /\ to[i] \in ToSet(q.node[k].inputs)
      BY DEF Consumers
    <3>2. PICK c \in D : to[c] = k
      BY <3>1 DEF Renumbers
    <3> QED
      BY <1>5, <3>1, <3>2 DEF Consumers, ImageOf
  <2>2. ASSUME NEW c \in Consumers(g, i) PROVE to[c] \in Consumers(q, to[i])
    BY <1>1, <1>5 DEF Consumers
  <2> QED
    BY <2>1, <2>2 DEF ImageOf
<1>7. ASSUME NEW c \in Consumers(g, i) PROVE SoleUse(q, to[i], to[c]) <=> SoleUse(g, i, c)
  <2>1. c \in D
    BY DEF Consumers
  <2>2. Consumers(q, to[i]) = {to[c]} <=> Consumers(g, i) = {c}
    <3>1. \A x \in Consumers(g, i) : x \in D
      BY DEF Consumers
    <3>2. ASSUME Consumers(q, to[i]) = {to[c]}, NEW x \in Consumers(g, i)
          PROVE  x = c
      BY <1>1, <1>6, <2>1, <3>1, <3>2 DEF ImageOf
    <3>3. c \in Consumers(g, i)
      OBVIOUS
    <3>4. Consumers(g, i) = {c} => Consumers(q, to[i]) = {to[c]}
      BY <1>6 DEF ImageOf
    <3> QED
      BY <3>2, <3>3, <3>4
  <2>3. /\ DOMAIN q.node[to[c]].inputs = DOMAIN g.node[c].inputs
        /\ \A n \in DOMAIN g.node[c].inputs :
             q.node[to[c]].inputs[n] = to[i] <=> g.node[c].inputs[n] = i
    <3>1. \A n \in DOMAIN g.node[c].inputs : g.node[c].inputs[n] \in D
      BY <2>1, GraphNode
    <3>2. q.node[to[c]].inputs = Through(to, g.node[c].inputs)
      BY <1>2, <2>1
    <3> QED
      BY <1>1, <3>1, <3>2 DEF Through
  <2>4. {n \in DOMAIN q.node[to[c]].inputs : q.node[to[c]].inputs[n] = to[i]}
          = {n \in DOMAIN g.node[c].inputs : g.node[c].inputs[n] = i}
    BY <2>3
  <2> QED
    BY <2>2, <2>4 DEF SoleUse
<1> QED
  BY <1>1, <1>3, <1>4, <1>6, <1>7

(* Both graphs have the same components, if who joins one is the same. *)
LEMMA HeadsRenumbered ==
  ASSUME NEW ns, NEW g, StoreList(ns), GraphOf(g, ns), g.outs \in Seq(DOMAIN g.node),
         NEW to, NEW q, Renumbers(to, g, q),
         NEW head, NEW joins, HeadOfConsumer(g, head, joins), Components(g, head),
         NEW other, NEW others, HeadOfConsumer(q, other, others),
         \A i \in joins : \A c \in Consumers(g, i) : head[c] = head[i],
         \A i \in others : Consumers(q, i) # {},
         \A i \in DOMAIN g.node :
           (\A c \in Consumers(g, i) : other[to[c]] = to[head[c]]) =>
             (to[i] \in others <=> i \in joins)
  PROVE  \A i \in DOMAIN g.node : other[to[i]] = to[head[i]]
<1> DEFINE D == DOMAIN g.node
           Off == {i \in D : other[to[i]] # to[head[i]]}
<1> SUFFICES ASSUME Off # {} PROVE FALSE
  OBVIOUS
<1>1. D \in SUBSET Nat /\ Len(ns) \in Nat /\ \A i \in D : i < Len(ns)
  BY GraphIsFinite
<1>2. PICK i \in Off : \A m \in Off : m <= i
  <2>1. Off \subseteq Nat /\ \A i \in Off : i < Len(ns)
    BY <1>1
  <2> HIDE DEF Off
  <2> QED
    BY <1>1, <2>1, GreatestMember
<1>3. i \in D /\ other[to[i]] # to[head[i]]
  BY <1>2
<1>4. \A c \in Consumers(g, i) : c \in D /\ i < c
  BY <1>3, ConsumersAreLater
<1>5. ASSUME NEW c \in Consumers(g, i) PROVE other[to[c]] = to[head[c]]
  <2>1. c \in D /\ ~ (c <= i)
    BY <1>1, <1>3, <1>4
  <2> QED
    BY <1>2, <2>1
<1> HIDE DEF Off
<1>6. to[i] \in others <=> i \in joins
  BY <1>3, <1>5
<1>7. to[i] \in DOMAIN q.node /\ Consumers(q, to[i]) = ImageOf(to, Consumers(g, i))
  BY <1>3, NodeRenumbered
<1>8. CASE i \in joins
  <2> DEFINE k == AnyConsumer(q, to[i])
  <2>1. Consumers(q, to[i]) # {}
    BY <1>6, <1>8
  <2>2. k \in Consumers(q, to[i])
    BY <2>1 DEF AnyConsumer
  <2>3. other[to[i]] = other[k]
    BY <1>6, <1>7, <1>8 DEF HeadOfConsumer
  <2> HIDE DEF k
  <2>4. PICK c \in Consumers(g, i) : k = to[c]
    BY <1>7, <2>2 DEF ImageOf
  <2>5. head[c] = head[i]
    BY <1>8
  <2> QED
    BY <1>3, <1>5, <2>3, <2>4, <2>5
<1>9. CASE i \notin joins
  <2>1. head[i] = i /\ other[to[i]] = to[i]
    BY <1>3, <1>6, <1>7, <1>9 DEF HeadOfConsumer
  <2> QED
    BY <1>3, <2>1
<1> QED
  BY <1>8, <1>9

(* The fusion makes the same components of a renumbered graph. *)
LEMMA SameComponents ==
  ASSUME NEW ns, NEW g, StoreList(ns), GraphOf(g, ns), g.outs \in Seq(DOMAIN g.node),
         NEW ms, NEW q, StoreList(ms), GraphOf(q, ms),
         NEW to, Renumbers(to, g, q), NEW mode \in FusionModes
  PROVE  /\ Components(g, HeadOf(g, mode)) /\ Components(q, HeadOf(q, mode))
         /\ \A i \in DOMAIN g.node : HeadOf(q, mode)[to[i]] = to[HeadOf(g, mode)[i]]
<1>1. \A x \in DOMAIN g.node :
        /\ to[x] \in DOMAIN q.node
        /\ Boundary(q, to[x]) <=> Boundary(g, x)
        /\ IsOutput(q, to[x]) <=> IsOutput(g, x)
        /\ Consumers(q, to[x]) = ImageOf(to, Consumers(g, x))
        /\ \A c \in Consumers(g, x) : SoleUse(q, to[x], to[c]) <=> SoleUse(g, x, c)
  BY NodeRenumbered, Zenon
<1>2. \A x \in DOMAIN g.node : \A c \in Consumers(g, x) : c \in DOMAIN g.node
  BY DEF Consumers
<1>3. CASE mode = "SingleUse"
  <2> DEFINE head == SingleUseHead(g)
             joins == SingleUseJoins(g)
             other == SingleUseHead(q)
             others == SingleUseJoins(q)
  <2>1. /\ HeadOfConsumer(g, head, joins) /\ Components(g, head)
        /\ HeadOfConsumer(q, other, others) /\ Components(q, other)
    BY SingleUseEquation, SingleUseComponents
  <2>2. ASSUME NEW i \in joins, NEW c \in Consumers(g, i) PROVE head[c] = head[i]
    <3>1. PICK b \in Consumers(g, i) : SoleUse(g, i, b)
      BY DEF SingleUseJoins
    <3>2. c = b /\ AnyConsumer(g, i) = b
      BY <3>1 DEF SoleUse, AnyConsumer
    <3>3. i \in DOMAIN g.node
      BY DEF SingleUseJoins
    <3> QED
      BY <2>1, <3>2, <3>3 DEF HeadOfConsumer
  <2>3. \A i \in others : Consumers(q, i) # {}
    BY DEF SingleUseJoins
  <2>4. ASSUME NEW i \in DOMAIN g.node PROVE to[i] \in others <=> i \in joins
    <3>1. (\E c \in Consumers(q, to[i]) : SoleUse(q, to[i], c) /\ ~ Boundary(q, c))
            <=> \E c \in Consumers(g, i) : SoleUse(g, i, c) /\ ~ Boundary(g, c)
      <4>1. Consumers(q, to[i]) = ImageOf(to, Consumers(g, i))
        BY <1>1
      <4>2. \A c \in Consumers(g, i) :
              /\ SoleUse(q, to[i], to[c]) <=> SoleUse(g, i, c)
              /\ Boundary(q, to[c]) <=> Boundary(g, c)
        BY <1>1, <1>2
      <4>3. \A k : k \in Consumers(q, to[i]) <=> \E c \in Consumers(g, i) : k = to[c]
        BY <4>1 DEF ImageOf
      <4> QED
        BY <4>2, <4>3, Zenon
    <3> QED
      BY <1>1, <3>1 DEF SingleUseJoins
  <2>5. HeadOf(g, mode) = head /\ HeadOf(q, mode) = other
    BY <1>3 DEF HeadOf
  <2> HIDE DEF head, joins, other, others
  <2>6. \A i \in DOMAIN g.node : other[to[i]] = to[head[i]]
    BY <2>1, <2>2, <2>3, <2>4, HeadsRenumbered
  <2> QED
    BY <2>1, <2>5, <2>6
<1>4. CASE mode = "Maximal"
  <2> DEFINE head == MaximalHead(g)
             joins == MaximalJoins(g, head)
             other == MaximalHead(q)
             others == MaximalJoins(q, other)
  <2>1. /\ HeadOfConsumer(g, head, joins) /\ Components(g, head)
        /\ HeadOfConsumer(q, other, others) /\ Components(q, other)
    BY MaximalEquation, MaximalComponents
  <2> HIDE DEF head, other
  <2>2. ASSUME NEW i \in joins, NEW c \in Consumers(g, i) PROVE head[c] = head[i]
    <3>1. i \in DOMAIN g.node /\ Cardinality({head[b] : b \in Consumers(g, i)}) = 1
      BY DEF MaximalJoins
    <3>2. head[i] # i
      <4>1. AnyConsumer(g, i) \in Consumers(g, i)
        BY DEF AnyConsumer
      <4>2. i < AnyConsumer(g, i) /\ AnyConsumer(g, i) \in DOMAIN g.node
        BY <3>1, <4>1, ConsumersAreLater
      <4>3. head[i] = head[AnyConsumer(g, i)] /\ AnyConsumer(g, i) <= head[AnyConsumer(g, i)]
        BY <2>1, <3>1, <4>2 DEF HeadOfConsumer, Components
      <4>4. i \in Nat /\ AnyConsumer(g, i) \in Nat /\ head[i] \in Nat
        BY <2>1, <3>1, <4>2, GraphIsFinite DEF Components
      <4> QED
        BY <4>2, <4>3, <4>4
    <3> QED
      BY <2>1, <3>1, <3>2 DEF Components
  <2>3. \A i \in others : Consumers(q, i) # {}
    BY DEF MaximalJoins
  <2>4. ASSUME NEW i \in DOMAIN g.node,
               \A c \in Consumers(g, i) : other[to[c]] = to[head[c]]
        PROVE  to[i] \in others <=> i \in joins
    <3> DEFINE S == {head[c] : c \in Consumers(g, i)}
    <3> DEFINE C == Consumers(g, i)
    <3>7. /\ Consumers(q, to[i]) = ImageOf(to, C)
          /\ \A k : k \in Consumers(q, to[i]) <=> \E c \in C : k = to[c]
      <4>1. Consumers(q, to[i]) = ImageOf(to, C)
        BY <1>1
      <4> QED
        BY <4>1 DEF ImageOf
    <3>1. {other[c] : c \in Consumers(q, to[i])} = ImageOf(to, S)
      <4>1. \A c \in C : other[to[c]] = to[head[c]]
        BY <2>4
      <4>2. ASSUME NEW k \in Consumers(q, to[i]) PROVE other[k] \in ImageOf(to, S)
        BY <3>7, <4>1 DEF ImageOf
      <4>3. ASSUME NEW c \in C
            PROVE  to[head[c]] = other[to[c]] /\ to[c] \in Consumers(q, to[i])
        BY <3>7, <4>1
      <4> HIDE DEF C
      <4>4. ASSUME NEW x \in ImageOf(to, S)
            PROVE  x \in {other[c] : c \in Consumers(q, to[i])}
        BY <4>3 DEF ImageOf, C
      <4> QED
        BY <4>2, <4>4
    <3>2. Cardinality(ImageOf(to, S)) = Cardinality(S)
      <4>1. S \in SUBSET DOMAIN g.node
        BY <1>2, <2>1 DEF Components
      <4>2. IsFiniteSet(S)
        <5> HIDE DEF S
        <5> QED
          BY <4>1, GraphIsFinite, FS_Subset
      <4>3. OneToOne(to, DOMAIN g.node, DOMAIN q.node)
        BY OrderReflected DEF Renumbers
      <4> HIDE DEF S
      <4> QED
        BY <4>1, <4>2, <4>3, ImageCounts
    <3>3. Consumers(q, to[i]) # {} <=> Consumers(g, i) # {}
      BY <3>7
    <3>4. (\A c \in Consumers(q, to[i]) : ~ Boundary(q, c))
            <=> \A c \in Consumers(g, i) : ~ Boundary(g, c)
      <4>1. \A c \in C : Boundary(q, to[c]) <=> Boundary(g, c)
        BY <1>1, <1>2
      <4>2. \A c \in C : to[c] \in Consumers(q, to[i])
        BY <3>7
      <4>3. \A k \in Consumers(q, to[i]) : \E c \in C : k = to[c]
        BY <3>7
      <4> QED
        BY <4>1, <4>2, <4>3
    <3>5. Cardinality({other[c] : c \in Consumers(q, to[i])}) = Cardinality(S)
      BY <3>1, <3>2
    <3>6. /\ Boundary(q, to[i]) <=> Boundary(g, i)
          /\ IsOutput(q, to[i]) <=> IsOutput(g, i)
          /\ to[i] \in DOMAIN q.node
      BY <1>1
    <3> QED
      BY <3>3, <3>4, <3>5, <3>6, Zenon DEF MaximalJoins
  <2>5. HeadOf(g, mode) = head /\ HeadOf(q, mode) = other
    BY <1>4 DEF HeadOf, head, other
  <2> HIDE DEF joins, others
  <2>6. \A i \in DOMAIN g.node : other[to[i]] = to[head[i]]
    BY <2>1, <2>2, <2>3, <2>4, HeadsRenumbered
  <2> QED
    BY <2>1, <2>5, <2>6
<1> QED
  BY <1>3, <1>4 DEF FusionModes

(* Two lists in a row, renumbered. *)
LEMMA ConcatKept ==
  ASSUME NEW D, NEW E, NEW to, OneToOne(to, D, E), NEW a \in Seq(D), NEW b \in Seq(D)
  PROVE  /\ Through(to, a) \in Seq(E) /\ Len(Through(to, a)) = Len(a)
         /\ Through(to, a \o b) = Through(to, a) \o Through(to, b)
<1>1. ASSUME NEW s \in Seq(D)
      PROVE  /\ Through(to, s) \in Seq(E) /\ Len(Through(to, s)) = Len(s)
             /\ \A n \in 1 .. Len(s) : Through(to, s)[n] = to[s[n]]
  <2> DEFINE r == Through(to, s)
  <2>1. Len(s) \in Nat /\ DOMAIN s = 1 .. Len(s) /\ \A n \in DOMAIN s : s[n] \in D
    OBVIOUS
  <2>2. r = [n \in 1 .. Len(s) |-> to[s[n]]]
    BY <2>1 DEF Through
  <2> HIDE DEF r
  <2>3. r \in [1 .. Len(s) -> E]
    BY <2>1, <2>2 DEF OneToOne
  <2>4. r \in Seq(E)
    BY <2>1, <2>3, SeqDef
  <2>5. Len(r) = Len(s)
    BY <2>1, <2>3, <2>4, LenProperties
  <2> QED
    BY <2>2, <2>4, <2>5 DEF r
<1> DEFINE l == Through(to, a \o b)
           x == Through(to, a)
           y == Through(to, b)
           r == x \o y
<1>2. /\ a \o b \in Seq(D) /\ Len(a \o b) = Len(a) + Len(b)
      /\ \A n \in 1 .. (Len(a) + Len(b)) :
           (a \o b)[n] = IF n <= Len(a) THEN a[n] ELSE b[n - Len(a)]
  BY ConcatProperties
<1>3. /\ l \in Seq(E) /\ Len(l) = Len(a) + Len(b)
      /\ \A n \in 1 .. (Len(a) + Len(b)) : l[n] = to[(a \o b)[n]]
  BY <1>1, <1>2
<1>4. /\ x \in Seq(E) /\ Len(x) = Len(a) /\ y \in Seq(E) /\ Len(y) = Len(b)
      /\ \A n \in 1 .. Len(a) : x[n] = to[a[n]]
      /\ \A n \in 1 .. Len(b) : y[n] = to[b[n]]
  BY <1>1
<1> HIDE DEF l, x, y
<1>5. /\ r \in Seq(E) /\ Len(r) = Len(a) + Len(b)
      /\ \A n \in 1 .. (Len(a) + Len(b)) :
           r[n] = IF n <= Len(a) THEN x[n] ELSE y[n - Len(a)]
  <2>1. /\ r \in Seq(E) /\ Len(r) = Len(x) + Len(y)
        /\ \A n \in 1 .. (Len(x) + Len(y)) :
             r[n] = IF n <= Len(x) THEN x[n] ELSE y[n - Len(x)]
    <3>1. x \in Seq(E) /\ y \in Seq(E)
      BY <1>4
    <3> QED
      BY <3>1, ConcatProperties
  <2> HIDE DEF r
  <2> QED
    BY <1>4, <2>1
<1>6. Len(a) \in Nat /\ Len(b) \in Nat
  OBVIOUS
<1> HIDE DEF r
<1>7. ASSUME NEW n \in 1 .. (Len(a) + Len(b)) PROVE l[n] = r[n]
  <2>1. CASE n <= Len(a)
    <3>1. n \in 1 .. Len(a)
      BY <1>6, <2>1
    <3> QED
      <4>1. l[n] = to[(a \o b)[n]] /\ (a \o b)[n] = a[n]
        BY <1>2, <1>3, <2>1
      <4>2. r[n] = x[n]
        BY <1>5, <2>1, Zenon
      <4> QED
        BY <1>4, <3>1, <4>1, <4>2
  <2>2. CASE ~ (n <= Len(a))
    <3> DEFINE m == n - Len(a)
    <3>1. m \in 1 .. Len(b)
      BY <1>6, <2>2
    <3>2. l[n] = to[b[m]]
      <4>1. l[n] = to[(a \o b)[n]] /\ (a \o b)[n] = b[m]
        BY <1>2, <1>3, <2>2
      <4> QED
        BY <4>1
    <3>3. r[n] = y[m]
      BY <1>5, <2>2, Zenon
    <3> HIDE DEF m
    <3> QED
      BY <1>4, <3>1, <3>2, <3>3
  <2> QED
    BY <2>1, <2>2
<1>8. DOMAIN l = 1 .. (Len(a) + Len(b)) /\ DOMAIN r = 1 .. (Len(a) + Len(b))
  BY <1>3, <1>5, LenProperties
<1>9. l = r
  BY <1>3, <1>5, <1>7, <1>8, SameEntries
<1> QED
  BY <1>4, <1>9 DEF l, x, y, r

(* Lists in a row, each renumbered. *)
LEMMA FlattenKept ==
  ASSUME NEW D, NEW E, NEW to, OneToOne(to, D, E), NEW seqs \in Seq(Seq(D)),
         NEW others, DOMAIN others = DOMAIN seqs,
         \A p \in DOMAIN seqs : others[p] = Through(to, seqs[p]),
         others \in Seq(Seq(E))
  PROVE  FlattenSeq(others) = Through(to, FlattenSeq(seqs))
<1>1. Len(others) = Len(seqs) /\ Len(seqs) \in Nat /\ DOMAIN seqs = 1 .. Len(seqs)
  <2>1. DOMAIN seqs = 1 .. Len(seqs) /\ DOMAIN others = 1 .. Len(others)
        /\ Len(seqs) \in Nat /\ Len(others) \in Nat
    OBVIOUS
  <2> QED
    BY <2>1, SameBound
<1>2. CASE seqs = <<>>
  <2>1. Len(seqs) = 0 /\ Len(others) = 0 /\ others = <<>>
    BY <1>1, <1>2
  <2>2. FlattenSeq(seqs) = seqs /\ FlattenSeq(others) = others
    BY <2>1 DEF FlattenSeq
  <2>3. Through(to, seqs) = <<>>
    BY <1>2 DEF Through
  <2> QED
    BY <2>1, <2>2, <2>3
<1>3. CASE seqs # <<>>
  <2>1. others # <<>> /\ Len(seqs) \in DOMAIN seqs
    BY <1>1, <1>3
  <2>2. PICK flat :
           /\ FlattenSeq(seqs) = flat[Len(seqs)]
           /\ \A i \in DOMAIN seqs :
                /\ flat[i] \in Seq(D)
                /\ flat[i] = IF i = 1 THEN seqs[i] ELSE flat[i - 1] \o seqs[i]
    BY <1>3, FlattenSeqSolved
  <2>3. PICK row :
           /\ FlattenSeq(others) = row[Len(others)]
           /\ \A i \in DOMAIN others :
                /\ row[i] \in Seq(E)
                /\ row[i] = IF i = 1 THEN others[i] ELSE row[i - 1] \o others[i]
    BY <2>1, FlattenSeqSolved
  <2> DEFINE Off == {i \in DOMAIN seqs : row[i] # Through(to, flat[i])}
  <2>4. Off = {}
    <3> SUFFICES ASSUME Off # {} PROVE FALSE
      OBVIOUS
    <3>1. PICK i \in Off : \A m \in Off : i <= m
      <4>1. Off \subseteq Nat
        BY <1>1
      <4> HIDE DEF Off
      <4> QED
        BY <4>1, LeastMember
    <3>2. i \in DOMAIN seqs /\ i \in Nat /\ row[i] # Through(to, flat[i])
      BY <1>1, <3>1
    <3>3. i # 1 => i - 1 \in DOMAIN seqs /\ ~ (i <= i - 1)
      BY <1>1, <3>2
    <3>4. i # 1 => row[i - 1] = Through(to, flat[i - 1])
      BY <3>1, <3>3
    <3> HIDE DEF Off
    <3>5. CASE i = 1
      BY <2>2, <2>3, <3>2, <3>5
    <3>6. CASE i # 1
      <4>1. flat[i - 1] \in Seq(D) /\ seqs[i] \in Seq(D)
        BY <2>2, <3>2, <3>3, <3>6
      <4>2. Through(to, flat[i - 1] \o seqs[i]) = Through(to, flat[i - 1]) \o Through(to, seqs[i])
        <5> DEFINE a == flat[i - 1]
                   b == seqs[i]
        <5>1. a \in Seq(D) /\ b \in Seq(D)
          BY <4>1
        <5> HIDE DEF a, b
        <5>2. Through(to, a \o b) = Through(to, a) \o Through(to, b)
          BY <5>1, ConcatKept
        <5> QED
          BY <5>2 DEF a, b
      <4>3. flat[i] = flat[i - 1] \o seqs[i] /\ row[i] = row[i - 1] \o others[i]
        BY <2>2, <2>3, <3>2, <3>6
      <4>4. others[i] = Through(to, seqs[i])
        BY <3>2
      <4> QED
        BY <3>2, <3>4, <3>6, <4>2, <4>3, <4>4
    <3> QED
      BY <3>5, <3>6
  <2>5. row[Len(seqs)] = Through(to, flat[Len(seqs)])
    BY <2>1, <2>4
  <2> QED
    BY <1>1, <2>2, <2>3, <2>5
<1> QED
  BY <1>2, <1>3

\* other makes of the renumbered nodes the components that head makes.
SameHeads(to, g, q, head, other) ==
  /\ KeepsOrder(to, DOMAIN g.node, DOMAIN q.node)
  /\ \A k \in DOMAIN q.node : \E i \in DOMAIN g.node : to[i] = k
  /\ head \in [DOMAIN g.node -> DOMAIN g.node]
  /\ DOMAIN other = DOMAIN q.node
  /\ \A i \in DOMAIN g.node : other[to[i]] = to[head[i]]

(* The heads and the members of a component are the renumbered ones, and it *)
(* is placed where it was.                                                  *)
LEMMA ComponentRenumbered ==
  ASSUME NEW g, NEW q, NEW to, NEW head, NEW other, SameHeads(to, g, q, head, other),
         IsFiniteSet(DOMAIN g.node)
  PROVE  /\ Heads(other) = ImageOf(to, Heads(head))
         /\ Ascending(Heads(other)) = Through(to, Ascending(Heads(head)))
         /\ \A h \in DOMAIN g.node :
              /\ Place(other, to[h]) = Place(head, h)
              /\ Members(other, to[h]) = Through(to, Members(head, h))
<1> DEFINE D == DOMAIN g.node
           E == DOMAIN q.node
<1>1. /\ KeepsOrder(to, D, E) /\ D \in SUBSET Nat /\ to \in [D -> E]
      /\ head \in [D -> D] /\ DOMAIN head = D /\ DOMAIN other = E
      /\ \A i \in D : other[to[i]] = to[head[i]]
      /\ \A k \in E : \E i \in D : to[i] = k
  BY DEF SameHeads, KeepsOrder
<1>2. OneToOne(to, D, E) /\ \A i, j \in D : to[i] = to[j] => i = j
  BY <1>1, OrderReflected DEF OneToOne
<1> HIDE DEF D, E
<1>3. Heads(other) = ImageOf(to, Heads(head))
  <2>1. ASSUME NEW k \in Heads(other) PROVE k \in ImageOf(to, Heads(head))
    <3>1. k \in E /\ other[k] = k
      BY <1>1 DEF Heads
    <3>2. PICK i \in D : to[i] = k
      BY <1>1, <3>1
    <3>3. head[i] \in D /\ to[head[i]] = to[i]
      BY <1>1, <3>1, <3>2
    <3>4. head[i] = i
      BY <1>2, <3>3
    <3> QED
      BY <1>1, <3>2, <3>4 DEF Heads, ImageOf
  <2>2. ASSUME NEW h \in Heads(head) PROVE to[h] \in Heads(other)
    BY <1>1 DEF Heads
  <2> QED
    BY <2>1, <2>2 DEF ImageOf
<1>4. Heads(head) \in SUBSET D /\ IsFiniteSet(Heads(head))
  <2>1. Heads(head) \in SUBSET D
    BY <1>1 DEF Heads
  <2> QED
    BY <2>1, FS_Subset DEF D
<1>5. Ascending(Heads(other)) = Through(to, Ascending(Heads(head)))
  BY <1>1, <1>3, <1>4, AscendingKept
<1>6. ASSUME NEW h \in D
      PROVE  /\ Place(other, to[h]) = Place(head, h)
             /\ Members(other, to[h]) = Through(to, Members(head, h))
  <2>1. Rank(ImageOf(to, Heads(head)), to[h]) = Rank(Heads(head), h)
    BY <1>1, <1>4, RankKept
  <2>2. Place(other, to[h]) = Place(head, h)
    BY <1>3, <2>1 DEF Place, Rank
  <2> DEFINE S == MemberSet(head, h)
             T == MemberSet(other, to[h])
  <2>3. T = ImageOf(to, S)
    <3>1. ASSUME NEW k \in T PROVE k \in ImageOf(to, S)
      <4>1. PICK i \in D : to[i] = k
        BY <1>1 DEF MemberSet
      <4>2. head[i] = h
        <5>1. other[k] = to[h] /\ other[k] = to[head[i]] /\ head[i] \in D
          BY <1>1, <4>1 DEF MemberSet
        <5> QED
          BY <1>2, <5>1
      <4> QED
        BY <1>1, <4>1, <4>2 DEF ImageOf, MemberSet
    <3>2. ASSUME NEW i \in S PROVE to[i] \in T
      BY <1>1 DEF MemberSet
    <3> QED
      BY <3>1, <3>2 DEF ImageOf
  <2>4. S \in SUBSET D /\ IsFiniteSet(S)
    <3>1. S \in SUBSET D
      BY <1>1 DEF MemberSet
    <3> QED
      BY <3>1, FS_Subset DEF D
  <2>5. Members(other, to[h]) = Ascending(T) /\ Members(head, h) = Ascending(S)
    BY DEF Members, MemberSet
  <2>6. Ascending(ImageOf(to, S)) = Through(to, Ascending(S))
    BY <1>1, <2>4, AscendingKept
  <2> QED
    BY <2>2, <2>3, <2>5, <2>6
<1> QED
  BY <1>3, <1>5, <1>6 DEF D

(* A component reads the renumbered components, in the same slots. *)
LEMMA SlotsRenumbered ==
  ASSUME NEW ns, NEW g, StoreList(ns), GraphOf(g, ns), NEW q, NEW to, Renumbers(to, g, q),
         NEW head, NEW other, SameHeads(to, g, q, head, other),
         Components(g, head), NEW h \in Heads(head)
  PROVE  Slots(q, other, to[h]) = Through(to, Slots(g, head, h))
<1> DEFINE D == DOMAIN g.node
           E == DOMAIN q.node
           ops == Members(head, h)
           reads == [i \in DOMAIN head |-> Through(head, g.node[i].inputs)]
           lists == Through(reads, ops)
           names == [i \in DOMAIN other |-> Through(other, q.node[i].inputs)]
           rows == Through(names, Members(other, to[h]))
<1>1. /\ to \in [D -> E] /\ DOMAIN head = D /\ DOMAIN other = E
      /\ \A i \in D : other[to[i]] = to[head[i]] /\ head[i] \in D /\ to[i] \in E
  BY DEF SameHeads, KeepsOrder
<1>2. OneToOne(to, D, E)
  BY OrderReflected DEF SameHeads
<1>3. ops \in Seq(D) /\ h \in D
  BY MembersList
<1>4. Members(other, to[h]) = Through(to, ops)
  BY <1>3, GraphIsFinite, ComponentRenumbered
<1>5. ASSUME NEW i \in D
      PROVE  /\ reads[i] \in Seq(D) /\ Through(to, reads[i]) \in Seq(E)
             /\ names[to[i]] = Through(to, reads[i])
  <2> DEFINE xs == g.node[i].inputs
             ys == Through(head, xs)
  <2>1. /\ DOMAIN xs = 1 .. Len(xs) /\ Len(xs) \in Nat
        /\ \A n \in DOMAIN xs : xs[n] \in D
    <3>1. xs \in Seq(Nat) /\ \A n \in DOMAIN xs : xs[n] \in D
      BY GraphNode
    <3> QED
      BY <3>1
  <2>2. q.node[to[i]].inputs = Through(to, xs)
    BY DEF Renumbers
  <2> HIDE DEF xs
  <2>3. ys = [n \in DOMAIN xs |-> head[xs[n]]]
    BY DEF Through
  <2>4. ys \in Seq(D)
    <3>1. ys \in [1 .. Len(xs) -> D]
      BY <1>1, <2>1, <2>3
    <3> HIDE DEF ys
    <3> QED
      BY <2>1, <3>1, SeqDef
  <2>5. Through(other, Through(to, xs)) = Through(to, ys)
    <3>1. Through(to, xs) = [n \in DOMAIN xs |-> to[xs[n]]]
      BY DEF Through
    <3>2. Through(other, Through(to, xs)) = [n \in DOMAIN xs |-> other[to[xs[n]]]]
      BY <3>1 DEF Through
    <3>3. Through(to, ys) = [n \in DOMAIN xs |-> to[head[xs[n]]]]
      BY <2>3 DEF Through
    <3> QED
      BY <1>1, <2>1, <3>2, <3>3
  <2>6. reads[i] = ys /\ names[to[i]] = Through(other, Through(to, xs))
    BY <1>1, <2>2 DEF xs
  <2> HIDE DEF reads, names, ys
  <2>7. Through(to, ys) \in Seq(E)
    BY <1>2, <2>4, ConcatKept
  <2> QED
    BY <2>4, <2>5, <2>6, <2>7
<1>6. Slots(g, head, h) = FirstSeen(FlattenSeq(lists), {h})
  BY DEF Slots
<1>7. Slots(q, other, to[h]) = FirstSeen(FlattenSeq(rows), {to[h]})
  BY DEF Slots
<1> HIDE DEF reads, names
<1>8. /\ DOMAIN lists = DOMAIN ops /\ DOMAIN rows = DOMAIN ops
      /\ \A p \in DOMAIN ops : lists[p] = reads[ops[p]] /\ rows[p] = names[to[ops[p]]]
      /\ DOMAIN ops = 1 .. Len(ops) /\ Len(ops) \in Nat
      /\ \A p \in DOMAIN ops : ops[p] \in D
      /\ lists = [p \in DOMAIN ops |-> lists[p]] /\ rows = [p \in DOMAIN ops |-> rows[p]]
  <2> HIDE DEF ops
  <2>1. lists = [p \in DOMAIN ops |-> reads[ops[p]]]
    BY DEF Through
  <2>2. rows = [p \in DOMAIN ops |-> names[to[ops[p]]]]
    BY <1>4 DEF Through
  <2> HIDE DEF lists, rows
  <2> QED
    BY <1>3, <2>1, <2>2
<1> HIDE DEF lists, rows, ops
<1>9. lists \in Seq(Seq(D)) /\ rows \in Seq(Seq(E))
  <2> HIDE DEF D, E
  <2>1. lists \in [1 .. Len(ops) -> Seq(D)]
    BY <1>5, <1>8
  <2>2. rows \in [1 .. Len(ops) -> Seq(E)]
    BY <1>5, <1>8
  <2> DEFINE V == Seq(D)
             W == Seq(E)
             n == Len(ops)
  <2> HIDE DEF V, W, n
  <2>3. \A f : f \in [1 .. n -> V] => f \in Seq(V)
    BY <1>8, SeqDef DEF n
  <2>4. \A f : f \in [1 .. n -> W] => f \in Seq(W)
    BY <1>8, SeqDef DEF n
  <2> QED
    BY <2>1, <2>2, <2>3, <2>4 DEF V, W, n
<1>10. \A p \in DOMAIN lists : rows[p] = Through(to, lists[p])
  BY <1>5, <1>8
<1> HIDE DEF D, E
<1>11. FlattenSeq(rows) = Through(to, FlattenSeq(lists))
  <2>1. DOMAIN rows = DOMAIN lists
    BY <1>8
  <2> QED
    BY <1>2, <1>9, <1>10, <2>1, FlattenKept
<1>12. FlattenSeq(lists) \in Seq(D)
  BY <1>9, FlattenSeqEntries
<1>13. {to[h]} = ImageOf(to, {h}) /\ {h} \in SUBSET D
  BY <1>3 DEF ImageOf
<1>14. FirstSeen(Through(to, FlattenSeq(lists)), ImageOf(to, {h}))
         = Through(to, FirstSeen(FlattenSeq(lists), {h}))
  BY <1>2, <1>12, <1>13, FirstSeenKept
<1> QED
  BY <1>6, <1>7, <1>11, <1>13, <1>14

\* A token names the same operator in both graphs.
SameTokens(ns, g0, ms, q0) ==
  \A i \in DOMAIN g0.node, j \in DOMAIN q0.node :
    g0.node[i].token = q0.node[j].token => Operator(ns[i + 1]) = Operator(ms[j + 1])

(* A stage refers to its renumbered members and slots as it did. *)
LEMMA StageRefKept ==
  ASSUME NEW ns, NEW g, StoreList(ns), GraphOf(g, ns), NEW q, NEW to, Renumbers(to, g, q),
         NEW head, NEW other, SameHeads(to, g, q, head, other),
         Components(g, head), NEW h \in Heads(head), NEW j \in DOMAIN g.node
  PROVE  StageRef(q, other, to[h], to[j]) = StageRef(g, head, h, j)
<1> DEFINE D == DOMAIN g.node
           E == DOMAIN q.node
<1>1. OneToOne(to, D, E) /\ h \in D /\ head[j] \in D /\ other[to[j]] = to[head[j]]
  BY OrderReflected, MembersList DEF SameHeads
<1>2. other[to[j]] = to[h] <=> head[j] = h
  BY <1>1 DEF OneToOne
<1>3. Members(head, h) \in Seq(D) /\ Slots(g, head, h) \in Seq(D)
  BY MembersList, SlotsList
<1>4. Members(other, to[h]) = Through(to, Members(head, h))
  BY <1>1, GraphIsFinite, ComponentRenumbered
<1>5. Slots(q, other, to[h]) = Through(to, Slots(g, head, h))
  BY SlotsRenumbered
<1>6. IndexOf(Members(other, to[h]), to[j]) = IndexOf(Members(head, h), j)
  BY <1>1, <1>3, <1>4, IndexKept
<1>7. IndexOf(Slots(q, other, to[h]), other[to[j]]) = IndexOf(Slots(g, head, h), head[j])
  BY <1>1, <1>3, <1>5, IndexKept
<1> QED
  BY <1>2, <1>6, <1>7 DEF StageRef

(* The same stage is fused of a renumbered component. *)
LEMMA StageKept ==
  ASSUME NEW ns, NEW g, StoreList(ns), GraphOf(g, ns), NEW q, NEW to, Renumbers(to, g, q),
         NEW head, NEW other, SameHeads(to, g, q, head, other),
         Components(g, head), NEW h \in Heads(head)
  PROVE  FuseStage(q, other, to[h]) = FuseStage(g, head, h)
<1> DEFINE D == DOMAIN g.node
           ops == Members(head, h)
           slots == Slots(g, head, h)
<1>1. h \in D /\ ops \in Seq(D) /\ slots \in Seq(D)
  BY MembersList, SlotsList
<1>2. Members(other, to[h]) = Through(to, ops) /\ \A i \in D : Place(other, to[i]) = Place(head, i)
  BY <1>1, GraphIsFinite, ComponentRenumbered
<1>3. Slots(q, other, to[h]) = Through(to, slots)
  BY SlotsRenumbered
<1>4. ASSUME NEW i \in D
      PROVE  StageMember(q, other, to[h], to[i]) = StageMember(g, head, h, i)
  <2>1. q.node[to[i]].token = g.node[i].token
        /\ q.node[to[i]].inputs = Through(to, g.node[i].inputs)
    BY DEF Renumbers
  <2>2. \A n \in DOMAIN g.node[i].inputs : g.node[i].inputs[n] \in D
    BY GraphNode
  <2>3. \A j \in D : StageRef(q, other, to[h], to[j]) = StageRef(g, head, h, j)
    BY StageRefKept
  <2>4. [n \in DOMAIN q.node[to[i]].inputs |->
           StageRef(q, other, to[h], q.node[to[i]].inputs[n])]
          = [n \in DOMAIN g.node[i].inputs |-> StageRef(g, head, h, g.node[i].inputs[n])]
    BY <2>1, <2>2, <2>3 DEF Through
  <2> QED
    BY <2>1, <2>4 DEF StageMember
<1>5. [n \in DOMAIN Members(other, to[h]) |->
         StageMember(q, other, to[h], Members(other, to[h])[n])]
        = [n \in DOMAIN ops |-> StageMember(g, head, h, ops[n])]
  <2>1. \A n \in DOMAIN ops : ops[n] \in D
    BY <1>1
  <2> HIDE DEF ops, D
  <2> QED
    BY <1>2, <1>4, <2>1 DEF Through
<1>6. [n \in DOMAIN Slots(q, other, to[h]) |-> Place(other, Slots(q, other, to[h])[n])]
        = [n \in DOMAIN slots |-> Place(head, slots[n])]
  <2>1. \A n \in DOMAIN slots : slots[n] \in D
    BY <1>1
  <2> HIDE DEF slots, D
  <2> QED
    BY <1>2, <1>3, <2>1 DEF Through
<1> QED
  BY <1>5, <1>6, FuseStageParts

(* A renumbered boundary is rebuilt as the same key. *)
LEMMA BoundaryKept ==
  ASSUME NEW ns, NEW g0, NEW g, StoreList(ns), GraphOf(g0, ns), GraphOf(g, ns),
         DOMAIN g.node \subseteq DOMAIN g0.node,
         NEW ms, NEW q0, NEW q, StoreList(ms), GraphOf(q0, ms), GraphOf(q, ms),
         DOMAIN q.node \subseteq DOMAIN q0.node, SameTokens(ns, g0, ms, q0),
         NEW to, Renumbers(to, g, q),
         NEW head, NEW other, SameHeads(to, g, q, head, other),
         Components(g, head), Components(q, other),
         NEW h \in Heads(head), Boundary(g, h), Boundary(q, to[h])
  PROVE  RebuildBoundary(ms, q0, q, other, to[h]) = RebuildBoundary(ns, g0, g, head, h)
<1> DEFINE in == g.node[h].inputs
           a == RebuildBoundary(ns, g0, g, head, h)
           b == RebuildBoundary(ms, q0, q, other, to[h])
<1>1. h \in DOMAIN g.node
  BY MembersList
<1>2. to[h] \in Heads(other)
  <2>1. Heads(other) = ImageOf(to, Heads(head))
    BY GraphIsFinite, ComponentRenumbered
  <2> QED
    BY <2>1 DEF ImageOf
<1>3. /\ StoreKey(a) /\ DOMAIN a.inputs = DOMAIN in
      /\ \A n \in DOMAIN in : a.inputs[n] = Place(head, in[n])
      /\ \E m \in DOMAIN g0.node : /\ g0.node[m].token = g.node[h].token
                                   /\ Operator(a) = Operator(ns[m + 1])
  <2> DEFINE k == a
  <2>1. k = RebuildBoundary(ns, g0, g, head, h)
    OBVIOUS
  <2> HIDE DEF k
  <2>2. /\ StoreKey(k) /\ DOMAIN k.inputs = DOMAIN g.node[h].inputs
        /\ \A n \in DOMAIN g.node[h].inputs : k.inputs[n] = Place(head, g.node[h].inputs[n])
        /\ \E m \in DOMAIN g0.node : /\ g0.node[m].token = g.node[h].token
                                     /\ Operator(k) = Operator(ns[m + 1])
    BY <2>1, BoundaryKey
  <2> QED
    BY <2>2 DEF k
<1>4. /\ StoreKey(b) /\ DOMAIN b.inputs = DOMAIN q.node[to[h]].inputs
      /\ \A n \in DOMAIN q.node[to[h]].inputs :
           b.inputs[n] = Place(other, q.node[to[h]].inputs[n])
      /\ \E m \in DOMAIN q0.node : /\ q0.node[m].token = q.node[to[h]].token
                                   /\ Operator(b) = Operator(ms[m + 1])
  <2> DEFINE k == b
             p == to[h]
  <2>1. k = RebuildBoundary(ms, q0, q, other, p) /\ p \in Heads(other) /\ Boundary(q, p)
    BY <1>2
  <2> HIDE DEF k, p
  <2>2. /\ StoreKey(k) /\ DOMAIN k.inputs = DOMAIN q.node[p].inputs
        /\ \A n \in DOMAIN q.node[p].inputs : k.inputs[n] = Place(other, q.node[p].inputs[n])
        /\ \E m \in DOMAIN q0.node : /\ q0.node[m].token = q.node[p].token
                                     /\ Operator(k) = Operator(ms[m + 1])
    BY <2>1, BoundaryKey
  <2> QED
    BY <2>2 DEF k, p
<1> HIDE DEF a, b
<1>5. /\ q.node[to[h]].token = g.node[h].token
      /\ q.node[to[h]].inputs = Through(to, in)
  BY <1>1 DEF Renumbers
<1>6. \A i \in DOMAIN g.node : Place(other, to[i]) = Place(head, i)
  BY GraphIsFinite, ComponentRenumbered
<1>7. \A n \in DOMAIN in : in[n] \in DOMAIN g.node
  BY <1>1, GraphNode
<1>8. Operator(a) = Operator(b)
  BY <1>3, <1>4, <1>5 DEF SameTokens
<1>9. a.inputs = b.inputs
  <2>1. a.inputs \in Seq(Nat) /\ b.inputs \in Seq(Nat)
    BY <1>3, <1>4, StoreKeyShape
  <2>2. /\ DOMAIN q.node[to[h]].inputs = DOMAIN in
        /\ \A n \in DOMAIN in : q.node[to[h]].inputs[n] = to[in[n]]
    BY <1>5 DEF Through
  <2> HIDE DEF in
  <2>3. \A n \in DOMAIN a.inputs : a.inputs[n] = b.inputs[n]
    BY <1>3, <1>4, <1>6, <1>7, <2>2
  <2> QED
    BY <1>3, <1>4, <2>1, <2>2, <2>3, SameEntries
<1>10. a = b
  BY <1>3, <1>4, <1>8, <1>9, StoreKeyNamed
<1> QED
  BY <1>10 DEF a, b

(* Fusion emits the same list for a renumbered graph. *)
LEMMA FusionKept ==
  ASSUME NEW ns, NEW g0, NEW g, StoreList(ns), GraphOf(g0, ns), GraphOf(g, ns),
         DOMAIN g.node \subseteq DOMAIN g0.node, g.outs \in Seq(DOMAIN g.node),
         NEW ms, NEW q0, NEW q, StoreList(ms), GraphOf(q0, ms), GraphOf(q, ms),
         DOMAIN q.node \subseteq DOMAIN q0.node, SameTokens(ns, g0, ms, q0),
         NEW to, Renumbers(to, g, q), NEW mode \in FusionModes
  PROVE  /\ StageFusion(ms, q0, q, mode).nodes = StageFusion(ns, g0, g, mode).nodes
         /\ StageFusion(ms, q0, q, mode).outs = StageFusion(ns, g0, g, mode).outs
<1> DEFINE head == HeadOf(g, mode)
           other == HeadOf(q, mode)
           red == StageFusion(ns, g0, g, mode)
           blue == StageFusion(ms, q0, q, mode)
<1>1. /\ Components(g, head) /\ Components(q, other)
      /\ \A i \in DOMAIN g.node : other[to[i]] = to[head[i]]
  BY SameComponents
<1>2. red.nodes = [n \in DOMAIN Ascending(Heads(head)) |->
                     ReducedNode(ns, g0, g, head, Ascending(Heads(head))[n])]
      /\ red.outs = [n \in DOMAIN g.outs |-> Place(head, head[g.outs[n]])]
  BY DEF StageFusion, ReducedNode
<1>3. blue.nodes = [n \in DOMAIN Ascending(Heads(other)) |->
                      ReducedNode(ms, q0, q, other, Ascending(Heads(other))[n])]
      /\ blue.outs = [n \in DOMAIN q.outs |-> Place(other, other[q.outs[n]])]
  BY DEF StageFusion, ReducedNode
<1> HIDE DEF head, other, red, blue
<1>4. SameHeads(to, g, q, head, other)
  BY <1>1 DEF SameHeads, Renumbers, Components
<1>5. /\ Ascending(Heads(other)) = Through(to, Ascending(Heads(head)))
      /\ \A h \in DOMAIN g.node : Place(other, to[h]) = Place(head, h)
  BY <1>4, GraphIsFinite, ComponentRenumbered
<1>6. ASSUME NEW h \in Heads(head)
      PROVE  ReducedNode(ms, q0, q, other, to[h]) = ReducedNode(ns, g0, g, head, h)
  <2>1. h \in DOMAIN g.node
    BY <1>1, MembersList
  <2>2. Boundary(q, to[h]) <=> Boundary(g, h)
    BY <2>1, NodeRenumbered
  <2>3. Boundary(g, h) => RebuildBoundary(ms, q0, q, other, to[h])
                            = RebuildBoundary(ns, g0, g, head, h)
    BY <1>1, <1>4, <2>2, BoundaryKept
  <2>4. FuseStage(q, other, to[h]) = FuseStage(g, head, h)
    BY <1>1, <1>4, StageKept
  <2> QED
    BY <2>2, <2>3, <2>4 DEF ReducedNode
<1>7. \A n \in DOMAIN Ascending(Heads(head)) : Ascending(Heads(head))[n] \in Heads(head)
  <2>1. Ascending(Heads(head)) \in Seq(Heads(head))
    BY <1>1, HeadsInPlace
  <2> QED
    BY <2>1
<1>8. blue.nodes = red.nodes
  BY <1>2, <1>3, <1>5, <1>6, <1>7 DEF Through
<1>9. blue.outs = red.outs
  <2>1. \A n \in DOMAIN g.outs : g.outs[n] \in DOMAIN g.node /\ head[g.outs[n]] \in DOMAIN g.node
    BY <1>1 DEF Components
  <2>2. DOMAIN q.outs = DOMAIN g.outs /\ \A n \in DOMAIN g.outs : q.outs[n] = to[g.outs[n]]
    BY DEF Renumbers, Through
  <2>3. \A n \in DOMAIN g.outs : Place(other, other[q.outs[n]]) = Place(head, head[g.outs[n]])
    BY <1>1, <1>5, <2>1, <2>2
  <2> QED
    BY <1>2, <1>3, <2>2, <2>3
<1> QED
  BY <1>8, <1>9 DEF red, blue

(* The passes after the engine make the same store of a graph without twins, *)
(* however its nodes are numbered.                                           *)
LEMMA FinishKept ==
  ASSUME NEW ns, NEW g0, NEW g, StoreList(ns), GraphOf(g0, ns), GraphOf(g, ns),
         DOMAIN g.node \subseteq DOMAIN g0.node, g.outs \in Seq(DOMAIN g.node),
         NEW ms, NEW q0, NEW q, StoreList(ms), GraphOf(q0, ms), GraphOf(q, ms),
         DOMAIN q.node \subseteq DOMAIN q0.node, q.outs \in Seq(DOMAIN q.node),
         SameTokens(ns, g0, ms, q0), NoTwins(q),
         NEW to, Renumbers(to, g, q), NEW mode \in FusionModes
  PROVE  /\ Finish(ms, q0, q, mode).nodes = Finish(ns, g0, g, mode).nodes
         /\ Finish(ms, q0, q, mode).outs = Finish(ns, g0, g, mode).outs
<1> DEFINE c == Cse(g)
           d == Cse(q)
           red == StageFusion(ns, g0, c, mode)
           blue == StageFusion(ms, q0, d, mode)
<1>1. NoTwins(g)
  <2> SUFFICES ASSUME NEW i \in DOMAIN g.node, NEW j \in DOMAIN g.node,
                      g.node[i].token = g.node[j].token, g.node[i].inputs = g.node[j].inputs
               PROVE  i = j
    BY DEF NoTwins
  <2>1. /\ q.node[to[i]].token = q.node[to[j]].token
        /\ q.node[to[i]].inputs = q.node[to[j]].inputs
    BY DEF Renumbers
  <2>2. OneToOne(to, DOMAIN g.node, DOMAIN q.node)
    BY OrderReflected DEF Renumbers
  <2>3. to[i] = to[j]
    BY <2>1, <2>2 DEF NoTwins, OneToOne
  <2> QED
    BY <2>2, <2>3 DEF OneToOne
<1>2. SameGraph(c, g) /\ GraphOf(c, ns)
  BY <1>1, CseKeepsTwinless
<1>3. SameGraph(d, q) /\ GraphOf(d, ms)
  BY CseKeepsTwinless
<1> HIDE DEF c, d
<1>4. Renumbers(to, c, d)
  <2>1. /\ DOMAIN c.node = DOMAIN g.node /\ DOMAIN d.node = DOMAIN q.node
        /\ c.outs = g.outs /\ d.outs = q.outs
    BY <1>2, <1>3 DEF SameGraph
  <2>2. KeepsOrder(to, DOMAIN c.node, DOMAIN d.node)
        /\ \A k \in DOMAIN d.node : \E i \in DOMAIN c.node : to[i] = k
    BY <2>1 DEF Renumbers
  <2>3. ASSUME NEW i \in DOMAIN c.node
        PROVE  /\ d.node[to[i]].token = c.node[i].token
               /\ d.node[to[i]].inputs = Through(to, c.node[i].inputs)
    <3>1. to[i] \in DOMAIN q.node
      BY <2>1, <2>2 DEF KeepsOrder
    <3> QED
      BY <1>2, <1>3, <2>1, <3>1 DEF SameGraph, Renumbers
  <2>4. d.outs = Through(to, c.outs)
    BY <2>1 DEF Renumbers
  <2> QED
    BY <2>2, <2>3, <2>4 DEF Renumbers
<1>5. blue.nodes = red.nodes /\ blue.outs = red.outs
  <2>1. /\ DOMAIN c.node \subseteq DOMAIN g0.node /\ c.outs \in Seq(DOMAIN c.node)
        /\ DOMAIN d.node \subseteq DOMAIN q0.node
    BY <1>2, <1>3 DEF SameGraph
  <2> QED
    BY <1>2, <1>3, <1>4, <2>1, FusionKept
<1>6. /\ Finish(ns, g0, g, mode) = FromReduced(red)
      /\ Finish(ms, q0, q, mode) = FromReduced(blue)
  BY DEF Finish, c, d
<1> HIDE DEF red, blue
<1>7. /\ FromReduced(blue).nodes = FromReduced(red).nodes
      /\ FromReduced(blue).outs = FromReduced(red).outs
  BY <1>5 DEF FromReduced
<1> QED
  BY <1>6, <1>7
=============================================================================
