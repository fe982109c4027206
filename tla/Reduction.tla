----------------------------- MODULE Reduction -----------------------------
(***************************************************************************)
(* The passes of the reduction pipeline (optimizer/mod.rs, engine.rs,      *)
(* store.rs from_reduced) as operators.                                    *)
(*                                                                         *)
(* The code renumbers nodes after every pass, always in ascending order;   *)
(* every choice it makes (the earliest of a class, the last of a stage)    *)
(* depends on that order only.  Here nodes keep the ids they were recorded *)
(* with until the reduced graph is rebuilt, so a pass maps a graph over a  *)
(* set of ids to a graph over a subset of them.                            *)
(*                                                                         *)
(* A recorded graph is a sequence of keys, id i at position i + 1.  An     *)
(* engine graph is [node, outs], where node maps an id to its token and    *)
(* its inputs.                                                             *)
(***************************************************************************)
EXTENDS NodeKeys, FiniteSets, SequencesExt

Through(f, s) == [n \in DOMAIN s |-> f[s[n]]]

Ascending(S) ==
  [n \in 1 .. Cardinality(S) |->
     CHOOSE i \in S : Cardinality({j \in S : j < i}) = n - 1]

\* The entries of s but those of skip, each once, in the order of their first
\* occurrences.
FirstSeen(s, skip) ==
  Through(s, Ascending({n \in DOMAIN s :
                          s[n] \notin skip /\ \A m \in 1 .. (n - 1) : s[m] # s[n]}))

-----------------------------------------------------------------------------
(* dead_code_elimination: what the outputs reach.                          *)

IdsOf(ns) == 0 .. (Len(ns) - 1)

Closed(ns, S) == \A i \in S : ToSet(ns[i + 1].inputs) \subseteq S

Reachable(ns, outs) ==
  {i \in IdsOf(ns) :
     \A S \in SUBSET IdsOf(ns) : ToSet(outs) \subseteq S /\ Closed(ns, S) => i \in S}

\* Mutant: nothing is eliminated.
ToEngineGraphAll(ns, outs) ==
  [node |-> [i \in IdsOf(ns) |-> [token |-> Token(ns[i + 1]), inputs |-> ns[i + 1].inputs]],
   outs |-> outs]

ToEngineGraph(ns, outs) ==
  [node |-> [i \in Reachable(ns, outs) |->
               [token |-> Token(ns[i + 1]), inputs |-> ns[i + 1].inputs]],
   outs |-> outs]

\* The key a boundary node is rebuilt from: the first kept one of its token.
Template(ns, g, token) ==
  ns[Min({i \in DOMAIN g.node : g.node[i].token = token}) + 1]

-----------------------------------------------------------------------------
(* The rewrite engine.  class maps an id to the earliest id known equal.   *)

\* Two nodes are one e-node: same token, equal inputs.
Congruent(g, class, i, j) ==
  /\ g.node[i].token = g.node[j].token
  /\ Through(class, g.node[i].inputs) = Through(class, g.node[j].inputs)

\* Mutant: the right-hand side of the rule forgets to swap.
CommutedToItself(g, class, i, j) ==
  /\ g.node[i].token = g.node[j].token
  /\ SymmetricToken(g.node[i].token)
  /\ Through(class, g.node[i].inputs) = Through(class, g.node[j].inputs)

\* commute: (op ?a ?b) is (op ?b ?a); only a pair of inputs matches.
Commuted(g, class, i, j) ==
  /\ g.node[i].token = g.node[j].token
  /\ SymmetricToken(g.node[i].token)
  /\ Len(g.node[i].inputs) = 2 /\ Len(g.node[j].inputs) = 2
  /\ class[g.node[i].inputs[1]] = class[g.node[j].inputs[2]]
  /\ class[g.node[i].inputs[2]] = class[g.node[j].inputs[1]]

\* identity: (tok ?x) is ?x; only a single input matches.
IsIdentityOf(g, i, j) ==
  /\ g.node[i].token \in IDENTITY_TOKENS
  /\ g.node[i].inputs = <<j>>

Equal(g, class, i, j) ==
  \/ Congruent(g, class, i, j)
  \/ Commuted(g, class, i, j)
  \/ IsIdentityOf(g, i, j)

\* Mutant: the latest node of a class names it.
MergeLate(class, i, j) ==
  LET high == IF class[i] < class[j] THEN class[j] ELSE class[i]
  IN [k \in DOMAIN class |->
        IF class[k] \in {class[i], class[j]} THEN high ELSE class[k]]

Merge(class, i, j) ==
  LET low == IF class[i] < class[j] THEN class[i] ELSE class[j]
  IN [k \in DOMAIN class |->
        IF class[k] \in {class[i], class[j]} THEN low ELSE class[k]]

\* Extraction: the quotient of the graph by class, on the earliest nodes.
Quotient(g, class) ==
  [node |-> [i \in {k \in DOMAIN g.node : class[k] = k} |->
               [g.node[i] EXCEPT !.inputs = Through(class, @)]],
   outs |-> Through(class, g.outs)]

-----------------------------------------------------------------------------
(* cse: an id maps to the earliest node with its token and mapped inputs.  *)

\* Mutant: nodes with one token are one node, whatever they read.
CseMapByToken(g) ==
  [i \in DOMAIN g.node |-> Min({j \in DOMAIN g.node : g.node[j].token = g.node[i].token})]

CseMap(g) ==
  LET same[i \in DOMAIN g.node] ==
        LET twins == {j \in DOMAIN g.node :
                        /\ j < i
                        /\ g.node[j].token = g.node[i].token
                        /\ Through(same, g.node[j].inputs)
                             = Through(same, g.node[i].inputs)}
        IN IF twins = {} THEN i ELSE Min(twins)
  IN same

Cse(g) == Quotient(g, CseMap(g))

-----------------------------------------------------------------------------
(* stage_fusion.  A component is named by its head, its last node.         *)

Boundary(g, i) == BoundaryToken(g.node[i].token)

Consumers(g, i) == {c \in DOMAIN g.node : i \in ToSet(g.node[c].inputs)}

\* Uses are counted per input position: one consumer may use a node twice.
SoleUse(g, i, c) ==
  /\ Consumers(g, i) = {c}
  /\ Cardinality({n \in DOMAIN g.node[c].inputs : g.node[c].inputs[n] = i}) = 1

\* Mutant: only the first output counts.
IsFirstOutput(g, i) == g.outs # <<>> /\ i = g.outs[1]

IsOutput(g, i) == i \in ToSet(g.outs)

\* Mutant: an op joins its only use across a boundary.
SingleUseAcrossBoundary(g) ==
  LET head[i \in DOMAIN g.node] ==
        IF /\ ~ Boundary(g, i) /\ ~ IsOutput(g, i)
           /\ \E c \in Consumers(g, i) : SoleUse(g, i, c)
        THEN head[CHOOSE c \in Consumers(g, i) : TRUE]
        ELSE i
  IN head

\* SingleUse: an op joins the op that is its only use.
SingleUseHead(g) ==
  LET head[i \in DOMAIN g.node] ==
        IF /\ ~ Boundary(g, i) /\ ~ IsOutput(g, i)
           /\ \E c \in Consumers(g, i) : SoleUse(g, i, c) /\ ~ Boundary(g, c)
        THEN head[CHOOSE c \in Consumers(g, i) : TRUE]
        ELSE i
  IN head

\* Maximal: an op joins the one component that holds all its consumers.
MaximalHead(g) ==
  LET head[i \in DOMAIN g.node] ==
        IF /\ ~ Boundary(g, i) /\ ~ IsOutput(g, i)
           /\ Consumers(g, i) # {}
           /\ \A c \in Consumers(g, i) : ~ Boundary(g, c)
           /\ Cardinality({head[c] : c \in Consumers(g, i)}) = 1
        THEN head[CHOOSE c \in Consumers(g, i) : TRUE]
        ELSE i
  IN head

FusionModes == {"SingleUse", "Maximal"}
HeadOf(g, mode) == IF mode = "SingleUse" THEN SingleUseHead(g) ELSE MaximalHead(g)

Heads(head) == {i \in DOMAIN head : head[i] = i}

\* Mutant: a component lists its members from the last to the first.
MembersLatestFirst(head, h) == Reverse(Ascending({i \in DOMAIN head : head[i] = h}))

Members(head, h) == Ascending({i \in DOMAIN head : head[i] = h})

\* A component's place in the reduced list: components in order of heads.
Place(head, h) == Cardinality({k \in Heads(head) : k < h})

\* The components a stage reads, in the order its members first name them.
Slots(g, head, h) ==
  LET reads == [i \in DOMAIN head |-> Through(head, g.node[i].inputs)]
  IN FirstSeen(FlattenSeq(Through(reads, Members(head, h))), {h})

IndexOf(s, e) == (CHOOSE n \in DOMAIN s : s[n] = e) - 1

FuseStage(g, head, h) ==
  LET ops == Members(head, h)
      slots == Slots(g, head, h)
      ref(j) == IF head[j] = h THEN MemberRef(IndexOf(ops, j))
                ELSE InputRef(IndexOf(slots, head[j]))
      stageOp(i) == StageOp(g.node[i].token,
                            [n \in DOMAIN g.node[i].inputs |->
                               ref(g.node[i].inputs[n])])
  IN Stage([n \in DOMAIN ops |-> stageOp(ops[n])],
           [n \in DOMAIN slots |-> Place(head, slots[n])])

\* A boundary node keeps its operator, taken from the template of its token.
RebuildBoundary(ns, g0, g, head, h) ==
  WithInputs(Template(ns, g0, g.node[h].token),
             [n \in DOMAIN g.node[h].inputs |->
                Place(head, head[g.node[h].inputs[n]])])

\* ns and g0, the recorded nodes and the kept graph, give the templates.
StageFusion(ns, g0, g, mode) ==
  LET head == HeadOf(g, mode)
      order == Ascending(Heads(head))
  IN [nodes |-> [n \in DOMAIN order |->
                   IF Boundary(g, order[n])
                   THEN RebuildBoundary(ns, g0, g, head, order[n])
                   ELSE FuseStage(g, head, order[n])],
      outs |-> [n \in DOMAIN g.outs |-> Place(head, head[g.outs[n]])],
      stages |-> Cardinality({h \in Heads(head) : ~ Boundary(g, h)}),
      boundaries |-> Cardinality({h \in Heads(head) : Boundary(g, h)})]

-----------------------------------------------------------------------------
(* from_reduced: intern the reduced keys in a fresh store and mark its     *)
(* outputs, each once.  map says where each reduced node went.             *)

\* Mutant: a key with the token of an earlier one is that key.
InternByToken(acc, k) ==
  LET mapped == WithInputs(k, Through(acc.map, [n \in DOMAIN k.inputs |->
                                                   k.inputs[n] + 1]))
      tokens == [n \in DOMAIN acc.nodes |-> Token(acc.nodes[n])]
  IN IF Contains(tokens, Token(k))
     THEN [acc EXCEPT !.map = Append(@, IndexOf(tokens, Token(k)))]
     ELSE [nodes |-> Append(acc.nodes, mapped),
           map |-> Append(acc.map, Len(acc.nodes))]

InternInto(acc, k) ==
  LET mapped == WithInputs(k, Through(acc.map, [n \in DOMAIN k.inputs |->
                                                   k.inputs[n] + 1]))
  IN IF Contains(acc.nodes, mapped)
     THEN [acc EXCEPT !.map = Append(@, IndexOf(acc.nodes, mapped))]
     ELSE [nodes |-> Append(acc.nodes, mapped),
           map |-> Append(acc.map, Len(acc.nodes))]

InternAll(keys) ==
  LET acc[n \in 0 .. Len(keys)] ==
        IF n = 0 THEN [nodes |-> <<>>, map |-> <<>>] ELSE InternInto(acc[n - 1], keys[n])
  IN acc[Len(keys)]

FromReduced(red) ==
  LET fresh == InternAll(red.nodes)
      outs == [n \in DOMAIN red.outs |-> fresh.map[red.outs[n] + 1]]
  IN [nodes |-> fresh.nodes,
      outs |-> FirstSeen(outs, {}),   \* mark_output skips what is marked
      places |-> outs]            \* where each requested output went

\* What the passes after the engine make of the nodes it extracted.
Finish(ns, g0, canonical, mode) ==
  FromReduced(StageFusion(ns, g0, Cse(canonical), mode))
=============================================================================
