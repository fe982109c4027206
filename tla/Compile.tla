------------------------------ MODULE Compile ------------------------------
(***************************************************************************)
(* Recording a graph and compiling it: reduce_with and reduce_with_outputs *)
(* of store.rs, with the equality-saturation engine as the steps in which  *)
(* it merges classes.                                                      *)
(*                                                                         *)
(* egg is external to the repository.  What is used of it: it merges in an *)
(* order of its own, and when it returns the e-graph is closed under       *)
(* congruence.  It need not be closed under the rules: the run stops at 12 *)
(* iterations, at the node limit or at egg's own time limit, and its       *)
(* scheduler holds back a rule that matches too often, so any match of a   *)
(* rule may have been left unapplied.                                      *)
(***************************************************************************)
EXTENDS Reduction, Denotation

CONSTANTS Shapes,      \* operators with an arity: [op, arity]
          MaxNodes,    \* bound on the recorded nodes
          MaxOutputs,  \* bound on the outputs of a request
          Modes,       \* the fusion modes requested
          AgainAllowed, \* may a reduced graph be reduced again
          MaxAgain     \* bound on its nodes, and on those of the graph before

ASSUME ShapesAreOperators ==
  \A s \in Shapes : s.arity \in Nat /\ s.op \in Operators
ASSUME ModesAreKnown == Modes \subseteq FusionModes

VARIABLES arena,      \* the recorded keys
          phase,      \* "record", "saturate", "extracted" or "done"
          outs,       \* the outputs of the compile request
          mode,       \* its fusion mode
          kept,       \* the engine graph: what the outputs reach
          class,      \* the engine's classes, each by its earliest id
          canonical,  \* the graph the engine extracted
          result      \* the reduced store, and the report

vars == <<arena, phase, outs, mode, kept, class, canonical, result>>

EmptyGraph == [node |-> <<>>, outs |-> <<>>]
NoResult == [nodes |-> <<>>, outs |-> <<>>, places |-> <<>>]

Init ==
  /\ arena = <<>>
  /\ phase = "record"
  /\ outs = <<>> /\ mode = "SingleUse"
  /\ kept = EmptyGraph /\ class = <<>>
  /\ canonical = EmptyGraph /\ result = NoResult

\* The bounds on recording: a store that holds stages came out of a reduction.
HasRoom ==
  Len(arena) < IF \E n \in DOMAIN arena : arena[n].kind = "stage"
               THEN MaxAgain ELSE MaxNodes

\* Mutant: an input may be the node itself.
RecordSelf ==
  /\ phase = "record"
  /\ HasRoom
  /\ \E s \in Shapes : \E inputs \in [1 .. s.arity -> 0 .. Len(arena)] :
       arena' = Append(arena, WithInputs(s.op, inputs))
  /\ UNCHANGED <<phase, outs, mode, kept, class, canonical, result>>

\* add_*: a key that is there already changes nothing.
Record ==
  /\ phase = "record"
  /\ HasRoom
  /\ \E s \in Shapes : \E inputs \in [1 .. s.arity -> IdsOf(arena)] :
       /\ ~ Contains(arena, WithInputs(s.op, inputs))
       /\ arena' = Append(arena, WithInputs(s.op, inputs))
  /\ UNCHANGED <<phase, outs, mode, kept, class, canonical, result>>

\* The request clones the arena, drops what its outputs do not reach and
\* loads the rest into the engine.
Request(os, m) ==
  /\ phase = "record"
  /\ phase' = "saturate"
  /\ outs' = os
  /\ mode' = m
  /\ kept' = ToEngineGraph(arena, os)
  /\ class' = [i \in DOMAIN kept'.node |-> i]
  /\ UNCHANGED <<arena, canonical, result>>

\* Mutant: nodes with one operator are merged.
MergeByToken(i, j) ==
  /\ phase = "saturate"
  /\ class[i] # class[j]
  /\ kept.node[i].token = kept.node[j].token
  /\ class' = Merge(class, i, j)
  /\ UNCHANGED <<arena, phase, outs, mode, kept, canonical, result>>

MergeClasses(i, j) ==
  /\ phase = "saturate"
  /\ class[i] # class[j]
  /\ Equal(kept, class, i, j)
  /\ class' = Merge(class, i, j)
  /\ UNCHANGED <<arena, phase, outs, mode, kept, canonical, result>>

\* egg rebuilds before it returns: equal e-nodes are in one class.
Rebuilt ==
  \A i, j \in DOMAIN kept.node : Congruent(kept, class, i, j) => class[i] = class[j]

Extract ==
  /\ phase = "saturate"
  /\ Rebuilt
  /\ phase' = "extracted"
  /\ canonical' = Quotient(kept, class)
  /\ UNCHANGED <<arena, outs, mode, kept, class, result>>

\* CSE, stage fusion and the rebuild into a fresh store.
FuseAndRebuild ==
  /\ phase = "extracted"
  /\ phase' = "done"
  /\ result' = Finish(arena, kept, canonical, mode)
  /\ UNCHANGED <<arena, outs, mode, kept, class, canonical>>

\* The request is over; nothing of it outlives it but the reduced store.
Forget ==
  /\ phase = "done"
  /\ phase' = "record"
  /\ outs' = <<>> /\ mode' = "SingleUse"
  /\ kept' = EmptyGraph /\ class' = <<>>
  /\ canonical' = EmptyGraph /\ result' = NoResult

\* The caller records on: compiling left the store as it was.
RecordOn == Forget /\ UNCHANGED arena

\* The caller goes on with the reduced store, which is a store like any other.
ReduceAgain ==
  /\ AgainAllowed /\ Len(arena) <= MaxAgain
  /\ Forget
  /\ arena' = result.nodes

Next ==
  \/ Record
  \/ \E os \in SeqOf(IdsOf(arena), MaxOutputs), m \in Modes : Request(os, m)
  \/ \E i, j \in DOMAIN kept.node : MergeClasses(i, j)
  \/ Extract \/ FuseAndRebuild
  \/ RecordOn \/ ReduceAgain

Spec == Init /\ [][Next]_vars

-----------------------------------------------------------------------------
Done == phase = "done"

\* Every key refers to earlier nodes only.
TopologicalList(ns) ==
  \A n \in DOMAIN ns : \A i \in ToSet(ns[n].inputs) : i < n - 1

TypeOK ==
  /\ TopologicalList(arena)
  /\ phase \in {"record", "saturate", "extracted", "done"}
  /\ mode \in FusionModes
  /\ ToSet(outs) \subseteq IdsOf(arena)
  /\ DOMAIN kept.node \subseteq IdsOf(arena)
  /\ class \in [DOMAIN kept.node -> DOMAIN kept.node]
  /\ DOMAIN canonical.node \subseteq DOMAIN kept.node

\* Each requested output is, in the reduced graph, a node that computes what
\* the requested node computed.
OutputsKeepMeaning ==
  \A n \in DOMAIN outs :
    Terms(result.nodes)[result.places[n]] = Terms(arena)[outs[n]]

\* What the passes rely on: a token names one operator.
TokensNameOperators ==
  \A i, j \in DOMAIN kept.node :
    kept.node[i].token = kept.node[j].token =>
      Operator(arena[i + 1]) = Operator(arena[j + 1])

\* Where tokens name operators, reduction keeps meaning, whatever the engine
\* managed to merge, in whatever order, in both fusion modes.
SemanticsPreserved == Done /\ TokensNameOperators => OutputsKeepMeaning

\* The claim without the condition: every store can be reduced, a reduced
\* one too, and keeps its meaning.
ReductionSound == Done => OutputsKeepMeaning

\* A labelling of the nodes is an interpretation of the graph when it gives
\* one label to nodes the rules make equal under it.
Lawful(label) ==
  \A i, j \in DOMAIN kept.node :
    Equal(kept, label, i, j) => label[i] = label[j]

\* Merging is sound at every moment, not only when the engine is finished,
\* so stopping it early (its limits) never leaves a wrong class: what it
\* merged is equal under every interpretation of the operators.
ClassesForced ==
  phase = "saturate" =>
    \A label \in [DOMAIN kept.node -> DOMAIN kept.node] :
      Lawful(label) =>
        \A i, j \in DOMAIN kept.node : class[i] = class[j] => label[i] = label[j]

\* The extracted nodes are each the earliest of its class, and their inputs
\* were extracted before them.
ExtractionOrdered ==
  phase \in {"extracted", "done"} =>
    \A i \in DOMAIN canonical.node : \A j \in ToSet(canonical.node[i].inputs) :
      j \in DOMAIN canonical.node /\ j < i

\* The engine reached its fixpoint: no match is left unapplied.
Saturated == \A i, j \in DOMAIN kept.node : Equal(kept, class, i, j) => class[i] = class[j]

\* At the fixpoint no two nodes that must be equal are left: the graph the
\* engine extracts is as small as the laws allow.
SaturatedIsIrredundant ==
  phase \in {"extracted", "done"} /\ Saturated =>
    \A i, j \in DOMAIN canonical.node : Terms(arena)[i] = Terms(arena)[j] => i = j

\* The reduced store is a graph: topological, its stages closed, its outputs
\* ids of its nodes, and nothing in it is dead.
ResultWellFormed ==
  Done =>
    /\ TopologicalList(result.nodes)
    /\ \A n \in DOMAIN result.nodes : StageClosed(result.nodes[n])
    /\ \A n \in DOMAIN result.outs : result.outs[n] < Len(result.nodes)
    /\ Reachable(result.nodes, result.outs) = IdsOf(result.nodes)

\* Ops recorded on a reduced store share the graph with its stages.
StagesMeetOps ==
  /\ \E i \in DOMAIN kept.node : arena[i + 1].kind = "stage"
  /\ \E i \in DOMAIN kept.node : arena[i + 1].kind = "op"

\* Fusion neither drops nor repeats work: counting the members of stages, the
\* reduced graph has as many nodes as the canonical graph.
EachNodeOnce ==
  Done /\ ~ StagesMeetOps =>
    LET Size(token) == IF token[1] = "stage" THEN token[2] ELSE 1
    IN SumFunction([i \in DOMAIN canonical.node |-> Size(canonical.node[i].token)])
         = FoldLeft(LAMBDA sum, key : sum + Size(Token(key)), 0, result.nodes)

\* reduced_nodes of the report is counted before the rebuild interns the
\* reduced keys; the count is right because interning merges none of them,
\* unless an op fuses into a stage the graph already holds.
ReportCountsRebuilt ==
  Done /\ ~ StagesMeetOps =>
    LET red == StageFusion(arena, kept, Cse(canonical), mode)
    IN Len(result.nodes) = Len(red.nodes)
       /\ Len(red.nodes) = red.stages + red.boundaries

\* A reduced store is a fixpoint: without dead nodes and recorded ops,
\* reducing it gives the same store, id for id.
ReducedIsFixpoint ==
  /\ Done /\ TokensNameOperators
  /\ DOMAIN kept.node = IdsOf(arena)
  /\ \A n \in DOMAIN arena : arena[n].kind # "op"
  => result.nodes = arena /\ result.places = outs

\* Several requested outputs are several outputs of the reduced store.
RequestedOutputsKept ==
  Done => Len(result.outs) = Cardinality(ToSet(outs))

\* Maximal fusion only ever fuses more: two nodes in one single-use stage
\* are in one maximal stage.
MaximalFusesMore ==
  phase = "extracted" =>
    LET single == SingleUseHead(canonical)
        maximal == MaximalHead(canonical)
    IN \A i, j \in DOMAIN canonical.node :
         single[i] = single[j] => maximal[i] = maximal[j]
=============================================================================
