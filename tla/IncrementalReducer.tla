------------------------- MODULE IncrementalReducer -------------------------
(***************************************************************************)
(* Reducing a graph while it is recorded (optimizer/incremental.rs and its *)
(* binding in lib.rs).  The reducer has a mutex of its own; a step takes   *)
(* it, clones what the store recorded since the last step and canonicalizes*)
(* the clone node by node, while other threads go on recording.  finalize  *)
(* reads its outputs before it takes the reducer's mutex, steps, and runs  *)
(* the reduction pipeline over the canonical nodes.                        *)
(*                                                                         *)
(* The reducer is always given the same store, as its interface requires.  *)
(* Its intern table holds exactly its canonical nodes at their positions   *)
(* and is not modelled apart from them.                                    *)
(***************************************************************************)
EXTENDS Reduction, Denotation

CONSTANTS Threads,     \* the threads that call step and finalize
          NoThread,    \* the reducer's mutex is free
          Shapes,      \* operators with an arity: [op, arity]
          MaxNodes,    \* bound on the recorded nodes
          MaxOutputs,  \* bound on the outputs finalize is called with
          Modes        \* the fusion modes finalize is called with

ASSUME NoThreadIsNone == NoThread \notin Threads
ASSUME ShapesAreOperators ==
  \A s \in Shapes : s.arity \in Nat /\ s.op \in Operators
ASSUME ModesAreKnown == Modes \subseteq FusionModes

VARIABLES arena,      \* the store's nodes
          canon,      \* canon_nodes
          map,        \* recorded id -> canonical id; its length is the watermark
          work,       \* total_work
          owner,      \* who holds the reducer's mutex
          poisoned,   \* a thread panicked while it held it
          pc,         \* where each thread is
          call,       \* its call: "step" or a finalize request [outs, mode]
          delta,      \* the nodes its step still has to consume
          taken,      \* how many nodes its step started with
          reduced     \* what its last finalize returned

vars == <<arena, canon, map, work, owner, poisoned, pc, call, delta, taken, reduced>>

Step == [tag |-> "step", outs |-> <<>>, mode |-> "SingleUse"]
Finalize(os, m) == [tag |-> "finalize", outs |-> os, mode |-> m]

NoGraph == [tag |-> "none", nodes |-> <<>>, outs |-> <<>>, places |-> <<>>, over |-> 0]

Init ==
  /\ arena = <<>> /\ canon = <<>> /\ map = <<>> /\ work = 0
  /\ owner = NoThread /\ poisoned = FALSE
  /\ pc = [t \in Threads |-> "idle"]
  /\ call = [t \in Threads |-> Step]
  /\ delta = [t \in Threads |-> <<>>]
  /\ taken = [t \in Threads |-> 0]
  /\ reduced = [t \in Threads |-> NoGraph]

\* Any thread records in the store; only its own mutex guards that.
Record ==
  /\ Len(arena) < MaxNodes
  /\ \E s \in Shapes : \E inputs \in [1 .. s.arity -> IdsOf(arena)] :
       /\ ~ Contains(arena, WithInputs(s.op, inputs))
       /\ arena' = Append(arena, WithInputs(s.op, inputs))
  /\ UNCHANGED <<canon, map, work, owner, poisoned, pc, call, delta, taken, reduced>>

Goto(t, from, to) == pc[t] = from /\ pc' = [pc EXCEPT ![t] = to]

CallStep(t) ==
  /\ Goto(t, "idle", "lock")
  /\ call' = [call EXCEPT ![t] = Step]
  /\ UNCHANGED <<arena, canon, map, work, owner, poisoned, delta, taken, reduced>>

\* finalize checks its outputs against node_count, or reads the store's
\* marks: either way they are ids of the store by now.
CallFinalize(t, os, m) ==
  /\ Goto(t, "idle", "lock")
  /\ call' = [call EXCEPT ![t] = Finalize(os, m)]
  /\ reduced' = [reduced EXCEPT ![t] = NoGraph]
  /\ UNCHANGED <<arena, canon, map, work, owner, poisoned, delta, taken>>

Lock(t) ==
  /\ owner = NoThread /\ ~ poisoned
  /\ Goto(t, "lock", "snapshot")
  /\ owner' = t
  /\ UNCHANGED <<arena, canon, map, work, poisoned, call, delta, taken, reduced>>

\* lock().expect: the call ends in a panic of its own.
LockPoisoned(t) ==
  /\ poisoned
  /\ Goto(t, "lock", "idle")
  /\ UNCHANGED <<arena, canon, map, work, owner, poisoned, call, delta, taken, reduced>>

\* Mutants: the whole arena is taken, or finalize takes nothing.
SnapshotAll(t) ==
  /\ Goto(t, "snapshot", "consume")
  /\ delta' = [delta EXCEPT ![t] = arena]
  /\ taken' = [taken EXCEPT ![t] = Len(arena)]
  /\ UNCHANGED <<arena, canon, map, work, owner, poisoned, call, reduced>>

SnapshotForStep(t) ==
  /\ Goto(t, "snapshot", "consume")
  /\ delta' = [delta EXCEPT ![t] = IF call[t].tag = "step"
                                   THEN SubSeq(arena, Len(map) + 1, Len(arena))
                                   ELSE <<>>]
  /\ taken' = [taken EXCEPT ![t] = Len(delta'[t])]
  /\ UNCHANGED <<arena, canon, map, work, owner, poisoned, call, reduced>>

\* snapshot_from(watermark)
Snapshot(t) ==
  /\ Goto(t, "snapshot", "consume")
  /\ delta' = [delta EXCEPT ![t] = SubSeq(arena, Len(map) + 1, Len(arena))]
  /\ taken' = [taken EXCEPT ![t] = Len(delta'[t])]
  /\ UNCHANGED <<arena, canon, map, work, owner, poisoned, call, reduced>>

-----------------------------------------------------------------------------
(* canonicalize, one node at a time.                                       *)

\* The next node with its inputs mapped to canonical ids.
MappedNext(t) ==
  LET key == Head(delta[t])
  IN WithInputs(key, [n \in DOMAIN key.inputs |-> map[key.inputs[n] + 1]])

\* Mutants: identities known by their name, or only with the scalar left.
IsIdentityByName(key) == key.kind = "op" /\ key.name \in {"add", "mul"}
IsLeftIdentity(key) == Token(key) = <<"op", "add", "scalar=0.0;side=l">>

IsIdentity(key) == Token(key) \in IDENTITY_TOKENS
\* Mutant: a list of symmetric ops of its own, without "add".
IsSymmetricMul(key) == Token(key) = <<"op", "mul", "">> /\ Len(key.inputs) = 2

IsSymmetric(key) == SymmetricToken(Token(key)) /\ Len(key.inputs) = 2
Swapped(key) == WithInputs(key, <<key.inputs[2], key.inputs[1]>>)

\* One node is done: its canonical id is id.
Consumed(t, id) ==
  /\ map' = Append(map, id)
  /\ delta' = [delta EXCEPT ![t] = Tail(@)]
  /\ UNCHANGED <<arena, work, owner, poisoned, pc, call, taken, reduced>>

Consuming(t) == pc[t] = "consume" /\ delta[t] # <<>>

\* An identity op is its first input; the arity is not looked at.
ConsumeIdentity(t) ==
  LET key == MappedNext(t) IN
  /\ Consuming(t) /\ IsIdentity(key) /\ key.inputs # <<>>
  /\ Consumed(t, key.inputs[1])
  /\ UNCHANGED canon

\* inputs[0] of an identity op without inputs: the panic poisons the mutex.
ConsumePanics(t) ==
  /\ Consuming(t) /\ IsIdentity(MappedNext(t)) /\ MappedNext(t).inputs = <<>>
  /\ Goto(t, "consume", "idle")
  /\ poisoned' = TRUE
  /\ owner' = NoThread
  /\ delta' = [delta EXCEPT ![t] = <<>>]
  /\ UNCHANGED <<arena, canon, map, work, call, taken, reduced>>

ConsumeKnown(t) ==
  LET key == MappedNext(t) IN
  /\ Consuming(t) /\ ~ IsIdentity(key)
  /\ Contains(canon, key)
  /\ Consumed(t, IndexOf(canon, key))
  /\ UNCHANGED canon

\* The commuted twin of a symmetric op is the node recorded first.
ConsumeTwin(t) ==
  LET key == MappedNext(t) IN
  /\ Consuming(t) /\ ~ IsIdentity(key) /\ IsSymmetric(key)
  /\ ~ Contains(canon, key) /\ Contains(canon, Swapped(key))
  /\ Consumed(t, IndexOf(canon, Swapped(key)))
  /\ UNCHANGED canon

\* Mutant: the id of a new canonical node is one too high.
ConsumeNewAbove(t) ==
  LET key == MappedNext(t) IN
  /\ Consuming(t) /\ ~ IsIdentity(key) /\ ~ Contains(canon, key)
  /\ canon' = Append(canon, key)
  /\ Consumed(t, Len(canon) + 1)

ConsumeNew(t) ==
  LET key == MappedNext(t) IN
  /\ Consuming(t) /\ ~ IsIdentity(key) /\ ~ Contains(canon, key)
  /\ IsSymmetric(key) => ~ Contains(canon, Swapped(key))
  /\ canon' = Append(canon, key)
  /\ Consumed(t, Len(canon))

-----------------------------------------------------------------------------
\* Mutant: what finalize consumes is not counted.
StepDoneUncounted(t) ==
  /\ delta[t] = <<>>
  /\ IF call[t].tag = "step"
     THEN Goto(t, "consume", "idle") /\ owner' = NoThread /\ work' = work + taken[t]
     ELSE Goto(t, "consume", "finalize") /\ UNCHANGED <<owner, work>>
  /\ taken' = [taken EXCEPT ![t] = 0]
  /\ UNCHANGED <<arena, canon, map, poisoned, call, delta, reduced>>

\* The loop is over: count the delta; step returns, finalize goes on.
StepDone(t) ==
  /\ delta[t] = <<>>
  /\ IF call[t].tag = "step"
     THEN Goto(t, "consume", "idle") /\ owner' = NoThread
     ELSE Goto(t, "consume", "finalize") /\ UNCHANGED owner
  /\ work' = work + taken[t]
  /\ taken' = [taken EXCEPT ![t] = 0]
  /\ UNCHANGED <<arena, canon, map, poisoned, call, delta, reduced>>

\* The canonical nodes have nothing to merge, so what the engine extracts of
\* them is what the outputs reach (NothingLeftToMerge).
ReduceCanonical(os, m) ==
  LET kept == ToEngineGraph(canon, os) IN Finish(canon, kept, kept, m)

Mapped(os) == [n \in DOMAIN os |-> map[os[n] + 1]]

\* An output the map does not know would be refused here, after the check.
FinalizeDone(t) ==
  /\ Goto(t, "finalize", "idle")
  /\ owner' = NoThread
  /\ LET os == call[t].outs
         red == ReduceCanonical(Mapped(os), call[t].mode)
     IN reduced' = [reduced EXCEPT ![t] =
          IF \A n \in DOMAIN os : os[n] < Len(map)
          THEN [tag |-> "graph", nodes |-> red.nodes, outs |-> red.outs,
                places |-> red.places, over |-> Len(map)]
          ELSE [NoGraph EXCEPT !.tag = "bad"]]
  /\ UNCHANGED <<arena, canon, map, work, poisoned, call, delta, taken>>

Next ==
  \/ Record
  \/ \E t \in Threads :
       \/ CallStep(t)
       \/ \E os \in SeqOf(IdsOf(arena), MaxOutputs), m \in Modes : CallFinalize(t, os, m)
       \/ Lock(t) \/ LockPoisoned(t) \/ Snapshot(t)
       \/ ConsumeIdentity(t) \/ ConsumePanics(t) \/ ConsumeKnown(t)
       \/ ConsumeTwin(t) \/ ConsumeNew(t)
       \/ StepDone(t) \/ FinalizeDone(t)

Spec == Init /\ [][Next]_vars

-----------------------------------------------------------------------------
TypeOK ==
  /\ map \in Seq(0 .. (Len(canon) - 1))
  /\ work \in Nat
  /\ owner \in Threads \union {NoThread}
  /\ poisoned \in BOOLEAN
  /\ pc \in [Threads -> {"idle", "lock", "snapshot", "consume", "finalize"}]
  /\ \A t \in Threads : ToSet(delta[t]) \subseteq ToSet(arena)
  /\ taken \in [Threads -> Nat]

\* The incrementality witness: whenever anyone can look (the mutex is free
\* and not poisoned), every consumed node was counted once, however steps of
\* several threads and recording interleaved.
WorkIsWatermark == owner = NoThread /\ ~ poisoned => work = Len(map)

\* What is consumed is a prefix of the arena, and a running step continues
\* it with the nodes that follow: none is skipped, none is taken twice.
ConsumesInOrder ==
  \A t \in Threads :
    pc[t] = "consume" =>
      /\ owner = t
      /\ Len(map) + Len(delta[t]) <= Len(arena)
      /\ \A n \in DOMAIN delta[t] : delta[t][n] = arena[Len(map) + n]

\* One pass reaches the fixpoint of equality saturation: two consumed nodes
\* share a canonical node exactly when the laws make them equal, and that
\* canonical node computes what they compute.
MapIsExact ==
  LET term == Terms(arena)
      canonTerm == Terms(canon)
  IN \A i, j \in 0 .. (Len(map) - 1) :
       /\ map[i + 1] = map[j + 1] <=> term[i] = term[j]
       /\ canonTerm[map[i + 1]] = term[i]

\* No rule of the engine applies to the canonical nodes, so finalize does not
\* depend on how far the engine would get.
NothingLeftToMerge ==
  LET graph == [node |-> [i \in IdsOf(canon) |-> [token |-> Token(canon[i + 1]),
                                                  inputs |-> canon[i + 1].inputs]],
                outs |-> <<>>]
  IN \A i, j \in IdsOf(canon) :
       Equal(graph, [k \in IdsOf(canon) |-> k], i, j) => i = j

\* Outputs checked before the mutex was taken are still known afterwards.
FinalizeAccepts == \A t \in Threads : reduced[t].tag # "bad"

\* Finalizing keeps meaning.
FinalizeKeepsMeaning ==
  \A t \in Threads :
    reduced[t].tag = "graph" =>
      \A n \in DOMAIN call[t].outs :
        pc[t] = "idle" /\ call[t].tag = "finalize" =>
          Terms(reduced[t].nodes)[reduced[t].places[n]] = Terms(arena)[call[t].outs[n]]

-----------------------------------------------------------------------------
(* The one-shot reduction of the first n nodes, the engine run to the end. *)

SaturatedClass(g) ==
  LET rep[i \in DOMAIN g.node] ==
        LET equals == {j \in DOMAIN g.node : j < i /\ Equal(g, rep, i, j)}
        IN IF equals = {} THEN i ELSE rep[Min(equals)]
  IN rep

OneShot(ns, os, m) ==
  LET kept == ToEngineGraph(ns, os)
  IN Finish(ns, kept, Quotient(kept, SaturatedClass(kept)), m)

Seen(t) == SubSeq(arena, 1, reduced[t].over)

MatchesOneShot(t) ==
  LET full == OneShot(Seen(t), call[t].outs, call[t].mode)
  IN reduced[t].nodes = full.nodes /\ reduced[t].outs = full.outs

Finalized(t) == pc[t] = "idle" /\ call[t].tag = "finalize" /\ reduced[t].tag = "graph"

\* finalize and reduce give the same store, node for node, when nothing that
\* was recorded is dead.
FinalizeMatchesReduceIfLive ==
  \A t \in Threads :
    Finalized(t)
      /\ Reachable(Seen(t), call[t].outs) = IdsOf(Seen(t))
      => MatchesOneShot(t)

\* The claim as the source states it: the same reduced graph, always.
FinalizeMatchesReduce == \A t \in Threads : Finalized(t) => MatchesOneShot(t)
=============================================================================
