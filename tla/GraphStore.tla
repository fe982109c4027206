----------------------------- MODULE GraphStore -----------------------------
(***************************************************************************)
(* The interned graph store (store.rs): an arena of node keys, the intern  *)
(* table that finds a key's id, and the marked outputs, all behind one     *)
(* mutex.  Threads intern keys, mark outputs and read the store through    *)
(* the calls the Python bindings make (lib.rs, serialize.rs), some of      *)
(* which take the mutex twice.                                             *)
(*                                                                         *)
(* intern is modelled statement by statement inside its critical section.  *)
(* A section that is one statement long (marking, cloning) is one step     *)
(* that needs the mutex free: nothing can happen inside it.                *)
(***************************************************************************)
EXTENDS Naturals, Sequences, SequencesExt

CONSTANTS Recorders,      \* threads that intern keys
          Readers,        \* threads that mark outputs and read the graph
          Keys,           \* the keys callers record
          NoThread,       \* the mutex is free
          NoKey,          \* argument of a thread that never interned
          NoId,           \* the intern table has no entry
          MarkedIds,      \* the ids callers mark
          OutputRequests  \* explicit output sets of compile and serialize calls

\* A thread may be both.
Threads == Recorders \union Readers

ASSUME KeysHaveInputs == \A k \in Keys : k.inputs \in Seq(Nat)
ASSUME NoThreadIsNone == NoThread \notin Threads
ASSUME NoKeyIsNone == NoKey \notin Keys
ASSUME NoIdIsNone == NoId \notin Nat
ASSUME MarkedAreIds == MarkedIds \subseteq Nat
ASSUME RequestsAreIds == \A r \in OutputRequests : r \in Seq(Nat)

VARIABLES nodes,     \* Inner.nodes, id i at position i + 1
          intern,    \* Inner.intern
          outputs,   \* Inner.outputs, in mark order
          owner,     \* who holds the mutex
          pc,        \* where each thread is
          key,       \* the argument of its last intern
          reply,     \* what intern answered
          held,      \* outputs a thread holds between two sections of one call
          view       \* what its last whole-graph read returned

vars == <<nodes, intern, outputs, owner, pc, key, reply, held, view>>

None == [tag |-> "none", id |-> 0]
Ok(i) == [tag |-> "ok", id |-> i]
Bad(i) == [tag |-> "bad", id |-> i]    \* BadNodeId(i)

\* A whole-graph read: the nodes and the outputs that go with them, or the
\* id the call refused.
NoView == [tag |-> "none", nodes |-> <<>>, outs |-> <<>>]
Graph(ns, os) == [tag |-> "graph", nodes |-> ns, outs |-> os]
BadView(i) == [tag |-> "bad", nodes |-> <<>>, outs |-> <<i>>]

NodeAt(i) == nodes[i + 1]

Init ==
  /\ nodes = <<>>
  /\ intern = [k \in Keys |-> NoId]
  /\ outputs = <<>>
  /\ owner = NoThread
  /\ pc = [t \in Threads |-> "idle"]
  /\ key = [t \in Threads |-> NoKey]
  /\ reply = [t \in Threads |-> None]
  /\ held = [t \in Threads |-> <<>>]
  /\ view = [t \in Threads |-> NoView]

Goto(t, from, to) == pc[t] = from /\ pc' = [pc EXCEPT ![t] = to]

LockFree == owner = NoThread

-----------------------------------------------------------------------------
(* intern, which every add_* call comes down to.                           *)

Call(t, k) ==
  /\ Goto(t, "idle", "lock")
  /\ key' = [key EXCEPT ![t] = k]
  /\ reply' = [reply EXCEPT ![t] = None]
  /\ UNCHANGED <<nodes, intern, outputs, owner, held, view>>

\* Mutant: the arena has no mutex.
LockUnguarded(t) ==
  /\ Goto(t, "lock", "check")
  /\ owner' = t
  /\ UNCHANGED <<nodes, intern, outputs, key, reply, held, view>>

Lock(t) ==
  /\ LockFree
  /\ Goto(t, "lock", "check")
  /\ owner' = t
  /\ UNCHANGED <<nodes, intern, outputs, key, reply, held, view>>

\* Mutant: the bound of an input check is off by one.
KnownOrNext(i) == i <= Len(nodes)

Known(i) == i < Len(nodes)

\* Mutant: the early return of a bad input keeps the mutex.
RefuseInputAndHold(t) ==
  /\ Goto(t, "check", "idle")
  /\ \E j \in DOMAIN key[t].inputs :
       /\ ~ Known(key[t].inputs[j])
       /\ reply' = [reply EXCEPT ![t] = Bad(key[t].inputs[j])]
  /\ UNCHANGED <<nodes, intern, outputs, owner, key, held, view>>

\* The first input that is no id yet ends the call: the loop returns it.
RefuseInput(t) ==
  /\ Goto(t, "check", "unlock")
  /\ \E j \in DOMAIN key[t].inputs :
       /\ ~ Known(key[t].inputs[j])
       /\ \A h \in 1 .. (j - 1) : Known(key[t].inputs[h])
       /\ reply' = [reply EXCEPT ![t] = Bad(key[t].inputs[j])]
  /\ UNCHANGED <<nodes, intern, outputs, owner, key, held, view>>

\* Mutant: inputs are not checked.
AcceptUnchecked(t) ==
  /\ Goto(t, "check", "probe")
  /\ UNCHANGED <<nodes, intern, outputs, owner, key, reply, held, view>>

AcceptInputs(t) ==
  /\ Goto(t, "check", "probe")
  /\ \A j \in DOMAIN key[t].inputs : Known(key[t].inputs[j])
  /\ UNCHANGED <<nodes, intern, outputs, owner, key, reply, held, view>>

ProbeHit(t) ==
  /\ Goto(t, "probe", "unlock")
  /\ intern[key[t]] # NoId
  /\ reply' = [reply EXCEPT ![t] = Ok(intern[key[t]])]
  /\ UNCHANGED <<nodes, intern, outputs, owner, key, held, view>>

ProbeMiss(t) ==
  /\ Goto(t, "probe", "push")
  /\ intern[key[t]] = NoId
  /\ UNCHANGED <<nodes, intern, outputs, owner, key, reply, held, view>>

\* Mutants: the id is one too low, or is read after the push.
PushIdBelow(t) ==
  /\ Goto(t, "push", "insert")
  /\ nodes' = Append(nodes, key[t])
  /\ reply' = [reply EXCEPT ![t] = Ok(Len(nodes) - 1)]
  /\ UNCHANGED <<intern, outputs, owner, key, held, view>>

PushIdAfter(t) ==
  /\ Goto(t, "push", "insert")
  /\ nodes' = Append(nodes, key[t])
  /\ reply' = [reply EXCEPT ![t] = Ok(Len(nodes'))]
  /\ UNCHANGED <<intern, outputs, owner, key, held, view>>

\* The new id is the length before the push; the call will return it.
Push(t) ==
  /\ Goto(t, "push", "insert")
  /\ nodes' = Append(nodes, key[t])
  /\ reply' = [reply EXCEPT ![t] = Ok(Len(nodes))]
  /\ UNCHANGED <<intern, outputs, owner, key, held, view>>

\* Mutant: the entry holds the length after the push.
InsertLength(t) ==
  /\ Goto(t, "insert", "unlock")
  /\ intern' = [intern EXCEPT ![key[t]] = Len(nodes)]
  /\ UNCHANGED <<nodes, outputs, owner, key, reply, held, view>>

Insert(t) ==
  /\ Goto(t, "insert", "unlock")
  /\ intern' = [intern EXCEPT ![key[t]] = reply[t].id]
  /\ UNCHANGED <<nodes, outputs, owner, key, reply, held, view>>

\* The guard is dropped as the call returns.
Unlock(t) ==
  /\ Goto(t, "unlock", "idle")
  /\ owner' = NoThread
  /\ UNCHANGED <<nodes, intern, outputs, key, reply, held, view>>

-----------------------------------------------------------------------------
(* Marking an output, and the reads that take the mutex once.              *)

\* Mutants: a second mark is a second output, or moves the first.
MarkOutputTwice(t, i) ==
  /\ pc[t] = "idle" /\ LockFree
  /\ Known(i)
  /\ outputs' = Append(outputs, i)
  /\ UNCHANGED <<nodes, intern, owner, pc, key, reply, held, view>>

MarkOutputMoves(t, i) ==
  /\ pc[t] = "idle" /\ LockFree
  /\ Known(i)
  /\ outputs' = Append(SelectSeq(outputs, LAMBDA o : o # i), i)
  /\ UNCHANGED <<nodes, intern, owner, pc, key, reply, held, view>>

MarkOutput(t, i) ==
  /\ pc[t] = "idle" /\ LockFree
  /\ Known(i)
  /\ ~ Contains(outputs, i)
  /\ outputs' = Append(outputs, i)
  /\ UNCHANGED <<nodes, intern, owner, pc, key, reply, held, view>>

\* snapshot, for reduce, nodes and to_dot: arena and marks together.
Snapshot(t) ==
  /\ pc[t] = "idle" /\ LockFree
  /\ view' = [view EXCEPT ![t] = Graph(nodes, outputs)]
  /\ UNCHANGED <<nodes, intern, outputs, owner, pc, key, reply, held>>

\* The first requested id that a list of n nodes does not have.
FirstBad(req, n, i) ==
  \E j \in DOMAIN req :
    /\ req[j] >= n /\ i = req[j]
    /\ \A h \in 1 .. (j - 1) : req[h] < n

AllBelow(req, n) == \A j \in DOMAIN req : req[j] < n

\* reduce_with_outputs: clone the arena, then check the request on the clone.
CompileScoped(t, req) ==
  /\ pc[t] = "idle" /\ LockFree
  /\ \/ /\ AllBelow(req, Len(nodes))
        /\ view' = [view EXCEPT ![t] = Graph(nodes, req)]
     \/ \E j \in DOMAIN req :
          /\ FirstBad(req, Len(nodes), req[j])
          /\ view' = [view EXCEPT ![t] = BadView(req[j])]
  /\ UNCHANGED <<nodes, intern, outputs, owner, pc, key, reply, held>>

-----------------------------------------------------------------------------
(* serialize takes the mutex twice: first for the outputs (the marks, or a *)
(* check of the request against node_count), then for the arena.           *)

SerializeMarked(t) ==
  /\ LockFree
  /\ Goto(t, "idle", "serialize")
  /\ held' = [held EXCEPT ![t] = outputs]
  /\ UNCHANGED <<nodes, intern, outputs, owner, key, reply, view>>

\* Mutant: the request is used unchecked.
SerializeUnchecked(t, req) ==
  /\ LockFree
  /\ Goto(t, "idle", "serialize")
  /\ held' = [held EXCEPT ![t] = req]
  /\ UNCHANGED <<nodes, intern, outputs, owner, key, reply, view>>

SerializeScoped(t, req) ==
  /\ LockFree
  /\ AllBelow(req, Len(nodes))
  /\ Goto(t, "idle", "serialize")
  /\ held' = [held EXCEPT ![t] = req]
  /\ UNCHANGED <<nodes, intern, outputs, owner, key, reply, view>>

SerializeRefused(t, req) ==
  /\ pc[t] = "idle" /\ LockFree
  /\ \E j \in DOMAIN req :
       /\ FirstBad(req, Len(nodes), req[j])
       /\ view' = [view EXCEPT ![t] = BadView(req[j])]
  /\ UNCHANGED <<nodes, intern, outputs, owner, pc, key, reply, held>>

SerializeNodes(t) ==
  /\ LockFree
  /\ Goto(t, "serialize", "idle")
  /\ view' = [view EXCEPT ![t] = Graph(nodes, held[t])]
  /\ held' = [held EXCEPT ![t] = <<>>]
  /\ UNCHANGED <<nodes, intern, outputs, owner, key, reply>>

-----------------------------------------------------------------------------
InternStep(t) ==
  \/ Lock(t) \/ RefuseInput(t) \/ AcceptInputs(t) \/ ProbeHit(t)
  \/ ProbeMiss(t) \/ Push(t) \/ Insert(t) \/ Unlock(t)

Record(t) == (\E k \in Keys : Call(t, k)) \/ InternStep(t)

Read(t) ==
  \/ \E i \in MarkedIds : MarkOutput(t, i)
  \/ Snapshot(t)
  \/ \E r \in OutputRequests :
       CompileScoped(t, r) \/ SerializeScoped(t, r) \/ SerializeRefused(t, r)
  \/ SerializeMarked(t) \/ SerializeNodes(t)

Next == (\E t \in Recorders : Record(t)) \/ (\E t \in Readers : Read(t))

Spec == Init /\ [][Next]_vars

(* A thread inside the critical section keeps running: nothing in it can   *)
(* block.  Acquiring the mutex is not fair (std::sync::Mutex promises no   *)
(* order), so nothing is assumed of Lock.                                  *)
Fairness == \A t \in Recorders : WF_vars(owner = t /\ InternStep(t))

FairSpec == Spec /\ Fairness

-----------------------------------------------------------------------------
InSection == {"check", "probe", "push", "insert", "unlock"}

TypeOK ==
  /\ nodes \in Seq(Keys)
  /\ intern \in [Keys -> Nat \union {NoId}]
  /\ outputs \in Seq(Nat)
  /\ owner \in Threads \union {NoThread}
  /\ pc \in [Threads -> {"idle", "lock", "serialize"} \union InSection]
  /\ key \in [Threads -> Keys \union {NoKey}]
  /\ reply \in [Threads -> [tag : {"none", "ok", "bad"}, id : Nat]]
  /\ held \in [Threads -> Seq(Nat)]
  /\ view \in [Threads -> [tag : {"none", "graph", "bad"},
                           nodes : Seq(Keys), outs : Seq(Nat)]]

\* Structural identity: whatever the threads interleave, a key has one id.
InternedOnce ==
  \A m, n \in DOMAIN nodes : nodes[m] = nodes[n] => m = n

\* The intern table finds a recorded key at its id and finds nothing else,
\* whenever no thread is between the push and the insert.
TableMatchesArena ==
  (\A t \in Threads : pc[t] # "insert") =>
    \A k \in Keys :
      /\ intern[k] # NoId => Known(intern[k]) /\ NodeAt(intern[k]) = k
      /\ intern[k] = NoId => \A n \in DOMAIN nodes : nodes[n] # k

\* Every node refers only to nodes recorded before it, so a graph has no
\* cycle and a single pass in id order visits inputs first.
TopologicalList(ns) ==
  \A n \in DOMAIN ns : \A j \in DOMAIN ns[n].inputs : ns[n].inputs[j] < n - 1
Topological == TopologicalList(nodes)

\* The id a call returned still names the key it was called with, however
\* many calls of other threads came between.
ReplyNamesKey ==
  \A t \in Threads :
    reply[t].tag = "ok" => Known(reply[t].id) /\ NodeAt(reply[t].id) = key[t]

\* A whole-graph read is a graph: its nodes are a prefix of the arena and
\* its outputs, even when read in another critical section or checked
\* against an older length, are ids of that prefix.
ViewsClosed ==
  \A t \in Threads :
    view[t].tag = "graph" =>
      /\ IsPrefix(view[t].nodes, nodes)
      /\ TopologicalList(view[t].nodes)
      /\ AllBelow(view[t].outs, Len(view[t].nodes))

\* The first mark of an id wins and marks keep their order: reductions
\* return results in that order.
MarksDistinct ==
  /\ \A m, n \in DOMAIN outputs : outputs[m] = outputs[n] => m = n
  /\ \A n \in DOMAIN outputs : Known(outputs[n])

\* Ids are for ever: no step moves or drops a node or a mark.
AppendOnly == [][IsPrefix(nodes, nodes') /\ IsPrefix(outputs, outputs')]_vars

\* Whoever takes the mutex gives it back.
LockReleased == \A t \in Threads : owner = t ~> owner # t

-----------------------------------------------------------------------------
(* What a thread knows at each point of its call: the inductive invariant. *)

\* The mutex is held by exactly the thread inside the section.
HolderInSection == \A t \in Threads : pc[t] \in InSection <=> owner = t

\* Entries are right at all times; an entry is missing only for the node
\* whose push is not yet followed by its insert.
EntriesRight ==
  \A k \in Keys :
    intern[k] # NoId => Known(intern[k]) /\ NodeAt(intern[k]) = k
EntriesComplete ==
  \A n \in DOMAIN nodes :
    \/ intern[nodes[n]] # NoId
    \/ \E t \in Threads :
         pc[t] = "insert" /\ key[t] = nodes[n] /\ n = Len(nodes)

CallState ==
  \A t \in Threads :
    /\ pc[t] \in {"lock"} \union InSection => key[t] \in Keys
    /\ pc[t] \in {"lock", "check", "probe", "push"} => reply[t] = None
    /\ pc[t] \in {"probe", "push"} =>
         \A j \in DOMAIN key[t].inputs : Known(key[t].inputs[j])
    /\ pc[t] = "push" => intern[key[t]] = NoId
    /\ pc[t] = "insert" => reply[t] = Ok(Len(nodes) - 1)

HeldClosed ==
  \A t \in Threads :
    pc[t] = "serialize" => AllBelow(held[t], Len(nodes))

Inv ==
  /\ TypeOK /\ HolderInSection /\ EntriesRight /\ EntriesComplete
  /\ CallState /\ HeldClosed
  /\ InternedOnce /\ Topological /\ ReplyNamesKey /\ ViewsClosed /\ MarksDistinct

-----------------------------------------------------------------------------
(* The store implements the atomic get-or-insert arena: the decision is    *)
(* the step that fixes the reply, and everything after it is the return.   *)

Phase(t) ==
  IF pc[t] \in {"lock", "check", "probe", "push"} THEN "pending"
  ELSE IF pc[t] \in {"insert", "unlock"} THEN "done" ELSE "idle"

Table == INSTANCE InternTable
           WITH arena <- nodes, marks <- outputs,
                phase <- [t \in Threads |-> Phase(t)]

InternsAtomically == Table!Spec
=============================================================================
