----------------------------- MODULE Deployment -----------------------------
(***************************************************************************)
(* An analysis from the client to a worker (lib.rs, plan.py): the client   *)
(* records a graph, perhaps compiles it, serializes it and cuts the input  *)
(* into partitions; the plan travels as bytes; the worker decodes it and   *)
(* runs the tasks, each under a content-addressed id.  On the way a wire   *)
(* may be cut short, be another version's, be extended, or be the work of  *)
(* another writer.  Sessions follow one another; the log of ids outlives   *)
(* them, as a cache would.                                                 *)
(***************************************************************************)
EXTENDS Codec, Partitions, FiniteSets

CONSTANTS Shapes,        \* what the client records, without inputs
          OutputLists,   \* the outputs it asks for
          UriLists,      \* the datasets it chunks
          ChunkSizes, StepCounts,
          Processes,     \* OpSpecs of the process function
          NoProcess,     \* before the plan is made
          MaxCalls,      \* bound on recording calls of a session
          MaxPlanned,    \* bound on them in one that runs tasks, as later ones do
          MaxSessions    \* bound on sessions

\* A dataset is listed once (one that is listed twice is cut twice).
ASSUME InputIsKnown ==
  /\ \A uris \in UriLists :
       uris \in Seq(Uris) /\ \A m, n \in DOMAIN uris : uris[m] = uris[n] => m = n
  /\ ChunkSizes \subseteq Int /\ StepCounts \subseteq Int

\* A dict holds a name once; only an external has a preprocessing reference.
ASSUME ShapesAreCalls ==
  \A s \in Shapes :
    /\ s.kind \in {"source", "op", "reduction", "external"} /\ s.arity \in Nat
    /\ s.kind # "external" => s.prep = <<>>
    /\ IsList(s.name) /\ IsList(s.dict)
    /\ \A n \in DOMAIN s.dict :
         /\ s.dict[n] = Entry(s.dict[n].k, s.dict[n].v)
         /\ s.dict[n].k \in ToSet(NameOrder) /\ IsPy(s.dict[n].v)
    /\ \A m, n \in DOMAIN s.dict : s.dict[m].k = s.dict[n].k => m = n

ASSUME OutputsAreIds == OutputLists \subseteq Seq(Nat)

VARIABLES nodes,      \* the client's store
          calls,      \* ghost: the recording calls and what they returned
          sent,       \* ghost: the graph that was serialized
          wire,       \* DurablePlan.ir
          process,    \* DurablePlan.process
          damage,     \* what happened to the wire
          received,   \* DurablePlan.partitions at the worker
          ran,        \* how many of them it has run
          log,        \* every task that ever ran: its id and its work
          session, pc

clientVars == <<nodes, calls, sent, wire>>
workerVars == <<damage, received, ran>>
vars == <<loaderVars, plannerVars, clientVars, process, workerVars, log, session, pc>>

NoGraph == [nodes |-> <<>>, outs |-> <<>>, fused |-> FALSE]

Init ==
  /\ Idle /\ Unplanned
  /\ nodes = <<>> /\ calls = <<>> /\ sent = NoGraph /\ wire = <<>>
  /\ process = NoProcess
  /\ damage = "none" /\ received = <<>> /\ ran = 0
  /\ log = {} /\ session = 1 /\ pc = "record"

Goto(from, to) == pc = from /\ pc' = to

-----------------------------------------------------------------------------
(* The client.                                                             *)

\* add_source, add_op, add_reduction or add_external.
Record(shape, inputs) ==
  LET key == NodeKey(shape.kind, shape.name, ParamsFromPy(shape.dict), shape.prep,
                     <<>>, inputs)
  IN /\ pc = "record"
     /\ Len(calls) < IF session = 1 THEN MaxCalls ELSE MaxPlanned
     /\ AllBelow(inputs, Len(nodes))
     /\ nodes' = Intern(nodes, key)
     /\ calls' = Append(calls, [shape |-> shape, inputs |-> inputs,
                                id |-> IdOf(nodes', key), new |-> nodes' # nodes])
     /\ UNCHANGED <<loaderVars, plannerVars, sent, wire, process, workerVars, log,
                    session, pc>>

Serialize(graph) ==
  /\ Goto("record", "plan")
  /\ sent' = graph
  /\ wire' = Encode(graph.nodes, graph.outs)
  /\ UNCHANGED <<loaderVars, plannerVars, nodes, calls, process, workerVars, log,
                 session>>

\* serialize(outputs=...), of known ids.
SerializeRecorded(outs) ==
  /\ AllBelow(outs, Len(nodes))
  /\ Serialize([nodes |-> nodes, outs |-> outs, fused |-> FALSE])

\* A source and ops, each on the node before it.
IsChain(ns) ==
  /\ Len(ns) > 1 /\ ns[1].kind = "source"
  /\ \A n \in 2 .. Len(ns) : ns[n].kind = "op" /\ ns[n].inputs = <<n - 2>>

\* What reduction leaves of a chain (module Reduction has every graph): the
\* source and one stage, whose members carry the tokens of the ops.
FusedChain(ns) ==
  LET member(n) ==
        StageOp(OpToken("op", ns[n].name, ns[n].params),
                <<IF n = 2 THEN InputRef(0) ELSE MemberRef(n - 3)>>)
  IN <<ns[1], StageKey([n \in 1 .. (Len(ns) - 1) |-> member(n + 1)], <<0>>)>>

SerializeCompiled ==
  /\ IsChain(nodes)
  /\ Serialize([nodes |-> FusedChain(nodes), outs |-> <<1>>, fused |-> TRUE])

-----------------------------------------------------------------------------
(* The plan.                                                               *)

\* Bound: longer recordings run compiled, or are only loaded.
MayPlan ==
  /\ pc = "plan" /\ Len(calls) <= MaxPlanned
  /\ Len(nodes) > 1 => sent.fused

\* for_datasets, a plan for blind steps, or a plan without partitions.
ForDatasets(uris, chunkSize) ==
  /\ MayPlan
  /\ Goto("plan", "split")
  /\ PlanChunks(uris, chunkSize)
  /\ process' \in Processes
  /\ UNCHANGED <<loaderVars, clientVars, workerVars, log, session>>

ForSteps(uri, steps) ==
  /\ MayPlan
  /\ Goto("plan", "split")
  /\ PlanBlind(uri, steps)
  /\ process' \in Processes
  /\ UNCHANGED <<loaderVars, clientVars, workerVars, log, session>>

WithoutTasks ==
  /\ session = 1
  /\ Goto("plan", "split")
  /\ UNCHANGED <<loaderVars, plannerVars, clientVars, process, workerVars, log,
                 session>>

SplitStep ==
  /\ pc = "split"
  /\ Split
  /\ UNCHANGED <<loaderVars, clientVars, process, workerVars, log, session, pc>>

-----------------------------------------------------------------------------
(* The way to the worker.                                                  *)

Cuts == {SubSeq(wire, 1, n) : n \in 0 .. (Len(wire) - 1)}

OfOtherVersion == ReplaceAt(wire, 1, <<"magic", OtherMagic>>)

\* Another writer, that does not intern: a node twice, later nodes reading the
\* second one; two nodes the other way round; a stage with its members reversed;
\* an output that is no node.
Rewritten ==
  LET ns == sent.nodes
      shifted(key, id) ==
        [key EXCEPT !.inputs = [j \in DOMAIN @ |-> IF @[j] >= id THEN @[j] + 1 ELSE @[j]]]
      twice(n) == [m \in 1 .. (Len(ns) + 1) |->
                     IF m <= n THEN ns[m] ELSE shifted(ns[m - 1], n - 1)]
      reversed(key) == [key EXCEPT !.members = Reverse(@)]
      lists == {twice(n) : n \in DOMAIN ns}
               \union {[ns EXCEPT ![n] = ns[n + 1], ![n + 1] = ns[n]] :
                         n \in 1 .. (Len(ns) - 1)}
               \union {[n \in DOMAIN ns |-> reversed(ns[n])]}
  IN {Encode(list, sent.outs) : list \in lists}
     \union {Encode(ns, Append(sent.outs, Len(ns)))}

\* The bytes that may arrive, and what became of them.
Arrivals ==
  {<<"none", wire>>, <<"other", OfOtherVersion>>,
   <<"extended", wire \o <<wire[1]>> >>}
  \union {<<"cut", w>> : w \in Cuts}
  \union {<<"rewritten", w>> : w \in Rewritten \ {wire}}

\* from_bytes(to_bytes()), then graph().  Plans with tasks arrive unharmed.
Deliver(arrival) ==
  /\ Goto("split", "work")
  /\ Planned
  /\ tasks # <<>> => arrival[1] = "none"
  /\ damage' = arrival[1]
  /\ StartLoad(arrival[2])
  /\ received' = [n \in DOMAIN tasks |-> FromJson(Json(tasks[n]))]
  /\ ran' = 0
  /\ UNCHANGED <<plannerVars, clientVars, process, log, session>>

-----------------------------------------------------------------------------
(* The worker.                                                             *)

LoadStep ==
  /\ pc = "work"
  /\ Load
  /\ UNCHANGED <<plannerVars, clientVars, process, workerVars, log, session, pc>>

\* task_id: a hash of the bytes, the process and the partition, each with
\* its length, taken to be injective.
TaskId(p) == <<wire, process, Json(p)>>

\* Python values as the client means them: an int beyond 64 bits is its float.
Kept(v) ==
  IF v.type = "int" /\ v.val[1] \in DOMAIN Rounded
  THEN PyValue("float", <<Rounded[v.val[1]]>>) ELSE v

\* And one NaN is as good as another.
Meant(v) ==
  IF v.type = "float" /\ v.val[1] \in NaNs THEN PyValue("float", <<CANON_NAN>>)
  ELSE Kept(v)

\* A dict has no order.
Dict(dict, As(_)) == {<<dict[n].k, As(dict[n].v)>> : n \in DOMAIN dict}

CallAs(c, As(_)) ==
  [kind |-> c.shape.kind, name |-> c.shape.name, prep |-> c.shape.prep,
   inputs |-> c.inputs, dict |-> Dict(c.shape.dict, As)]

\* The call that made node n.
Maker(n) == calls[CHOOSE m \in DOMAIN calls : calls[m].new /\ calls[m].id = n - 1]

GraphAs(As(_)) == [n \in DOMAIN nodes |-> CallAs(Maker(n), As)]

RunTask ==
  /\ pc = "work" /\ phase = "loaded" /\ ran < Len(received)
  /\ log' = log \union
       {[id |-> TaskId(received[ran + 1]),
         graph |-> GraphAs(Kept), meaning |-> GraphAs(Meant),
         work |-> <<sent.outs, sent.fused, process, tasks[ran + 1]>>]}
  /\ ran' = ran + 1
  /\ UNCHANGED <<loaderVars, plannerVars, clientVars, process, damage, received, session,
                 pc>>

\* Another session, in a new process.
NewSession ==
  /\ Goto("work", "record")
  /\ received # <<>> /\ ran = Len(received) /\ session < MaxSessions
  /\ session' = session + 1
  /\ rest' = <<>> /\ phase' = "idle" /\ due' = 0 /\ read' = 0
  /\ loaded' = <<>> /\ marks' = <<>>
  /\ asked' = <<>> /\ at' = 1 /\ start' = 0 /\ size' = 1 /\ tasks' = <<>>
  /\ nodes' = <<>> /\ calls' = <<>> /\ sent' = NoGraph /\ wire' = <<>>
  /\ process' = NoProcess
  /\ damage' = "none" /\ received' = <<>> /\ ran' = 0
  /\ UNCHANGED log

-----------------------------------------------------------------------------
\* The inputs a shape may be given.
InputLists(arity) == [1 .. arity -> 0 .. (Len(nodes) - 1)]

Next ==
  \/ \E s \in Shapes : \E ins \in InputLists(s.arity) : Record(s, ins)
  \/ \E outs \in OutputLists : SerializeRecorded(outs)
  \/ SerializeCompiled
  \/ \E uris \in UriLists : \E n \in ChunkSizes : ForDatasets(uris, n)
  \/ \E uri \in Uris : \E n \in StepCounts : ForSteps(uri, n)
  \/ WithoutTasks
  \/ SplitStep
  \/ pc = "split" /\ (\E arrival \in Arrivals : Deliver(arrival))
  \/ LoadStep
  \/ RunTask
  \/ NewSession

Spec == Init /\ [][Next]_vars

-----------------------------------------------------------------------------
Unharmed == damage \in {"none", "extended"}

First(s, e) == SelectInSeq(s, LAMBDA x : x = e)

\* What arrives unharmed, or with bytes after its end, is loaded as it was: the
\* same ids, the bits of every float, the outputs in the order requested, each
\* once.  When no output was requested twice, the loaded graph serializes to the
\* very bytes that were sent (those after the end are dropped).  A wire that was
\* cut anywhere or is another version's is refused.
LoadsOrRefuses ==
  /\ phase \in Errors => ~ Unharmed
  /\ phase = "loaded" => damage \notin {"cut", "other"}
  /\ phase = "loaded" /\ Unharmed =>
       /\ loaded = sent.nodes
       /\ ToSet(marks) = ToSet(sent.outs)
       /\ \A m, n \in DOMAIN marks :
            m < n => First(sent.outs, marks[m]) < First(sent.outs, marks[n])
       /\ IsInjective(sent.outs) => Encode(loaded, marks) = wire

\* What serialize.rs says of the decoder (270-271): "re-serialize is
\* byte-identical to the input".  Not when an output was requested twice: the
\* writer writes it twice, the reader marks it once.
RoundTripIdentical ==
  phase = "loaded" /\ damage = "none" => Encode(loaded, marks) = wire

\* A view shows the call c: the dict it was given, up to NaNs and big ints.
Shows(view, c) ==
  /\ view.kind = c.shape.kind /\ view.name = c.shape.name
  /\ Dict(view.params, Meant) = Dict(c.shape.dict, Meant)

\* A call is listed under the id it returned, or as a member of the stage.
Lists(views, c) ==
  IF sent.fused /\ c.id > 0 THEN Shows(views[2].members[c.id], c)
  ELSE /\ Shows(views[c.id + 1], c)
       /\ views[c.id + 1].inputs = c.inputs
       /\ views[c.id + 1].prep = c.shape.prep
       /\ views[c.id + 1].output <=> c.id \in ToSet(sent.outs)

ListsAll(view) == view # None /\ \A n \in DOMAIN calls : Lists(view[1], calls[n])

\* What the worker lists is what the client recorded, through conversion,
\* interning, the tokens of fused stages and the wire.  Two calls returned one
\* id exactly when they mean the same, whatever the order of their dicts.
ListsWhatWasRecorded ==
  /\ \A m, n \in DOMAIN calls :
       calls[m].id = calls[n].id <=> CallAs(calls[m], Meant) = CallAs(calls[n], Meant)
  /\ phase = "loaded" /\ Unharmed => ListsAll(NodesView(loaded, marks))

\* The tasks the worker has got read every entry of every file asked for
\* exactly once, whether chunked or in blind steps, with more steps than
\* entries and with empty files.
EntriesReadOnce == pc = "work" => ReadOnce(received)

\* The id of a task changes exactly when the computation or the input does:
\* tasks of any sessions that share an id do the same work on the same graph
\* (one NaN being as good as another), and doing the same work on the same
\* graph gives the same id, in whatever order dicts were written and calls
\* repeated.
SameIdSameWork ==
  \A e, f \in log :
    /\ e.id = f.id => e.work = f.work /\ e.meaning = f.meaning
    /\ e.work = f.work /\ e.graph = f.graph => e.id = f.id
=============================================================================
