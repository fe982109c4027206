# graphed-core in TLA+

graphed-core records an analysis as a graph of interned nodes, reduces the
graph with an equality-saturation engine and stage fusion, and runs tasks over
partitions of the data.  This directory holds TLA+ modules translated from that
code, TLC configurations that check them on small instances, and theorems about
them that the TLA+ proof system checks for every instance.

Paths below are relative to the root of the source repository.

## 1. Inventory

| Component | Code | State | Operations |
|---|---|---|---|
| Interned graph store | `src/store.rs`, bindings in `src/lib.rs` | `Inner { nodes, intern, outputs }` behind one `Mutex` | `add_*` (all through `intern`), `mark_output`, `snapshot`, `snapshot_from`, `outputs`, `reduce*`, `from_reduced` |
| Node keys and tokens | `src/node.rs` | none | `NodeKey` equality, `is_boundary`, `token`, `with_inputs`, `parse_op_token` |
| Reduction passes | `src/optimizer/mod.rs` | none outside a request | `dead_code_elimination`, `to_engine_graph`, `cse`, `stage_fusion` in two modes, the report |
| Rewrite engine | `src/optimizer/engine.rs` (over the crate egg) | an e-graph for the length of a request | load, saturate within limits, extract |
| Incremental reducer | `src/optimizer/incremental.rs`, bindings in `src/lib.rs` | `canon_nodes`, `canon_table`, `map`, `total_work`, behind a `Mutex` of their own | `step`, `finalize`, `total_work` |
| Serialization | `src/serialize.rs` | a decoder: its position, the store it builds | `serialize`, `serialize_with`, `deserialize` |
| Parameters | `src/param.rs`, conversions in `src/lib.rs` | none | canonical maps, float keys, escapes, tokens and their parser, `paramvalue_from_py`, `params_to_py` |
| Sequential runner | `python/graphed_core/execution.py` | one run: sorted tasks, value, events | `run` |
| Worker resources | `python/graphed_core/execution.py` | an `OrderedDict` of open handles, `open_count` | `open_once`, `close` |
| Blind partitions, stop conditions | `python/graphed_core/execution.py` | none | `Partition.blind`, `Partition.resolve`, `StopCondition.reason` |
| Durable plan | `python/graphed_core/plan.py` | the plan: IR bytes, process, partitions | `partition_dataset(s)`, `for_datasets`, `to_bytes`, `from_bytes`, `graph`, `task_id` |
| Introspection | `nodes` in `src/lib.rs`; `to_dot`, labels | none | a structured view of a snapshot, with the members of stages parsed back; formatting |
| Scripts, CI | `scripts/`; workflows | none | tooling |

**Interactions.** Python threads call the store directly; there is no channel
and no callback in the Rust part, only the mutex.  A compile request clones the
arena in one critical section and works on the clone, so recording goes on
beside it.  `serialize` takes the mutex twice.  The incremental reducer is
called with a store: it holds its own mutex while it takes the store's mutex to
clone the delta.  The runner calls the caller's `process`, `combine` and
`empty`, which may raise, and hands `process` a `LocalResources`.  A durable
plan carries the bytes of a graph and its partitions to another process as JSON;
there the graph is decoded by interning it again, and each task has an id
computed from those bytes, the process function and its partition, under which
a cache may keep its result.

**What is hard.** Threads that intern one key at once; calls of two critical
sections; a reducer shared by threads while others record; an engine that
merges in an order of its own and stops at limits; passes that are each simple
but rest on the order left by the one before; exceptions anywhere in a run.
On the way to a worker a value passes through Python, an order of its own, an
escape, a token, a parser and a byte form, and all of them must agree on what is
equal; bytes may come from elsewhere; ids must agree between sessions that never
met.  This code neither persists anything itself nor answers messages, so
crashes of a process and message loss are not among its hazards.

**What makes it correct.**

* Store: a key has one id, an id names its key for ever, the arena is a
  topologically ordered DAG, every whole-graph read is a closed graph, the lock
  is given back, and callers cannot tell that a call is several statements.
* Reduction: whatever the engine merged, each requested output of the reduced
  graph computes what the requested node computed; the reduced graph is again a
  well-formed graph without dead nodes; fusion neither loses nor repeats an op.
* Incremental reducer: each node is consumed once and in order, one pass reaches
  the fixpoint of saturation, finalizing keeps meaning and agrees with `reduce`.
* Deployment: what is decoded is what was recorded or is refused, and is a graph
  in any case; what a worker lists is what the client asked for; partitions read
  every entry once; a task id changes exactly when the work does.
* Runner: the fold and the events follow the key order, every handle is closed
  however the run ends, the cache evicts what was used longest ago.

## 2. Modules

| Module | Models |
|---|---|
| `NodeKeys` | `NodeKey`, tokens, `with_inputs`, and the shared tables of symmetric ops and identity tokens. A parameter map, a name and a descriptor are opaque values. |
| `InternTable` | The abstract store: a call, its one atomic decision (`Find`, `Create`, `Refuse`), its return, and marks. |
| `GraphStore` | The real store: `intern` statement by statement inside its critical section, marking, and the reads of `reduce`, `reduce_with_outputs`, `nodes` and `serialize`. |
| `Reduction` | Every pass of the pipeline as an operator on graphs. |
| `Denotation` | What a graph computes, as terms: the reference that reduction is checked against. |
| `Compile` | Recording, a compile request, the engine's merges one at a time, extraction, fusion and rebuild, and going on with the old or the reduced store. |
| `IncrementalReducer` | Threads that call `step` and `finalize` on one reducer while others record. |
| `LocalResources` | `open_once` with eviction, and `close`. |
| `SequentialRun` | One run of `SequentialRunner`, its events and its failures. |
| `Params` | Parameter values: identity, sorting, escapes, tokens and their parser, and conversions from and to Python. |
| `Codec` | The writer of the canonical form, and `deserialize` as a machine that takes one item of the wire at a time; `nodes()`. Names and parameters are those of `Params`. |
| `Partitions` | The loop that chunks datasets, blind partitions and `resolve`, the JSON form. |
| `Deployment` | `Codec` and `Partitions` together: a client that records, perhaps compiles, serializes and plans; what happens to the bytes; a worker that loads and runs; further sessions. |
| `MC*` | Vocabularies and constants for the runs. |
| `DenotationProofs` | Lemmas about terms: what `Denotation` says of every list of nodes. |
| `ReductionProofs` | Lemmas about the passes: what each operator of `Reduction` keeps, for every graph. |
| `ParamsProofs` | Lemmas about parameters and their texts: sorting, escaping, cutting, and tokens that read back what was printed. |
| `GraphStoreProofs`, `CompileProofs`, `IncrementalProofs`, `SequentialRunProofs`, `DeploymentProofs` | Theorems about the components they are named after. |

### How they correspond to the code

*Store.* `nodes`, `intern` and `outputs` are the fields of `Inner` and `owner`
is the mutex.  `Call`, `Lock`, `RefuseInput`/`AcceptInputs`,
`ProbeHit`/`ProbeMiss`, `Push`, `Insert` and `Unlock` are the statements of
`GraphStore::intern`.  Sections of one statement (a mark, a clone) are one step
that needs the mutex free: nothing can be observed inside them.  `SerializeMarked`
or `SerializeScoped`, then `SerializeNodes`, are the two sections of `serialize`.

*Reduction.* The code renumbers nodes after every pass, always in ascending
order, and every choice it makes depends on that order only.  The model leaves
nodes their recorded ids until `StageFusion` numbers the components: a pass is a
map of graphs over ids.  `Through(class, ...)` is the code's remapping of
inputs.  A component is named by its head, its last member, which is also where
the code emits it; the union-find of `stage_fusion` is the function `head`,
because every union joins a node with the component of its consumer, which the
reverse pass has completed.  The two modes are `SingleUseHead` and `MaximalHead`.

*Engine.* egg is outside the repository.  It is used as something that merges
classes of nodes the rules or congruence make equal, in any order, and that has
rebuilt (is closed under congruence) when it returns.  It is not assumed to
reach the fixpoint of the rules: the code gives it 12 iterations, egg has limits
on nodes and time of its own and a scheduler that holds back rules.  `class`
maps a node to the earliest id of its class, because the extraction of the code
keeps the first node of a class in topological order.

*Incremental reducer.* `map` and its length, the watermark; `canon`; `total_work`
as `work`.  The reducer's intern table holds its canonical nodes at their
positions and nothing else, so lookups are made in `canon`.  The loop of `step`
is one action per node, one for each way out of `canonicalize`; the panic on an
identity op without inputs poisons the mutex, as in the code.  Its doc requires
that it is always fed the same store; so does the model.

*Runner.* `pc` is the place in `run`.  `emitted` holds the events offered to the
monitor, whose own exceptions are silenced at the call.  `ProcessRaises` is an
`Exception`, which the code catches.  No handler catches an `Exception` of
`empty` or `combine` (`EmptyRaises`, `CombineRaises`) nor an interruption of
`process` (`Interrupted`, where `MayInterrupt`).

*Parameters.* A text is a sequence of one-character strings, because escaping
and parsing are about where separators fall; what the code prints and parses as
a whole (a number, the bits of a float, a boolean) is one element.  `Identity`
is the equality of keys that interning uses: floats by their key, which is one
for all NaNs.  `Replace` is `str::replace`, applied once per separator in the
order of the code.  `FromPy` converts the values that are accepted (`IsPy`); any
other, an int too large for a float among them, is refused with an error before
the store is touched, so a call with one changes nothing and is not modelled.

*Codec.* A wire is a sequence of items: magic, number of nodes, each node,
number of outputs, each output.  `phase`, `due` and `read` are the place in
`deserialize`; `loaded` and `marks` are the store it builds.  A node item holds
the fields of its key, written and read one after the other with their lengths,
so a wire that is cut inside an item is for the decoder one that is cut before
it: `Truncated` either way.  `AcceptsNode` is the check of the reader, against
the position in the wire, together with that of the store, against the ids given
out; they differ when a node of the wire was already there.

*Partitions.* `asked`, `at`, `start` and `size` are the loop variables of
`partition_datasets`; one action makes a chunk, another goes on to the next
dataset.  A uri stands for a file and the tree within it.

*Deployment.* `Record` is `add_*` from a Python dict, with `params_from_py`
first.  `FusedChain` is what reduction leaves of a source and a chain of ops;
`Reduction` models it for every graph.  `Arrivals` is what may reach the worker
in place of the bytes that were sent: the same, with something after the end,
cut before any item, of another version, or written by a writer that does not
intern (a node twice, two nodes exchanged, a stage reversed, an output that is
no node).  `TaskId` is the tuple that `task_id` hashes, each part with its
length: SHA-256 is taken to be injective.  `log` is the ghost of a cache that
outlives the processes.

## 3. Runs

| Run | Asks | Instance | Shows |
|---|---|---|---|
| `store` | Is the locked store an atomic get-or-insert arena whose reads are graphs, and is the lock given back? | two recording threads, one that marks and reads; four keys: a source, a node over id 0, one over ids 0 and 1 and one over ids 1 and 2; ids 0 to 2 marked or requested | 10 properties, the refinement of `InternTable` and a liveness property among them |
| `compile` | Does reduction keep meaning, and is its result a graph? | all graphs of up to 4 nodes over two sources, `add`, `add + 0` and a reduction; up to 2 outputs, both modes, every order and number of merges | the engine may stop anywhere; at the fixpoint nothing redundant is left |
| `fusion` | Does fusion keep every op exactly once, also of stores that are reduced again? | up to 5 nodes with fan-out next to two externals that share a token; stores reduced from up to 4, recorded on up to 4 nodes and reduced again; both modes | meaning is kept where tokens name operators; maximal fusion refines single-use fusion; reduced graphs are fixpoints; the report counts what is rebuilt |
| `incremental` | Does one pass do what saturation does? | up to 4 nodes, one thread, any split into steps | the map is exact; finalizing equals reducing when nothing is dead |
| `incremental_race` | Can two threads share a reducer? | two threads, up to 3 nodes, an op that panics | nothing is skipped, taken twice or miscounted |
| `sequential` | Do order and release survive failures? | up to 3 tasks with equal and unequal keys, three uris over two handles, up to 4 opens | the fold, the events and the cache, with a failure at every step |
| `deployment` | Does a worker load, list and run what a client recorded? | two sessions; up to 3 calls over two sources that differ in the bits of a NaN, an op with ten dicts and an external, up to 2 where tasks run; files of 5, 0 and 2 entries, chunks of 2 and 7, 3 blind steps; every arrival | 5 properties over the whole way from a dict to a task id |

The bounds are small and chosen so that the interesting cases fit.  Four nodes
hold two operands, a symmetric op and its commuted twin, or an identity op and
an op above it, which is how the rules enable each other.  Five nodes hold a
diamond of ops below a boundary, the smallest graph on which the fusion modes
differ.  Two recording threads are enough for every pair of statements of
`intern` to meet, and the third thread for a read between the two sections of
`serialize`; the theorems cover every number of threads.  Three tasks over two
keys have both equal keys and a wrong order; three uris over a cache of two
evict, hit and evict again.  The dicts of `deployment` are picked so that every conversion meets
what it could confuse: two NaNs, a bool next to the int it equals in Python, the
same entries in two orders, two ints beyond 64 bits that round to one float,
names and texts made of separators and of the codes that stand for them.  Three
calls make a source, an op and its duplicate or a second op, which is what a
repeated node and a stage of two members need; the file of 5 entries is split
unevenly by 2 and by 3, the one of 2 has fewer entries than steps, the empty one
has none.  Two sessions compare any two recordings of two calls.
`MaxNodes`, `MaxAgain`, `MaxOutputs`, `MaxTasks`, `MaxUses`, `MaxCalls`,
`MaxPlanned` and `MaxSessions` are the bounds, each a guard of the action that
would pass it; `MaxAgain` is the number of nodes of a store that is reduced again,
before and after.  `MayPlan` adds that graphs of several nodes plan tasks only
when compiled; the others are loaded and listed.  A source that is recorded twice,
with the same bits or with those of another NaN, is one node and runs as it is.
`MayInterrupt` and `AgainAllowed` switch actions on.  `deployment`, `sequential`
and their companions `round_trip` and `unended_task` let the system stop: a run
ends.

### Runs that end in a counterexample

Five sentences of the repository do not hold of the code as written.

* `stage_tokens` (`ReductionSound`).  `docs/design.rst` says that two nodes with
  one token are one operator.  The token of a stage is only its number of
  members.  The run records `x`, `neg(x)` and `abs(neg(x))` and requests both ops,
  which become two stages of one member.  When that store is reduced again for
  the second, both stages are rebuilt from the first that has their token: the
  output is now `neg(neg(x))`.  No rule of the engine has to do with these ops.
  `SemanticsPreserved` holds where tokens name operators, which is the exact
  condition.
* `twin_outputs` (`RequestedOutputsKept`).  `tests/frozen/m22/README.md` says that
  multi-output requests keep all outputs.  Two outputs the rules make equal
  become one mark of the reduced store: the caller gets one result for two.
* `incremental_dead` (`FinalizeMatchesReduce`).  The comment of `incremental.rs`
  says that `finalize` gives the same reduced graph as `reduce`.  A node that
  nothing needs can fix the orientation of a symmetric op, and the two graphs
  then differ in the order of its inputs.  They have the same meaning
  (`FinalizeKeepsMeaning`) and are equal when nothing recorded is dead
  (`FinalizeMatchesReduceIfLive`).
* `unended_task` (`StartedTasksEnd`).  The contract of `TaskEvent` has every
  started task end in one of `FINISHED` and `ERRORED`.  `combine` runs outside
  the handler that emits `ERRORED`: when it raises, after `process` returned,
  there is no last event.  The run has no interruptions (`MayInterrupt` is
  false), which leave a task unended too.
* `round_trip` (`RoundTripIdentical`).  The comments of `deserialize` in
  `serialize.rs` and `lib.rs`, and `docs/design.rst`, say that a graph that was
  decoded serializes to the bytes it came from.  `serialize(outputs=[1, 0, 1])`
  writes three outputs and the decoder marks each once, so the loaded graph
  serializes with two.  `LoadsOrRefuses` has the condition under which the bytes
  agree, that no output was requested twice.

Some more observations have no run of their own.  An external without a
preprocessing reference and one with the reference `-` have the same token
(`node.rs`, `token`); no caller uses that reference.  The fields of a descriptor
are joined by a bar without escapes and parameters are appended only when there
are any, so further pairs of externals share a token as well; the model keeps
the fields apart and has the first pair stand for all.  An identity op recorded
with two inputs is its first input to the incremental reducer and an op like any
other to the engine.  When an op is recorded on a reduced store it can fuse into
a stage equal to one that is there, and `reduced_nodes` is then one too high,
since it is counted before the rebuild; `ReportCountsRebuilt` and `EachNodeOnce`
leave that case out.  And `cse` changes nothing after an engine that returns a
graph closed under congruence.

The decoder does not look at bytes after the last output and drops them, so
serializing what was decoded from such an input is shorter than the input.  Two
graphs that differ in the bits of a NaN are equal to the store and have different
bytes and task ids, where `serialize.rs` and `docs/design.rst` say that graphs of
one structure have the same bytes: `SameIdSameWork` therefore compares up to NaNs
in one direction and with their bits in the other.  `from_bytes` never looks at
the `format_version` it reads.  The id of a blind task does not depend on how many
entries the file has.  `SequentialRunner.run` does not use `plan.stop`.

## 4. Fairness

One property is about progress, `LockReleased`: whoever takes the store's mutex
gives it back.  It assumes weak fairness of the steps of the thread inside the
critical section, which nothing in it can block: it makes no call out of the
store and takes no other lock.  Taking the mutex is not assumed fair, since
`std::sync::Mutex` promises no order; so no property says that a caller is ever
served.  All other properties are safety properties under no fairness.

## 5. Proofs

TLC shows a property on the instance of its run, a theorem for every value of
the constants.  The assumptions are those declared next to the constants: input
lists are finite sequences of naturals, marked and requested ids are naturals,
the null values are not threads, keys or ids, and the operators recorded are
keys of the four recordable kinds; files have a number of entries, a list of
datasets names each once, chunk sizes and step counts are integers.  Names and
texts are finite lists of characters, a number is printed without the separators
of a token, the order of names is total on the names in use, a dict holds a name
once and values of the four types that are accepted, and only an external has a
preprocessing reference.

**`GraphStoreProofs`**, for any threads, keys and requests.  `TableMatchesArena`
and `InternedOnce` are not inductive.  `Inv` adds what a thread knows at each
point of its call: the mutex is held by the thread inside the section
(`HolderInSection`); the entries of the table are right at all times
(`EntriesRight`) and complete up to the one node whose insert is pending
(`EntriesComplete`); after the probe the key is absent until the section ends,
its inputs are known and the pending reply is the id the push created
(`CallState`); outputs read by `serialize` stay below a length that only grows
(`HeldClosed`).  One lemma per action shows that it keeps `Inv`.  From it:
`TypeCorrect`, `InternedOnceAlways`, `TableMatchesArenaAlways`,
`TopologicalAlways`, `ReplyNamesKeyAlways`, `ViewsClosedAlways`,
`MarksDistinctAlways`; `AppendOnlyAlways`, an action property; and `Refinement`,
that the store implements the atomic `InternTable`, by mapping the push or the
hit to the decision and every other step of a call to a stutter.

**`DenotationProofs` and `ReductionProofs`** hold the lemmas about terms and about
the passes.  Terms, the engine's fixpoint and the numbers of rebuilt nodes are
recursive functions over a list, so what they are for every list is an
induction.  The library's induction theorems cannot be used (they take an
operator as a parameter); each induction is written out, as the least
counterexample of a set of naturals, which has a least member, or the greatest
one where a pass runs backwards.  `TermsEquation` says that the definition of
terms has the solution it should have on every list whose inputs come first.

**`CompileProofs`**, for any operators and sizes, and for stores that were reduced
before and hold stages.  `Invariance` shows the inductive invariant, which says
of the store that every node reads earlier nodes and is there once, kept by
recording and by going on with a reduced store (`FinishIsStore`);
`ClassesForcedAlways` shows that whatever the engine has merged
so far is equal in every interpretation of the operators that obeys the rules,
so that stopping it early is sound; `ExtractionOrderedAlways` that the
representative of an input was always emitted before the node that reads it, so
that the lookup of the code cannot fail.  The lemmas on the way say that
`Reachable` is the least closed set that holds the outputs, and that two nodes
equal under a finer labelling are equal under a coarser one.

`SemanticsPreservedAlways` says that a compiled graph computes what was recorded,
for any graph, any merges and both modes, where tokens name operators.  Terms of
the nodes are one such interpretation, so what the engine merged has equal
terms (`ClassesForced` again).  The rest is a chain with one link per pass:
reading through classes keeps terms (`ClassesKeepTerms`), so does the extracted
quotient (`QuotientMeans`), so does CSE (`CseMeans`); a component of fusion is a
chain of ops below one head, and the stage made of it unfolds to the term of its
head (`FuseStageMeans`, `StageFusionMeans`); interning a list whose inputs come
first keeps the term of each entry (`InternAllMeans`); and `FinishMeans` puts
the passes together.  `PassesInv` carries the result through the phases.

`SaturatedIsIrredundantAlways` is the converse for an engine that finished: two
extracted nodes that the laws make equal are one.  It needs a store without
stages (`AgainAllowed` is false), since the engine does not look into stages and
an op may have the term of a stage.  `MaximalFusesMoreAlways` holds
of any ordered graph.  `ResultWellFormedAlways` and `ReportCountsRebuiltAlways`
rest on two facts.  Merging drops no input: a class holds nodes of one operator
over the same inputs, but for identity ops, which are their input
(`EngineInv`).  So extraction leaves nothing dead, and no pass after it does.
And the keys that fusion emits differ: two stages with one key would have, member
by member, the same tokens over the same inputs, CSE leaves no two nodes alike
(`NoTwins`), so the members and the head would be the same (`SameStage`).  So the
rebuild interns without merging, and the count taken before it is right.
`ResultWellFormedAlways` has `AgainAllowed` false too: a stage of a store is
looked up by its token, which is its number of members, so of two stages with
one token one is rebuilt with the members of the other, which may read more
inputs than it has.

`ReducedIsFixpointAlways` needs no induction over passes: on a store without ops
no rule applies, so nothing is merged (`WholeStoreUnmerged`, from the labelling of
each node by itself, which obeys the rules); the store holds each key once, so CSE
finds no twins; each node is a component of its own; and interning keys that
differ gives each the id it had.

`EachNodeOnceAlways` compares two sums, one over the extracted nodes and one over
the list that was rebuilt.  Both count units, pairs of a node and a number up to
its size: that a sum over a finite set, or along a list, is the cardinality of
its set of units is an induction of its own (`SumsAreUnits`, `SumFunctionCounts`,
`FoldLeftCounts`).  `FusedUnits` then pairs the units: the `k`-th unit of a stage
is its `k`-th member, and a unit of a node that stands alone is its own.  What egg
returns has no twins left for CSE to merge (`RebuiltInv`), and the rebuild merges
no keys, so no other pass makes the sum fall.

**`IncrementalProofs`**, for any threads and any shapes of nodes.  `ReducerInv` adds
to the types what each phase of a call knows: a thread inside the reducer holds
its mutex (`HolderInside`); what a running step holds is the stretch of the
arena right after the watermark (`DeltaFollowsMap`); the work counter lags the
watermark by exactly what the step has still to count (`WorkLags`); the outputs
of a finalize call were in the store when it started and are below the watermark
once its step is over (`RequestKnown`).  From it: `TypeCorrect`,
`WorkIsWatermarkAlways`, `ConsumesInOrderAlways`, `FinalizeAcceptsAlways`.
`NothingLeftToMergeAlways` needs one assumption more, `TokensNameShapes`: nodes
with the same token have the same operator, which is what the token is for.

`MapIsExactAlways` is the strongest statement about the reducer: two recorded
nodes share a canonical node exactly when the laws make them equal, and it
computes what they compute.  `ExactInv` carries it node by node: each canonical
node computes what the recorded nodes mapped to it compute (`TermsKept`), so a
shared one means equal terms; conversely no two canonical nodes are alike, so
equal terms give one node.
Its assumption `IdentitiesUnary` says that an identity op
has one input; with two, the reducer drops the second and the engine does not,
which is the observation of section 3.  `FinalizeKeepsMeaningAlways` adds the
passes after it: the canonical nodes are a list to which `FinishMeans` applies,
and `FinalInv` keeps the answer of a thread true while others record and step.

`FinalizeMatchesReduceIfLiveAlways` is the claim of the source that one pass is as
good as the engine run to its end, in the form in which it is true: `finalize`
and the one-shot reduction return the same store, node for node, when the
outputs need all that was recorded (`FinalizeMatchesReduce`, without the last
condition, is refuted by a run).  `MapIsExact` says which nodes share a canonical
node and not in what order these stand, and the order decides every id of the
result.  So the invariant `PassInv` adds how the map came about: each node follows
its key, and a canonical node was pushed by the first node mapped to it, later
than all before.  It follows that the classes of the pass solve the equation
that defines the classes of the saturated graph, which has one solution
(`ClassSolved`, `SaturationIsOnePass`), that every canonical node is live
(`CanonicalLive`), and that the map renumbers what the engine would extract in
its order (`PassRenumbers`).  `FinishKept`, in `ReductionProofs`, says that CSE,
fusion and rebuild make one store of two graphs that differ by such a
renumbering.  `MatchInv` keeps the match while others record, since what a
`finalize` saw is a prefix of the arena.

**`SequentialRunProofs`**, for any tasks, uris and bound of the cache, zero
included: `HandlesReleasedAlways` and `CacheBoundedAlways`, from the invariant
that each handle ever opened is either cached or was closed, counted with
multiplicity.  The lemmas on the way say what moving an entry to the end of a
list does to its entries.

`EventsInOrderAlways`, `StartsInKeyOrderAlways` and `FoldsInKeyOrderAlways` have the
invariant `OrderInv`: the tasks carry their places in the plan (`PlanTyped`), the
events so far are, one for one, those of the first `n` tasks in key order
(`History`), where the run is in its loop says how many there are (`Progress`),
and the value is the fold of those tasks (`Folded`).  The model says what order the sort of the code yields, not how it
is found, and picks the one that has this property; `SomeOrderSorts` proves that
every list of tasks has one: each task's place is the number of tasks before it.
`CacheIsMostRecentAlways` needs that the cache holds its uris in the order of
their last uses and that every uri used since is in it (`RecentInv`).

**`ParamsProofs`** has two parts, for lists and texts of any length.  Sorting:
`ParamMap::new` yields one sorted list (`ParamMapSorts`), which is the only one
with those entries (`SortedIsUnique`).  Texts: `UnescapeEscape` says that
unescaping takes back escaping, for texts that hold separators and the escape
character itself.  `str::replace` works on a text as on its characters, so four
passes of escaping turn each character into its image, and an image holds one
escape character, at its front.  So no code begins inside an image, and each pass
of unescaping takes back the pass of its own separator and no other.  Since escaped texts
hold no separator (`EscapeFree`), cutting a token at a separator yields what was
joined (`PiecesAreTexts`), and `OpReadBack` puts these together: the token of an op
reads back as its name and its parameters.

**`DeploymentProofs`**, for any vocabulary, files, chunk sizes and numbers of
steps, sessions and arrivals.
`SomeStepReads` and `OneStepReads` are about integer division alone: the
quotients `s * n \div k` cut `0 .. n` into stretches that meet, so that entry
`e` falls into exactly one, the one of step `(k * (e + 1) - 1) \div n`.
`PlannerInv` is the invariant of the loop: the partitions made so far read each
entry of each dataset up to where the loop is once, and nothing above (`Tiled`).
One lemma per action shows that it is kept, and `JsonReadsBack` that the JSON
form loses nothing of a partition that was made by these actions.
`EntriesReadOnceAlways` follows from `PlannerInv` and from what a worker has
being what was planned (`PlanInv`).

`LoadedIsGraphAlways` needs no assumption about the wire: each node is checked
against the store that exists when it is read, and outputs are marked only after
the last node, so what was checked stays true (`LoaderInv`).

`LoadsOrRefusesAlways` has two invariants.  `ClientInv`: what the client holds and
what it sends is `Sendable`, a graph each of whose nodes the decoder accepts and
changes no more.  It needs `ParamsProofs`: `ParamMap::new` sorts, and sorting what
is sorted changes nothing (`ParamMapSorts`, `SortedStays`), so that sorting again
at the other end is harmless.  `TracksWire`: while the decoder reads, what is left
is the wire from the item it is at, up to where the wire was cut or extended
(`Follows`), what it has built is the part of what was sent before that item, and
the marks are the outputs so far in the order in which each came first
(`KeepsFirst`).  A cut wire leaves less than what is due, so the end is not reached;
in an unharmed one every check succeeds because `Sendable` says so.  When no output
was requested twice, the marks are the outputs themselves (`KeptAsAsked`: the
places in which they came first grow and leave none out), and the bytes follow.

`ListsWhatWasRecordedAlways` says that what is shown of a loaded graph is what was
recorded.  Of the client it needs that every call was answered with the id of a
node of its identity and that every node was made by a call that recorded its very
key (`CallsInv`), and that what was sent is the store or the chain fused from it
(`SentInv`).  Calls with one identity have the same
parameters up to NaNs (`SameParams`), so they show the same, and an id
tells the call (`IdsTellCalls`).  A node that stands alone shows its own parameters
(`PlainListed`); a member of a stage is only a token, and shows what `OpReadBack`
reads from it (`MemberShown`, `FusedListed`).

`SameIdSameWorkAlways` goes backwards from a task id.  Equal ids mean equal bytes,
process and partition.  The encoding is injective (`WireTells`), the JSON form
too (`JsonReadsBack`), and a graph that was sent determines what was
recorded (`SentTells`): a stage can only come from fusing, and a token tells name and
parameters.  `WorkTells` is the converse, for work that is the same to the bits
of its NaNs.  The invariant `LogInv` says that each entry of the log is that of a
recorded store, of what was sent of it and of a planned partition; it rests on
`PlanInv`, that what a worker has is what was planned, and on `RanInv`, that it
runs its list in turn.

**Only model-checked.**  `LockReleased`, which is liveness under fairness.  In
`Compile`, `SaturatedIsIrredundant` and `ResultWellFormed` for stores that hold
stages.  That SHA-256 and the built-in printing of numbers are injective is part
of the model, not a result.

## 6. What is not modelled

* The bytes within an item of the wire: tags and UTF-8 that are invalid, counts
  that do not fit 32 bits.  They need the layout of bytes and fail the decoder at
  once, wherever they are.
* `StopCondition.reason` and `Plan.next_tasks`: only unit tests call them, the
  executors that would are in another repository.
* Of `plan.py`: how callables are found and pickled, `fingerprint`, and metadata
  that the plan only carries.
* Conversions of descriptors and reports in `lib.rs`: copies, field by field.
* Poisoning of the store's mutex: no statement inside the section panics short
  of running out of memory.
* `to_dot` and labels: formatting.
* `scripts/`, packaging and CI: tooling.

## 7. Plan

Done: the store with its refinement and proofs, reduction with its reference
semantics and the proofs that every pass keeps it, the incremental reducer, the
sequential run with its resources, and the way from recorded parameters to the
tasks of a worker, each with proofs.

Every invariant and every action property of a passing run is a theorem, some
under the conditions on tokens, identity ops or stages that section 5 names.
What is left: stores that hold stages, for which `SaturatedIsIrredundant` and
`ResultWellFormed` would need a token that names the members of a stage; and the
bytes within an item of the wire (section 6).
