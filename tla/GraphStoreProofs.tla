-------------------------- MODULE GraphStoreProofs --------------------------
(***************************************************************************)
(* Proofs about the graph store: the inductive invariant and what follows *)
(* from it, for any threads, keys, marked ids and output requests.        *)
(***************************************************************************)
EXTENDS GraphStore, SequenceTheorems, TLAPS

(* IsPrefix, read position by position. *)
LEMMA PrefixPointwise ==
  ASSUME NEW S, NEW s \in Seq(S), NEW t \in Seq(S)
  PROVE  IsPrefix(s, t) <=>
           Len(s) <= Len(t) /\ \A n \in 1 .. Len(s) : s[n] = t[n]
<1>1. SubSeq(s, 1, Len(s)) = s
  BY SubSeqFull
<1>2. ASSUME Len(s) <= Len(t)
      PROVE  /\ SubSeq(t, 1, Len(s)) \in Seq(S)
             /\ Len(SubSeq(t, 1, Len(s))) = Len(s)
             /\ \A n \in 1 .. Len(s) : SubSeq(t, 1, Len(s))[n] = t[n]
  <2>1. \A n \in 1 .. Len(s) : t[n] \in S
    BY <1>2, ElementOfSeq, LenProperties
  <2> QED
    BY <2>1, <1>2, SubSeqProperties, LenProperties
<1>3. ASSUME Len(s) <= Len(t), \A n \in 1 .. Len(s) : s[n] = t[n]
      PROVE  s = SubSeq(t, 1, Len(s))
  BY <1>2, <1>3, SeqEqual
<1> QED
  BY <1>1, <1>2, <1>3 DEF IsPrefix

(* Every list is a prefix of itself. *)
LEMMA PrefixOfSelf ==
  ASSUME NEW S, NEW s \in Seq(S)
  PROVE  IsPrefix(s, s)
BY PrefixPointwise

(* What was a prefix of a list is a prefix of the list with one more entry. *)
LEMMA PrefixOfAppend ==
  ASSUME NEW S, NEW s \in Seq(S), NEW t \in Seq(S), NEW e \in S, IsPrefix(s, t)
  PROVE  IsPrefix(s, Append(t, e))
<1>1. Len(s) <= Len(t) /\ \A n \in 1 .. Len(s) : s[n] = t[n]
  BY PrefixPointwise
<1>2. /\ Append(t, e) \in Seq(S)
      /\ Len(s) <= Len(Append(t, e))
      /\ \A n \in 1 .. Len(s) : s[n] = Append(t, e)[n]
  BY <1>1
<1> QED
  BY <1>2, PrefixPointwise

-----------------------------------------------------------------------------
(* The invariant holds initially and every step keeps it. *)

(* A new store satisfies the invariant. *)
LEMMA InitInv == Init => Inv
BY NoThreadIsNone, NoKeyIsNone
   DEF Init, Inv, TypeOK, HolderInSection, EntriesRight, EntriesComplete,
       CallState, HeldClosed, InternedOnce, Topological, TopologicalList,
       ReplyNamesKey, ViewsClosed, MarksDistinct, InSection, None, NoView, Threads

(* Entering add_*: only the caller changes, and it holds nothing yet. *)
LEMMA CallKeeps ==
  ASSUME Inv, NEW t \in Recorders, NEW k \in Keys, Call(t, k)
  PROVE  Inv'
<1>1. TypeOK'
  BY NoThreadIsNone, RequestsAreIds, MarkedAreIds DEF Inv, TypeOK,
         CallState, Call, Goto, InSection, None, Threads
<1>2. HolderInSection'
  BY NoThreadIsNone DEF Inv, TypeOK, HolderInSection, Call, Goto, InSection,
         LockFree, Threads
<1>3. CallState'
  BY DEF Inv, TypeOK, HolderInSection, CallState, InternedOnce, Call, Goto,
         InSection, Known, LockFree, None, Ok, Threads
<1>4. (EntriesRight /\ EntriesComplete)'
  BY NoIdIsNone DEF Inv, TypeOK, HolderInSection, CallState, EntriesRight,
         EntriesComplete, Call, Goto, InSection, Known, NodeAt, LockFree,
         Threads
<1>5. (InternedOnce /\ Topological /\ MarksDistinct)'
  BY DEF Inv, InternedOnce, Topological, TopologicalList, MarksDistinct,
         Call, Known
<1>6. (ReplyNamesKey /\ ViewsClosed /\ HeldClosed)'
  BY DEF Inv, TypeOK, EntriesRight, ReplyNamesKey, ViewsClosed, HeldClosed,
         MarksDistinct, Call, Goto, Known, NodeAt, AllBelow, None, Threads
<1> QED BY <1>1, <1>2, <1>3, <1>4, <1>5, <1>6 DEF Inv

(* Taking the mutex: nobody held it, so the section has one thread. *)
LEMMA LockKeeps ==
  ASSUME Inv, NEW t \in Recorders, Lock(t)
  PROVE  Inv'
<1>1. TypeOK'
  BY NoThreadIsNone, RequestsAreIds, MarkedAreIds DEF Inv, TypeOK,
         CallState, Lock, Goto, InSection, Threads
<1>2. HolderInSection'
  BY NoThreadIsNone DEF Inv, TypeOK, HolderInSection, Lock, Goto, InSection,
         LockFree, Threads
<1>3. CallState'
  BY DEF Inv, TypeOK, HolderInSection, CallState, InternedOnce, Lock, Goto,
         InSection, Known, LockFree, None, Ok, Threads
<1>4. (EntriesRight /\ EntriesComplete)'
  BY NoIdIsNone DEF Inv, TypeOK, HolderInSection, CallState, EntriesRight,
         EntriesComplete, Lock, Goto, InSection, Known, NodeAt, LockFree,
         Threads
<1>5. (InternedOnce /\ Topological /\ MarksDistinct)'
  BY DEF Inv, InternedOnce, Topological, TopologicalList, MarksDistinct,
         Lock, Known
<1>6. (ReplyNamesKey /\ ViewsClosed /\ HeldClosed)'
  BY DEF Inv, TypeOK, EntriesRight, ReplyNamesKey, ViewsClosed, HeldClosed,
         MarksDistinct, Lock, Goto, Known, NodeAt, AllBelow, Threads
<1> QED BY <1>1, <1>2, <1>3, <1>4, <1>5, <1>6 DEF Inv

(* A BadNodeId return leaves arena and table as they were. *)
LEMMA RefuseInputKeeps ==
  ASSUME Inv, NEW t \in Recorders, RefuseInput(t)
  PROVE  Inv'
<1>1. TypeOK'
  <2>1. key[t] \in Keys
    BY DEF Inv, CallState, RefuseInput, Goto, InSection, Threads
  <2>2. \A j \in DOMAIN key[t].inputs : key[t].inputs[j] \in Nat
    BY <2>1, KeysHaveInputs
  <2>3. reply' \in [Threads -> [tag : {"none", "ok", "bad"}, id : Nat]]
    BY <2>2 DEF Inv, TypeOK, RefuseInput, Bad, Threads
  <2> QED
    BY <2>3 DEF Inv, TypeOK, RefuseInput, Goto, InSection, Threads
<1>2. HolderInSection'
  BY NoThreadIsNone DEF Inv, TypeOK, HolderInSection, RefuseInput, Goto,
         InSection, LockFree, Threads
<1>3. CallState'
  BY DEF Inv, TypeOK, HolderInSection, CallState, InternedOnce, RefuseInput,
         Goto, InSection, Known, LockFree, None, Ok, Threads
<1>4. (EntriesRight /\ EntriesComplete)'
  BY NoIdIsNone DEF Inv, TypeOK, HolderInSection, CallState, EntriesRight,
         EntriesComplete, RefuseInput, Goto, InSection, Known, NodeAt,
         LockFree, Threads
<1>5. (InternedOnce /\ Topological /\ MarksDistinct)'
  BY DEF Inv, InternedOnce, Topological, TopologicalList, MarksDistinct,
         RefuseInput, Known
<1>6. (ReplyNamesKey /\ ViewsClosed /\ HeldClosed)'
  BY DEF Inv, TypeOK, EntriesRight, ReplyNamesKey, ViewsClosed, HeldClosed,
         MarksDistinct, RefuseInput, Goto, Known, NodeAt, AllBelow, Bad,
         Known, Threads
<1> QED BY <1>1, <1>2, <1>3, <1>4, <1>5, <1>6 DEF Inv

(*************************************************************************)
(* The input check establishes that the key is closed, for the rest of    *)
(* the section.                                                           *)
(*************************************************************************)
LEMMA AcceptInputsKeeps ==
  ASSUME Inv, NEW t \in Recorders, AcceptInputs(t)
  PROVE  Inv'
<1>1. TypeOK'
  BY NoThreadIsNone, RequestsAreIds, MarkedAreIds DEF Inv, TypeOK,
         CallState, AcceptInputs, Goto, InSection, Known, Threads
<1>2. HolderInSection'
  BY NoThreadIsNone DEF Inv, TypeOK, HolderInSection, AcceptInputs, Goto,
         InSection, LockFree, Threads
<1>3. CallState'
  BY DEF Inv, TypeOK, HolderInSection, CallState, InternedOnce,
         AcceptInputs, Goto, InSection, Known, LockFree, None, Ok, Threads
<1>4. (EntriesRight /\ EntriesComplete)'
  BY NoIdIsNone DEF Inv, TypeOK, HolderInSection, CallState, EntriesRight,
         EntriesComplete, AcceptInputs, Goto, InSection, Known, NodeAt,
         LockFree, Threads
<1>5. (InternedOnce /\ Topological /\ MarksDistinct)'
  BY DEF Inv, InternedOnce, Topological, TopologicalList, MarksDistinct,
         AcceptInputs, Known
<1>6. (ReplyNamesKey /\ ViewsClosed /\ HeldClosed)'
  BY DEF Inv, TypeOK, EntriesRight, ReplyNamesKey, ViewsClosed, HeldClosed,
         MarksDistinct, AcceptInputs, Goto, Known, NodeAt, AllBelow, Known,
         Threads
<1> QED BY <1>1, <1>2, <1>3, <1>4, <1>5, <1>6 DEF Inv

(* A hit returns an id of the table, hence one whose node is the key. *)
LEMMA ProbeHitKeeps ==
  ASSUME Inv, NEW t \in Recorders, ProbeHit(t)
  PROVE  Inv'
<1>1. TypeOK'
  BY NoThreadIsNone, RequestsAreIds, MarkedAreIds DEF Inv, TypeOK,
         CallState, ProbeHit, Goto, InSection, Ok, Threads
<1>2. HolderInSection'
  BY NoThreadIsNone DEF Inv, TypeOK, HolderInSection, ProbeHit, Goto,
         InSection, LockFree, Threads
<1>3. CallState'
  BY DEF Inv, TypeOK, HolderInSection, CallState, InternedOnce, ProbeHit,
         Goto, InSection, Known, LockFree, None, Ok, Threads
<1>4. (EntriesRight /\ EntriesComplete)'
  BY NoIdIsNone DEF Inv, TypeOK, HolderInSection, CallState, EntriesRight,
         EntriesComplete, ProbeHit, Goto, InSection, Known, NodeAt,
         LockFree, Threads
<1>5. (InternedOnce /\ Topological /\ MarksDistinct)'
  BY DEF Inv, InternedOnce, Topological, TopologicalList, MarksDistinct,
         ProbeHit, Known
<1>6. (ReplyNamesKey /\ ViewsClosed /\ HeldClosed)'
  <2>1. key[t] \in Keys /\ intern[key[t]] # NoId
    BY DEF Inv, CallState, ProbeHit, Goto, InSection, Threads
  <2>2. ReplyNamesKey'
    BY <2>1 DEF Inv, TypeOK, EntriesRight, ReplyNamesKey, ProbeHit, Known,
                NodeAt, Ok, Threads
  <2>3. (ViewsClosed /\ HeldClosed)'
    BY DEF Inv, TypeOK, ViewsClosed, HeldClosed, ProbeHit, Goto, AllBelow
  <2> QED BY <2>2, <2>3
<1> QED BY <1>1, <1>2, <1>3, <1>4, <1>5, <1>6 DEF Inv

(*************************************************************************)
(* A miss shows the key to be absent from the arena until the lock is     *)
(* released.                                                              *)
(*************************************************************************)
LEMMA ProbeMissKeeps ==
  ASSUME Inv, NEW t \in Recorders, ProbeMiss(t)
  PROVE  Inv'
<1>1. TypeOK'
  BY NoThreadIsNone, RequestsAreIds, MarkedAreIds DEF Inv, TypeOK,
         CallState, ProbeMiss, Goto, InSection, Threads
<1>2. HolderInSection'
  BY NoThreadIsNone DEF Inv, TypeOK, HolderInSection, ProbeMiss, Goto,
         InSection, LockFree, Threads
<1>3. CallState'
  BY DEF Inv, TypeOK, HolderInSection, CallState, InternedOnce, ProbeMiss,
         Goto, InSection, Known, LockFree, None, Ok, Threads
<1>4. (EntriesRight /\ EntriesComplete)'
  BY NoIdIsNone DEF Inv, TypeOK, HolderInSection, CallState, EntriesRight,
         EntriesComplete, ProbeMiss, Goto, InSection, Known, NodeAt,
         LockFree, Threads
<1>5. (InternedOnce /\ Topological /\ MarksDistinct)'
  BY DEF Inv, InternedOnce, Topological, TopologicalList, MarksDistinct,
         ProbeMiss, Known
<1>6. (ReplyNamesKey /\ ViewsClosed /\ HeldClosed)'
  BY DEF Inv, TypeOK, EntriesRight, ReplyNamesKey, ViewsClosed, HeldClosed,
         MarksDistinct, ProbeMiss, Goto, Known, NodeAt, AllBelow, Threads
<1> QED BY <1>1, <1>2, <1>3, <1>4, <1>5, <1>6 DEF Inv

(*************************************************************************)
(* The push adds a key that was absent, after its inputs: no duplicate,   *)
(* still a DAG.                                                           *)
(*************************************************************************)
LEMMA PushKeeps ==
  ASSUME Inv, NEW t \in Recorders, Push(t)
  PROVE  Inv'
<1>1. TypeOK'
  BY NoThreadIsNone, RequestsAreIds, MarkedAreIds DEF Inv, TypeOK,
         CallState, Push, Goto, InSection, Ok, Threads
<1>2. HolderInSection'
  BY NoThreadIsNone DEF Inv, TypeOK, HolderInSection, Push, Goto, InSection,
         LockFree, Threads
<1>3. CallState'
  BY DEF Inv, TypeOK, HolderInSection, CallState, InternedOnce, Push, Goto,
         InSection, Known, LockFree, None, Ok, Threads
<1>4. (EntriesRight /\ EntriesComplete)'
  BY SMTT(30), NoIdIsNone DEF Inv, TypeOK, HolderInSection, CallState, EntriesRight,
         EntriesComplete, Push, Goto, InSection, Known, NodeAt, LockFree,
         Threads
<1>5. (InternedOnce /\ Topological /\ MarksDistinct)'
  BY SMTT(30), NoIdIsNone, KeysHaveInputs DEF Inv, TypeOK, HolderInSection, CallState,
         EntriesComplete, InternedOnce, Topological, TopologicalList,
         MarksDistinct, Push, Goto, InSection, Known, Threads
<1>6. (ReplyNamesKey /\ ViewsClosed /\ HeldClosed)'
  <2>1. key[t] \in Keys /\ nodes \in Seq(Keys)
    BY DEF Inv, TypeOK, CallState, Push, Goto, InSection, Threads
  <2>2. ASSUME NEW u \in Threads PROVE
          IsPrefix(view[u].nodes, nodes) => IsPrefix(view[u].nodes, nodes')
    BY <2>1, PrefixOfAppend DEF Inv, TypeOK, Push
  <2>3. ViewsClosed'
    BY <2>2 DEF Inv, ViewsClosed, Push
  <2>4. (ReplyNamesKey /\ HeldClosed)'
    BY SMTT(30), <2>1 DEF Inv, TypeOK, ReplyNamesKey, HeldClosed, Push, Goto, Known,
                NodeAt, AllBelow, Ok, Threads
  <2> QED BY <2>3, <2>4
<1> QED BY <1>1, <1>2, <1>3, <1>4, <1>5, <1>6 DEF Inv

(* The insert completes the table with the id that the push created. *)
LEMMA InsertKeeps ==
  ASSUME Inv, NEW t \in Recorders, Insert(t)
  PROVE  Inv'
<1>1. TypeOK'
  BY NoThreadIsNone, RequestsAreIds, MarkedAreIds DEF Inv, TypeOK,
         CallState, Insert, Goto, InSection, Ok, Threads
<1>2. HolderInSection'
  BY NoThreadIsNone DEF Inv, TypeOK, HolderInSection, Insert, Goto,
         InSection, LockFree, Threads
<1>3. CallState'
  BY DEF Inv, TypeOK, HolderInSection, CallState, InternedOnce, Insert,
         Goto, InSection, Known, LockFree, None, Ok, Threads
<1>4. (EntriesRight /\ EntriesComplete)'
  <2>1. reply[t] = Ok(Len(nodes) - 1) /\ key[t] \in Keys
    BY DEF Inv, CallState, Insert, Goto, InSection, Threads
  <2>2. reply[t].id < Len(nodes) /\ nodes[reply[t].id + 1] = key[t]
    BY <2>1 DEF Inv, ReplyNamesKey, Ok, Known, NodeAt, Threads
  <2>3. EntriesRight'
    BY <2>1, <2>2 DEF Inv, TypeOK, EntriesRight, Insert, Known, NodeAt
  <2>4. EntriesComplete'
    BY <2>1, <2>2, NoIdIsNone
       DEF Inv, TypeOK, EntriesComplete, Insert, Goto, HolderInSection, Ok,
           InSection, Threads
  <2> QED BY <2>3, <2>4
<1>5. (InternedOnce /\ Topological /\ MarksDistinct)'
  BY NoIdIsNone, KeysHaveInputs DEF Inv, TypeOK, HolderInSection, CallState,
         EntriesComplete, InternedOnce, Topological, TopologicalList,
         MarksDistinct, Insert, Goto, InSection, Known, Threads
<1>6. (ReplyNamesKey /\ ViewsClosed /\ HeldClosed)'
  BY DEF Inv, TypeOK, EntriesRight, ReplyNamesKey, ViewsClosed, HeldClosed,
         MarksDistinct, Insert, Goto, Known, NodeAt, AllBelow, Ok, Threads
<1> QED BY <1>1, <1>2, <1>3, <1>4, <1>5, <1>6 DEF Inv

(* The lock is released only when table and arena agree again. *)
LEMMA UnlockKeeps ==
  ASSUME Inv, NEW t \in Recorders, Unlock(t)
  PROVE  Inv'
<1>1. TypeOK'
  BY NoThreadIsNone, RequestsAreIds, MarkedAreIds DEF Inv, TypeOK,
         CallState, Unlock, Goto, InSection, Threads
<1>2. HolderInSection'
  BY NoThreadIsNone DEF Inv, TypeOK, HolderInSection, Unlock, Goto,
         InSection, LockFree, Threads
<1>3. CallState'
  BY DEF Inv, TypeOK, HolderInSection, CallState, InternedOnce, Unlock,
         Goto, InSection, Known, LockFree, None, Ok, Threads
<1>4. (EntriesRight /\ EntriesComplete)'
  BY NoIdIsNone DEF Inv, TypeOK, HolderInSection, CallState, EntriesRight,
         EntriesComplete, Unlock, Goto, InSection, Known, NodeAt, LockFree,
         Threads
<1>5. (InternedOnce /\ Topological /\ MarksDistinct)'
  BY DEF Inv, InternedOnce, Topological, TopologicalList, MarksDistinct,
         Unlock, Known
<1>6. (ReplyNamesKey /\ ViewsClosed /\ HeldClosed)'
  BY DEF Inv, TypeOK, EntriesRight, ReplyNamesKey, ViewsClosed, HeldClosed,
         MarksDistinct, Unlock, Goto, Known, NodeAt, AllBelow, Threads
<1> QED BY <1>1, <1>2, <1>3, <1>4, <1>5, <1>6 DEF Inv

(* mark_output adds an id of the arena that was not marked. *)
LEMMA MarkOutputKeeps ==
  ASSUME Inv, NEW t \in Readers, NEW i \in MarkedIds, MarkOutput(t, i)
  PROVE  Inv'
<1>1. TypeOK'
  BY SMTT(30), NoThreadIsNone, RequestsAreIds, MarkedAreIds DEF Inv, TypeOK,
         CallState, MarkOutput, Goto, InSection, Threads
<1>2. HolderInSection'
  BY NoThreadIsNone DEF Inv, TypeOK, HolderInSection, MarkOutput, Goto,
         InSection, LockFree, Threads
<1>3. CallState'
  BY DEF Inv, TypeOK, HolderInSection, CallState, InternedOnce, MarkOutput,
         Goto, InSection, Known, LockFree, None, Ok, Threads
<1>4. (EntriesRight /\ EntriesComplete)'
  BY NoIdIsNone DEF Inv, TypeOK, HolderInSection, CallState, EntriesRight,
         EntriesComplete, MarkOutput, Goto, InSection, Known, NodeAt,
         LockFree, Threads
<1>5. (InternedOnce /\ Topological /\ MarksDistinct)'
  <2>1. outputs \in Seq(Nat) /\ i \in Nat
    BY MarkedAreIds DEF Inv, TypeOK
  <2>2. \A n \in DOMAIN outputs : outputs[n] # i
    BY <2>1 DEF MarkOutput, Contains
  <2>3. MarksDistinct'
    BY <2>1, <2>2 DEF Inv, MarksDistinct, MarkOutput, Known
  <2> QED
    BY <2>3 DEF Inv, InternedOnce, Topological, TopologicalList, MarkOutput
<1>6. (ReplyNamesKey /\ ViewsClosed /\ HeldClosed)'
  BY DEF Inv, TypeOK, EntriesRight, ReplyNamesKey, ViewsClosed, HeldClosed,
         MarksDistinct, MarkOutput, Goto, Known, NodeAt, AllBelow, Threads
<1> QED BY <1>1, <1>2, <1>3, <1>4, <1>5, <1>6 DEF Inv

(* A snapshot holds a prefix of the arena and marks that lie in it. *)
LEMMA SnapshotKeeps ==
  ASSUME Inv, NEW t \in Readers, Snapshot(t)
  PROVE  Inv'
<1>1. TypeOK'
  BY NoThreadIsNone, RequestsAreIds, MarkedAreIds DEF Inv, TypeOK,
         CallState, Snapshot, Goto, InSection, Graph, Threads
<1>2. HolderInSection'
  BY NoThreadIsNone DEF Inv, TypeOK, HolderInSection, Snapshot, Goto,
         InSection, LockFree, Threads
<1>3. CallState'
  BY DEF Inv, TypeOK, HolderInSection, CallState, InternedOnce, Snapshot,
         Goto, InSection, Known, LockFree, None, Ok, Threads
<1>4. (EntriesRight /\ EntriesComplete)'
  BY NoIdIsNone DEF Inv, TypeOK, HolderInSection, CallState, EntriesRight,
         EntriesComplete, Snapshot, Goto, InSection, Known, NodeAt,
         LockFree, Threads
<1>5. (InternedOnce /\ Topological /\ MarksDistinct)'
  BY DEF Inv, InternedOnce, Topological, TopologicalList, MarksDistinct,
         Snapshot, Known
<1>6. (ReplyNamesKey /\ ViewsClosed /\ HeldClosed)'
  <2>1. IsPrefix(nodes, nodes)
    BY PrefixOfSelf DEF Inv, TypeOK
  <2>2. view'[t].tag = "graph" =>
          view'[t].nodes = nodes /\ AllBelow(view'[t].outs, Len(nodes))
    BY DEF Inv, TypeOK, MarksDistinct, Known, Snapshot, Graph, BadView, AllBelow, Threads
  <2>3. ViewsClosed'
    BY <2>1, <2>2 DEF Inv, TypeOK, ViewsClosed, Topological, Snapshot, Threads
  <2>4. (ReplyNamesKey /\ HeldClosed)'
    BY DEF Inv, TypeOK, ReplyNamesKey, HeldClosed, Snapshot, Goto, Known, NodeAt,
           Threads
  <2> QED BY <2>3, <2>4
<1> QED BY <1>1, <1>2, <1>3, <1>4, <1>5, <1>6 DEF Inv

(* A scoped compile keeps only requested ids that its copy covers. *)
LEMMA CompileScopedKeeps ==
  ASSUME Inv, NEW t \in Readers, NEW r \in OutputRequests, CompileScoped(t, r)
  PROVE  Inv'
<1>1. TypeOK'
  <2> DEFINE V == [tag : {"none", "graph", "bad"}, nodes : Seq(Keys), outs : Seq(Nat)]
  <2>1. r \in Seq(Nat) /\ \A j \in DOMAIN r : r[j] \in Nat
    BY RequestsAreIds
  <2>2. Graph(nodes, r) \in V
    BY <2>1 DEF Inv, TypeOK, Graph
  <2>3. \A j \in DOMAIN r : BadView(r[j]) \in V
    BY <2>1 DEF BadView
  <2>4. PICK v \in V : view' = [view EXCEPT ![t] = v]
    BY <2>2, <2>3 DEF CompileScoped
  <2>5. view' \in [Threads -> V]
    BY <2>4 DEF Inv, TypeOK, Threads
  <2> QED
    BY <2>5 DEF Inv, TypeOK, CompileScoped, Threads
<1>2. HolderInSection'
  BY NoThreadIsNone DEF Inv, TypeOK, HolderInSection, CompileScoped, Goto,
         InSection, LockFree, Threads
<1>3. CallState'
  BY DEF Inv, TypeOK, HolderInSection, CallState, InternedOnce,
         CompileScoped, Goto, InSection, Known, LockFree, None, Ok, Threads
<1>4. (EntriesRight /\ EntriesComplete)'
  BY NoIdIsNone DEF Inv, TypeOK, HolderInSection, CallState, EntriesRight,
         EntriesComplete, CompileScoped, Goto, InSection, Known, NodeAt,
         LockFree, Threads
<1>5. (InternedOnce /\ Topological /\ MarksDistinct)'
  BY DEF Inv, InternedOnce, Topological, TopologicalList, MarksDistinct,
         CompileScoped, Known
<1>6. (ReplyNamesKey /\ ViewsClosed /\ HeldClosed)'
  <2>1. IsPrefix(nodes, nodes)
    BY PrefixOfSelf DEF Inv, TypeOK
  <2>2. view'[t].tag = "graph" =>
          view'[t].nodes = nodes /\ AllBelow(view'[t].outs, Len(nodes))
    BY DEF Inv, TypeOK, CompileScoped, Graph, BadView, AllBelow, Threads
  <2>3. ViewsClosed'
    BY <2>1, <2>2 DEF Inv, TypeOK, ViewsClosed, Topological, CompileScoped, Threads
  <2>4. (ReplyNamesKey /\ HeldClosed)'
    BY DEF Inv, TypeOK, ReplyNamesKey, HeldClosed, CompileScoped, Goto, Known, NodeAt,
           Threads
  <2> QED BY <2>3, <2>4
<1> QED BY <1>1, <1>2, <1>3, <1>4, <1>5, <1>6 DEF Inv

(* Reading the marks for serialize changes only the reader. *)
LEMMA SerializeMarkedKeeps ==
  ASSUME Inv, NEW t \in Readers, SerializeMarked(t)
  PROVE  Inv'
<1>1. TypeOK'
  BY NoThreadIsNone, RequestsAreIds, MarkedAreIds DEF Inv, TypeOK,
         CallState, SerializeMarked, Goto, InSection, Threads
<1>2. HolderInSection'
  BY NoThreadIsNone DEF Inv, TypeOK, HolderInSection, SerializeMarked, Goto,
         InSection, LockFree, Threads
<1>3. CallState'
  BY DEF Inv, TypeOK, HolderInSection, CallState, InternedOnce,
         SerializeMarked, Goto, InSection, Known, LockFree, None, Ok,
         Threads
<1>4. (EntriesRight /\ EntriesComplete)'
  BY NoIdIsNone DEF Inv, TypeOK, HolderInSection, CallState, EntriesRight,
         EntriesComplete, SerializeMarked, Goto, InSection, Known, NodeAt,
         LockFree, Threads
<1>5. (InternedOnce /\ Topological /\ MarksDistinct)'
  BY DEF Inv, InternedOnce, Topological, TopologicalList, MarksDistinct,
         SerializeMarked, Known
<1>6. (ReplyNamesKey /\ ViewsClosed /\ HeldClosed)'
  BY DEF Inv, TypeOK, EntriesRight, ReplyNamesKey, ViewsClosed, HeldClosed,
         MarksDistinct, SerializeMarked, Goto, Known, NodeAt, AllBelow,
         Threads
<1> QED BY <1>1, <1>2, <1>3, <1>4, <1>5, <1>6 DEF Inv

(* Requested ids accepted by serialize lie in the arena, then and later. *)
LEMMA SerializeScopedKeeps ==
  ASSUME Inv, NEW t \in Readers, NEW r \in OutputRequests, SerializeScoped(t, r)
  PROVE  Inv'
<1>1. TypeOK'
  BY NoThreadIsNone, RequestsAreIds, MarkedAreIds DEF Inv, TypeOK,
         CallState, SerializeScoped, Goto, InSection, Threads
<1>2. HolderInSection'
  BY NoThreadIsNone DEF Inv, TypeOK, HolderInSection, SerializeScoped, Goto,
         InSection, LockFree, Threads
<1>3. CallState'
  BY DEF Inv, TypeOK, HolderInSection, CallState, InternedOnce,
         SerializeScoped, Goto, InSection, Known, LockFree, None, Ok,
         Threads
<1>4. (EntriesRight /\ EntriesComplete)'
  BY NoIdIsNone DEF Inv, TypeOK, HolderInSection, CallState, EntriesRight,
         EntriesComplete, SerializeScoped, Goto, InSection, Known, NodeAt,
         LockFree, Threads
<1>5. (InternedOnce /\ Topological /\ MarksDistinct)'
  BY DEF Inv, InternedOnce, Topological, TopologicalList, MarksDistinct,
         SerializeScoped, Known
<1>6. (ReplyNamesKey /\ ViewsClosed /\ HeldClosed)'
  BY DEF Inv, TypeOK, EntriesRight, ReplyNamesKey, ViewsClosed, HeldClosed,
         MarksDistinct, SerializeScoped, Goto, Known, NodeAt, AllBelow,
         Threads
<1> QED BY <1>1, <1>2, <1>3, <1>4, <1>5, <1>6 DEF Inv

(* A refused serialize changes only the reader. *)
LEMMA SerializeRefusedKeeps ==
  ASSUME Inv, NEW t \in Readers, NEW r \in OutputRequests, SerializeRefused(t, r)
  PROVE  Inv'
<1>1. TypeOK'
  <2>1. PICK j \in DOMAIN r : view' = [view EXCEPT ![t] = BadView(r[j])]
    BY DEF SerializeRefused
  <2>2. r[j] \in Nat
    BY RequestsAreIds
  <2>3. <<r[j]>> \in Seq(Nat) /\ <<>> \in Seq(Keys)
    BY <2>2
  <2>4. BadView(r[j]) \in [tag : {"none", "graph", "bad"}, nodes : Seq(Keys), outs : Seq(Nat)]
    BY <2>3 DEF BadView
  <2>5. view' \in [Threads -> [tag : {"none", "graph", "bad"},
                              nodes : Seq(Keys), outs : Seq(Nat)]]
    BY <2>1, <2>4 DEF Inv, TypeOK
  <2> QED
    BY <2>5 DEF Inv, TypeOK, SerializeRefused, InSection
<1>2. HolderInSection'
  BY NoThreadIsNone DEF Inv, TypeOK, HolderInSection, SerializeRefused,
         Goto, InSection, LockFree, Threads
<1>3. CallState'
  BY DEF Inv, TypeOK, HolderInSection, CallState, InternedOnce,
         SerializeRefused, Goto, InSection, Known, LockFree, None, Ok,
         Threads
<1>4. (EntriesRight /\ EntriesComplete)'
  BY NoIdIsNone DEF Inv, TypeOK, HolderInSection, CallState, EntriesRight,
         EntriesComplete, SerializeRefused, Goto, InSection, Known, NodeAt,
         LockFree, Threads
<1>5. (InternedOnce /\ Topological /\ MarksDistinct)'
  BY DEF Inv, InternedOnce, Topological, TopologicalList, MarksDistinct,
         SerializeRefused, Known
<1>6. (ReplyNamesKey /\ ViewsClosed /\ HeldClosed)'
  BY DEF Inv, TypeOK, EntriesRight, ReplyNamesKey, ViewsClosed, HeldClosed,
         MarksDistinct, SerializeRefused, Goto, Known, NodeAt, AllBelow,
         BadView, Threads
<1> QED BY <1>1, <1>2, <1>3, <1>4, <1>5, <1>6 DEF Inv

(* The nodes serialize reads last cover the marks it read first. *)
LEMMA SerializeNodesKeeps ==
  ASSUME Inv, NEW t \in Readers, SerializeNodes(t)
  PROVE  Inv'
<1>1. TypeOK'
  BY NoThreadIsNone, RequestsAreIds, MarkedAreIds DEF Inv, TypeOK,
         CallState, SerializeNodes, Goto, InSection, Graph, Threads
<1>2. HolderInSection'
  BY NoThreadIsNone DEF Inv, TypeOK, HolderInSection, SerializeNodes, Goto,
         InSection, LockFree, Threads
<1>3. CallState'
  BY DEF Inv, TypeOK, HolderInSection, CallState, InternedOnce,
         SerializeNodes, Goto, InSection, Known, LockFree, None, Ok, Threads
<1>4. (EntriesRight /\ EntriesComplete)'
  BY NoIdIsNone DEF Inv, TypeOK, HolderInSection, CallState, EntriesRight,
         EntriesComplete, SerializeNodes, Goto, InSection, Known, NodeAt,
         LockFree, Threads
<1>5. (InternedOnce /\ Topological /\ MarksDistinct)'
  BY DEF Inv, InternedOnce, Topological, TopologicalList, MarksDistinct,
         SerializeNodes, Known
<1>6. (ReplyNamesKey /\ ViewsClosed /\ HeldClosed)'
  <2>1. IsPrefix(nodes, nodes)
    BY PrefixOfSelf DEF Inv, TypeOK
  <2>2. view'[t].tag = "graph" =>
          view'[t].nodes = nodes /\ AllBelow(view'[t].outs, Len(nodes))
    BY DEF Inv, TypeOK, HeldClosed, Goto, SerializeNodes, Graph, BadView, AllBelow, Threads
  <2>3. ViewsClosed'
    BY <2>1, <2>2 DEF Inv, TypeOK, ViewsClosed, Topological, SerializeNodes, Threads
  <2>4. (ReplyNamesKey /\ HeldClosed)'
    BY DEF Inv, TypeOK, ReplyNamesKey, HeldClosed, SerializeNodes, Goto, Known, NodeAt,
           Threads
  <2> QED BY <2>3, <2>4
<1> QED BY <1>1, <1>2, <1>3, <1>4, <1>5, <1>6 DEF Inv

(* Every step keeps the invariant. *)
LEMMA NextInv == Inv /\ [Next]_vars => Inv'
<1> SUFFICES ASSUME Inv, [Next]_vars PROVE Inv'
  OBVIOUS
<1>1. ASSUME NEW t \in Recorders, Record(t) PROVE Inv'
  BY <1>1, CallKeeps, LockKeeps, RefuseInputKeeps, AcceptInputsKeeps,
     ProbeHitKeeps, ProbeMissKeeps, PushKeeps, InsertKeeps, UnlockKeeps
     DEF Record, InternStep
<1>2. ASSUME NEW t \in Readers, Read(t) PROVE Inv'
  BY <1>2, MarkOutputKeeps, SnapshotKeeps, CompileScopedKeeps,
     SerializeMarkedKeeps, SerializeScopedKeeps, SerializeRefusedKeeps,
     SerializeNodesKeeps DEF Read
<1>3. CASE UNCHANGED vars
  BY <1>3 DEF vars, Inv, TypeOK, HolderInSection, EntriesRight,
     EntriesComplete, CallState, HeldClosed, InternedOnce, Topological,
     TopologicalList, ReplyNamesKey, ViewsClosed, MarksDistinct, Known, NodeAt
<1> QED
  BY <1>1, <1>2, <1>3 DEF Next

(* The inductive invariant, for every number of threads and every set of keys. *)
THEOREM Invariance == Spec => []Inv
BY InitInv, NextInv, PTL DEF Spec

(* Type correctness of the store and of what each thread holds. *)
THEOREM TypeCorrect == Spec => []TypeOK
<1>1. Inv => TypeOK BY DEF Inv
<1> QED BY <1>1, Invariance, PTL

(* Structural identity (NodeKey's Eq defines interning): however calls    *)
(* interleave, a key is in the arena at most once.                        *)
THEOREM InternedOnceAlways == Spec => []InternedOnce
<1>1. Inv => InternedOnce BY DEF Inv
<1> QED BY <1>1, Invariance, PTL

(* The intern table and the arena agree whenever no insert is pending. *)
THEOREM TableMatchesArenaAlways == Spec => []TableMatchesArena
<1>1. Inv => TableMatchesArena
  BY DEF Inv, TypeOK, EntriesRight, EntriesComplete, TableMatchesArena
<1> QED BY <1>1, Invariance, PTL

(* The arena is a topologically ordered DAG at all times. *)
THEOREM TopologicalAlways == Spec => []Topological
<1>1. Inv => Topological BY DEF Inv
<1> QED BY <1>1, Invariance, PTL

(* An id, once returned, names the recorded key for ever. *)
THEOREM ReplyNamesKeyAlways == Spec => []ReplyNamesKey
<1>1. Inv => ReplyNamesKey BY DEF Inv
<1> QED BY <1>1, Invariance, PTL

(* Whole-graph reads are closed graphs even when the outputs and the nodes *)
(* are read in two critical sections (serialize) or checked on a clone     *)
(* (reduce_with_outputs).                                                  *)
THEOREM ViewsClosedAlways == Spec => []ViewsClosed
<1>1. Inv => ViewsClosed BY DEF Inv
<1> QED BY <1>1, Invariance, PTL

(* Marks are distinct ids of the arena. *)
THEOREM MarksDistinctAlways == Spec => []MarksDistinct
<1>1. Inv => MarksDistinct BY DEF Inv
<1> QED BY <1>1, Invariance, PTL

-----------------------------------------------------------------------------
(* Ids are for ever: no step drops, moves or changes a node or a mark, so *)
(* an id handed to one thread can be used by any other at any later time. *)
LEMMA StepAppends ==
  ASSUME Inv, [Next]_vars
  PROVE  IsPrefix(nodes, nodes') /\ IsPrefix(outputs, outputs')
<1>1. IsPrefix(nodes, nodes) /\ IsPrefix(outputs, outputs)
  BY PrefixOfSelf DEF Inv, TypeOK
<1>2. ASSUME NEW t \in Recorders, Push(t)
      PROVE  IsPrefix(nodes, nodes') /\ outputs' = outputs
  <2>1. key[t] \in Keys /\ nodes' = Append(nodes, key[t]) /\ outputs' = outputs
    BY <1>2 DEF Inv, CallState, Push, Goto, InSection, Threads
  <2> QED
    BY <2>1, <1>1, PrefixOfAppend DEF Inv, TypeOK
<1>3. ASSUME NEW t \in Readers, NEW i \in MarkedIds, MarkOutput(t, i)
      PROVE  nodes' = nodes /\ IsPrefix(outputs, outputs')
  <2>1. i \in Nat /\ outputs' = Append(outputs, i) /\ nodes' = nodes
    BY <1>3, MarkedAreIds DEF MarkOutput
  <2> QED
    BY <2>1, <1>1, PrefixOfAppend DEF Inv, TypeOK
<1>4. CASE UNCHANGED <<nodes, outputs>>
  BY <1>1, <1>4
<1> QED
  BY <1>1, <1>2, <1>3, <1>4
     DEF Next, vars, Record, InternStep, Read, Call, Lock, RefuseInput,
         AcceptInputs, ProbeHit, ProbeMiss, Insert, Unlock, Snapshot,
         CompileScoped, SerializeMarked, SerializeScoped, SerializeRefused,
         SerializeNodes

(* No step removes or changes a recorded node, whatever the interleaving. *)
THEOREM AppendOnlyAlways == Spec => AppendOnly
<1>1. Inv /\ [Next]_vars => [IsPrefix(nodes, nodes') /\ IsPrefix(outputs, outputs')]_vars
  BY StepAppends
<1> QED
  BY <1>1, Invariance, PTL DEF Spec, AppendOnly

-----------------------------------------------------------------------------
(* The mutex-protected store implements the atomic intern table.           *)

(* A new store is an empty table of the abstract specification. *)
LEMMA InitRefines == Init => Table!Init
BY DEF Init, Table!Init, Phase, None, Table!None

(*************************************************************************)
(* Each step of add_* is a step of the abstract table or leaves it as it  *)
(* was.                                                                   *)
(*************************************************************************)
LEMMA RecordRefines ==
  ASSUME Inv, NEW t \in Recorders, Record(t)
  PROVE  [Table!Next]_(Table!vars)
<1> DEFINE phase == [u \in Threads |-> Phase(u)]
<1>1. t \in Threads /\ pc \in [Threads -> {"idle", "lock", "serialize"} \union InSection]
  BY DEF Inv, TypeOK, Threads
<1>2. ASSUME NEW k \in Keys, Call(t, k) PROVE Table!Call(t, k)
  BY <1>1, <1>2 DEF Call, Goto, Table!Call, Phase, None, Table!None, InSection
<1>3. ASSUME RefuseInput(t) PROVE Table!Decide(t)
  <2>1. key[t] \in Keys
    BY <1>1, <1>3 DEF Inv, CallState, RefuseInput, Goto, InSection
  <2>2. \A j \in DOMAIN key[t].inputs :
          ~ Known(key[t].inputs[j]) => key[t].inputs[j] >= Len(nodes)
    BY <2>1, KeysHaveInputs DEF Inv, TypeOK, Known
  <2>3. Table!Refuse(t)
    BY <2>2, <1>3 DEF RefuseInput, Table!Refuse, Bad, Table!Bad, Known
  <2> QED
    BY <1>1, <1>3, <2>3 DEF RefuseInput, Goto, Table!Decide, Phase, InSection
<1>4. ASSUME ProbeHit(t) PROVE Table!Decide(t)
  <2>1. key[t] \in Keys /\ intern[key[t]] # NoId /\ Table!InputsKnown(t)
    BY <1>1, <1>4 DEF Inv, CallState, ProbeHit, Goto, InSection,
       Table!InputsKnown, Known
  <2>2. intern[key[t]] \in Nat /\ intern[key[t]] < Len(nodes)
        /\ nodes[intern[key[t]] + 1] = key[t]
    BY <2>1 DEF Inv, TypeOK, EntriesRight, Known, NodeAt
  <2>3. Table!Find(t)
    <3>1. intern[key[t]] + 1 \in DOMAIN nodes
      BY <2>2 DEF Inv, TypeOK
    <3>2. reply' = [reply EXCEPT ![t] = Table!Ok((intern[key[t]] + 1) - 1)]
      <4>1. (intern[key[t]] + 1) - 1 = intern[key[t]]
        BY <2>2
      <4> QED
        BY <4>1, <1>4 DEF ProbeHit, Ok, Table!Ok
    <3> QED
      BY <3>1, <3>2, <2>1, <2>2, <1>4 DEF Table!Find, ProbeHit
  <2> QED
    BY <1>1, <1>4, <2>3 DEF ProbeHit, Goto, Table!Decide, Phase, InSection
<1>5. ASSUME Push(t) PROVE Table!Decide(t)
  <2>1. Table!InputsKnown(t) /\ intern[key[t]] = NoId
    BY <1>1, <1>5 DEF Inv, CallState, Push, Goto, Table!InputsKnown, Known
  <2>2. \A u \in Threads : pc[u] # "insert"
    BY <1>1, <1>5, NoThreadIsNone DEF Inv, HolderInSection, Push, Goto, InSection
  <2>3. \A n \in DOMAIN nodes : nodes[n] # key[t]
    BY <2>1, <2>2 DEF Inv, EntriesComplete
  <2>4. Table!Create(t)
    BY <2>1, <2>3, <1>5 DEF Push, Ok, Table!Ok, Table!Create
  <2> QED
    BY <1>1, <1>5, <2>4 DEF Push, Goto, Table!Decide, Phase, InSection
<1>6. ASSUME Unlock(t) PROVE Table!Return(t)
  BY <1>1, <1>6 DEF Unlock, Goto, Table!Return, Phase, InSection
<1>7. ASSUME Lock(t) \/ AcceptInputs(t) \/ ProbeMiss(t) \/ Insert(t)
      PROVE  UNCHANGED Table!vars
  BY <1>1, <1>7 DEF Lock, AcceptInputs, ProbeMiss, Insert, Goto, Table!vars,
     Phase, InSection
<1> QED
  BY <1>1, <1>2, <1>3, <1>4, <1>5, <1>6, <1>7
     DEF Record, InternStep, Table!Next

(*************************************************************************)
(* mark_output is the abstract mark; reads leave the abstract table as    *)
(* it was.                                                                *)
(*************************************************************************)
LEMMA ReadRefines ==
  ASSUME Inv, NEW t \in Readers, Read(t)
  PROVE  [Table!Next]_(Table!vars)
<1>1. t \in Threads /\ pc \in [Threads -> {"idle", "lock", "serialize"} \union InSection]
  BY DEF Inv, TypeOK, Threads
<1>2. ASSUME NEW i \in MarkedIds, MarkOutput(t, i)
      PROVE  i \in 0 .. (Len(nodes) - 1) /\ Table!Mark(i)
  <2>1. i \in Nat /\ i < Len(nodes) /\ Len(nodes) \in Nat
    BY <1>2, MarkedAreIds DEF MarkOutput, Known, Inv, TypeOK
  <2>2. Table!Mark(i)
    BY <1>2 DEF MarkOutput, Known, Table!Mark, Phase, Contains, Table!Contains
  <2> QED BY <2>1, <2>2
<1>3. ASSUME UNCHANGED <<nodes, outputs, key, reply>>,
             pc' = pc \/ Goto(t, "idle", "serialize") \/ Goto(t, "serialize", "idle")
      PROVE  UNCHANGED Table!vars
  BY <1>1, <1>3 DEF Goto, Table!vars, Phase, InSection
<1> QED
  BY <1>2, <1>3 DEF Read, Snapshot, CompileScoped, SerializeMarked,
     SerializeScoped, SerializeRefused, SerializeNodes, Table!Next

(* Every behaviour of the store is one of the intern table: get-or-insert *)
(* is atomic to its callers although it is several statements.            *)
THEOREM Refinement == Spec => InternsAtomically
<1>1. Inv /\ [Next]_vars => [Table!Next]_(Table!vars)
  <2>1. UNCHANGED vars => UNCHANGED Table!vars
    BY DEF vars, Table!vars, Phase
  <2> QED
    BY <2>1, RecordRefines, ReadRefines DEF Next
<1> QED
  BY <1>1, InitRefines, Invariance, PTL DEF Spec, InternsAtomically, Table!Spec

=============================================================================
