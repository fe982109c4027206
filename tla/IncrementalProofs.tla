------------------------- MODULE IncrementalProofs -------------------------
(***************************************************************************)
(* Proofs about the incremental reducer, for any threads, vocabulary and   *)
(* bounds: every recorded node is consumed once and in order, however many *)
(* threads step and finalize while others record, and the canonical node   *)
(* it is given is the one that computes what it computes.                  *)
(***************************************************************************)
EXTENDS IncrementalReducer, ReductionProofs

\* The recorded keys, and what becomes of them when inputs are mapped.
KeysOfShapes ==
  {WithInputs(s.op, inputs) : s \in Shapes, inputs \in Seq(Nat)}

(* A recorded key reads the inputs it was given, or none. *)
LEMMA KeyInputs ==
  ASSUME NEW k \in KeysOfShapes
  PROVE  k.inputs \in Seq(Nat)
<1>1. PICK s \in Shapes, inputs \in Seq(Nat) : k = WithInputs(s.op, inputs)
  BY DEF KeysOfShapes
<1>2. k.inputs \in {<<>>, inputs}
  BY <1>1, ShapesAreOperators DEF Operators, WithInputs
<1>3. <<>> \in Seq(Nat)
  OBVIOUS
<1> QED
  BY <1>2, <1>3

(* Mapping the inputs of a key leaves its operator. *)
LEMMA Remapped ==
  ASSUME NEW k \in KeysOfShapes, NEW inputs \in Seq(Nat)
  PROVE  /\ WithInputs(k, inputs) \in KeysOfShapes
         /\ WithInputs(k, inputs).inputs \in {<<>>, inputs}
<1>1. PICK s \in Shapes, given \in Seq(Nat) : k = WithInputs(s.op, given)
  BY DEF KeysOfShapes
<1>2. s.op \in Operators
  BY ShapesAreOperators
<1>3. WithInputs(k, inputs) = WithInputs(s.op, inputs)
  BY <1>1, <1>2 DEF WithInputs, Operators
<1>4. WithInputs(s.op, inputs).inputs \in {<<>>, inputs}
  BY <1>2 DEF WithInputs, Operators
<1> QED
  BY <1>3, <1>4 DEF KeysOfShapes

-----------------------------------------------------------------------------
(* What is true at every point of a call. *)

\* The store is a topologically ordered list of recorded keys.
ArenaOrdered ==
  /\ arena \in Seq(KeysOfShapes)
  /\ \A n \in DOMAIN arena : \A m \in DOMAIN arena[n].inputs :
       arena[n].inputs[m] < n - 1

ReducerTyped ==
  /\ canon \in Seq(KeysOfShapes)
  /\ map \in Seq(0 .. (Len(canon) - 1))
  /\ work \in Nat
  /\ poisoned \in BOOLEAN
  /\ pc \in [Threads -> {"idle", "lock", "snapshot", "consume", "finalize"}]
  /\ taken \in [Threads -> Nat]
  /\ delta \in [Threads -> Seq(KeysOfShapes)]
  /\ DOMAIN call = Threads /\ DOMAIN reduced = Threads

\* The reducer's mutex is held by the thread inside a step or a finalize,
\* and by nobody once it is poisoned.
HolderInside ==
  /\ owner \in Threads \union {NoThread}
  /\ \A t \in Threads : pc[t] \in {"snapshot", "consume", "finalize"} <=> owner = t
  /\ poisoned => owner = NoThread

\* The watermark splits the arena in what is consumed, what the running step
\* holds, and what was recorded since it started.
DeltaFollowsMap ==
  /\ Len(map) <= Len(arena)
  /\ \A t \in Threads :
       /\ pc[t] # "consume" => delta[t] = <<>>
       /\ pc[t] = "consume" =>
            /\ Len(map) + Len(delta[t]) <= Len(arena)
            /\ \A n \in DOMAIN delta[t] : delta[t][n] = arena[Len(map) + n]

\* The counter lags the watermark by what the running step has done so far.
WorkLags ==
  /\ owner = NoThread /\ ~ poisoned => work = Len(map)
  /\ \A t \in Threads :
       /\ pc[t] \in {"snapshot", "finalize"} => work = Len(map)
       /\ pc[t] = "consume" => work + taken[t] = Len(map) + Len(delta[t])

\* The outputs of a finalize call are ids of the store from the start, in
\* reach of its step, and known when the step is over.
RequestKnown ==
  \A t \in Threads :
    /\ pc[t] = "finalize" => call[t].tag = "finalize"
    /\ call[t].tag \in {"step", "finalize"}
    /\ call[t].tag = "finalize" =>
         \A n \in DOMAIN call[t].outs :
           /\ call[t].outs[n] \in Nat /\ call[t].outs[n] < Len(arena)
           /\ pc[t] = "consume" => call[t].outs[n] < Len(map) + Len(delta[t])
           /\ pc[t] = "finalize" => call[t].outs[n] < Len(map)

ReducerInv ==
  /\ ArenaOrdered /\ ReducerTyped /\ HolderInside /\ DeltaFollowsMap
  /\ WorkLags /\ RequestKnown /\ FinalizeAccepts

-----------------------------------------------------------------------------
(* A new reducer has consumed nothing of an empty store. *)
LEMMA InitInv == Init => ReducerInv
<1> SUFFICES ASSUME Init PROVE ReducerInv
  OBVIOUS
<1>1. /\ arena = <<>> /\ canon = <<>> /\ map = <<>> /\ work = 0
      /\ owner = NoThread /\ poisoned = FALSE
      /\ pc = [t \in Threads |-> "idle"]
      /\ call = [t \in Threads |-> Step]
      /\ delta = [t \in Threads |-> <<>>]
      /\ taken = [t \in Threads |-> 0]
      /\ reduced = [t \in Threads |-> NoGraph]
  BY DEF Init
<1>2. ArenaOrdered
  BY <1>1 DEF ArenaOrdered
<1>3. ReducerTyped
  <2>1. canon \in Seq(KeysOfShapes) /\ map \in Seq(0 .. (Len(canon) - 1))
    BY <1>1
  <2>2. delta \in [Threads -> Seq(KeysOfShapes)]
    BY <1>1
  <2>3. /\ work \in Nat /\ poisoned \in BOOLEAN /\ taken \in [Threads -> Nat]
        /\ pc \in [Threads -> {"idle", "lock", "snapshot", "consume", "finalize"}]
        /\ DOMAIN call = Threads /\ DOMAIN reduced = Threads
    BY <1>1
  <2> QED
    BY <2>1, <2>2, <2>3 DEF ReducerTyped
<1>4. HolderInside
  BY <1>1, NoThreadIsNone DEF HolderInside
<1>5. DeltaFollowsMap /\ WorkLags
  BY <1>1 DEF DeltaFollowsMap, WorkLags
<1>6. RequestKnown /\ FinalizeAccepts
  BY <1>1 DEF RequestKnown, FinalizeAccepts, Step, NoGraph
<1> QED
  BY <1>2, <1>3, <1>4, <1>5, <1>6 DEF ReducerInv

(* Recording puts a node behind everything a running step holds. *)
LEMMA RecordKeeps ==
  ASSUME ReducerInv, Record
  PROVE  ReducerInv'
<1>1. PICK s \in Shapes : \E inputs \in [1 .. s.arity -> IdsOf(arena)] :
        arena' = Append(arena, WithInputs(s.op, inputs))
  BY DEF Record
<1>2. PICK inputs \in [1 .. s.arity -> IdsOf(arena)] :
        arena' = Append(arena, WithInputs(s.op, inputs))
  BY <1>1
<1> DEFINE key == WithInputs(s.op, inputs)
<1>3. arena \in Seq(KeysOfShapes) /\ Len(arena) \in Nat
  BY DEF ReducerInv, ArenaOrdered
<1>4. s.arity \in Nat /\ s.op \in Operators
  BY ShapesAreOperators
<1>5. inputs \in Seq(Nat) /\ \A m \in DOMAIN inputs : inputs[m] < Len(arena)
  <2>1. inputs \in [1 .. s.arity -> Nat]
    BY <1>3 DEF IdsOf
  <2>2. inputs \in Seq(Nat)
    BY <2>1, <1>4
  <2>3. \A m \in DOMAIN inputs : inputs[m] < Len(arena)
    BY <1>3 DEF IdsOf
  <2> QED
    BY <2>2, <2>3
<1>6. key \in KeysOfShapes
  BY <1>5 DEF KeysOfShapes
<1>7. key.inputs \in {<<>>, inputs}
  BY <1>4 DEF Operators, WithInputs
<1>8. /\ arena' \in Seq(KeysOfShapes) /\ Len(arena') = Len(arena) + 1
      /\ \A n \in DOMAIN arena : arena'[n] = arena[n]
      /\ arena'[Len(arena) + 1] = key
  BY <1>2, <1>3, <1>6
<1>9. ArenaOrdered'
  <2> SUFFICES ASSUME NEW n \in DOMAIN arena', NEW m \in DOMAIN arena'[n].inputs
               PROVE  arena'[n].inputs[m] < n - 1
    BY <1>8 DEF ArenaOrdered
  <2>1. CASE n \in DOMAIN arena
    BY <2>1, <1>8 DEF ReducerInv, ArenaOrdered
  <2>2. CASE n = Len(arena) + 1
    <3>1. arena'[n] = key
      BY <2>2, <1>8
    <3>2. key.inputs = <<>> \/ key.inputs = inputs
      BY <1>7
    <3>3. key.inputs = inputs
      BY <3>1, <3>2
    <3>4. inputs[m] < Len(arena)
      BY <3>1, <3>3, <1>5
    <3> QED
      BY <2>2, <3>1, <3>3, <3>4, <1>3
  <2> QED
    BY <2>1, <2>2, <1>3, <1>8
<1>10. UNCHANGED <<canon, map, work, owner, poisoned, pc, call, delta, taken, reduced>>
  BY DEF Record
<1>11. (ReducerTyped /\ HolderInside /\ WorkLags /\ FinalizeAccepts)'
  BY <1>10 DEF ReducerInv, ReducerTyped, HolderInside, WorkLags, FinalizeAccepts
<1>12. DeltaFollowsMap'
  <2>1. Len(map) \in Nat /\ \A t \in Threads : Len(delta[t]) \in Nat
    BY DEF ReducerInv, ReducerTyped
  <2>2. \A t \in Threads : pc[t] = "consume" =>
          \A n \in DOMAIN delta[t] :
            Len(map) + n \in DOMAIN arena /\ delta[t][n] = arena[Len(map) + n]
    <3> SUFFICES ASSUME NEW t \in Threads, pc[t] = "consume", NEW n \in DOMAIN delta[t]
                 PROVE  Len(map) + n \in DOMAIN arena /\ delta[t][n] = arena[Len(map) + n]
      OBVIOUS
    <3>1. delta[t] \in Seq(KeysOfShapes) /\ n \in 1 .. Len(delta[t])
      BY DEF ReducerInv, ReducerTyped
    <3> QED
      BY <3>1, <2>1, <1>3 DEF ReducerInv, DeltaFollowsMap
  <2> QED
    BY <2>1, <2>2, <1>3, <1>8, <1>10 DEF ReducerInv, DeltaFollowsMap
<1>13. RequestKnown'
  BY <1>3, <1>8, <1>10 DEF ReducerInv, RequestKnown
<1> QED
  BY <1>9, <1>11, <1>12, <1>13 DEF ReducerInv

(* A call that waits for the mutex holds nothing of the reducer. *)
LEMMA CallStepKeeps ==
  ASSUME ReducerInv, NEW t \in Threads, CallStep(t)
  PROVE  ReducerInv'
<1>1. ArenaOrdered'
  BY DEF ReducerInv, ArenaOrdered, CallStep
<1>2. ReducerTyped'
  BY DEF ReducerInv, ReducerTyped, CallStep, Goto
<1>3. (HolderInside /\ DeltaFollowsMap /\ WorkLags)'
  BY NoThreadIsNone DEF ReducerInv, ReducerTyped, HolderInside, DeltaFollowsMap,
     WorkLags, CallStep, Goto
<1>4. (RequestKnown /\ FinalizeAccepts)'
  BY DEF ReducerInv, ReducerTyped, RequestKnown, FinalizeAccepts, CallStep, Goto, Step
<1> QED
  BY <1>1, <1>2, <1>3, <1>4 DEF ReducerInv

(* finalize is called with ids of the store, which only grows. *)
LEMMA CallFinalizeKeeps ==
  ASSUME ReducerInv, NEW t \in Threads, NEW os \in SeqOf(IdsOf(arena), MaxOutputs),
         NEW m \in Modes, CallFinalize(t, os, m)
  PROVE  ReducerInv'
<1>1. ArenaOrdered'
  BY DEF ReducerInv, ArenaOrdered, CallFinalize
<1>2. ReducerTyped'
  BY DEF ReducerInv, ReducerTyped, CallFinalize, Goto
<1>3. (HolderInside /\ DeltaFollowsMap /\ WorkLags)'
  BY NoThreadIsNone DEF ReducerInv, ReducerTyped, HolderInside, DeltaFollowsMap,
     WorkLags, CallFinalize, Goto
<1>4. \A n \in DOMAIN os : os[n] \in Nat /\ os[n] < Len(arena)
  BY DEF SeqOf, IdsOf, ReducerInv, ArenaOrdered
<1>5. RequestKnown'
  BY <1>4 DEF ReducerInv, ReducerTyped, RequestKnown, CallFinalize, Goto, Finalize
<1>6. FinalizeAccepts'
  BY DEF ReducerInv, ReducerTyped, FinalizeAccepts, CallFinalize, NoGraph
<1> QED
  BY <1>1, <1>2, <1>3, <1>5, <1>6 DEF ReducerInv

(* The mutex is taken when it is free and not poisoned. *)
LEMMA LockKeeps ==
  ASSUME ReducerInv, NEW t \in Threads, Lock(t)
  PROVE  ReducerInv'
<1>1. ArenaOrdered'
  BY DEF ReducerInv, ArenaOrdered, Lock
<1>2. ReducerTyped'
  BY DEF ReducerInv, ReducerTyped, Lock, Goto
<1>3. (HolderInside /\ DeltaFollowsMap /\ WorkLags)'
  BY NoThreadIsNone DEF ReducerInv, ReducerTyped, HolderInside, DeltaFollowsMap,
     WorkLags, Lock, Goto
<1>4. (RequestKnown /\ FinalizeAccepts)'
  BY DEF ReducerInv, ReducerTyped, RequestKnown, FinalizeAccepts, Lock, Goto
<1> QED
  BY <1>1, <1>2, <1>3, <1>4 DEF ReducerInv

(* A call that finds the mutex poisoned ends there. *)
LEMMA LockPoisonedKeeps ==
  ASSUME ReducerInv, NEW t \in Threads, LockPoisoned(t)
  PROVE  ReducerInv'
<1>1. ArenaOrdered'
  BY DEF ReducerInv, ArenaOrdered, LockPoisoned
<1>2. ReducerTyped'
  BY DEF ReducerInv, ReducerTyped, LockPoisoned, Goto
<1>3. (HolderInside /\ DeltaFollowsMap /\ WorkLags)'
  BY NoThreadIsNone DEF ReducerInv, ReducerTyped, HolderInside, DeltaFollowsMap,
     WorkLags, LockPoisoned, Goto
<1>4. (RequestKnown /\ FinalizeAccepts)'
  BY DEF ReducerInv, ReducerTyped, RequestKnown, FinalizeAccepts, LockPoisoned, Goto
<1> QED
  BY <1>1, <1>2, <1>3, <1>4 DEF ReducerInv

(* The delta is all that lies behind the watermark when it is cloned. *)
LEMMA SnapshotKeeps ==
  ASSUME ReducerInv, NEW t \in Threads, Snapshot(t)
  PROVE  ReducerInv'
<1> DEFINE rest == SubSeq(arena, Len(map) + 1, Len(arena))
<1>1. /\ arena \in Seq(KeysOfShapes) /\ Len(arena) \in Nat
      /\ Len(map) \in Nat /\ Len(map) <= Len(arena)
  BY DEF ReducerInv, ArenaOrdered, ReducerTyped, DeltaFollowsMap
<1>2. /\ rest \in Seq(KeysOfShapes)
      /\ Len(rest) = Len(arena) - Len(map)
      /\ \A n \in DOMAIN rest : rest[n] = arena[Len(map) + n]
  <2>1. \A n \in (Len(map) + 1) .. Len(arena) : arena[n] \in KeysOfShapes
    BY <1>1
  <2>2. rest \in Seq(KeysOfShapes)
    BY <1>1, <2>1, SubSeqProperties
  <2>3. Len(rest) = Len(arena) - Len(map)
    BY <1>1, <2>1, SubSeqProperties
  <2>4. \A n \in 1 .. Len(rest) : rest[n] = arena[Len(map) + 1 + n - 1]
    BY <1>1, <2>1, <2>3, SubSeqProperties
  <2> QED
    BY <2>2, <2>3, <2>4, <1>1
<1> HIDE DEF rest
<1>3. /\ delta' = [delta EXCEPT ![t] = rest]
      /\ taken' = [taken EXCEPT ![t] = Len(rest)]
      /\ pc[t] = "snapshot" /\ pc' = [pc EXCEPT ![t] = "consume"]
      /\ UNCHANGED <<arena, canon, map, work, owner, poisoned, call, reduced>>
  BY DEF Snapshot, Goto, rest, ReducerInv, ReducerTyped
<1>4. ArenaOrdered'
  BY <1>3 DEF ReducerInv, ArenaOrdered
<1>5. ReducerTyped'
  BY <1>1, <1>2, <1>3 DEF ReducerInv, ReducerTyped
<1>6. HolderInside'
  BY <1>3 DEF ReducerInv, ReducerTyped, HolderInside
<1>7. DeltaFollowsMap'
  BY <1>1, <1>2, <1>3 DEF ReducerInv, ReducerTyped, DeltaFollowsMap
<1>8. WorkLags'
  BY <1>1, <1>2, <1>3 DEF ReducerInv, ReducerTyped, WorkLags
<1>9. (RequestKnown /\ FinalizeAccepts)'
  BY <1>1, <1>2, <1>3 DEF ReducerInv, ReducerTyped, RequestKnown, FinalizeAccepts
<1> QED
  BY <1>4, <1>5, <1>6, <1>7, <1>8, <1>9 DEF ReducerInv

-----------------------------------------------------------------------------
(* The loop of step. *)

(***************************************************************************)
(* The next node of a delta is the node behind the watermark; its inputs  *)
(* lie below the watermark, so the map knows them.                        *)
(***************************************************************************)
LEMMA NextIsMapped ==
  ASSUME ReducerInv, NEW t \in Threads, Consuming(t)
  PROVE  /\ Len(map) + 1 \in DOMAIN arena
         /\ Head(delta[t]) = arena[Len(map) + 1]
         /\ MappedNext(t) \in KeysOfShapes
         /\ \A n \in DOMAIN MappedNext(t).inputs :
              MappedNext(t).inputs[n] \in 0 .. (Len(canon) - 1)
<1> DEFINE key == Head(delta[t])
           inputs == [n \in DOMAIN key.inputs |-> map[key.inputs[n] + 1]]
<1>1. /\ arena \in Seq(KeysOfShapes) /\ Len(arena) \in Nat
      /\ map \in Seq(0 .. (Len(canon) - 1)) /\ Len(map) \in Nat
      /\ canon \in Seq(KeysOfShapes) /\ Len(canon) \in Nat
      /\ delta[t] \in Seq(KeysOfShapes) /\ delta[t] # <<>>
      /\ pc[t] = "consume"
  BY DEF ReducerInv, ArenaOrdered, ReducerTyped, Consuming
<1>2. Len(delta[t]) \in Nat /\ Len(delta[t]) >= 1 /\ 1 \in DOMAIN delta[t]
  BY <1>1
<1>3. Len(map) + 1 \in DOMAIN arena
  BY <1>1, <1>2 DEF ReducerInv, DeltaFollowsMap
<1>4. key = arena[Len(map) + 1]
  BY <1>1, <1>2 DEF ReducerInv, DeltaFollowsMap
<1>5. key \in KeysOfShapes /\ key.inputs \in Seq(Nat)
  BY <1>1, <1>3, <1>4, KeyInputs
<1>6. \A n \in DOMAIN key.inputs : key.inputs[n] \in Nat /\ key.inputs[n] < Len(map)
  <2>1. \A n \in DOMAIN arena[Len(map) + 1].inputs :
          arena[Len(map) + 1].inputs[n] < (Len(map) + 1) - 1
    BY <1>3 DEF ReducerInv, ArenaOrdered
  <2>2. (Len(map) + 1) - 1 = Len(map)
    BY <1>1
  <2>3. \A n \in DOMAIN key.inputs : key.inputs[n] < Len(map)
    BY <2>1, <2>2, <1>4, Zenon
  <2>4. \A n \in DOMAIN key.inputs : key.inputs[n] \in Nat
    BY <1>5
  <2> QED
    BY <2>3, <2>4
<1>7. \A n \in DOMAIN key.inputs : map[key.inputs[n] + 1] \in 0 .. (Len(canon) - 1)
  <2> SUFFICES ASSUME NEW n \in DOMAIN key.inputs
               PROVE  map[key.inputs[n] + 1] \in 0 .. (Len(canon) - 1)
    OBVIOUS
  <2>1. key.inputs[n] + 1 \in 1 .. Len(map)
    BY <1>1, <1>6
  <2> QED
    BY <2>1, <1>1
<1>8. inputs \in Seq(Nat)
  <2>1. DOMAIN key.inputs = 1 .. Len(key.inputs) /\ Len(key.inputs) \in Nat
    BY <1>5
  <2>2. inputs \in [1 .. Len(key.inputs) -> Nat]
    BY <2>1, <1>7
  <2> QED
    BY <2>1, <2>2
<1>9. MappedNext(t) = WithInputs(key, inputs)
  BY DEF MappedNext
<1>10. MappedNext(t) \in KeysOfShapes /\ MappedNext(t).inputs \in {<<>>, inputs}
  BY <1>5, <1>8, <1>9, Remapped
<1>11. \A n \in DOMAIN inputs : inputs[n] \in 0 .. (Len(canon) - 1)
  BY <1>7
<1> HIDE DEF inputs
<1>12. \A n \in DOMAIN MappedNext(t).inputs :
         MappedNext(t).inputs[n] \in 0 .. (Len(canon) - 1)
  <2>1. CASE MappedNext(t).inputs = <<>>
    BY <2>1
  <2>2. CASE MappedNext(t).inputs = inputs
    BY <2>2, <1>11
  <2> QED
    BY <1>10, <2>1, <2>2
<1> QED
  BY <1>3, <1>4, <1>10, <1>12

(***************************************************************************)
(* Consuming one node, to whatever canonical node, moves the watermark and *)
(* the delta by one: the loop invariant of step.                           *)
(***************************************************************************)
LEMMA ConsumedKeeps ==
  ASSUME ReducerInv, NEW t \in Threads, Consuming(t), NEW id, Consumed(t, id),
         canon' \in Seq(KeysOfShapes), Len(canon) <= Len(canon'),
         id \in 0 .. (Len(canon') - 1)
  PROVE  ReducerInv'
<1>1. /\ map \in Seq(0 .. (Len(canon) - 1)) /\ Len(map) \in Nat
      /\ canon \in Seq(KeysOfShapes) /\ Len(canon) \in Nat
      /\ Len(canon') \in Nat
      /\ delta \in [Threads -> Seq(KeysOfShapes)]
      /\ delta[t] \in Seq(KeysOfShapes) /\ delta[t] # <<>>
      /\ pc[t] = "consume"
      /\ arena \in Seq(KeysOfShapes) /\ Len(arena) \in Nat
  BY DEF ReducerInv, ArenaOrdered, ReducerTyped, Consuming
<1>2. /\ Tail(delta[t]) \in Seq(KeysOfShapes)
      /\ Len(Tail(delta[t])) = Len(delta[t]) - 1 /\ Len(delta[t]) \in Nat
      /\ Len(delta[t]) >= 1
      /\ \A n \in DOMAIN Tail(delta[t]) :
           n \in Nat /\ n + 1 \in DOMAIN delta[t] /\ Tail(delta[t])[n] = delta[t][n + 1]
  BY <1>1
<1>3. map \in Seq(0 .. (Len(canon') - 1))
  <2>1. \A n \in 1 .. Len(map) : map[n] \in 0 .. (Len(canon') - 1)
    BY <1>1
  <2> QED
    BY <2>1, <1>1, SeqDef
<1>4. /\ map' \in Seq(0 .. (Len(canon') - 1))
      /\ Len(map') = Len(map) + 1
  BY <1>3 DEF Consumed
<1>5. /\ delta' = [delta EXCEPT ![t] = Tail(delta[t])]
      /\ UNCHANGED <<arena, work, owner, poisoned, pc, call, taken, reduced>>
  BY DEF Consumed
<1>6. delta' \in [Threads -> Seq(KeysOfShapes)] /\ delta'[t] = Tail(delta[t])
      /\ \A u \in Threads : u # t => delta'[u] = delta[u]
  BY <1>1, <1>2, <1>5
<1>7. \A u \in Threads : u # t => pc[u] \notin {"snapshot", "consume", "finalize"}
  BY <1>1 DEF ReducerInv, HolderInside
<1>8. owner = t
  BY <1>1 DEF ReducerInv, HolderInside
<1>9. ArenaOrdered' /\ HolderInside' /\ FinalizeAccepts'
  BY <1>5 DEF ReducerInv, ArenaOrdered, HolderInside, FinalizeAccepts
<1>10. ReducerTyped'
  BY <1>4, <1>5, <1>6 DEF ReducerInv, ReducerTyped
<1>11. DeltaFollowsMap'
  <2>1. \A n \in DOMAIN delta'[t] : delta'[t][n] = arena[Len(map') + n]
    <3> SUFFICES ASSUME NEW n \in DOMAIN delta'[t]
                 PROVE  delta'[t][n] = arena[Len(map') + n]
      OBVIOUS
    <3>1. n \in Nat /\ n + 1 \in DOMAIN delta[t] /\ delta'[t][n] = delta[t][n + 1]
      BY <1>2, <1>6
    <3>2. delta[t][n + 1] = arena[Len(map) + (n + 1)]
      BY <3>1, <1>1 DEF ReducerInv, DeltaFollowsMap
    <3>3. Len(map) + (n + 1) = Len(map') + n
      BY <3>1, <1>1, <1>4
    <3> QED
      BY <3>1, <3>2, <3>3
  <2>2. Len(map') + Len(delta'[t]) <= Len(arena) /\ Len(map') <= Len(arena)
    BY <1>1, <1>2, <1>4, <1>6 DEF ReducerInv, DeltaFollowsMap
  <2>3. \A u \in Threads : u # t => delta'[u] = <<>> /\ pc'[u] # "consume"
    BY <1>5, <1>6, <1>7 DEF ReducerInv, DeltaFollowsMap
  <2> QED
    BY <2>1, <2>2, <2>3, <1>1, <1>5 DEF DeltaFollowsMap
<1>12. WorkLags'
  <2>1. work + taken[t] = Len(map') + Len(delta'[t])
    BY <1>1, <1>2, <1>4, <1>6 DEF ReducerInv, WorkLags
  <2>2. owner # NoThread
    BY <1>8, NoThreadIsNone
  <2> QED
    BY <2>1, <2>2, <1>1, <1>5, <1>7 DEF WorkLags
<1>13. RequestKnown'
  <2>1. Len(map') + Len(delta'[t]) = Len(map) + Len(delta[t])
    BY <1>1, <1>2, <1>4, <1>6
  <2> QED
    BY <2>1, <1>1, <1>5, <1>7 DEF ReducerInv, RequestKnown
<1> QED
  BY <1>9, <1>10, <1>11, <1>12, <1>13 DEF ReducerInv

(* An identity op maps to the canonical node of its input. *)
LEMMA ConsumeIdentityKeeps ==
  ASSUME ReducerInv, NEW t \in Threads, ConsumeIdentity(t)
  PROVE  ReducerInv'
<1>1. Consuming(t) /\ MappedNext(t).inputs # <<>> /\ canon' = canon
      /\ Consumed(t, MappedNext(t).inputs[1])
  BY DEF ConsumeIdentity
<1>2. MappedNext(t) \in KeysOfShapes
  BY <1>1, NextIsMapped
<1>3. 1 \in DOMAIN MappedNext(t).inputs
  BY <1>1, <1>2, KeyInputs
<1>4. MappedNext(t).inputs[1] \in 0 .. (Len(canon) - 1)
  BY <1>1, <1>3, NextIsMapped
<1>5. canon \in Seq(KeysOfShapes)
  BY DEF ReducerInv, ReducerTyped
<1>6. canon' \in Seq(KeysOfShapes) /\ Len(canon) <= Len(canon')
      /\ MappedNext(t).inputs[1] \in 0 .. (Len(canon') - 1)
  BY <1>1, <1>4, <1>5
<1> QED
  BY <1>1, <1>6, ConsumedKeeps

(* A position that holds a contained entry is a position of the list. *)
LEMMA IndexOfContained ==
  ASSUME NEW S, NEW s \in Seq(S), NEW e, Contains(s, e)
  PROVE  IndexOf(s, e) \in 0 .. (Len(s) - 1)
<1>1. PICK i \in 1 .. Len(s) : s[i] = e
  BY DEF Contains
<1>2. DOMAIN s = 1 .. Len(s) /\ Len(s) \in Nat
  OBVIOUS
<1>3. (CHOOSE n \in DOMAIN s : s[n] = e) \in DOMAIN s
  BY <1>1, <1>2
<1> DEFINE n == CHOOSE n \in DOMAIN s : s[n] = e
<1>4. n \in 1 .. Len(s)
  BY <1>2, <1>3
<1>5. IndexOf(s, e) = n - 1
  BY DEF IndexOf
<1> HIDE DEF n
<1> QED
  BY <1>2, <1>4, <1>5

(* A key that is canonical already is found, itself or its twin. *)
LEMMA ConsumeKnownKeeps ==
  ASSUME ReducerInv, NEW t \in Threads, ConsumeKnown(t) \/ ConsumeTwin(t)
  PROVE  ReducerInv'
<1>1. Consuming(t) /\ canon' = canon
  BY DEF ConsumeKnown, ConsumeTwin
<1>2. canon \in Seq(KeysOfShapes)
  BY DEF ReducerInv, ReducerTyped
<1>3. \E e : Contains(canon, e) /\ Consumed(t, IndexOf(canon, e))
  BY DEF ConsumeKnown, ConsumeTwin
<1>4. PICK e : Contains(canon, e) /\ Consumed(t, IndexOf(canon, e))
  BY <1>3
<1>5. IndexOf(canon, e) \in 0 .. (Len(canon) - 1)
  BY <1>2, <1>4, IndexOfContained
<1>6. canon' \in Seq(KeysOfShapes) /\ Len(canon) <= Len(canon')
      /\ IndexOf(canon, e) \in 0 .. (Len(canon') - 1)
  BY <1>1, <1>2, <1>5
<1> QED
  BY <1>1, <1>4, <1>6, ConsumedKeeps

(* A new canonical node is put last, and has the id of that place. *)
LEMMA ConsumeNewKeeps ==
  ASSUME ReducerInv, NEW t \in Threads, ConsumeNew(t)
  PROVE  ReducerInv'
<1>1. Consuming(t) /\ canon' = Append(canon, MappedNext(t)) /\ Consumed(t, Len(canon))
  BY DEF ConsumeNew
<1>2. canon \in Seq(KeysOfShapes) /\ Len(canon) \in Nat
  BY DEF ReducerInv, ReducerTyped
<1>3. MappedNext(t) \in KeysOfShapes
  BY <1>1, NextIsMapped
<1>4. canon' \in Seq(KeysOfShapes) /\ Len(canon') = Len(canon) + 1
  BY <1>1, <1>2, <1>3
<1>5. Len(canon) <= Len(canon') /\ Len(canon) \in 0 .. (Len(canon') - 1)
  BY <1>2, <1>4
<1> QED
  BY <1>1, <1>4, <1>5, ConsumedKeeps

(* A panic drops the delta and leaves the mutex poisoned and unowned. *)
LEMMA ConsumePanicsKeeps ==
  ASSUME ReducerInv, NEW t \in Threads, ConsumePanics(t)
  PROVE  ReducerInv'
<1>1. /\ pc[t] = "consume" /\ pc' = [pc EXCEPT ![t] = "idle"]
      /\ poisoned' = TRUE /\ owner' = NoThread
      /\ delta' = [delta EXCEPT ![t] = <<>>]
      /\ UNCHANGED <<arena, canon, map, work, call, taken, reduced>>
  BY DEF ConsumePanics, Consuming, Goto
<1>2. ArenaOrdered'
  BY <1>1 DEF ReducerInv, ArenaOrdered
<1>3. ReducerTyped'
  <2>1. delta' \in [Threads -> Seq(KeysOfShapes)]
    BY <1>1 DEF ReducerInv, ReducerTyped
  <2> QED
    BY <1>1, <2>1 DEF ReducerInv, ReducerTyped
<1>4. HolderInside'
  BY <1>1, NoThreadIsNone DEF ReducerInv, ReducerTyped, HolderInside
<1>5. (DeltaFollowsMap /\ WorkLags)'
  BY <1>1, NoThreadIsNone
     DEF ReducerInv, ReducerTyped, HolderInside, DeltaFollowsMap, WorkLags
<1>6. (RequestKnown /\ FinalizeAccepts)'
  BY <1>1 DEF ReducerInv, ReducerTyped, HolderInside, RequestKnown, FinalizeAccepts
<1> QED
  BY <1>2, <1>3, <1>4, <1>5, <1>6 DEF ReducerInv

-----------------------------------------------------------------------------
(* When the delta is used up, the counter has caught up with the watermark. *)
LEMMA StepDoneKeeps ==
  ASSUME ReducerInv, NEW t \in Threads, StepDone(t)
  PROVE  ReducerInv'
<1>1. /\ pc[t] = "consume" /\ delta[t] = <<>>
      /\ work' = work + taken[t] /\ taken' = [taken EXCEPT ![t] = 0]
      /\ UNCHANGED <<arena, canon, map, poisoned, call, delta, reduced>>
  BY DEF StepDone, Goto
<1>2. \/ /\ call[t].tag = "step"
         /\ pc' = [pc EXCEPT ![t] = "idle"] /\ owner' = NoThread
      \/ /\ call[t].tag = "finalize"
         /\ pc' = [pc EXCEPT ![t] = "finalize"] /\ owner' = owner
  BY DEF StepDone, Goto, ReducerInv, RequestKnown
<1>3. work' = Len(map) /\ Len(delta[t]) = 0 /\ Len(map) \in Nat
  BY <1>1 DEF ReducerInv, ReducerTyped, WorkLags
<1>4. owner = t
  BY <1>1 DEF ReducerInv, HolderInside
<1>5. ArenaOrdered'
  BY <1>1 DEF ReducerInv, ArenaOrdered
<1>6. ReducerTyped'
  BY <1>1, <1>2, <1>3 DEF ReducerInv, ReducerTyped
<1>7. HolderInside'
  <2>1. \A u \in Threads : u # t =>
          /\ pc'[u] = pc[u]
          /\ pc[u] \notin {"snapshot", "consume", "finalize"}
    BY <1>1, <1>2, <1>4 DEF ReducerInv, ReducerTyped, HolderInside
  <2>2. CASE pc' = [pc EXCEPT ![t] = "idle"] /\ owner' = NoThread
    <3>1. pc'[t] = "idle"
      BY <2>2 DEF ReducerInv, ReducerTyped
    <3> QED
      BY <2>1, <2>2, <3>1, NoThreadIsNone DEF HolderInside
  <2>3. CASE pc' = [pc EXCEPT ![t] = "finalize"] /\ owner' = owner
    <3>1. pc'[t] = "finalize"
      BY <2>3 DEF ReducerInv, ReducerTyped
    <3> QED
      BY <2>1, <2>3, <3>1, <1>1, <1>4 DEF ReducerInv, HolderInside
  <2> QED
    BY <1>2, <2>2, <2>3
<1>8. DeltaFollowsMap'
  BY <1>1, <1>2 DEF ReducerInv, ReducerTyped, DeltaFollowsMap
<1>9. WorkLags'
  BY <1>1, <1>2, <1>3, <1>4, NoThreadIsNone
     DEF ReducerInv, ReducerTyped, HolderInside, WorkLags
<1>10. (RequestKnown /\ FinalizeAccepts)'
  BY <1>1, <1>2, <1>3 DEF ReducerInv, ReducerTyped, RequestKnown, FinalizeAccepts
<1> QED
  BY <1>5, <1>6, <1>7, <1>8, <1>9, <1>10 DEF ReducerInv

(* finalize knows every output it was called with. *)
LEMMA FinalizeDoneKeeps ==
  ASSUME ReducerInv, NEW t \in Threads, FinalizeDone(t)
  PROVE  ReducerInv'
<1>1. /\ pc[t] = "finalize" /\ pc' = [pc EXCEPT ![t] = "idle"] /\ owner' = NoThread
      /\ UNCHANGED <<arena, canon, map, work, poisoned, call, delta, taken>>
  BY DEF FinalizeDone, Goto
<1>2. \A n \in DOMAIN call[t].outs : call[t].outs[n] < Len(map)
  BY <1>1 DEF ReducerInv, RequestKnown
<1>3. \E g : g.tag = "graph" /\ reduced' = [reduced EXCEPT ![t] = g]
  BY <1>2 DEF FinalizeDone
<1>4. owner = t
  BY <1>1 DEF ReducerInv, HolderInside
<1>5. ArenaOrdered'
  BY <1>1 DEF ReducerInv, ArenaOrdered
<1>6. ReducerTyped'
  BY <1>1, <1>3 DEF ReducerInv, ReducerTyped
<1>7. HolderInside'
  <2>1. pc'[t] = "idle" /\ \A u \in Threads : u # t => pc'[u] = pc[u]
    BY <1>1 DEF ReducerInv, ReducerTyped
  <2>2. \A u \in Threads :
          pc'[u] \notin {"snapshot", "consume", "finalize"} /\ owner' # u
    BY <2>1, <1>1, <1>4, NoThreadIsNone DEF ReducerInv, HolderInside
  <2> QED
    BY <2>2, <1>1 DEF HolderInside
<1>8. (DeltaFollowsMap /\ WorkLags)'
  BY <1>1, <1>4, NoThreadIsNone
     DEF ReducerInv, ReducerTyped, HolderInside, DeltaFollowsMap, WorkLags
<1>9. RequestKnown'
  BY <1>1 DEF ReducerInv, ReducerTyped, RequestKnown
<1>10. FinalizeAccepts'
  BY <1>3 DEF ReducerInv, ReducerTyped, FinalizeAccepts
<1> QED
  BY <1>5, <1>6, <1>7, <1>8, <1>9, <1>10 DEF ReducerInv

(* Every step keeps the invariant. *)
LEMMA NextInv == ReducerInv /\ [Next]_vars => ReducerInv'
<1> SUFFICES ASSUME ReducerInv, [Next]_vars PROVE ReducerInv'
  OBVIOUS
<1>1. CASE Record
  BY <1>1, RecordKeeps
<1>2. ASSUME NEW t \in Threads,
             \/ CallStep(t)
             \/ \E os \in SeqOf(IdsOf(arena), MaxOutputs), m \in Modes :
                  CallFinalize(t, os, m)
             \/ Lock(t) \/ LockPoisoned(t) \/ Snapshot(t)
             \/ ConsumeIdentity(t) \/ ConsumePanics(t) \/ ConsumeKnown(t)
             \/ ConsumeTwin(t) \/ ConsumeNew(t)
             \/ StepDone(t) \/ FinalizeDone(t)
      PROVE  ReducerInv'
  BY <1>2, CallStepKeeps, CallFinalizeKeeps, LockKeeps, LockPoisonedKeeps,
     SnapshotKeeps, ConsumeIdentityKeeps, ConsumePanicsKeeps, ConsumeKnownKeeps,
     ConsumeNewKeeps, StepDoneKeeps, FinalizeDoneKeeps
<1>3. CASE UNCHANGED vars
  BY <1>3 DEF vars, ReducerInv, ArenaOrdered, ReducerTyped, HolderInside,
     DeltaFollowsMap, WorkLags, RequestKnown, FinalizeAccepts
<1> QED
  BY <1>1, <1>2, <1>3 DEF Next

-----------------------------------------------------------------------------
(* The inductive invariant of the reducer, for any number of threads. *)
THEOREM Invariance == Spec => []ReducerInv
BY InitInv, NextInv, PTL DEF Spec

(* Type correctness: ids the map gives are ids of canonical nodes. *)
THEOREM TypeCorrect == Spec => []TypeOK
<1>1. ReducerInv => TypeOK
  <2> SUFFICES ASSUME ReducerInv PROVE TypeOK
    OBVIOUS
  <2>1. ASSUME NEW t \in Threads PROVE ToSet(delta[t]) \subseteq ToSet(arena)
    <3> SUFFICES ASSUME NEW n \in DOMAIN delta[t] PROVE delta[t][n] \in ToSet(arena)
      BY DEF ToSet
    <3>1. /\ delta[t] \in Seq(KeysOfShapes) /\ arena \in Seq(KeysOfShapes)
          /\ Len(map) \in Nat /\ Len(arena) \in Nat
      BY DEF ReducerInv, ReducerTyped, ArenaOrdered
    <3>2. pc[t] = "consume"
      BY <3>1 DEF ReducerInv, DeltaFollowsMap
    <3>3. delta[t][n] = arena[Len(map) + n] /\ Len(map) + Len(delta[t]) <= Len(arena)
      BY <3>2 DEF ReducerInv, DeltaFollowsMap
    <3>4. Len(map) + n \in DOMAIN arena
      BY <3>1, <3>3
    <3> QED
      BY <3>3, <3>4 DEF ToSet
  <2> QED
    BY <2>1 DEF ReducerInv, ReducerTyped, HolderInside, TypeOK
<1> QED
  BY <1>1, Invariance, PTL

(***************************************************************************)
(* total_work counts every node once, whatever steps and finalizes of any *)
(* number of threads interleave with recording.                           *)
(***************************************************************************)
THEOREM WorkIsWatermarkAlways == Spec => []WorkIsWatermark
<1>1. ReducerInv => WorkIsWatermark
  BY DEF ReducerInv, WorkLags, WorkIsWatermark
<1> QED
  BY <1>1, Invariance, PTL

(* No node is skipped and none is consumed twice. *)
THEOREM ConsumesInOrderAlways == Spec => []ConsumesInOrder
<1>1. ReducerInv => ConsumesInOrder
  BY DEF ReducerInv, HolderInside, DeltaFollowsMap, ConsumesInOrder
<1> QED
  BY <1>1, Invariance, PTL

(***************************************************************************)
(* finalize never meets an output it does not know, although it checked   *)
(* its outputs before it took the reducer's mutex.                        *)
(***************************************************************************)
THEOREM FinalizeAcceptsAlways == Spec => []FinalizeAccepts
<1>1. ReducerInv => FinalizeAccepts
  BY DEF ReducerInv
<1> QED
  BY <1>1, Invariance, PTL

-----------------------------------------------------------------------------
(* The canonical nodes leave the engine nothing to merge, where tokens name *)
(* operators.                                                               *)

TokensNameShapes ==
  \A a, b \in Shapes : Token(a.op) = Token(b.op) => a.op = b.op

\* The canonical nodes are a graph of distinct nodes: no identity among them
\* and no symmetric op next to its twin.
CanonIrredundant ==
  /\ \A n \in DOMAIN canon : \A m \in DOMAIN canon[n].inputs :
       canon[n].inputs[m] \in 0 .. (Len(canon) - 1)
  /\ \A m, n \in DOMAIN canon : canon[m] = canon[n] => m = n
  /\ \A n \in DOMAIN canon : ~ IsIdentity(canon[n])
  /\ \A m, n \in DOMAIN canon :
       IsSymmetric(canon[m]) /\ canon[n] = Swapped(canon[m]) => m = n

(* Keys with one token and one list of inputs are one key. *)
LEMMA TokenAndInputsName ==
  ASSUME TokensNameShapes, NEW j \in KeysOfShapes, NEW k \in KeysOfShapes,
         Token(j) = Token(k), j.inputs = k.inputs
  PROVE  j = k
<1>1. PICK a \in Shapes, x \in Seq(Nat) : j = WithInputs(a.op, x)
  BY DEF KeysOfShapes
<1>2. PICK b \in Shapes, y \in Seq(Nat) : k = WithInputs(b.op, y)
  BY DEF KeysOfShapes
<1>3. a.op \in Operators /\ b.op \in Operators
  BY ShapesAreOperators
<1>4. a.op = b.op
  BY <1>1, <1>2, <1>3, TokenKept DEF TokensNameShapes
<1>5. CASE a.op.kind = "source"
  BY <1>1, <1>2, <1>4, <1>5 DEF WithInputs
<1>6. CASE a.op.kind # "source"
  <2>1. j = [a.op EXCEPT !.inputs = x] /\ k = [a.op EXCEPT !.inputs = y]
    BY <1>1, <1>2, <1>4, <1>6 DEF WithInputs
  <2>2. j.inputs = x /\ k.inputs = y
    BY <2>1, <1>3 DEF Operators
  <2> QED
    BY <2>1, <2>2
<1> QED
  BY <1>5, <1>6

(* The twin of a symmetric key has its token, and its inputs exchanged. *)
LEMMA SwappedKey ==
  ASSUME NEW k \in KeysOfShapes, IsSymmetric(k)
  PROVE  /\ Swapped(k) \in KeysOfShapes
         /\ Token(Swapped(k)) = Token(k)
         /\ Swapped(k).inputs = <<k.inputs[2], k.inputs[1]>>
         /\ IsSymmetric(Swapped(k))
         /\ Swapped(Swapped(k)) = k
<1>1. PICK a \in Shapes, x \in Seq(Nat) : k = WithInputs(a.op, x)
  BY DEF KeysOfShapes
<1>2. a.op \in Operators
  BY ShapesAreOperators
<1>3. Token(k) = Token(a.op) /\ Token(k)[1] = "op" /\ Len(k.inputs) = 2
  BY <1>1, <1>2, TokenKept DEF IsSymmetric, SymmetricToken
<1>4. a.op.kind # "source"
  <2> SUFFICES ASSUME a.op.kind = "source" PROVE FALSE
    OBVIOUS
  <2>1. Token(a.op) = <<"src", a.op.name, a.op.params>>
    BY DEF Token
  <2>2. Token(a.op)[1] = "src"
    BY <2>1
  <2> QED
    BY <1>3, <2>2
<1>5. k = [a.op EXCEPT !.inputs = x] /\ k.inputs = x
  BY <1>1, <1>2, <1>4 DEF WithInputs, Operators
<1>6. Len(x) = 2 /\ x[1] \in Nat /\ x[2] \in Nat /\ x = <<x[1], x[2]>>
  BY <1>3, <1>5
<1> DEFINE y == <<x[2], x[1]>>
<1>7. y \in Seq(Nat) /\ Len(y) = 2 /\ y[1] = x[2] /\ y[2] = x[1]
  BY <1>6
<1>8. Swapped(k) = [a.op EXCEPT !.inputs = y] /\ Swapped(k) = WithInputs(a.op, y)
  BY <1>2, <1>4, <1>5 DEF Swapped, WithInputs, Operators
<1>9. Swapped(k).inputs = y /\ Swapped(k).kind = a.op.kind
  BY <1>8, <1>2 DEF Operators
<1>10. Swapped(k) \in KeysOfShapes
  <2>1. \A z \in Seq(Nat) : WithInputs(a.op, z) \in KeysOfShapes
    BY DEF KeysOfShapes
  <2> QED
    BY <2>1, <1>7, <1>8
<1>11. Token(Swapped(k)) = Token(k)
  BY <1>2, <1>3, <1>8, TokenKept
<1>12. IsSymmetric(Swapped(k))
  BY <1>7, <1>9, <1>11 DEF IsSymmetric
<1>13. Swapped(Swapped(k)) = k
  <2>1. Swapped(Swapped(k)) = WithInputs(Swapped(k), <<y[2], y[1]>>)
    BY <1>9 DEF Swapped
  <2>2. <<y[2], y[1]>> = x
    BY <1>6, <1>7
  <2> QED
    BY <2>1, <2>2, <1>2, <1>4, <1>5, <1>8, <1>9 DEF WithInputs, Operators
<1> QED
  BY <1>5, <1>9, <1>10, <1>11, <1>12, <1>13

(* Only a key that nothing canonical equals becomes a canonical node. *)
LEMMA IrredundantKept ==
  ASSUME ReducerInv, CanonIrredundant, [Next]_vars
  PROVE  CanonIrredundant'
<1>1. CASE canon' = canon
  BY <1>1 DEF CanonIrredundant, IsIdentity, IsSymmetric, Swapped
<1>2. ASSUME NEW t \in Threads, ConsumeNew(t)
      PROVE  CanonIrredundant'
  <2> DEFINE key == MappedNext(t)
  <2>1. /\ Consuming(t) /\ ~ IsIdentity(key) /\ ~ Contains(canon, key)
        /\ IsSymmetric(key) => ~ Contains(canon, Swapped(key))
        /\ canon' = Append(canon, key)
    BY <1>2 DEF ConsumeNew
  <2>2. /\ key \in KeysOfShapes
        /\ \A n \in DOMAIN key.inputs : key.inputs[n] \in 0 .. (Len(canon) - 1)
    BY <2>1, NextIsMapped
  <2> HIDE DEF key
  <2>3. canon \in Seq(KeysOfShapes) /\ Len(canon) \in Nat
    BY DEF ReducerInv, ReducerTyped
  <2>4. /\ canon' \in Seq(KeysOfShapes) /\ Len(canon') = Len(canon) + 1
        /\ \A n \in DOMAIN canon : canon'[n] = canon[n] /\ canon'[n] \in KeysOfShapes
        /\ canon'[Len(canon) + 1] = key
        /\ \A n \in DOMAIN canon' : n \in DOMAIN canon \/ n = Len(canon) + 1
    BY <2>1, <2>2, <2>3
  <2>5. \A n \in DOMAIN canon : canon[n] # key
    BY <2>1, <2>3 DEF Contains
  <2>6. \A n \in DOMAIN canon :
          IsSymmetric(key) => canon[n] # Swapped(key)
    BY <2>1, <2>3 DEF Contains
  <2>7. \A n \in DOMAIN canon :
          IsSymmetric(canon[n]) => key # Swapped(canon[n])
    <3> SUFFICES ASSUME NEW n \in DOMAIN canon, IsSymmetric(canon[n]),
                        key = Swapped(canon[n])
                 PROVE  FALSE
      OBVIOUS
    <3>1. canon[n] \in KeysOfShapes
      BY <2>4
    <3>2. IsSymmetric(key) /\ Swapped(key) = canon[n]
      BY <3>1, SwappedKey
    <3> QED
      BY <3>2, <2>6
  <2>8. \A n \in DOMAIN canon' : \A m \in DOMAIN canon'[n].inputs :
          canon'[n].inputs[m] \in 0 .. (Len(canon') - 1)
    <3> SUFFICES ASSUME NEW n \in DOMAIN canon', NEW m \in DOMAIN canon'[n].inputs
                 PROVE  canon'[n].inputs[m] \in 0 .. (Len(canon') - 1)
      OBVIOUS
    <3>1. canon'[n].inputs[m] \in 0 .. (Len(canon) - 1)
      BY <2>2, <2>4 DEF CanonIrredundant
    <3> QED
      BY <3>1, <2>3, <2>4
  <2>9. \A m, n \in DOMAIN canon' : canon'[m] = canon'[n] => m = n
    BY <2>4, <2>5 DEF CanonIrredundant
  <2>10. \A n \in DOMAIN canon' : ~ IsIdentity(canon'[n])
    BY <2>1, <2>4 DEF CanonIrredundant
  <2>11. \A m, n \in DOMAIN canon' :
           IsSymmetric(canon'[m]) /\ canon'[n] = Swapped(canon'[m]) => m = n
    BY <2>4, <2>6, <2>7 DEF CanonIrredundant
  <2> QED
    BY <2>8, <2>9, <2>10, <2>11 DEF CanonIrredundant, IsIdentity, IsSymmetric, Swapped
<1>3. canon' = canon \/ \E t \in Threads : ConsumeNew(t)
  BY DEF Next, vars, Record, CallStep, CallFinalize, Lock, LockPoisoned, Snapshot,
     ConsumeIdentity, ConsumePanics, ConsumeKnown, ConsumeTwin, StepDone, FinalizeDone
<1> QED
  BY <1>1, <1>2, <1>3

(***************************************************************************)
(* Where tokens name operators, no rule of the engine and no congruence   *)
(* applies to the canonical nodes, for any recording and any split into   *)
(* steps: finalize needs no saturation to reach its fixpoint.             *)
(***************************************************************************)
THEOREM NothingLeftToMergeAlways ==
  ASSUME TokensNameShapes
  PROVE  Spec => []NothingLeftToMerge
<1>1. ReducerInv /\ CanonIrredundant => NothingLeftToMerge
  <2> DEFINE graph == [node |-> [i \in IdsOf(canon) |-> [token |-> Token(canon[i + 1]),
                                                        inputs |-> canon[i + 1].inputs]],
                       outs |-> <<>>]
             same == [k \in IdsOf(canon) |-> k]
  <2> SUFFICES ASSUME ReducerInv, CanonIrredundant,
                      NEW i \in IdsOf(canon), NEW j \in IdsOf(canon),
                      Equal(graph, same, i, j)
               PROVE  i = j
    BY DEF NothingLeftToMerge
  <2>1. canon \in Seq(KeysOfShapes) /\ Len(canon) \in Nat
    BY DEF ReducerInv, ReducerTyped
  <2> DEFINE a == canon[i + 1]
             b == canon[j + 1]
  <2>2. /\ i \in Nat /\ j \in Nat /\ i + 1 \in DOMAIN canon /\ j + 1 \in DOMAIN canon
        /\ a \in KeysOfShapes /\ b \in KeysOfShapes
    BY <2>1 DEF IdsOf
  <2>3. /\ graph.node[i].token = Token(a) /\ graph.node[j].token = Token(b)
        /\ graph.node[i].inputs = a.inputs /\ graph.node[j].inputs = b.inputs
    OBVIOUS
  <2>4. /\ \A m \in DOMAIN a.inputs : a.inputs[m] \in IdsOf(canon)
        /\ \A m \in DOMAIN b.inputs : b.inputs[m] \in IdsOf(canon)
    BY <2>2 DEF CanonIrredundant, IdsOf
  <2>5. a.inputs \in Seq(Nat) /\ b.inputs \in Seq(Nat)
    BY <2>2, KeyInputs
  <2>6. a = b => i = j
    BY <2>2 DEF CanonIrredundant
  <2> HIDE DEF graph, a, b
  <2>7. CASE Congruent(graph, same, i, j)
    <3>1. Through(same, a.inputs) = a.inputs /\ Through(same, b.inputs) = b.inputs
      BY <2>4, <2>5 DEF Through
    <3>2. Token(a) = Token(b) /\ a.inputs = b.inputs
      BY <3>1, <2>3, <2>7 DEF Congruent
    <3> QED
      BY <3>2, <2>2, <2>6, TokenAndInputsName DEF a, b
  <2>8. CASE Commuted(graph, same, i, j)
    <3>1. /\ Token(a) = Token(b) /\ SymmetricToken(Token(a))
          /\ Len(a.inputs) = 2 /\ Len(b.inputs) = 2
          /\ same[a.inputs[1]] = same[b.inputs[2]]
          /\ same[a.inputs[2]] = same[b.inputs[1]]
      BY <2>3, <2>8 DEF Commuted
    <3>2. 1 \in DOMAIN a.inputs /\ 2 \in DOMAIN a.inputs
          /\ 1 \in DOMAIN b.inputs /\ 2 \in DOMAIN b.inputs
      BY <3>1, <2>5
    <3>3. a.inputs[1] = b.inputs[2] /\ a.inputs[2] = b.inputs[1]
      BY <3>1, <3>2, <2>4
    <3>4. b.inputs = <<a.inputs[2], a.inputs[1]>>
      BY <3>1, <3>3, <2>5
    <3>5. IsSymmetric(a)
      BY <3>1 DEF IsSymmetric
    <3>6. a \in KeysOfShapes /\ b \in KeysOfShapes
      BY <2>2 DEF a, b
    <3>7. /\ Swapped(a) \in KeysOfShapes /\ Token(Swapped(a)) = Token(b)
          /\ Swapped(a).inputs = b.inputs
      BY <3>1, <3>4, <3>5, <3>6, SwappedKey
    <3>8. b = Swapped(a)
      BY <3>6, <3>7, TokenAndInputsName
    <3> QED
      BY <3>5, <3>8, <2>2 DEF CanonIrredundant, a, b
  <2>9. CASE IsIdentityOf(graph, i, j)
    <3>1. IsIdentity(a)
      BY <2>3, <2>9 DEF IsIdentityOf, IsIdentity
    <3> QED
      BY <3>1, <2>2 DEF CanonIrredundant, a
  <2> QED
    BY <2>7, <2>8, <2>9 DEF Equal
<1>2. Init => CanonIrredundant
  BY DEF Init, CanonIrredundant
<1>3. ReducerInv /\ CanonIrredundant /\ [Next]_vars => CanonIrredundant'
  BY IrredundantKept
<1> QED
  BY <1>1, <1>2, <1>3, Invariance, PTL DEF Spec

-----------------------------------------------------------------------------
(* One pass is exact: the terms of the canonical nodes.                     *)

(* What can be recorded with the shapes is an operator over inputs. *)
LEMMA ShapesArePlain == KeysOfShapes \subseteq PlainKeys
BY ShapesAreOperators DEF KeysOfShapes, PlainKeys

(* The identity laws: an identity of one input is its input. *)
LEMMA TermOfIdentity ==
  ASSUME NEW k \in KeysOfShapes, IsIdentity(k), Len(k.inputs) = 1, NEW term
  PROVE  KeyTerm(k, Through(term, k.inputs)) = term[k.inputs[1]]
<1> DEFINE args == Through(term, k.inputs)
<1>1. k \in PlainKeys /\ k.inputs \in Seq(Nat)
  BY ShapesArePlain, KeyInputs
<1>2. Len(args) = 1 /\ args[1] = term[k.inputs[1]]
  <2>1. 1 \in DOMAIN k.inputs
    BY <1>1
  <2> QED
    BY <1>1, <2>1, ArgsOfInputs
<1>3. KeyTerm(k, args) = Apply(Operator(k), args)
  BY <1>1, PlainKeyTerm
<1>4. Operator(k) \in Operators /\ Token(Operator(k)) \in IDENTITY_TOKENS
  BY <1>1, KeyIsOperatorOverInputs DEF IsIdentity
<1> HIDE DEF args
<1>5. Apply(Operator(k), args) = args[1]
  BY <1>2, <1>4, ApplyIdentity
<1> QED
  BY <1>2, <1>3, <1>5 DEF args

(* The symmetry law: a symmetric op computes what its twin computes. *)
LEMMA TwinsHaveOneTerm ==
  ASSUME NEW k \in KeysOfShapes, IsSymmetric(k), NEW term
  PROVE  KeyTerm(Swapped(k), Through(term, Swapped(k).inputs))
           = KeyTerm(k, Through(term, k.inputs))
<1> DEFINE w == Swapped(k)
           xs == Through(term, w.inputs)
           ys == Through(term, k.inputs)
<1>1. /\ w \in KeysOfShapes /\ Token(w) = Token(k) /\ IsSymmetric(w)
      /\ w.inputs = <<k.inputs[2], k.inputs[1]>>
  BY SwappedKey
<1>2. k \in PlainKeys /\ w \in PlainKeys /\ k.inputs \in Seq(Nat) /\ w.inputs \in Seq(Nat)
  BY <1>1, ShapesArePlain, KeyInputs
<1>3. Len(k.inputs) = 2 /\ Len(w.inputs) = 2
  BY <1>1 DEF IsSymmetric
<1>4. DOMAIN k.inputs = {1, 2} /\ DOMAIN w.inputs = {1, 2}
  BY <1>2, <1>3
<1>5. Operator(w) = Operator(k)
  <2>1. w = WithInputs(k, w.inputs)
    BY <1>1 DEF Swapped
  <2>2. k.kind # "source"
    BY <1>2, <1>4, KeyIsOperatorOverInputs
  <2> QED
    BY <1>2, <2>1, <2>2, MappedKey
<1>6. w.inputs[1] = k.inputs[2] /\ w.inputs[2] = k.inputs[1]
  BY <1>1
<1> HIDE DEF w
<1>7. /\ xs \in Seq(ValuesOf(term)) /\ ys \in Seq(ValuesOf(term))
      /\ Len(xs) = 2 /\ Len(ys) = 2
      /\ xs[1] = ys[2] /\ xs[2] = ys[1]
  <2>1. /\ xs \in Seq(ValuesOf(term)) /\ Len(xs) = 2
        /\ xs[1] = term[w.inputs[1]] /\ xs[2] = term[w.inputs[2]]
    <3>1. /\ xs \in Seq(ValuesOf(term)) /\ Len(xs) = Len(w.inputs)
          /\ \A n \in DOMAIN w.inputs : xs[n] = term[w.inputs[n]]
      BY <1>2, ArgsOfInputs, Zenon
    <3> HIDE DEF xs
    <3> QED
      BY <3>1, <1>3, <1>4
  <2>2. /\ ys \in Seq(ValuesOf(term)) /\ Len(ys) = 2
        /\ ys[1] = term[k.inputs[1]] /\ ys[2] = term[k.inputs[2]]
    <3>1. /\ ys \in Seq(ValuesOf(term)) /\ Len(ys) = Len(k.inputs)
          /\ \A n \in DOMAIN k.inputs : ys[n] = term[k.inputs[n]]
      BY <1>2, ArgsOfInputs, Zenon
    <3> HIDE DEF ys
    <3> QED
      BY <3>1, <1>3, <1>4
  <2> HIDE DEF xs, ys
  <2> QED
    BY <2>1, <2>2, <1>6
<1> HIDE DEF xs, ys
<1>8. Operator(k) \in Operators /\ SymmetricToken(Token(Operator(k)))
  BY <1>2, KeyIsOperatorOverInputs DEF IsSymmetric
<1>9. Apply(Operator(k), xs) = Apply(Operator(k), ys)
  BY <1>7, <1>8, SameArgsSameTerm DEF SameArgs
<1> QED
  BY <1>2, <1>5, <1>9, PlainKeyTerm DEF w, xs, ys

-----------------------------------------------------------------------------
\* An identity op was recorded with one input at most.
IdentityInputs == \A n \in DOMAIN arena : IsIdentity(arena[n]) => Len(arena[n].inputs) <= 1

\* Every consumed node has the term of its canonical node.
TermsKept ==
  \A i \in 0 .. (Len(map) - 1) : Terms(canon)[map[i + 1]] = Terms(arena)[i]

ExactInv == IdentityInputs /\ InputsBefore(canon) /\ TermsKept

IdentitiesUnary == \A s \in Shapes : Token(s.op) \in IDENTITY_TOKENS => s.arity <= 1

(* A list of recorded keys in which inputs come first. *)
LEMMA KeysInputsBefore ==
  ASSUME NEW ns \in Seq(KeysOfShapes),
         \A n \in DOMAIN ns : \A m \in DOMAIN ns[n].inputs : ns[n].inputs[m] < n - 1
  PROVE  InputsBefore(ns)
<1>1. Len(ns) \in Nat
  OBVIOUS
<1>2. ASSUME NEW i \in 0 .. (Len(ns) - 1), NEW n \in DOMAIN ns[i + 1].inputs
      PROVE  ns[i + 1].inputs[n] \in 0 .. (i - 1)
  <2>1. i \in Nat /\ i + 1 \in DOMAIN ns /\ ns[i + 1] \in KeysOfShapes
    BY <1>1
  <2>2. ns[i + 1].inputs[n] < (i + 1) - 1
    BY <2>1
  <2>3. ns[i + 1].inputs \in Seq(Nat)
    BY <2>1, KeyInputs
  <2>4. ns[i + 1].inputs[n] \in Nat
    BY <2>3
  <2> QED
    BY <2>1, <2>2, <2>4
<1> QED
  BY <1>1, <1>2 DEF InputsBefore

(* The arena is topologically ordered. *)
LEMMA ArenaInputsBefore == ReducerInv => InputsBefore(arena)
BY KeysInputsBefore DEF ReducerInv, ArenaOrdered

(* Different canonical nodes compute different things: their terms differ. *)
LEMMA CanonTermsDiffer ==
  ASSUME canon \in Seq(KeysOfShapes), InputsBefore(canon), CanonIrredundant
  PROVE  \A i, j \in 0 .. (Len(canon) - 1) :
           Terms(canon)[i] = Terms(canon)[j] => i = j
<1> DEFINE term == Terms(canon)
           Ids == 0 .. (Len(canon) - 1)
           Collide == {i \in Ids : \E j \in 0 .. (i - 1) : term[i] = term[j]}
<1>1. Len(canon) \in Nat /\ DOMAIN canon = 1 .. Len(canon)
  OBVIOUS
<1>2. Collide = {}
  <2> SUFFICES ASSUME Collide # {} PROVE FALSE
    OBVIOUS
  <2>1. PICK i \in Collide : \A k \in Collide : i <= k
    <3>1. Collide \subseteq Nat
      BY <1>1
    <3> HIDE DEF Collide
    <3> QED
      BY <3>1, LeastMember
  <2>2. PICK j \in 0 .. (i - 1) : term[i] = term[j]
    BY <2>1
  <2>3. i \in Ids /\ j \in Ids /\ i \in Nat /\ j \in Nat /\ j < i
    BY <1>1, <2>1, <2>2
  <2>4. \A a, b \in 0 .. (i - 1) : term[a] = term[b] => a = b
    <3> SUFFICES ASSUME NEW a \in 0 .. (i - 1), NEW b \in 0 .. (i - 1),
                        term[a] = term[b], b < a
                 PROVE  FALSE
      BY <2>3
    <3>1. a \in Ids /\ b \in 0 .. (a - 1) /\ ~ (i <= a)
      BY <1>1, <2>3
    <3>2. a \in Collide
      BY <3>1, Zenon
    <3> QED
      BY <3>1, <3>2, <2>1, Zenon
  <2> DEFINE x == canon[i + 1]
             y == canon[j + 1]
             xs == Through(term, x.inputs)
             ys == Through(term, y.inputs)
  <2>5. i + 1 \in DOMAIN canon /\ j + 1 \in DOMAIN canon
    BY <1>1, <2>3
  <2>6. x \in KeysOfShapes /\ y \in KeysOfShapes /\ ~ IsIdentity(x) /\ ~ IsIdentity(y)
    BY <2>5 DEF CanonIrredundant
  <2>7. x # y /\ ~ (IsSymmetric(x) /\ y = Swapped(x))
    <3>1. i + 1 # j + 1
      BY <2>3
    <3> QED
      BY <2>5, <3>1 DEF CanonIrredundant
  <2>8. /\ \A n \in DOMAIN x.inputs : x.inputs[n] \in 0 .. (i - 1)
        /\ \A n \in DOMAIN y.inputs : y.inputs[n] \in 0 .. (i - 1)
    <3>1. \A n \in DOMAIN y.inputs : y.inputs[n] \in 0 .. (j - 1)
      BY <2>3 DEF InputsBefore
    <3>2. 0 .. (j - 1) \subseteq 0 .. (i - 1)
      BY <2>3
    <3> QED
      BY <2>3, <3>1, <3>2 DEF InputsBefore
  <2>9. /\ x \in PlainKeys /\ y \in PlainKeys
        /\ x.inputs \in Seq(Nat) /\ y.inputs \in Seq(Nat)
    BY <2>6, ShapesArePlain, KeyInputs
  <2>10. term[i] = Apply(Operator(x), xs) /\ term[j] = Apply(Operator(y), ys)
    <3>1. term[i] = KeyTerm(x, xs) /\ term[j] = KeyTerm(y, ys)
      BY <2>3, TermsEquation DEF TermFrom
    <3> QED
      BY <2>9, <3>1, PlainKeyTerm
  <2> HIDE DEF x, y, term
  <2>11. /\ xs \in Seq(ValuesOf(term)) /\ Len(xs) = Len(x.inputs)
         /\ DOMAIN xs = DOMAIN x.inputs
         /\ \A n \in DOMAIN x.inputs : xs[n] = term[x.inputs[n]]
    BY <2>9, ArgsOfInputs, Zenon
  <2>12. /\ ys \in Seq(ValuesOf(term)) /\ Len(ys) = Len(y.inputs)
         /\ DOMAIN ys = DOMAIN y.inputs
         /\ \A n \in DOMAIN y.inputs : ys[n] = term[y.inputs[n]]
    BY <2>9, ArgsOfInputs, Zenon
  <2>13. /\ Operator(x) \in Operators /\ Operator(y) \in Operators
         /\ Token(Operator(x)) = Token(x) /\ Token(Operator(y)) = Token(y)
    BY <2>9, KeyIsOperatorOverInputs
  <2>14. Apply(Operator(x), xs) = Apply(Operator(y), ys)
    BY <2>2, <2>10
  <2> HIDE DEF xs, ys
  <2>15. Operator(x) = Operator(y) /\ SameArgs(Operator(x), xs, ys)
    BY <2>6, <2>11, <2>12, <2>13, <2>14, SameTermSameArgs DEF IsIdentity
  <2>16. CASE xs = ys
    <3>1. DOMAIN x.inputs = DOMAIN y.inputs
      BY <2>11, <2>12, <2>16
    <3>2. ASSUME NEW n \in DOMAIN x.inputs PROVE x.inputs[n] = y.inputs[n]
      <4>1. term[x.inputs[n]] = term[y.inputs[n]]
        BY <2>11, <2>12, <2>16, <3>1
      <4>2. x.inputs[n] \in 0 .. (i - 1) /\ y.inputs[n] \in 0 .. (i - 1)
        BY <2>8, <3>1
      <4> QED
        BY <4>1, <4>2, <2>4
    <3>3. x.inputs = y.inputs
      BY <3>1, <3>2, <2>9
    <3> QED
      BY <3>3, <2>7, <2>9, <2>15, OperatorAndInputsName
  <2>17. CASE /\ SymmetricToken(Token(Operator(x))) /\ Len(xs) = 2 /\ Len(ys) = 2
              /\ xs[1] = ys[2] /\ xs[2] = ys[1]
    <3>1. IsSymmetric(x)
      BY <2>11, <2>13, <2>17 DEF IsSymmetric
    <3>2. Len(x.inputs) = 2 /\ Len(y.inputs) = 2
      BY <2>11, <2>12, <2>17
    <3>3. DOMAIN x.inputs = {1, 2} /\ DOMAIN y.inputs = {1, 2}
      BY <3>2, <2>9
    <3>4. x.inputs[1] = y.inputs[2] /\ x.inputs[2] = y.inputs[1]
      <4>1. /\ term[x.inputs[1]] = term[y.inputs[2]]
            /\ term[x.inputs[2]] = term[y.inputs[1]]
        BY <2>11, <2>12, <2>17, <3>3
      <4>2. /\ x.inputs[1] \in 0 .. (i - 1) /\ x.inputs[2] \in 0 .. (i - 1)
            /\ y.inputs[1] \in 0 .. (i - 1) /\ y.inputs[2] \in 0 .. (i - 1)
        BY <2>8, <3>3
      <4> QED
        BY <4>1, <4>2, <2>4
    <3>5. /\ Swapped(x) \in PlainKeys
          /\ Swapped(x).inputs = <<x.inputs[2], x.inputs[1]>>
      BY <2>6, <3>1, SwappedKey, ShapesArePlain
    <3>6. Swapped(x).inputs = y.inputs
      <4>1. DOMAIN Swapped(x).inputs = DOMAIN y.inputs
        BY <3>3, <3>5
      <4>2. \A n \in DOMAIN y.inputs : Swapped(x).inputs[n] = y.inputs[n]
        BY <3>3, <3>4, <3>5
      <4>3. Swapped(x).inputs \in Seq(Nat)
        BY <3>5, KeyIsOperatorOverInputs
      <4> QED
        BY <4>1, <4>2, <4>3, <2>9
    <3>7. Operator(Swapped(x)) = Operator(x)
      <4>1. Swapped(x) = WithInputs(x, Swapped(x).inputs)
        BY <3>5 DEF Swapped
      <4>2. x.kind # "source" /\ Swapped(x).inputs \in Seq(Nat)
        <5>1. 1 \in DOMAIN x.inputs
          BY <3>3
        <5> QED
          BY <2>9, <3>6, <5>1, KeyIsOperatorOverInputs
      <4> QED
        BY <2>9, <4>1, <4>2, MappedKey
    <3>8. Swapped(x) = y
      BY <2>9, <2>15, <3>5, <3>6, <3>7, OperatorAndInputsName
    <3> QED
      BY <2>7, <3>1, <3>8
  <2> QED
    BY <2>15, <2>16, <2>17 DEF SameArgs
<1> QED
  <2> SUFFICES ASSUME NEW i \in Ids, NEW j \in Ids, term[i] = term[j], j < i
               PROVE  FALSE
    BY <1>1
  <2>1. j \in 0 .. (i - 1)
    BY <1>1
  <2> QED
    BY <1>2, <2>1

(* The inputs of the next node, as ids of canonical nodes. *)
LEMMA MappedInputs ==
  ASSUME ReducerInv, NEW t \in Threads, Consuming(t)
  PROVE  LET key == arena[Len(map) + 1]
         IN /\ MappedNext(t).inputs = [n \in DOMAIN key.inputs |-> map[key.inputs[n] + 1]]
            /\ Operator(MappedNext(t)) = Operator(key)
            /\ Token(MappedNext(t)) = Token(key)
<1> DEFINE key == arena[Len(map) + 1]
           inputs == [n \in DOMAIN key.inputs |-> map[key.inputs[n] + 1]]
<1>1. /\ Len(map) + 1 \in DOMAIN arena /\ Head(delta[t]) = key
      /\ MappedNext(t) \in KeysOfShapes
      /\ \A n \in DOMAIN MappedNext(t).inputs :
           MappedNext(t).inputs[n] \in 0 .. (Len(canon) - 1)
  BY NextIsMapped
<1>2. key \in PlainKeys
  BY <1>1, ShapesArePlain DEF ReducerInv, ArenaOrdered
<1>3. MappedNext(t) = WithInputs(key, inputs)
  BY <1>1 DEF MappedNext
<1>4. key.inputs \in Seq(Nat) /\ (key.kind = "source" => key.inputs = <<>>)
  BY <1>2, KeyIsOperatorOverInputs
<1>5. \A n \in DOMAIN key.inputs : key.inputs[n] \in 0 .. (Len(map) - 1)
  <2>1. InputsBefore(arena) /\ Len(arena) \in Nat /\ Len(map) \in Nat
    BY ArenaInputsBefore DEF ReducerInv, ReducerTyped, ArenaOrdered
  <2>2. Len(map) \in 0 .. (Len(arena) - 1)
    BY <1>1, <2>1 DEF ReducerInv, ArenaOrdered
  <2> QED
    BY <2>1, <2>2 DEF InputsBefore
<1>6. map \in Seq(Nat) /\ DOMAIN map = 1 .. Len(map) /\ Len(map) \in Nat
  <2>1. map \in Seq(0 .. (Len(canon) - 1)) /\ Len(canon) \in Nat
    BY DEF ReducerInv, ReducerTyped
  <2> QED
    BY <2>1
<1> HIDE DEF key
<1>7. DOMAIN key.inputs = 1 .. Len(key.inputs) /\ Len(key.inputs) \in Nat
  BY <1>4
<1>8. \A n \in DOMAIN key.inputs : map[key.inputs[n] + 1] \in Nat
  <2> SUFFICES ASSUME NEW n \in DOMAIN key.inputs PROVE map[key.inputs[n] + 1] \in Nat
    OBVIOUS
  <2>1. key.inputs[n] + 1 \in 1 .. Len(map)
    BY <1>5, <1>6
  <2> QED
    BY <2>1, <1>6
<1>9. inputs \in [1 .. Len(key.inputs) -> Nat]
  BY <1>7, <1>8
<1>10. inputs \in Seq(Nat) /\ (key.inputs = <<>> => inputs = <<>>)
  <2>1. inputs \in Seq(Nat)
    BY <1>7, <1>9, SeqDef
  <2> QED
    BY <2>1
<1> HIDE DEF inputs
<1>11. /\ WithInputs(key, inputs).inputs = inputs
       /\ Operator(WithInputs(key, inputs)) = Operator(key)
       /\ Token(WithInputs(key, inputs)) = Token(key)
  BY <1>2, <1>4, <1>10, MappedKey
<1> QED
  BY <1>3, <1>11 DEF key, inputs

(* The next node computes what its mapped key does over canonical nodes. *)
LEMMA NextKeepsTerm ==
  ASSUME ReducerInv, TermsKept, NEW t \in Threads, Consuming(t)
  PROVE  Terms(arena)[Len(map)]
           = KeyTerm(MappedNext(t), Through(Terms(canon), MappedNext(t).inputs))
<1> DEFINE key == arena[Len(map) + 1]
           next == MappedNext(t)
<1>1. /\ Len(map) + 1 \in DOMAIN arena
      /\ next \in KeysOfShapes
  BY NextIsMapped
<1>2. /\ arena \in Seq(KeysOfShapes) /\ Len(arena) \in Nat
      /\ map \in Seq(0 .. (Len(canon) - 1)) /\ Len(map) \in Nat
  BY DEF ReducerInv, ArenaOrdered, ReducerTyped
<1>3. key \in KeysOfShapes /\ key.inputs \in Seq(Nat)
  BY <1>1, <1>2, KeyInputs
<1>4. /\ next.inputs = [n \in DOMAIN key.inputs |-> map[key.inputs[n] + 1]]
      /\ Operator(next) = Operator(key)
  BY MappedInputs
<1>5. Len(map) \in 0 .. (Len(arena) - 1)
  BY <1>1, <1>2
<1>6. Terms(arena)[Len(map)] = KeyTerm(key, Through(Terms(arena), key.inputs))
  BY <1>5, ArenaInputsBefore, TermsEquation DEF TermFrom, Through
<1>7. \A n \in DOMAIN key.inputs : key.inputs[n] \in 0 .. (Len(map) - 1)
  BY <1>5, ArenaInputsBefore DEF InputsBefore
<1> HIDE DEF key, next
<1>8. DOMAIN next.inputs = DOMAIN key.inputs
  BY <1>4
<1>9. ASSUME NEW n \in DOMAIN key.inputs
      PROVE  Terms(canon)[next.inputs[n]] = Terms(arena)[key.inputs[n]]
  <2>1. next.inputs[n] = map[key.inputs[n] + 1]
    BY <1>4
  <2> QED
    BY <2>1, <1>7 DEF TermsKept
<1>10. Through(Terms(canon), next.inputs) = Through(Terms(arena), key.inputs)
  BY <1>8, <1>9 DEF Through
<1>11. KeyTerm(next, Through(Terms(arena), key.inputs)) = KeyTerm(key, Through(Terms(arena), key.inputs))
  BY <1>1, <1>3, <1>4, ShapesArePlain, PlainKeyTerm DEF next
<1> QED
  BY <1>6, <1>10, <1>11 DEF next

(***************************************************************************)
(* Consuming a node keeps the terms when its canonical node has the term  *)
(* of its mapped key.                                                     *)
(***************************************************************************)
LEMMA ConsumedKeepsTerms ==
  ASSUME ReducerInv, InputsBefore(canon), TermsKept,
         NEW t \in Threads, Consuming(t), NEW id, Consumed(t, id),
         InputsBefore(canon'), Len(canon) <= Len(canon'),
         \A i \in 0 .. (Len(canon) - 1) : canon'[i + 1] = canon[i + 1],
         Terms(canon')[id] = KeyTerm(MappedNext(t), Through(Terms(canon), MappedNext(t).inputs))
  PROVE  TermsKept'
<1>1. /\ map \in Seq(0 .. (Len(canon) - 1)) /\ Len(map) \in Nat /\ Len(canon) \in Nat
  BY DEF ReducerInv, ReducerTyped
<1>2. /\ map' = Append(map, id) /\ arena' = arena
  BY DEF Consumed
<1>3. /\ Len(map') = Len(map) + 1 /\ map'[Len(map) + 1] = id
      /\ \A n \in 1 .. Len(map) : map'[n] = map[n]
  BY <1>1, <1>2
<1> SUFFICES ASSUME NEW i \in 0 .. (Len(map') - 1)
             PROVE  Terms(canon')[map'[i + 1]] = Terms(arena')[i]
  BY DEF TermsKept
<1>4. Terms(arena') = Terms(arena)
  BY <1>2
<1>5. CASE i \in 0 .. (Len(map) - 1)
  <2>1. i + 1 \in 1 .. Len(map)
    BY <1>1, <1>5
  <2>2. map'[i + 1] = map[i + 1] /\ map[i + 1] \in 0 .. (Len(canon) - 1)
    BY <1>1, <1>3, <2>1
  <2>3. \A k \in 0 .. (Len(canon) - 1) : Terms(canon')[k] = Terms(canon)[k]
    BY TermsOfPrefix, Zenon
  <2>4. Terms(canon')[map[i + 1]] = Terms(canon)[map[i + 1]]
    BY <2>2, <2>3
  <2> QED
    BY <1>4, <1>5, <2>2, <2>4 DEF TermsKept
<1>6. CASE i = Len(map)
  BY <1>3, <1>4, <1>6, NextKeepsTerm
<1> QED
  BY <1>1, <1>3, <1>5, <1>6

(* The term of a canonical node, by what its key reads. *)
LEMMA CanonTerm ==
  ASSUME ReducerInv, InputsBefore(canon), NEW e, Contains(canon, e)
  PROVE  Terms(canon)[IndexOf(canon, e)] = KeyTerm(e, Through(Terms(canon), e.inputs))
<1>1. canon \in Seq(KeysOfShapes) /\ Len(canon) \in Nat
  BY DEF ReducerInv, ReducerTyped
<1>2. IndexOf(canon, e) \in 0 .. (Len(canon) - 1)
  BY <1>1, IndexOfContained
<1>3. canon[IndexOf(canon, e) + 1] = e
  <2>1. PICK m \in 1 .. Len(canon) : canon[m] = e
    BY DEF Contains
  <2>2. m \in DOMAIN canon /\ \A n \in DOMAIN canon : n \in Nat
    BY <1>1, <2>1
  <2> DEFINE n == CHOOSE n \in DOMAIN canon : canon[n] = e
  <2>3. n \in DOMAIN canon /\ canon[n] = e
    BY <2>1, <2>2
  <2>4. IndexOf(canon, e) = n - 1
    BY DEF IndexOf
  <2> HIDE DEF n
  <2>5. (n - 1) + 1 = n
    BY <2>2, <2>3
  <2> QED
    BY <2>3, <2>4, <2>5
<1>4. Terms(canon)[IndexOf(canon, e)] = TermFrom(canon, Terms(canon), IndexOf(canon, e))
  BY <1>2, TermsEquation
<1> QED
  BY <1>3, <1>4, Zenon DEF TermFrom, Through

(* An identity op is consumed as its input, which it computes. *)
LEMMA IdentityKeepsTerms ==
  ASSUME ReducerInv, ExactInv, NEW t \in Threads, ConsumeIdentity(t)
  PROVE  TermsKept'
<1> DEFINE key == MappedNext(t)
<1>1. /\ Consuming(t) /\ IsIdentity(key) /\ key.inputs # <<>>
      /\ Consumed(t, key.inputs[1]) /\ canon' = canon
  BY DEF ConsumeIdentity
<1>2. key \in KeysOfShapes /\ Len(map) + 1 \in DOMAIN arena
  BY <1>1, NextIsMapped
<1>3. /\ key.inputs = [n \in DOMAIN arena[Len(map) + 1].inputs |->
                         map[arena[Len(map) + 1].inputs[n] + 1]]
      /\ Token(key) = Token(arena[Len(map) + 1])
  BY <1>1, MappedInputs
<1>4. arena[Len(map) + 1].inputs \in Seq(Nat)
  BY <1>2, KeyInputs DEF ReducerInv, ArenaOrdered
<1>5. Len(arena[Len(map) + 1].inputs) <= 1
  BY <1>1, <1>2, <1>3 DEF ExactInv, IdentityInputs, IsIdentity
<1>6. key.inputs \in Seq(Nat)
  BY <1>2, KeyInputs
<1> HIDE DEF key
<1>7. Len(key.inputs) = Len(arena[Len(map) + 1].inputs)
  <2>1. DOMAIN key.inputs = DOMAIN arena[Len(map) + 1].inputs
    BY <1>3
  <2> QED
    BY <2>1, <1>4, <1>6
<1>8. Len(key.inputs) = 1
  <2>1. key.inputs # <<>>
    BY <1>1
  <2>2. Len(key.inputs) \in Nat /\ Len(key.inputs) # 0
    BY <2>1, <1>6
  <2>3. Len(key.inputs) <= 1
    BY <1>5, <1>7
  <2>4. \A k \in Nat : k # 0 /\ k <= 1 => k = 1
    OBVIOUS
  <2> QED
    BY <2>2, <2>3, <2>4, Zenon
<1>9. Terms(canon')[key.inputs[1]] = KeyTerm(key, Through(Terms(canon), key.inputs))
  BY <1>1, <1>2, <1>8, TermOfIdentity
<1>10. Len(canon) <= Len(canon') /\ InputsBefore(canon')
  <2>1. InputsBefore(canon) /\ Len(canon) \in Nat
    BY DEF ExactInv, ReducerInv, ReducerTyped
  <2> QED
    BY <1>1, <2>1
<1> QED
  BY <1>1, <1>9, <1>10, ConsumedKeepsTerms DEF ExactInv, key

(* A twin computes what the canonical node computes. *)
LEMMA KnownKeepsTerms ==
  ASSUME ReducerInv, ExactInv, NEW t \in Threads, ConsumeKnown(t) \/ ConsumeTwin(t)
  PROVE  TermsKept'
<1> DEFINE key == MappedNext(t)
<1>1. Consuming(t) /\ ~ IsIdentity(key) /\ canon' = canon
  BY DEF ConsumeKnown, ConsumeTwin
<1>2. key \in KeysOfShapes
  BY <1>1, NextIsMapped
<1>3. \E e : /\ e = key \/ (IsSymmetric(key) /\ e = Swapped(key))
             /\ Contains(canon, e) /\ Consumed(t, IndexOf(canon, e))
  <2>1. CASE ConsumeKnown(t)
    BY <2>1, Zenon DEF ConsumeKnown
  <2>2. CASE ConsumeTwin(t)
    BY <2>2, Zenon DEF ConsumeTwin
  <2> QED
    BY <2>1, <2>2
<1>4. PICK e : /\ e = key \/ (IsSymmetric(key) /\ e = Swapped(key))
               /\ Contains(canon, e) /\ Consumed(t, IndexOf(canon, e))
  BY <1>3
<1> HIDE DEF key
<1>5. KeyTerm(e, Through(Terms(canon), e.inputs)) = KeyTerm(key, Through(Terms(canon), key.inputs))
  <2>1. CASE e = key
    BY <2>1
  <2>2. CASE IsSymmetric(key) /\ e = Swapped(key)
    BY <2>2, <1>1, <1>2, TwinsHaveOneTerm
  <2> QED
    BY <1>4, <2>1, <2>2
<1>6. Terms(canon')[IndexOf(canon, e)] = KeyTerm(key, Through(Terms(canon), key.inputs))
  BY <1>1, <1>4, <1>5, CanonTerm DEF ExactInv
<1>7. Len(canon) <= Len(canon') /\ InputsBefore(canon')
  <2>1. InputsBefore(canon) /\ Len(canon) \in Nat
    BY DEF ExactInv, ReducerInv, ReducerTyped
  <2> QED
    BY <1>1, <2>1
<1> QED
  BY <1>1, <1>4, <1>6, <1>7, ConsumedKeepsTerms DEF ExactInv, key

(* A new canonical node reads canonical nodes, and computes what it should. *)
LEMMA NewKeepsTerms ==
  ASSUME ReducerInv, ExactInv, NEW t \in Threads, ConsumeNew(t)
  PROVE  InputsBefore(canon') /\ TermsKept'
<1> DEFINE key == MappedNext(t)
<1>1. Consuming(t) /\ canon' = Append(canon, key) /\ Consumed(t, Len(canon))
  BY DEF ConsumeNew
<1>2. /\ key \in KeysOfShapes
      /\ \A n \in DOMAIN key.inputs : key.inputs[n] \in 0 .. (Len(canon) - 1)
  BY <1>1, NextIsMapped
<1>3. canon \in Seq(KeysOfShapes) /\ Len(canon) \in Nat
  BY DEF ReducerInv, ReducerTyped
<1> HIDE DEF key
<1>4. /\ Len(canon') = Len(canon) + 1
      /\ \A i \in 0 .. (Len(canon) - 1) : canon'[i + 1] = canon[i + 1]
      /\ canon'[Len(canon) + 1] = key
  BY <1>1, <1>2, <1>3
<1>5. InputsBefore(canon')
  <2> SUFFICES ASSUME NEW i \in 0 .. (Len(canon') - 1),
                      NEW n \in DOMAIN canon'[i + 1].inputs
               PROVE  canon'[i + 1].inputs[n] \in 0 .. (i - 1)
    BY <1>3, <1>4 DEF InputsBefore
  <2>1. CASE i \in 0 .. (Len(canon) - 1)
    <3>1. canon'[i + 1] = canon[i + 1]
      BY <1>4, <2>1
    <3> QED
      BY <2>1, <3>1 DEF ExactInv, InputsBefore
  <2>2. CASE i = Len(canon)
    BY <2>2, <1>2, <1>4
  <2> QED
    BY <2>1, <2>2, <1>3, <1>4
<1>6. Terms(canon')[Len(canon)] = KeyTerm(key, Through(Terms(canon), key.inputs))
  <2>1. Len(canon) \in 0 .. (Len(canon') - 1)
    BY <1>3, <1>4
  <2>2. Terms(canon')[Len(canon)] = KeyTerm(key, Through(Terms(canon'), key.inputs))
    BY <2>1, <1>4, <1>5, TermsEquation DEF TermFrom, Through
  <2>3. \A i \in 0 .. (Len(canon) - 1) : Terms(canon')[i] = Terms(canon)[i]
    <3>1. Len(canon) <= Len(canon') /\ InputsBefore(canon)
      BY <1>3, <1>4 DEF ExactInv
    <3> QED
      BY <3>1, <1>4, <1>5, TermsOfPrefix, Zenon
  <2>4. Through(Terms(canon'), key.inputs) = Through(Terms(canon), key.inputs)
    BY <2>3, <1>2 DEF Through
  <2> QED
    BY <2>2, <2>4
<1>7. Len(canon) <= Len(canon')
  BY <1>3, <1>4
<1> QED
  BY <1>1, <1>4, <1>5, <1>6, <1>7, ConsumedKeepsTerms DEF ExactInv, key

(* Recording leaves the terms of what was recorded. *)
LEMMA RecordKeepsExact ==
  ASSUME IdentitiesUnary, ReducerInv, ExactInv, Record, ReducerInv'
  PROVE  ExactInv'
<1>0. PICK s \in Shapes : \E inputs \in [1 .. s.arity -> IdsOf(arena)] :
        arena' = Append(arena, WithInputs(s.op, inputs))
  BY DEF Record
<1>1. PICK inputs \in [1 .. s.arity -> IdsOf(arena)] :
        arena' = Append(arena, WithInputs(s.op, inputs))
  BY <1>0
<1> DEFINE key == WithInputs(s.op, inputs)
<1>2. arena \in Seq(KeysOfShapes) /\ Len(arena) \in Nat
  BY DEF ReducerInv, ArenaOrdered
<1>3. arena' \in Seq(KeysOfShapes) /\ Len(arena') \in Nat
  BY DEF ReducerInv, ArenaOrdered
<1>4. s.op \in Operators /\ s.arity \in Nat
  BY ShapesAreOperators
<1>5. canon' = canon /\ map' = map
  BY DEF Record
<1>6. /\ Len(arena') = Len(arena) + 1
      /\ \A i \in 0 .. (Len(arena) - 1) : arena'[i + 1] = arena[i + 1]
      /\ arena'[Len(arena) + 1] = key
  BY <1>1, <1>2
<1>7. IdentityInputs'
  <2> SUFFICES ASSUME NEW n \in DOMAIN arena', IsIdentity(arena'[n])
               PROVE  Len(arena'[n].inputs) <= 1
    BY DEF IdentityInputs, IsIdentity
  <2>1. CASE n \in DOMAIN arena
    <3>1. arena'[n] = arena[n]
      BY <1>1, <1>2, <2>1
    <3> QED
      BY <2>1, <3>1 DEF ExactInv, IdentityInputs
  <2>2. CASE n = Len(arena) + 1
    <3>1. arena'[n] = key
      BY <1>6, <2>2
    <3>2. Token(s.op) \in IDENTITY_TOKENS
      BY <1>4, <3>1, TokenKept DEF IsIdentity
    <3>3. s.arity <= 1
      BY <3>2 DEF IdentitiesUnary
    <3>4. key.inputs \in {<<>>, inputs}
      BY <1>4 DEF WithInputs, Operators
    <3>5. Len(inputs) = s.arity
      BY <1>4
    <3> HIDE DEF key
    <3>6. CASE key.inputs = <<>>
      BY <3>1, <3>6
    <3>7. CASE key.inputs = inputs
      BY <3>1, <3>3, <3>5, <3>7
    <3> QED
      BY <3>4, <3>6, <3>7
  <2> QED
    BY <1>2, <1>3, <1>6, <2>1, <2>2
<1>8. InputsBefore(canon')
  BY <1>5 DEF ExactInv
<1>9. TermsKept'
  <2>1. InputsBefore(arena)
    BY ArenaInputsBefore
  <2>2. InputsBefore(arena')
    BY KeysInputsBefore DEF ReducerInv, ArenaOrdered
  <2>3. Len(arena) <= Len(arena')
    BY <1>2, <1>6
  <2>4. \A i \in 0 .. (Len(arena) - 1) : Terms(arena')[i] = Terms(arena)[i]
    BY <2>1, <2>2, <2>3, <1>6, TermsOfPrefix, Zenon
  <2>5. Len(map) \in Nat /\ Len(map) <= Len(arena)
    BY DEF ReducerInv, ReducerTyped, DeltaFollowsMap
  <2> SUFFICES ASSUME NEW i \in 0 .. (Len(map) - 1)
               PROVE  Terms(canon)[map[i + 1]] = Terms(arena')[i]
    BY <1>5 DEF TermsKept
  <2>6. i \in 0 .. (Len(arena) - 1)
    BY <1>2, <2>5
  <2> QED
    BY <2>4, <2>6 DEF ExactInv, TermsKept
<1> QED
  BY <1>7, <1>8, <1>9 DEF ExactInv

(* Every step keeps the terms. *)
LEMMA ExactKept ==
  ASSUME IdentitiesUnary, ReducerInv, ExactInv, [Next]_vars, ReducerInv'
  PROVE  ExactInv'
<1>1. CASE Record
  BY <1>1, RecordKeepsExact
<1>2. ASSUME NEW t \in Threads,
             ConsumeIdentity(t) \/ ConsumeKnown(t) \/ ConsumeTwin(t) \/ ConsumeNew(t)
      PROVE  ExactInv'
  <2>1. arena' = arena
    BY <1>2 DEF ConsumeIdentity, ConsumeKnown, ConsumeTwin, ConsumeNew, Consumed
  <2>2. IdentityInputs'
    BY <2>1 DEF ExactInv, IdentityInputs, IsIdentity
  <2>3. TermsKept'
    BY <1>2, IdentityKeepsTerms, KnownKeepsTerms, NewKeepsTerms
  <2>4. InputsBefore(canon')
    <3>1. CASE ConsumeNew(t)
      BY <3>1, NewKeepsTerms
    <3>2. CASE canon' = canon
      BY <3>2 DEF ExactInv
    <3> QED
      BY <1>2, <3>1, <3>2 DEF ConsumeIdentity, ConsumeKnown, ConsumeTwin
  <2> QED
    BY <2>2, <2>3, <2>4 DEF ExactInv
<1>3. CASE UNCHANGED <<arena, canon, map>>
  <2>1. InputsBefore(canon')
    BY <1>3 DEF ExactInv
  <2> QED
    BY <1>3, <2>1 DEF ExactInv, IdentityInputs, TermsKept, IsIdentity
<1>4. \/ Record
      \/ UNCHANGED <<arena, canon, map>>
      \/ \E t \in Threads :
           ConsumeIdentity(t) \/ ConsumeKnown(t) \/ ConsumeTwin(t) \/ ConsumeNew(t)
  BY DEF Next, vars, CallStep, CallFinalize, Lock, LockPoisoned, Snapshot,
     ConsumePanics, StepDone, FinalizeDone
<1> QED
  BY <1>1, <1>2, <1>3, <1>4

(***************************************************************************)
(* Where the identity ops are unary, one pass is exact for any recording, *)
(* split into steps however the threads do it: two consumed nodes share a *)
(* canonical node exactly when the laws make them equal, and that node    *)
(* computes what they compute.                                            *)
(***************************************************************************)
THEOREM MapIsExactAlways ==
  ASSUME IdentitiesUnary
  PROVE  Spec => []MapIsExact
<1>1. Init => ExactInv /\ CanonIrredundant
  <2> SUFFICES ASSUME Init PROVE ExactInv /\ CanonIrredundant
    OBVIOUS
  <2>1. arena = <<>> /\ canon = <<>> /\ map = <<>>
    BY DEF Init
  <2>2. InputsBefore(canon) /\ IdentityInputs /\ TermsKept
    BY <2>1 DEF InputsBefore, IdentityInputs, TermsKept
  <2> QED
    BY <2>1, <2>2 DEF ExactInv, CanonIrredundant
<1>2. ReducerInv /\ CanonIrredundant /\ [Next]_vars => CanonIrredundant'
  BY IrredundantKept
<1>3. ReducerInv /\ ExactInv /\ [Next]_vars /\ ReducerInv' => ExactInv'
  BY ExactKept
<1>4. ReducerInv /\ CanonIrredundant /\ ExactInv => MapIsExact
  <2> SUFFICES ASSUME ReducerInv, CanonIrredundant, ExactInv,
                      NEW i \in 0 .. (Len(map) - 1), NEW j \in 0 .. (Len(map) - 1)
               PROVE  /\ map[i + 1] = map[j + 1] <=> Terms(arena)[i] = Terms(arena)[j]
                      /\ Terms(canon)[map[i + 1]] = Terms(arena)[i]
    BY DEF MapIsExact
  <2>1. /\ map \in Seq(0 .. (Len(canon) - 1)) /\ Len(map) \in Nat
        /\ canon \in Seq(KeysOfShapes)
    BY DEF ReducerInv, ReducerTyped
  <2>2. map[i + 1] \in 0 .. (Len(canon) - 1) /\ map[j + 1] \in 0 .. (Len(canon) - 1)
    BY <2>1
  <2>3. /\ Terms(canon)[map[i + 1]] = Terms(arena)[i]
        /\ Terms(canon)[map[j + 1]] = Terms(arena)[j]
    BY DEF ExactInv, TermsKept
  <2>4. Terms(canon)[map[i + 1]] = Terms(canon)[map[j + 1]] => map[i + 1] = map[j + 1]
    BY <2>1, <2>2, CanonTermsDiffer DEF ExactInv
  <2> QED
    BY <2>3, <2>4
<1> QED
  BY <1>1, <1>2, <1>3, <1>4, Invariance, PTL DEF Spec

-----------------------------------------------------------------------------
(* finalize keeps meaning.                                                 *)

\* A request is a list of ids and a fusion mode.
RequestTyped ==
  \A t \in Threads : call[t].outs \in Seq(Nat) /\ call[t].mode \in FusionModes

\* What the last finalize of a thread returned means what was asked of it.
AnswerMeans(t) ==
  \A n \in DOMAIN call[t].outs :
    Terms(reduced[t].nodes)[reduced[t].places[n]] = Terms(arena)[call[t].outs[n]]

FinalInv ==
  /\ RequestTyped
  /\ \A t \in Threads :
       reduced[t].tag = "graph" /\ call[t].tag = "finalize" => AnswerMeans(t)

(* Where tokens name shapes, they name the operators of recorded keys.     *)
LEMMA TokensNameKeys ==
  ASSUME TokensNameShapes, NEW a \in KeysOfShapes, NEW b \in KeysOfShapes,
         Token(a) = Token(b)
  PROVE  Operator(a) = Operator(b)
<1>1. PICK s \in Shapes, xs \in Seq(Nat) : a = WithInputs(s.op, xs)
  BY DEF KeysOfShapes
<1>2. PICK r \in Shapes, ys \in Seq(Nat) : b = WithInputs(r.op, ys)
  BY DEF KeysOfShapes
<1>3. s.op \in Operators /\ r.op \in Operators
  BY ShapesAreOperators
<1>4. Token(s.op) = Token(r.op)
  BY <1>1, <1>2, <1>3, TokenKept
<1>5. s.op = r.op
  BY <1>4 DEF TokensNameShapes
<1>6. Operator(a) = s.op
  BY <1>1, <1>3 DEF WithInputs, Operator, Operators
<1>7. Operator(b) = r.op
  BY <1>2, <1>3 DEF WithInputs, Operator, Operators
<1> QED
  BY <1>5, <1>6, <1>7

(* The passes over the canonical nodes keep the terms of the outputs: what *)
(* finalize skips, the engine, would have merged nothing.                  *)
LEMMA ReduceCanonicalMeans ==
  ASSUME TokensNameShapes, ReducerInv, ExactInv, NEW mode \in FusionModes,
         NEW os \in Seq(IdsOf(canon))
  PROVE  LET red == ReduceCanonical(os, mode)
         IN \A n \in DOMAIN os : Terms(red.nodes)[red.places[n]] = Terms(canon)[os[n]]
<1> DEFINE g == ToEngineGraph(canon, os)
<1>1. canon \in Seq(KeysOfShapes) /\ StoreList(canon)
  <2>1. canon \in Seq(KeysOfShapes) /\ InputsBefore(canon)
    BY DEF ReducerInv, ReducerTyped, ExactInv
  <2>2. \A n \in DOMAIN canon : StoreKey(canon[n])
    BY <2>1, ShapesArePlain DEF StoreKey
  <2>3. canon = [n \in 1 .. Len(canon) |-> canon[n]]
    BY <2>1
  <2> QED
    BY <2>1, <2>2, <2>3 DEF StoreList
<1>2. GraphOf(g, canon) /\ Means(g, canon, Terms(canon))
  BY <1>1, KeptMeans
<1>3. /\ DOMAIN g.node = Reachable(canon, os) /\ g.outs = os
      /\ \A i \in DOMAIN g.node : g.node[i].token = Token(canon[i + 1])
  BY DEF ToEngineGraph
<1>4. \A n \in DOMAIN os : os[n] \in IdsOf(canon)
  OBVIOUS
<1>5. ToSet(os) \subseteq IdsOf(canon)
  BY <1>4 DEF ToSet
<1>6. ToSet(os) \subseteq Reachable(canon, os)
  BY <1>5, ReachableHasOutputs
<1> HIDE DEF g
<1>7. g.outs \in Seq(DOMAIN g.node)
  <2>1. DOMAIN os = 1 .. Len(os) /\ Len(os) \in Nat
    OBVIOUS
  <2>2. \A n \in DOMAIN os : os[n] \in DOMAIN g.node
    BY <1>3, <1>6 DEF ToSet
  <2>3. os \in [1 .. Len(os) -> DOMAIN g.node]
    BY <2>1, <2>2
  <2>4. os \in Seq(DOMAIN g.node)
    BY <2>1, <2>3, SeqDef
  <2> QED
    BY <1>3, <2>4
<1>8. TokensName(g, canon)
  <2> SUFFICES ASSUME NEW i \in DOMAIN g.node, NEW j \in DOMAIN g.node,
                      g.node[i].token = g.node[j].token
               PROVE  Operator(canon[i + 1]) = Operator(canon[j + 1])
    BY DEF TokensName
  <2>1. i + 1 \in DOMAIN canon /\ j + 1 \in DOMAIN canon
    BY <1>1, <1>2 DEF GraphOf, IdsOf
  <2>2. canon[i + 1] \in KeysOfShapes /\ canon[j + 1] \in KeysOfShapes
    BY <1>1, <2>1
  <2>3. Token(canon[i + 1]) = Token(canon[j + 1])
    BY <1>3
  <2> QED
    BY <2>2, <2>3, TokensNameKeys
<1>9. KeepsOutputs(Finish(canon, g, g, mode), g, Terms(canon))
  BY <1>1, <1>2, <1>7, <1>8, FinishMeans
<1>10. ReduceCanonical(os, mode) = Finish(canon, g, g, mode)
  BY DEF ReduceCanonical, g
<1> QED
  BY <1>3, <1>9, <1>10 DEF KeepsOutputs

(* A finalize that is over gave the outputs it was asked for.              *)
LEMMA FinalizeDoneMeans ==
  ASSUME TokensNameShapes, ReducerInv, ExactInv, FinalInv,
         NEW t \in Threads, FinalizeDone(t)
  PROVE  FinalInv'
<1> DEFINE os == call[t].outs
           mapped == Mapped(os)
           mode == call[t].mode
           red == ReduceCanonical(mapped, mode)
<1>1. pc[t] = "finalize" /\ UNCHANGED <<arena, canon, map, call>>
  BY DEF FinalizeDone, Goto
<1>2. \A n \in DOMAIN os : os[n] < Len(map)
  BY <1>1 DEF ReducerInv, RequestKnown
<1>3. os \in Seq(Nat) /\ mode \in FusionModes
  BY DEF FinalInv, RequestTyped
<1>4. reduced' = [reduced EXCEPT ![t] =
                    [tag |-> "graph", nodes |-> red.nodes, outs |-> red.outs,
                     places |-> red.places, over |-> Len(map)]]
  BY <1>2 DEF FinalizeDone
<1>5. DOMAIN reduced = Threads
  BY DEF ReducerInv, ReducerTyped
<1>6. /\ map \in Seq(0 .. (Len(canon) - 1)) /\ Len(map) \in Nat
      /\ DOMAIN map = 1 .. Len(map)
  BY DEF ReducerInv, ReducerTyped
<1>7. \A n \in DOMAIN os : os[n] \in 0 .. (Len(map) - 1)
  BY <1>2, <1>3, <1>6
<1>8. \A n \in DOMAIN os : mapped[n] = map[os[n] + 1] /\ mapped[n] \in IdsOf(canon)
  <2> SUFFICES ASSUME NEW n \in DOMAIN os PROVE map[os[n] + 1] \in IdsOf(canon)
    BY DEF Mapped
  <2>1. os[n] + 1 \in DOMAIN map
    BY <1>6, <1>7
  <2> QED
    BY <1>6, <2>1 DEF IdsOf
<1>9. DOMAIN mapped = DOMAIN os
  BY DEF Mapped
<1> HIDE DEF mapped
<1>10. mapped \in Seq(IdsOf(canon))
  <2>1. DOMAIN os = 1 .. Len(os) /\ Len(os) \in Nat
    BY <1>3
  <2>2. mapped \in [1 .. Len(os) -> IdsOf(canon)]
    <3>1. mapped = [n \in 1 .. Len(os) |-> map[os[n] + 1]]
      BY <2>1 DEF mapped, Mapped
    <3> QED
      BY <1>8, <2>1, <3>1
  <2> QED
    BY <2>1, <2>2, SeqDef
<1>11. \A n \in DOMAIN os : Terms(red.nodes)[red.places[n]] = Terms(canon)[mapped[n]]
  BY <1>3, <1>9, <1>10, ReduceCanonicalMeans
<1>12. \A n \in DOMAIN os : Terms(canon)[mapped[n]] = Terms(arena)[os[n]]
  <2> SUFFICES ASSUME NEW n \in DOMAIN os
               PROVE  Terms(canon)[mapped[n]] = Terms(arena)[os[n]]
    OBVIOUS
  <2>1. os[n] \in 0 .. (Len(map) - 1) /\ mapped[n] = map[os[n] + 1]
    BY <1>7, <1>8
  <2> QED
    BY <2>1 DEF ExactInv, TermsKept
<1> HIDE DEF red
<1>13. reduced'[t].nodes = red.nodes /\ reduced'[t].places = red.places
  BY <1>4, <1>5
<1>14. \A u \in Threads : u # t => reduced'[u] = reduced[u]
  BY <1>4, <1>5
<1>15. AnswerMeans(t)'
  BY <1>1, <1>11, <1>12, <1>13 DEF AnswerMeans
<1>16. \A u \in Threads :
         reduced'[u].tag = "graph" /\ call'[u].tag = "finalize" => AnswerMeans(u)'
  <2> SUFFICES ASSUME NEW u \in Threads, u # t,
                      reduced'[u].tag = "graph", call'[u].tag = "finalize"
               PROVE  AnswerMeans(u)'
    BY <1>15
  <2>1. AnswerMeans(u)
    BY <1>1, <1>14 DEF FinalInv
  <2> QED
    BY <1>1, <1>14, <2>1 DEF AnswerMeans
<1>17. RequestTyped'
  BY <1>1 DEF FinalInv, RequestTyped
<1> QED
  BY <1>16, <1>17 DEF FinalInv

(* Recording leaves the terms of the outputs that were asked for.          *)
LEMMA RecordKeepsAnswers ==
  ASSUME ReducerInv, FinalInv, Record, ReducerInv'
  PROVE  FinalInv'
<1>1. UNCHANGED <<call, reduced>>
  BY DEF Record
<1>2. arena \in Seq(KeysOfShapes) /\ Len(arena) \in Nat
  BY DEF ReducerInv, ArenaOrdered
<1>3. PICK key : arena' = Append(arena, key)
  BY DEF Record
<1>4. /\ Len(arena') = Len(arena) + 1
      /\ \A i \in 0 .. (Len(arena) - 1) : arena'[i + 1] = arena[i + 1]
  <2>1. arena' \in Seq(KeysOfShapes)
    BY DEF ReducerInv, ArenaOrdered
  <2> QED
    BY <1>2, <1>3, <2>1
<1>5. InputsBefore(arena) /\ InputsBefore(arena')
  BY ArenaInputsBefore, KeysInputsBefore DEF ReducerInv, ArenaOrdered
<1>6. Len(arena) <= Len(arena')
  BY <1>2, <1>4
<1>7. \A i \in 0 .. (Len(arena) - 1) : Terms(arena')[i] = Terms(arena)[i]
  BY <1>4, <1>5, <1>6, TermsOfPrefix, Zenon
<1>8. ASSUME NEW t \in Threads, reduced'[t].tag = "graph", call'[t].tag = "finalize"
      PROVE  AnswerMeans(t)'
  <2>1. AnswerMeans(t)
    BY <1>1, <1>8 DEF FinalInv
  <2>2. \A n \in DOMAIN call[t].outs : call[t].outs[n] \in 0 .. (Len(arena) - 1)
    <3> SUFFICES ASSUME NEW n \in DOMAIN call[t].outs
                 PROVE  call[t].outs[n] \in 0 .. (Len(arena) - 1)
      OBVIOUS
    <3>1. call[t].outs[n] \in Nat /\ call[t].outs[n] < Len(arena)
      BY <1>1, <1>8 DEF ReducerInv, RequestKnown
    <3> QED
      BY <1>2, <3>1
  <2> QED
    BY <1>1, <1>7, <2>1, <2>2 DEF AnswerMeans
<1>9. RequestTyped'
  BY <1>1 DEF FinalInv, RequestTyped
<1> QED
  BY <1>8, <1>9 DEF FinalInv

(* Every step keeps what the answers mean.                                 *)
LEMMA AnswersKept ==
  ASSUME TokensNameShapes, ReducerInv, ExactInv, FinalInv, [Next]_vars, ReducerInv'
  PROVE  FinalInv'
<1>0. DOMAIN call = Threads /\ DOMAIN reduced = Threads
  BY DEF ReducerInv, ReducerTyped
<1>1. CASE Record
  BY <1>1, RecordKeepsAnswers
<1>2. ASSUME NEW t \in Threads, CallStep(t)
      PROVE  FinalInv'
  <2>1. UNCHANGED <<arena, reduced>> /\ call' = [call EXCEPT ![t] = Step]
    BY <1>2 DEF CallStep
  <2>2. call'[t] = Step /\ \A u \in Threads : u # t => call'[u] = call[u]
    BY <1>0, <2>1
  <2>3. Step.tag = "step" /\ Step.outs \in Seq(Nat) /\ Step.mode \in FusionModes
    BY DEF Step, FusionModes
  <2>4. RequestTyped'
    BY <2>2, <2>3 DEF FinalInv, RequestTyped
  <2>5. ASSUME NEW u \in Threads, reduced'[u].tag = "graph", call'[u].tag = "finalize"
        PROVE  AnswerMeans(u)'
    <3>1. u # t
      BY <2>2, <2>3, <2>5
    <3>2. AnswerMeans(u)
      BY <2>1, <2>2, <2>5, <3>1 DEF FinalInv
    <3> QED
      BY <2>1, <2>2, <3>1, <3>2 DEF AnswerMeans
  <2> QED
    BY <2>4, <2>5 DEF FinalInv
<1>3. ASSUME NEW t \in Threads, NEW os \in SeqOf(IdsOf(arena), MaxOutputs),
             NEW m \in Modes, CallFinalize(t, os, m)
      PROVE  FinalInv'
  <2>1. /\ arena' = arena
        /\ call' = [call EXCEPT ![t] = Finalize(os, m)]
        /\ reduced' = [reduced EXCEPT ![t] = NoGraph]
    BY <1>3 DEF CallFinalize
  <2>2. /\ call'[t].outs = os /\ call'[t].mode = m /\ reduced'[t].tag = "none"
        /\ \A u \in Threads : u # t => call'[u] = call[u] /\ reduced'[u] = reduced[u]
    BY <1>0, <2>1 DEF Finalize, NoGraph
  <2>3. os \in Seq(Nat) /\ m \in FusionModes
    <3>1. PICK k \in Nat : os \in [1 .. k -> IdsOf(arena)]
      BY DEF SeqOf
    <3>2. IdsOf(arena) \subseteq Nat
      BY DEF IdsOf, ReducerInv, ArenaOrdered
    <3>3. os \in [1 .. k -> Nat]
      BY <3>1, <3>2
    <3> QED
      BY <3>3, SeqDef, ModesAreKnown
  <2>4. RequestTyped'
    BY <2>2, <2>3 DEF FinalInv, RequestTyped
  <2>5. ASSUME NEW u \in Threads, reduced'[u].tag = "graph", call'[u].tag = "finalize"
        PROVE  AnswerMeans(u)'
    <3>1. u # t
      BY <2>2, <2>5
    <3>2. AnswerMeans(u)
      BY <2>2, <2>5, <3>1 DEF FinalInv
    <3> QED
      BY <2>1, <2>2, <3>1, <3>2 DEF AnswerMeans
  <2> QED
    BY <2>4, <2>5 DEF FinalInv
<1>4. ASSUME NEW t \in Threads, FinalizeDone(t)
      PROVE  FinalInv'
  BY <1>4, FinalizeDoneMeans
<1>5. CASE UNCHANGED <<arena, call, reduced>>
  BY <1>5 DEF FinalInv, RequestTyped, AnswerMeans
<1>6. \/ Record
      \/ UNCHANGED <<arena, call, reduced>>
      \/ \E t \in Threads :
           \/ CallStep(t)
           \/ \E os \in SeqOf(IdsOf(arena), MaxOutputs), m \in Modes :
                CallFinalize(t, os, m)
           \/ FinalizeDone(t)
  BY DEF Next, vars, Lock, LockPoisoned, Snapshot, ConsumeIdentity, ConsumeKnown,
     ConsumeTwin, ConsumeNew, Consumed, ConsumePanics, StepDone
<1> QED
  BY <1>1, <1>2, <1>3, <1>4, <1>5, <1>6

(***************************************************************************)
(* Where tokens name the operators of the vocabulary and its identity ops  *)
(* are unary, what finalize returns computes at every requested place what *)
(* the recorded node computed: for any number of threads, any recording    *)
(* and stepping that overlaps the call, and both fusion modes.             *)
(***************************************************************************)
THEOREM FinalizeKeepsMeaningAlways ==
  ASSUME TokensNameShapes, IdentitiesUnary
  PROVE  Spec => []FinalizeKeepsMeaning
<1>1. Init => ExactInv /\ FinalInv
  <2> SUFFICES ASSUME Init PROVE ExactInv /\ FinalInv
    OBVIOUS
  <2>1. /\ arena = <<>> /\ canon = <<>> /\ map = <<>>
        /\ call = [t \in Threads |-> Step]
        /\ reduced = [t \in Threads |-> NoGraph]
    BY DEF Init
  <2>2. ExactInv
    BY <2>1 DEF ExactInv, InputsBefore, IdentityInputs, TermsKept
  <2>3. RequestTyped
    <3>1. Step.outs \in Seq(Nat) /\ Step.mode \in FusionModes
      BY DEF Step, FusionModes
    <3>2. \A t \in Threads : call[t] = Step
      BY <2>1
    <3> QED
      BY <3>1, <3>2 DEF RequestTyped
  <2>4. \A t \in Threads : reduced[t].tag = "none"
    BY <2>1 DEF NoGraph
  <2> QED
    BY <2>2, <2>3, <2>4 DEF FinalInv
<1>2. ReducerInv /\ ExactInv /\ [Next]_vars /\ ReducerInv' => ExactInv'
  BY ExactKept
<1>3. ReducerInv /\ ExactInv /\ FinalInv /\ [Next]_vars /\ ReducerInv' => FinalInv'
  BY AnswersKept
<1>4. FinalInv => FinalizeKeepsMeaning
  BY DEF FinalInv, AnswerMeans, FinalizeKeepsMeaning
<1> QED
  BY <1>1, <1>2, <1>3, <1>4, Invariance, PTL DEF Spec

-----------------------------------------------------------------------------
(* One pass over a list of nodes reaches the fixpoint of the engine.       *)

\* The key of a node, its inputs mapped.
KeyThrough(ns, m, i) ==
  WithInputs(ns[i + 1], [n \in DOMAIN ns[i + 1].inputs |-> m[ns[i + 1].inputs[n] + 1]])

\* A node is mapped to what it is the identity of, or to a node of its key.
FollowsKey(key, id, cs) ==
  IF IsIdentity(key) THEN key.inputs # <<>> /\ id = key.inputs[1]
  ELSE cs[id + 1] = key \/ (IsSymmetric(key) /\ cs[id + 1] = Swapped(key))

\* A canonical node is the first node mapped to it, and later than all before.
FirstTo(ns, m, cs, f, c) ==
  /\ m[f + 1] = c /\ cs[c + 1] = KeyThrough(ns, m, f)
  /\ \A j \in 0 .. (f - 1) : m[j + 1] < c

\* What one pass over ns makes of it: the map m to the canonical nodes cs.
OnePass(ns, m, cs) ==
  /\ \A i \in 0 .. (Len(m) - 1) : FollowsKey(KeyThrough(ns, m, i), m[i + 1], cs)
  /\ \A c \in IdsOf(cs) : \E f \in 0 .. (Len(m) - 1) : FirstTo(ns, m, cs, f, c)

PassInv == OnePass(arena, map, canon)

(* The key of a node through a map of what comes before it. *)
LEMMA KeyMapped ==
  ASSUME NEW ns \in Seq(KeysOfShapes), InputsBefore(ns), NEW N \in Nat, NEW m \in Seq(0 .. (N - 1)),
         NEW i \in IdsOf(ns), i <= Len(m)
  PROVE  /\ ns[i + 1] \in KeysOfShapes /\ ns[i + 1].inputs \in Seq(Nat)
         /\ \A n \in DOMAIN ns[i + 1].inputs :
              /\ ns[i + 1].inputs[n] \in 0 .. (i - 1)
              /\ m[ns[i + 1].inputs[n] + 1] \in 0 .. (N - 1)
         /\ KeyThrough(ns, m, i) \in KeysOfShapes
         /\ Token(KeyThrough(ns, m, i)) = Token(ns[i + 1])
         /\ KeyThrough(ns, m, i).inputs
              = [n \in DOMAIN ns[i + 1].inputs |-> m[ns[i + 1].inputs[n] + 1]]
<1> DEFINE key == ns[i + 1]
           inputs == [n \in DOMAIN key.inputs |-> m[key.inputs[n] + 1]]
<1>1. i \in Nat /\ i + 1 \in DOMAIN ns /\ Len(ns) \in Nat /\ i \in 0 .. (Len(ns) - 1)
  BY DEF IdsOf
<1>2. key \in KeysOfShapes /\ key.inputs \in Seq(Nat) /\ key \in PlainKeys
  BY <1>1, KeyInputs, ShapesArePlain
<1>3. \A n \in DOMAIN key.inputs : key.inputs[n] \in 0 .. (i - 1)
  BY <1>1 DEF InputsBefore
<1>4. \A n \in DOMAIN key.inputs : m[key.inputs[n] + 1] \in 0 .. (N - 1)
  <2> SUFFICES ASSUME NEW n \in DOMAIN key.inputs
               PROVE  m[key.inputs[n] + 1] \in 0 .. (N - 1)
    OBVIOUS
  <2>1. key.inputs[n] + 1 \in DOMAIN m
    BY <1>1, <1>3
  <2> QED
    BY <2>1
<1> HIDE DEF key
<1>5. inputs \in Seq(Nat)
  <2>1. DOMAIN key.inputs = 1 .. Len(key.inputs) /\ Len(key.inputs) \in Nat
    BY <1>2
  <2>2. inputs \in [1 .. Len(key.inputs) -> Nat]
    BY <1>4, <2>1
  <2> QED
    BY <2>1, <2>2, SeqDef
<1>6. key.kind = "source" => key.inputs = <<>> /\ inputs = <<>>
  BY <1>2, KeyIsOperatorOverInputs
<1>7. KeyThrough(ns, m, i) = WithInputs(key, inputs)
  BY DEF KeyThrough, key
<1> HIDE DEF inputs
<1>8. /\ WithInputs(key, inputs) \in KeysOfShapes
      /\ WithInputs(key, inputs).inputs = inputs
      /\ Token(WithInputs(key, inputs)) = Token(key)
  BY <1>2, <1>5, <1>6, Remapped, MappedKey
<1> QED
  BY <1>2, <1>3, <1>4, <1>7, <1>8 DEF key, inputs

(* The next key of a step is the next node through the map. *)
LEMMA NextKey ==
  ASSUME ReducerInv, NEW t \in Threads, Consuming(t)
  PROVE  MappedNext(t) = KeyThrough(arena, map, Len(map))
BY NextIsMapped DEF MappedNext, KeyThrough

(* What follows a list or a map leaves the keys of what was mapped. *)
LEMMA KeyThroughLonger ==
  ASSUME NEW ns \in Seq(KeysOfShapes), InputsBefore(ns), NEW N \in Nat, NEW m \in Seq(0 .. (N - 1)),
         NEW rs, NEW r, NEW i \in IdsOf(ns), i <= Len(m),
         rs[i + 1] = ns[i + 1], \A n \in 1 .. Len(m) : r[n] = m[n]
  PROVE  KeyThrough(rs, r, i) = KeyThrough(ns, m, i)
<1>1. \A n \in DOMAIN ns[i + 1].inputs : ns[i + 1].inputs[n] \in 0 .. (i - 1)
  BY KeyMapped
<1>2. \A n \in DOMAIN ns[i + 1].inputs :
        r[ns[i + 1].inputs[n] + 1] = m[ns[i + 1].inputs[n] + 1]
  <2> SUFFICES ASSUME NEW n \in DOMAIN ns[i + 1].inputs
               PROVE  r[ns[i + 1].inputs[n] + 1] = m[ns[i + 1].inputs[n] + 1]
    OBVIOUS
  <2>1. ns[i + 1].inputs[n] + 1 \in 1 .. Len(m)
    BY <1>1 DEF IdsOf
  <2> QED
    BY <2>1
<1> QED
  BY <1>2 DEF KeyThrough

(* Recording changes nothing of the pass. *)
LEMMA RecordKeepsPass ==
  ASSUME ReducerInv, PassInv, Record, ReducerInv'
  PROVE  PassInv'
<1>1. arena \in Seq(KeysOfShapes) /\ Len(arena) \in Nat /\ arena' \in Seq(KeysOfShapes)
  BY DEF ReducerInv, ArenaOrdered
<1>2. PICK key : arena' = Append(arena, key)
  BY DEF Record
<1>3. canon' = canon /\ map' = map
  BY DEF Record
<1>4. \A i \in IdsOf(arena) : arena'[i + 1] = arena[i + 1]
  BY <1>1, <1>2 DEF IdsOf
<1>5. /\ map \in Seq(0 .. (Len(canon) - 1)) /\ Len(map) \in Nat /\ Len(map) <= Len(arena)
      /\ Len(canon) \in Nat
  BY DEF ReducerInv, ReducerTyped, DeltaFollowsMap
<1>6. ASSUME NEW i \in 0 .. (Len(map) - 1)
      PROVE  KeyThrough(arena', map, i) = KeyThrough(arena, map, i)
  <2>1. i \in IdsOf(arena) /\ i <= Len(map)
    BY <1>1, <1>5 DEF IdsOf
  <2> QED
    BY <2>1, <1>1, <1>4, <1>5, ArenaInputsBefore, KeyThroughLonger
<1>7. OnePass(arena', map, canon)
  BY <1>6, Zenon DEF PassInv, OnePass, FirstTo
<1> QED
  BY <1>3, <1>7 DEF PassInv

(* Consuming a node extends the pass by that node. *)
LEMMA ConsumedKeepsPass ==
  ASSUME ReducerInv, PassInv, NEW t \in Threads, Consuming(t), NEW id, Consumed(t, id),
         \/ canon' = canon /\ id \in 0 .. (Len(canon) - 1)
         \/ canon' = Append(canon, MappedNext(t)) /\ id = Len(canon),
         FollowsKey(MappedNext(t), id, canon')
  PROVE  PassInv'
<1>1. /\ arena \in Seq(KeysOfShapes) /\ Len(arena) \in Nat /\ InputsBefore(arena)
      /\ map \in Seq(0 .. (Len(canon) - 1)) /\ Len(map) \in Nat /\ Len(map) <= Len(arena)
      /\ canon \in Seq(KeysOfShapes) /\ Len(canon) \in Nat
  BY ArenaInputsBefore DEF ReducerInv, ReducerTyped, DeltaFollowsMap, ArenaOrdered
<1>2. arena' = arena /\ map' = Append(map, id)
  BY DEF Consumed
<1>3. /\ Len(map') = Len(map) + 1 /\ map'[Len(map) + 1] = id
      /\ \A n \in 1 .. Len(map) : map'[n] = map[n]
  BY <1>1, <1>2
<1>4. Len(map) \in IdsOf(arena) /\ MappedNext(t) \in KeysOfShapes
  BY <1>1, NextIsMapped DEF IdsOf
<1>5. \A i \in 0 .. (Len(map) - 1) :
        i \in IdsOf(arena) /\ i <= Len(map) /\ i + 1 \in 1 .. Len(map)
  BY <1>1 DEF IdsOf
<1>6. \A i \in 0 .. Len(map) : KeyThrough(arena, map', i) = KeyThrough(arena, map, i)
  <2> SUFFICES ASSUME NEW i \in 0 .. Len(map)
               PROVE  KeyThrough(arena, map', i) = KeyThrough(arena, map, i)
    OBVIOUS
  <2>1. i \in IdsOf(arena) /\ i <= Len(map)
    BY <1>1, <1>4 DEF IdsOf
  <2> QED
    BY <2>1, <1>1, <1>3, KeyThroughLonger
<1>7. KeyThrough(arena, map, Len(map)) = MappedNext(t)
  BY NextKey
<1>8. /\ \A c \in IdsOf(canon) : canon'[c + 1] = canon[c + 1]
      /\ Len(canon') \in Nat
      /\ \A c \in IdsOf(canon') : c \in IdsOf(canon) \/ c = Len(canon)
  <2>1. CASE canon' = canon
    BY <2>1, <1>1
  <2>2. CASE canon' = Append(canon, MappedNext(t))
    BY <2>2, <1>1, <1>4 DEF IdsOf
  <2> QED
    BY <2>1, <2>2
<1>9. ASSUME NEW i \in 0 .. (Len(map') - 1)
      PROVE  FollowsKey(KeyThrough(arena, map', i), map'[i + 1], canon')
  <2>1. CASE i \in 0 .. (Len(map) - 1)
    <3>1. FollowsKey(KeyThrough(arena, map, i), map[i + 1], canon)
      BY <2>1 DEF PassInv, OnePass
    <3>2. map'[i + 1] = map[i + 1] /\ map[i + 1] \in IdsOf(canon)
      BY <1>1, <1>3, <1>5, <2>1 DEF IdsOf
    <3>3. canon'[map[i + 1] + 1] = canon[map[i + 1] + 1]
      BY <1>8, <3>2
    <3>4. KeyThrough(arena, map', i) = KeyThrough(arena, map, i)
      BY <1>1, <1>6, <2>1
    <3> QED
      BY <3>1, <3>2, <3>3, <3>4 DEF FollowsKey
  <2>2. CASE i = Len(map)
    BY <1>1, <1>3, <1>6, <1>7, <2>2
  <2> QED
    BY <1>1, <1>3, <2>1, <2>2
<1>10. ASSUME NEW c \in IdsOf(canon')
       PROVE  \E f \in 0 .. (Len(map') - 1) : FirstTo(arena, map', canon', f, c)
  <2>1. CASE c \in IdsOf(canon)
    <3>1. PICK f \in 0 .. (Len(map) - 1) : FirstTo(arena, map, canon, f, c)
      BY <2>1 DEF PassInv, OnePass
    <3>2. f \in 0 .. (Len(map') - 1) /\ map'[f + 1] = map[f + 1]
      BY <1>1, <1>3, <1>5
    <3>3. ASSUME NEW j \in 0 .. (f - 1) PROVE map'[j + 1] = map[j + 1]
      <4>1. j + 1 \in 1 .. Len(map)
        BY <1>1
      <4> QED
        BY <1>3, <4>1
    <3>4. KeyThrough(arena, map', f) = KeyThrough(arena, map, f)
      BY <1>1, <1>6
    <3>5. FirstTo(arena, map', canon', f, c)
      BY <1>8, <2>1, <3>1, <3>2, <3>3, <3>4 DEF FirstTo
    <3> QED
      BY <3>2, <3>5
  <2>2. CASE c = Len(canon)
    <3>1. canon' = Append(canon, MappedNext(t)) /\ id = Len(canon)
      BY <1>1, <2>2 DEF IdsOf
    <3>2. canon'[c + 1] = MappedNext(t)
      BY <1>1, <1>4, <2>2, <3>1
    <3>3. ASSUME NEW j \in 0 .. (Len(map) - 1) PROVE map'[j + 1] < c
      <4>1. map'[j + 1] = map[j + 1] /\ map[j + 1] \in 0 .. (Len(canon) - 1)
        BY <1>1, <1>3, <1>5
      <4> QED
        BY <1>1, <2>2, <4>1
    <3>4. KeyThrough(arena, map', Len(map)) = MappedNext(t)
      BY <1>1, <1>6, <1>7
    <3>5. FirstTo(arena, map', canon', Len(map), c)
      BY <1>3, <2>2, <3>1, <3>2, <3>3, <3>4 DEF FirstTo
    <3>6. Len(map) \in 0 .. (Len(map') - 1)
      BY <1>1, <1>3
    <3> QED
      BY <3>5, <3>6
  <2> QED
    BY <1>8, <2>1, <2>2
<1>11. OnePass(arena, map', canon')
  BY <1>9, <1>10 DEF OnePass
<1> QED
  BY <1>2, <1>11 DEF PassInv

(* A contained entry is at its index. *)
LEMMA EntryAtIndex ==
  ASSUME NEW S, NEW s \in Seq(S), NEW e, Contains(s, e)
  PROVE  s[IndexOf(s, e) + 1] = e
<1>1. e \in ToSet(s) /\ \A n \in DOMAIN s : s[n] \in S
  BY DEF Contains, ToSet
<1> QED
  BY <1>1, IndexOfEntry

(* Every step keeps the pass. *)
LEMMA PassKept ==
  ASSUME ReducerInv, PassInv, [Next]_vars, ReducerInv'
  PROVE  PassInv'
<1>0. canon \in Seq(KeysOfShapes) /\ Len(canon) \in Nat
  BY DEF ReducerInv, ReducerTyped
<1>1. CASE Record
  BY <1>1, RecordKeepsPass
<1>2. ASSUME NEW t \in Threads, ConsumeIdentity(t)
      PROVE  PassInv'
  <2> DEFINE key == MappedNext(t)
  <2>1. /\ Consuming(t) /\ IsIdentity(key) /\ key.inputs # <<>>
        /\ Consumed(t, key.inputs[1]) /\ canon' = canon
    BY <1>2 DEF ConsumeIdentity
  <2>2. /\ key \in KeysOfShapes
        /\ \A n \in DOMAIN key.inputs : key.inputs[n] \in 0 .. (Len(canon) - 1)
    BY <2>1, NextIsMapped
  <2> HIDE DEF key
  <2>3. 1 \in DOMAIN key.inputs
    <3>1. key.inputs \in Seq(Nat)
      BY <2>2, KeyInputs
    <3> QED
      BY <2>1, <3>1
  <2>4. key.inputs[1] \in 0 .. (Len(canon) - 1) /\ FollowsKey(key, key.inputs[1], canon')
    BY <2>1, <2>2, <2>3 DEF FollowsKey
  <2> QED
    BY <2>1, <2>4, ConsumedKeepsPass DEF key
<1>3. ASSUME NEW t \in Threads, ConsumeKnown(t) \/ ConsumeTwin(t)
      PROVE  PassInv'
  <2> DEFINE key == MappedNext(t)
  <2>1. /\ Consuming(t) /\ ~ IsIdentity(key) /\ canon' = canon
        /\ \E e : /\ Contains(canon, e) /\ Consumed(t, IndexOf(canon, e))
                  /\ e = key \/ (IsSymmetric(key) /\ e = Swapped(key))
    <3>1. CASE ConsumeKnown(t)
      BY <3>1, Zenon DEF ConsumeKnown
    <3>2. CASE ConsumeTwin(t)
      BY <3>2, Zenon DEF ConsumeTwin
    <3> QED
      BY <1>3, <3>1, <3>2
  <2>2. PICK e : /\ Contains(canon, e) /\ Consumed(t, IndexOf(canon, e))
                 /\ e = key \/ (IsSymmetric(key) /\ e = Swapped(key))
    BY <2>1
  <2> HIDE DEF key
  <2>3. IndexOf(canon, e) \in 0 .. (Len(canon) - 1) /\ canon[IndexOf(canon, e) + 1] = e
    BY <1>0, <2>2, IndexOfContained, EntryAtIndex
  <2>4. FollowsKey(key, IndexOf(canon, e), canon')
    BY <2>1, <2>2, <2>3 DEF FollowsKey
  <2> QED
    BY <2>1, <2>2, <2>3, <2>4, ConsumedKeepsPass DEF key
<1>4. ASSUME NEW t \in Threads, ConsumeNew(t)
      PROVE  PassInv'
  <2> DEFINE key == MappedNext(t)
  <2>1. /\ Consuming(t) /\ ~ IsIdentity(key) /\ canon' = Append(canon, key)
        /\ Consumed(t, Len(canon))
    BY <1>4 DEF ConsumeNew
  <2>2. canon'[Len(canon) + 1] = key
    <3>1. key \in KeysOfShapes
      BY <2>1, NextIsMapped
    <3> HIDE DEF key
    <3> QED
      BY <1>0, <2>1, <3>1
  <2>3. FollowsKey(key, Len(canon), canon')
    BY <2>1, <2>2 DEF FollowsKey
  <2> QED
    BY <2>1, <2>3, ConsumedKeepsPass
<1>5. CASE UNCHANGED <<arena, canon, map>>
  BY <1>5 DEF PassInv
<1>6. \/ Record
      \/ UNCHANGED <<arena, canon, map>>
      \/ \E t \in Threads :
           ConsumeIdentity(t) \/ ConsumeKnown(t) \/ ConsumeTwin(t) \/ ConsumeNew(t)
  BY DEF Next, vars, CallStep, CallFinalize, Lock, LockPoisoned, Snapshot,
     ConsumePanics, StepDone, FinalizeDone
<1> QED
  BY <1>1, <1>2, <1>3, <1>4, <1>5, <1>6

\* A pass over all of ns, whose identity ops have one input at most.
PassOver(ns) ==
  /\ ns \in Seq(KeysOfShapes) /\ InputsBefore(ns) /\ Len(ns) = Len(map)
  /\ \A n \in DOMAIN ns : IsIdentity(ns[n]) => Len(ns[n].inputs) <= 1
  /\ map \in Seq(0 .. (Len(canon) - 1))
  /\ canon \in Seq(KeysOfShapes) /\ InputsBefore(canon) /\ CanonIrredundant
  /\ OnePass(ns, map, canon)

\* The first node that is mapped where i is.
FirstWith(ns, i) ==
  CHOOSE f \in IdsOf(ns) : /\ map[f + 1] = map[i + 1]
                           /\ \A j \in 0 .. (f - 1) : map[j + 1] < map[i + 1]

PassClass(ns) == [i \in IdsOf(ns) |-> FirstWith(ns, i)]

(* Where the pass takes a node, and why. *)
LEMMA PassedNode ==
  ASSUME NEW ns, PassOver(ns), NEW i \in IdsOf(ns)
  PROVE  LET key == KeyThrough(ns, map, i)
             inputs == ns[i + 1].inputs
         IN /\ i \in Nat /\ map[i + 1] \in IdsOf(canon) /\ ns[i + 1] \in KeysOfShapes
            /\ inputs \in Seq(Nat)
            /\ \A n \in DOMAIN inputs : inputs[n] \in IdsOf(ns) /\ inputs[n] < i
            /\ key \in KeysOfShapes /\ Token(key) = Token(ns[i + 1])
            /\ DOMAIN key.inputs = DOMAIN inputs
            /\ \A n \in DOMAIN inputs : key.inputs[n] = map[inputs[n] + 1]
            /\ IsIdentity(key) =>
                 inputs = <<inputs[1]>> /\ map[i + 1] = map[inputs[1] + 1]
            /\ ~ IsIdentity(key) =>
                 \/ canon[map[i + 1] + 1] = key
                 \/ IsSymmetric(key) /\ canon[map[i + 1] + 1] = Swapped(key)
<1> DEFINE key == KeyThrough(ns, map, i)
           inputs == ns[i + 1].inputs
<1>1. /\ ns \in Seq(KeysOfShapes) /\ InputsBefore(ns) /\ Len(ns) = Len(map) /\ Len(ns) \in Nat
      /\ Len(canon) \in Nat /\ map \in Seq(0 .. (Len(canon) - 1))
  BY DEF PassOver
<1>2. i \in Nat /\ i < Len(ns) /\ i <= Len(map) /\ i + 1 \in DOMAIN map /\ i + 1 \in DOMAIN ns
      /\ i \in 0 .. (Len(map) - 1)
  BY <1>1 DEF IdsOf
<1>3. map[i + 1] \in IdsOf(canon)
  BY <1>1, <1>2 DEF IdsOf
<1>4. /\ ns[i + 1] \in KeysOfShapes /\ inputs \in Seq(Nat)
      /\ \A n \in DOMAIN inputs : inputs[n] \in 0 .. (i - 1)
      /\ key \in KeysOfShapes /\ Token(key) = Token(ns[i + 1])
      /\ key.inputs = [n \in DOMAIN inputs |-> map[inputs[n] + 1]]
  BY <1>1, <1>2, KeyMapped
<1>5. FollowsKey(key, map[i + 1], canon)
  BY <1>2 DEF PassOver, OnePass
<1>6. IsIdentity(key) => Len(inputs) <= 1
  BY <1>2, <1>4 DEF PassOver, IsIdentity
<1> HIDE DEF key, inputs
<1>7. \A n \in DOMAIN inputs : inputs[n] \in IdsOf(ns) /\ inputs[n] < i
  BY <1>1, <1>2, <1>4 DEF IdsOf
<1>8. ASSUME IsIdentity(key)
      PROVE  inputs = <<inputs[1]>> /\ map[i + 1] = map[inputs[1] + 1]
  <2>1. key.inputs # <<>> /\ map[i + 1] = key.inputs[1]
    BY <1>5, <1>8 DEF FollowsKey
  <2>2. inputs # <<>>
    BY <1>4, <2>1
  <2>3. Len(inputs) = 1 /\ 1 \in DOMAIN inputs
    <3>1. Len(inputs) \in Nat /\ Len(inputs) # 0 /\ Len(inputs) <= 1
      BY <1>4, <1>6, <1>8, <2>2
    <3>2. Len(inputs) = 1
      BY <3>1
    <3> QED
      BY <1>4, <3>2
  <2> QED
    BY <1>4, <2>1, <2>3
<1>9. ~ IsIdentity(key) =>
        \/ canon[map[i + 1] + 1] = key
        \/ IsSymmetric(key) /\ canon[map[i + 1] + 1] = Swapped(key)
  BY <1>5 DEF FollowsKey
<1> QED
  BY <1>2, <1>3, <1>4, <1>7, <1>8, <1>9 DEF key, inputs

(* Nodes of one key, or of a key and its twin, are mapped to one node. *)
LEMMA OneKeyOnePlace ==
  ASSUME NEW ns, PassOver(ns), NEW i \in IdsOf(ns), NEW j \in IdsOf(ns),
         LET a == KeyThrough(ns, map, i)
             b == KeyThrough(ns, map, j)
         IN a = b \/ (IsSymmetric(a) /\ b = Swapped(a))
  PROVE  map[i + 1] = map[j + 1]
<1> DEFINE a == KeyThrough(ns, map, i)
           b == KeyThrough(ns, map, j)
           x == map[i + 1]
           y == map[j + 1]
<1>1. a \in KeysOfShapes /\ b \in KeysOfShapes /\ x \in IdsOf(canon) /\ y \in IdsOf(canon)
  BY PassedNode
<1>2. canon \in Seq(KeysOfShapes) /\ CanonIrredundant
  BY DEF PassOver
<1>3. x + 1 \in DOMAIN canon /\ y + 1 \in DOMAIN canon /\ x \in Nat /\ y \in Nat
  BY <1>1, <1>2 DEF IdsOf
<1>4. IsIdentity(a) => a.inputs # <<>> /\ x = a.inputs[1]
  <2>1. FollowsKey(a, x, canon)
    <3>1. i \in 0 .. (Len(map) - 1)
      BY DEF PassOver, IdsOf
    <3> QED
      BY <3>1 DEF PassOver, OnePass
  <2> QED
    BY <2>1 DEF FollowsKey
<1>5. IsIdentity(b) => b.inputs # <<>> /\ y = b.inputs[1]
  <2>1. FollowsKey(b, y, canon)
    <3>1. j \in 0 .. (Len(map) - 1)
      BY DEF PassOver, IdsOf
    <3> QED
      BY <3>1 DEF PassOver, OnePass
  <2> QED
    BY <2>1 DEF FollowsKey
<1>6. ~ IsIdentity(a) => canon[x + 1] = a \/ (IsSymmetric(a) /\ canon[x + 1] = Swapped(a))
  BY PassedNode
<1>7. ~ IsIdentity(b) => canon[y + 1] = b \/ (IsSymmetric(b) /\ canon[y + 1] = Swapped(b))
  BY PassedNode
<1>8. a = b \/ (IsSymmetric(a) /\ b = Swapped(a))
  OBVIOUS
<1> HIDE DEF a, b, x, y
<1>9. CASE IsIdentity(a) /\ a = b
  BY <1>4, <1>5, <1>9 DEF x, y
<1>10. CASE ~ IsIdentity(a) /\ a = b
  <2>1. canon[x + 1] = canon[y + 1] \/ (IsSymmetric(canon[x + 1]) /\ canon[y + 1] = Swapped(canon[x + 1]))
    BY <1>1, <1>6, <1>7, <1>10, SwappedKey
  <2>2. x + 1 = y + 1
    BY <1>2, <1>3, <2>1 DEF CanonIrredundant
  <2> QED
    BY <1>3, <2>2 DEF x, y
<1>11. CASE IsSymmetric(a) /\ b = Swapped(a)
  <2>1. IsSymmetric(b) /\ Swapped(b) = a
    BY <1>1, <1>11, SwappedKey
  <2>2. ~ IsIdentity(a) /\ ~ IsIdentity(b)
    BY <1>11, <2>1, IdentityTokens DEF IsIdentity, IsSymmetric
  <2>3. canon[x + 1] \in {a, b} /\ canon[y + 1] \in {a, b}
    BY <1>6, <1>7, <1>11, <2>1, <2>2
  <2>4. \/ canon[x + 1] = canon[y + 1]
        \/ IsSymmetric(canon[x + 1]) /\ canon[y + 1] = Swapped(canon[x + 1])
    BY <1>11, <2>1, <2>3
  <2>5. x + 1 = y + 1
    BY <1>2, <1>3, <2>4 DEF CanonIrredundant
  <2> QED
    BY <1>3, <2>5 DEF x, y
<1> QED
  BY <1>8, <1>9, <1>10, <1>11

(* The first node of a class has the canonical key, and leads the class. *)
LEMMA PassClasses ==
  ASSUME NEW ns, PassOver(ns)
  PROVE  /\ PassClass(ns) \in [IdsOf(ns) -> IdsOf(ns)]
         /\ \A i \in IdsOf(ns) :
              LET f == PassClass(ns)[i]
              IN /\ f <= i /\ map[f + 1] = map[i + 1] /\ PassClass(ns)[f] = f
                 /\ \A j \in 0 .. (f - 1) : map[j + 1] < map[i + 1]
                 /\ canon[map[i + 1] + 1] = KeyThrough(ns, map, f)
                 /\ ~ IsIdentity(KeyThrough(ns, map, f))
         /\ \A i, j \in IdsOf(ns) :
              PassClass(ns)[i] = PassClass(ns)[j] <=> map[i + 1] = map[j + 1]
         /\ \A c \in IdsOf(canon) : \E i \in IdsOf(ns) : map[i + 1] = c
<1> DEFINE class == PassClass(ns)
           Leads(f, i) == /\ map[f + 1] = map[i + 1]
                          /\ \A j \in 0 .. (f - 1) : map[j + 1] < map[i + 1]
<1>1. /\ Len(ns) = Len(map) /\ Len(ns) \in Nat /\ IdsOf(ns) = 0 .. (Len(map) - 1)
      /\ canon \in Seq(KeysOfShapes) /\ CanonIrredundant
  BY DEF PassOver, IdsOf
<1>2. \A i \in IdsOf(ns) : i \in Nat /\ map[i + 1] \in IdsOf(canon) /\ map[i + 1] \in Nat
  <2> SUFFICES ASSUME NEW i \in IdsOf(ns)
               PROVE  i \in Nat /\ map[i + 1] \in IdsOf(canon) /\ map[i + 1] \in Nat
    OBVIOUS
  <2>1. i \in Nat /\ map[i + 1] \in IdsOf(canon)
    BY PassedNode
  <2> QED
    BY <2>1 DEF IdsOf
<1>3. \A c \in IdsOf(canon) : \E f \in IdsOf(ns) : FirstTo(ns, map, canon, f, c)
  BY <1>1 DEF PassOver, OnePass
<1>4. ASSUME NEW f \in IdsOf(ns), NEW h \in IdsOf(ns), NEW i \in IdsOf(ns), Leads(f, i), Leads(h, i)
      PROVE  f = h
  <2>1. f \in Nat /\ h \in Nat /\ map[f + 1] \in Nat /\ map[h + 1] \in Nat /\ map[i + 1] \in Nat
    BY <1>2
  <2>2. ~ (f < h)
    <3> SUFFICES ASSUME f < h PROVE FALSE
      OBVIOUS
    <3>1. f \in 0 .. (h - 1)
      BY <2>1
    <3> QED
      BY <1>4, <2>1, <3>1
  <2>3. ~ (h < f)
    <3> SUFFICES ASSUME h < f PROVE FALSE
      OBVIOUS
    <3>1. h \in 0 .. (f - 1)
      BY <2>1
    <3> QED
      BY <1>4, <2>1, <3>1
  <2> QED
    BY <2>1, <2>2, <2>3
<1>5. ASSUME NEW i \in IdsOf(ns)
      PROVE  /\ class[i] \in IdsOf(ns) /\ Leads(class[i], i)
             /\ canon[map[i + 1] + 1] = KeyThrough(ns, map, class[i])
  <2>1. PICK f \in IdsOf(ns) : FirstTo(ns, map, canon, f, map[i + 1])
    BY <1>2, <1>3
  <2>2. Leads(f, i)
    BY <2>1 DEF FirstTo
  <2>3. class[i] = CHOOSE h \in IdsOf(ns) : Leads(h, i)
    BY DEF PassClass, FirstWith
  <2> HIDE DEF class, Leads
  <2>4. class[i] \in IdsOf(ns) /\ Leads(class[i], i)
    BY <2>2, <2>3
  <2>5. class[i] = f
    BY <1>4, <2>2, <2>4
  <2> QED
    BY <2>1, <2>4, <2>5 DEF FirstTo
<1>6. class \in [IdsOf(ns) -> IdsOf(ns)]
  BY <1>5 DEF PassClass
<1> HIDE DEF class
<1>7. ASSUME NEW i \in IdsOf(ns), NEW j \in IdsOf(ns), map[i + 1] = map[j + 1]
      PROVE  class[i] = class[j]
  BY <1>4, <1>5, <1>7
<1>8. \A i, j \in IdsOf(ns) : class[i] = class[j] <=> map[i + 1] = map[j + 1]
  BY <1>5, <1>7
<1>9. ASSUME NEW i \in IdsOf(ns)
      PROVE  class[i] <= i /\ class[class[i]] = class[i]
  <2>1. class[class[i]] = class[i]
    BY <1>5, <1>8
  <2>2. ~ (i < class[i])
    <3> SUFFICES ASSUME i < class[i] PROVE FALSE
      OBVIOUS
    <3>1. i \in 0 .. (class[i] - 1)
      BY <1>2, <1>5
    <3> QED
      BY <1>2, <1>5, <3>1
  <2> QED
    BY <1>2, <1>5, <2>1, <2>2
<1>10. ASSUME NEW i \in IdsOf(ns)
       PROVE  ~ IsIdentity(KeyThrough(ns, map, class[i]))
  <2>1. map[i + 1] + 1 \in DOMAIN canon
    BY <1>1, <1>2 DEF IdsOf
  <2> QED
    BY <1>1, <1>5, <2>1 DEF CanonIrredundant
<1>11. \A c \in IdsOf(canon) : \E i \in IdsOf(ns) : map[i + 1] = c
  BY <1>3 DEF FirstTo
<1> QED
  BY <1>5, <1>6, <1>8, <1>9, <1>10, <1>11 DEF class

\* The earlier nodes a node is equal to, by the classes of what they read.
Earlier(g, class, i) == {j \in DOMAIN g.node : j < i /\ Equal(g, class, i, j)}

(* The classes of a saturated graph are the one solution of their equation. *)
LEMMA ClassSolved ==
  ASSUME NEW ns, NEW g, StoreList(ns), GraphOf(g, ns),
         NEW class \in [DOMAIN g.node -> DOMAIN g.node],
         \A i \in DOMAIN g.node :
           class[i] = IF Earlier(g, class, i) = {} THEN i
                      ELSE class[Min(Earlier(g, class, i))]
  PROVE  SaturatedClass(g) = class
<1> DEFINE D == DOMAIN g.node
           Body(f, i) == IF Earlier(g, f, i) = {} THEN i ELSE f[Min(Earlier(g, f, i))]
           rep == SaturatedClass(g)
           Off == {i \in D : rep[i] # class[i]}
<1>1. rep = CHOOSE f : f = [i \in D |-> Body(f, i)]
  BY Zenon DEF SaturatedClass, Earlier
<1>2. class = [i \in D |-> Body(class, i)]
  OBVIOUS
<1>3. rep = [i \in D |-> Body(rep, i)]
  BY <1>1, <1>2, Zenon
<1> HIDE DEF rep
<1>4. \A i \in D : rep[i] = Body(rep, i)
  BY <1>3
<1>5. Off = {}
  <2> SUFFICES ASSUME Off # {} PROVE FALSE
    OBVIOUS
  <2>1. \A i \in D : i \in Nat
    BY GraphIsFinite
  <2>2. PICK i \in Off : \A m \in Off : i <= m
    <3>1. Off \subseteq Nat
      BY <2>1
    <3> HIDE DEF Off
    <3> QED
      BY <3>1, LeastMember
  <2>3. i \in D /\ i \in Nat /\ rep[i] # class[i]
    BY <2>1, <2>2
  <2>4. ASSUME NEW j \in D, j < i PROVE rep[j] = class[j]
    <3>1. ~ (i <= j)
      BY <2>1, <2>3, <2>4
    <3> QED
      BY <2>2, <3>1
  <2> HIDE DEF Off
  <2>5. ASSUME NEW j \in D, j <= i
        PROVE  /\ g.node[j].inputs \in Seq(Nat)
               /\ \A n \in DOMAIN g.node[j].inputs :
                    rep[g.node[j].inputs[n]] = class[g.node[j].inputs[n]]
    <3>1. /\ g.node[j].inputs \in Seq(Nat)
          /\ \A n \in DOMAIN g.node[j].inputs :
               /\ g.node[j].inputs[n] \in D /\ g.node[j].inputs[n] \in Nat
               /\ g.node[j].inputs[n] < j
      BY GraphNode
    <3>2. ASSUME NEW n \in DOMAIN g.node[j].inputs
          PROVE  rep[g.node[j].inputs[n]] = class[g.node[j].inputs[n]]
      <4>1. g.node[j].inputs[n] < i
        BY <2>1, <2>3, <2>5, <3>1
      <4> QED
        BY <2>4, <3>1, <4>1
    <3> QED
      BY <3>1, <3>2
  <2>6. ASSUME NEW j \in D, j < i
        PROVE  Equal(g, rep, i, j) <=> Equal(g, class, i, j)
    <3>1. i <= i /\ j <= i
      BY <2>1, <2>3, <2>6
    <3>2. /\ Through(rep, g.node[i].inputs) = Through(class, g.node[i].inputs)
          /\ Through(rep, g.node[j].inputs) = Through(class, g.node[j].inputs)
      BY <2>3, <2>5, <2>6, <3>1 DEF Through
    <3>3. Congruent(g, rep, i, j) <=> Congruent(g, class, i, j)
      BY <3>2 DEF Congruent
    <3>4. Commuted(g, rep, i, j) <=> Commuted(g, class, i, j)
      <4> SUFFICES ASSUME Len(g.node[i].inputs) = 2, Len(g.node[j].inputs) = 2
                   PROVE  Commuted(g, rep, i, j) <=> Commuted(g, class, i, j)
        BY DEF Commuted
      <4>1. /\ g.node[i].inputs \in Seq(Nat) /\ g.node[j].inputs \in Seq(Nat)
        BY <2>3, <2>5, <2>6, <3>1
      <4>2. /\ DOMAIN g.node[i].inputs = {1, 2} /\ DOMAIN g.node[j].inputs = {1, 2}
        BY <4>1
      <4>3. /\ \A n \in {1, 2} : rep[g.node[i].inputs[n]] = class[g.node[i].inputs[n]]
            /\ \A n \in {1, 2} : rep[g.node[j].inputs[n]] = class[g.node[j].inputs[n]]
        BY <2>3, <2>5, <2>6, <3>1, <4>2
      <4> QED
        BY <4>3 DEF Commuted
    <3> QED
      BY <3>3, <3>4 DEF Equal
  <2>7. Earlier(g, rep, i) = Earlier(g, class, i)
    BY <2>6 DEF Earlier
  <2>8. CASE Earlier(g, class, i) = {}
    BY <1>4, <2>3, <2>7, <2>8
  <2>9. CASE Earlier(g, class, i) # {}
    <3> DEFINE S == Earlier(g, class, i)
    <3>1. S \subseteq Nat /\ \A j \in S : j \in D /\ j < i
      BY <2>1 DEF Earlier
    <3> HIDE DEF S
    <3>2. \E n \in S : \A m \in S : n <= m
      BY <2>9, <3>1, LeastMember DEF S
    <3>3. Min(S) \in S
      BY <3>2 DEF Min
    <3>4. rep[Min(S)] = class[Min(S)]
      BY <2>4, <3>1, <3>3
    <3>5. rep[i] = rep[Min(S)] /\ class[i] = class[Min(S)]
      BY <1>4, <2>3, <2>7, <2>9 DEF S
    <3> QED
      BY <2>3, <3>4, <3>5
  <2> QED
    BY <2>8, <2>9
<1>6. \A i \in D : rep[i] = class[i]
  BY <1>5
<1>7. rep = [i \in D |-> class[i]]
  <2>1. \A i \in D : Body(rep, i) = class[i]
    BY <1>4, <1>6
  <2> HIDE DEF Body
  <2> QED
    BY <1>3, <2>1
<1>8. class = [i \in D |-> class[i]]
  OBVIOUS
<1> QED
  BY <1>7, <1>8 DEF rep

(* Lists with one domain are of one length. *)
LEMMA SameLength ==
  ASSUME NEW xs \in Seq(Nat), NEW ys \in Seq(Nat), DOMAIN xs = DOMAIN ys
  PROVE  Len(xs) = Len(ys)
OBVIOUS

\* g is all of ns, as an engine graph.
WholeGraph(g, ns) ==
  /\ DOMAIN g.node = IdsOf(ns)
  /\ \A i \in IdsOf(ns) : /\ g.node[i].token = Token(ns[i + 1])
                          /\ g.node[i].inputs = ns[i + 1].inputs

(* The nodes that a rule or congruence makes equal are mapped to one node. *)
LEMMA EqualPassedAlike ==
  ASSUME TokensNameShapes, NEW ns, PassOver(ns), NEW g, WholeGraph(g, ns),
         NEW i \in IdsOf(ns), NEW j \in IdsOf(ns), Equal(g, PassClass(ns), i, j)
  PROVE  map[i + 1] = map[j + 1]
<1> DEFINE class == PassClass(ns)
           a == KeyThrough(ns, map, i)
           b == KeyThrough(ns, map, j)
           xs == ns[i + 1].inputs
           ys == ns[j + 1].inputs
<1>1. \A x, y \in IdsOf(ns) : class[x] = class[y] <=> map[x + 1] = map[y + 1]
  BY PassClasses
<1>2. /\ xs \in Seq(Nat) /\ a \in KeysOfShapes /\ Token(a) = Token(ns[i + 1])
      /\ DOMAIN a.inputs = DOMAIN xs
      /\ \A n \in DOMAIN xs : xs[n] \in IdsOf(ns) /\ a.inputs[n] = map[xs[n] + 1]
      /\ IsIdentity(a) => xs = <<xs[1]>> /\ map[i + 1] = map[xs[1] + 1]
  BY PassedNode
<1>3. /\ ys \in Seq(Nat) /\ b \in KeysOfShapes /\ Token(b) = Token(ns[j + 1])
      /\ DOMAIN b.inputs = DOMAIN ys
      /\ \A n \in DOMAIN ys : ys[n] \in IdsOf(ns) /\ b.inputs[n] = map[ys[n] + 1]
  BY PassedNode
<1>4. /\ g.node[i].token = Token(a) /\ g.node[i].inputs = xs
      /\ g.node[j].token = Token(b) /\ g.node[j].inputs = ys
  BY <1>2, <1>3 DEF WholeGraph
<1>5. a.inputs \in Seq(Nat) /\ b.inputs \in Seq(Nat)
  BY <1>2, <1>3, KeyInputs
<1> HIDE DEF class, a, b, xs, ys
<1>6. CASE Congruent(g, class, i, j)
  <2>1. Token(a) = Token(b) /\ Through(class, xs) = Through(class, ys)
    BY <1>4, <1>6 DEF Congruent
  <2>2. DOMAIN xs = DOMAIN ys /\ \A n \in DOMAIN xs : class[xs[n]] = class[ys[n]]
    BY <2>1 DEF Through
  <2>3. \A n \in DOMAIN xs : a.inputs[n] = b.inputs[n]
    BY <1>1, <1>2, <1>3, <2>2
  <2>4. a.inputs = b.inputs
    BY <1>2, <1>3, <1>5, <2>2, <2>3, SameEntries
  <2>5. a = b
    BY <1>2, <1>3, <2>1, <2>4, TokenAndInputsName
  <2> QED
    BY <2>5, OneKeyOnePlace DEF a, b
<1>7. CASE Commuted(g, class, i, j)
  <2>1. /\ Token(a) = Token(b) /\ SymmetricToken(Token(a)) /\ Len(xs) = 2 /\ Len(ys) = 2
        /\ class[xs[1]] = class[ys[2]] /\ class[xs[2]] = class[ys[1]]
    BY <1>4, <1>7 DEF Commuted
  <2>2. DOMAIN xs = {1, 2} /\ DOMAIN ys = {1, 2}
    BY <1>2, <1>3, <2>1
  <2>3. a.inputs[1] = b.inputs[2] /\ a.inputs[2] = b.inputs[1]
    BY <1>1, <1>2, <1>3, <2>1, <2>2
  <2>4. Len(a.inputs) = 2 /\ Len(b.inputs) = 2
    <3>1. DOMAIN a.inputs = DOMAIN xs /\ DOMAIN b.inputs = DOMAIN ys
      BY <1>2, <1>3
    <3>2. Len(a.inputs) = Len(xs) /\ Len(b.inputs) = Len(ys)
      BY <1>2, <1>3, <1>5, <3>1, SameLength
    <3> QED
      BY <2>1, <3>2
  <2>5. IsSymmetric(a)
    BY <2>1, <2>4 DEF IsSymmetric
  <2>6. /\ Swapped(a) \in KeysOfShapes /\ Token(Swapped(a)) = Token(a)
        /\ Swapped(a).inputs = <<a.inputs[2], a.inputs[1]>>
    BY <1>2, <2>5, SwappedKey
  <2>7. b.inputs = <<a.inputs[2], a.inputs[1]>>
    BY <1>5, <2>3, <2>4
  <2>8. b = Swapped(a)
    BY <1>3, <2>1, <2>6, <2>7, TokenAndInputsName
  <2> QED
    BY <2>5, <2>8, OneKeyOnePlace DEF a, b
<1>8. CASE IsIdentityOf(g, i, j)
  <2>1. IsIdentity(a) /\ xs = <<j>>
    BY <1>4, <1>8 DEF IsIdentityOf, IsIdentity
  <2>2. xs[1] = j
    BY <2>1
  <2> QED
    BY <1>2, <2>1, <2>2
<1> QED
  BY <1>6, <1>7, <1>8 DEF Equal, class

(* A node that is not the first of its class is equal to an earlier one. *)
LEMMA LaterIsEqual ==
  ASSUME NEW ns, PassOver(ns), NEW g, WholeGraph(g, ns),
         NEW i \in IdsOf(ns), PassClass(ns)[i] # i
  PROVE  Earlier(g, PassClass(ns), i) # {}
<1> DEFINE class == PassClass(ns)
           f == class[i]
           a == KeyThrough(ns, map, i)
           b == KeyThrough(ns, map, f)
           xs == ns[i + 1].inputs
           ys == ns[f + 1].inputs
<1>1. /\ \A x, y \in IdsOf(ns) : class[x] = class[y] <=> map[x + 1] = map[y + 1]
      /\ f \in IdsOf(ns) /\ f <= i /\ map[f + 1] = map[i + 1]
      /\ canon[map[i + 1] + 1] = b
  BY PassClasses
<1>2. /\ xs \in Seq(Nat) /\ a \in KeysOfShapes /\ Token(a) = Token(ns[i + 1]) /\ i \in Nat
      /\ DOMAIN a.inputs = DOMAIN xs
      /\ \A n \in DOMAIN xs :
           xs[n] \in IdsOf(ns) /\ xs[n] < i /\ a.inputs[n] = map[xs[n] + 1]
      /\ IsIdentity(a) => xs = <<xs[1]>> /\ map[i + 1] = map[xs[1] + 1]
      /\ ~ IsIdentity(a) =>
           \/ canon[map[i + 1] + 1] = a
           \/ IsSymmetric(a) /\ canon[map[i + 1] + 1] = Swapped(a)
  BY PassedNode
<1>3. /\ ys \in Seq(Nat) /\ Token(b) = Token(ns[f + 1]) /\ b \in KeysOfShapes /\ f \in Nat
      /\ DOMAIN b.inputs = DOMAIN ys
      /\ \A n \in DOMAIN ys : ys[n] \in IdsOf(ns) /\ b.inputs[n] = map[ys[n] + 1]
  BY <1>1, PassedNode
<1>4. /\ DOMAIN g.node = IdsOf(ns)
      /\ g.node[i].token = Token(a) /\ g.node[i].inputs = xs
      /\ g.node[f].token = Token(b) /\ g.node[f].inputs = ys
  BY <1>1, <1>2, <1>3 DEF WholeGraph
<1>5. f < i
  BY <1>1, <1>2, <1>3
<1> HIDE DEF class, a, b, xs, ys, f
<1>6. CASE IsIdentity(a)
  <2>1. 1 \in DOMAIN xs
    <3>1. Len(xs) = 1
      BY <1>2, <1>6
    <3> QED
      BY <1>2, <3>1
  <2>2. IsIdentityOf(g, i, xs[1])
    BY <1>2, <1>4, <1>6 DEF IsIdentityOf, IsIdentity
  <2>3. xs[1] \in Earlier(g, class, i)
    BY <1>2, <1>4, <2>1, <2>2 DEF Earlier, Equal
  <2> QED
    BY <2>3 DEF class
<1>7. CASE a = b
  <2>1. DOMAIN xs = DOMAIN ys /\ \A n \in DOMAIN xs : class[xs[n]] = class[ys[n]]
    <3>1. DOMAIN a.inputs = DOMAIN xs /\ DOMAIN b.inputs = DOMAIN ys
      BY <1>2, <1>3
    <3>2. DOMAIN xs = DOMAIN ys
      BY <1>7, <3>1
    <3>3. ASSUME NEW n \in DOMAIN xs PROVE class[xs[n]] = class[ys[n]]
      <4>1. n \in DOMAIN ys
        BY <3>2
      <4>2. xs[n] \in IdsOf(ns) /\ a.inputs[n] = map[xs[n] + 1]
        BY <1>2
      <4>3. ys[n] \in IdsOf(ns) /\ b.inputs[n] = map[ys[n] + 1]
        BY <1>3, <4>1
      <4> QED
        BY <1>1, <1>7, <4>2, <4>3
    <3> QED
      BY <3>2, <3>3
  <2>2. Through(class, xs) = Through(class, ys)
    BY <2>1 DEF Through
  <2>3. Congruent(g, class, i, f)
    BY <1>4, <1>7, <2>2 DEF Congruent
  <2>4. f \in Earlier(g, class, i)
    BY <1>1, <1>4, <1>5, <2>3 DEF Earlier, Equal
  <2> QED
    BY <2>4 DEF class
<1>8. CASE IsSymmetric(a) /\ b = Swapped(a)
  <2>1. /\ Token(b) = Token(a) /\ b.inputs = <<a.inputs[2], a.inputs[1]>>
    BY <1>2, <1>8, SwappedKey
  <2>2. SymmetricToken(Token(a)) /\ Len(a.inputs) = 2
    BY <1>8 DEF IsSymmetric
  <2>3. a.inputs \in Seq(Nat) /\ b.inputs \in Seq(Nat)
    BY <1>2, <1>3, KeyInputs
  <2>4. Len(b.inputs) = 2 /\ b.inputs[1] = a.inputs[2] /\ b.inputs[2] = a.inputs[1]
    BY <2>1
  <2>5. Len(xs) = 2 /\ Len(ys) = 2
    <3>1. DOMAIN a.inputs = DOMAIN xs /\ DOMAIN b.inputs = DOMAIN ys
      BY <1>2, <1>3
    <3>2. Len(a.inputs) = Len(xs) /\ Len(b.inputs) = Len(ys)
      BY <1>2, <1>3, <2>3, <3>1, SameLength
    <3> QED
      BY <2>2, <2>4, <3>2
  <2>6. class[xs[1]] = class[ys[2]] /\ class[xs[2]] = class[ys[1]]
    <3>1. 1 \in DOMAIN xs /\ 2 \in DOMAIN xs /\ 1 \in DOMAIN ys /\ 2 \in DOMAIN ys
      BY <1>2, <1>3, <2>5
    <3>2. /\ xs[1] \in IdsOf(ns) /\ a.inputs[1] = map[xs[1] + 1]
          /\ xs[2] \in IdsOf(ns) /\ a.inputs[2] = map[xs[2] + 1]
      BY <1>2, <3>1
    <3>3. /\ ys[1] \in IdsOf(ns) /\ b.inputs[1] = map[ys[1] + 1]
          /\ ys[2] \in IdsOf(ns) /\ b.inputs[2] = map[ys[2] + 1]
      BY <1>3, <3>1
    <3> QED
      BY <1>1, <2>4, <3>2, <3>3
  <2>7. Commuted(g, class, i, f)
    BY <1>4, <2>1, <2>2, <2>5, <2>6 DEF Commuted
  <2>8. f \in Earlier(g, class, i)
    BY <1>1, <1>4, <1>5, <2>7 DEF Earlier, Equal
  <2> QED
    BY <2>8 DEF class
<1> QED
  BY <1>1, <1>2, <1>6, <1>7, <1>8

(* The engine, run to the end, finds the classes of the one pass.          *)
LEMMA SaturationIsOnePass ==
  ASSUME TokensNameShapes, NEW ns, PassOver(ns), StoreList(ns),
         NEW g, WholeGraph(g, ns), GraphOf(g, ns)
  PROVE  SaturatedClass(g) = PassClass(ns)
<1> DEFINE class == PassClass(ns)
<1>1. /\ class \in [IdsOf(ns) -> IdsOf(ns)]
      /\ \A x, y \in IdsOf(ns) : class[x] = class[y] <=> map[x + 1] = map[y + 1]
  BY PassClasses
<1>2. DOMAIN g.node = IdsOf(ns) /\ \A i \in IdsOf(ns) : i \in Nat
  BY GraphIsFinite DEF WholeGraph
<1>3. ASSUME NEW i \in IdsOf(ns)
      PROVE  class[i] = IF Earlier(g, class, i) = {} THEN i
                        ELSE class[Min(Earlier(g, class, i))]
  <2> DEFINE S == Earlier(g, class, i)
  <2>1. CASE S = {}
    BY <2>1, LaterIsEqual
  <2>2. CASE S # {}
    <3>1. S \subseteq Nat
      BY <1>2 DEF Earlier
    <3>2. \E n \in S : \A m \in S : n <= m
      <4> HIDE DEF S
      <4> QED
        BY <2>2, <3>1, LeastMember
    <3>3. Min(S) \in S
      <4> HIDE DEF S
      <4> QED
        BY <3>2 DEF Min
    <3>4. Min(S) \in IdsOf(ns) /\ Equal(g, class, i, Min(S))
      BY <1>2, <3>3 DEF Earlier
    <3> HIDE DEF S
    <3>5. map[i + 1] = map[Min(S) + 1]
      BY <3>4, EqualPassedAlike DEF class
    <3> QED
      BY <1>1, <2>2, <3>4, <3>5 DEF S
  <2> QED
    BY <2>1, <2>2
<1> HIDE DEF class
<1> QED
  BY <1>1, <1>2, <1>3, ClassSolved DEF class

(* What was passed over, and what came of it, are stores. *)
LEMMA PassedStores ==
  ASSUME NEW ns, PassOver(ns)
  PROVE  StoreList(ns) /\ StoreList(canon)
<1>1. /\ ns \in Seq(KeysOfShapes) /\ canon \in Seq(KeysOfShapes)
      /\ InputsBefore(ns) /\ InputsBefore(canon)
  BY DEF PassOver
<1>2. \A k \in KeysOfShapes : StoreKey(k)
  BY ShapesArePlain DEF StoreKey
<1>3. /\ ns = [n \in 1 .. Len(ns) |-> ns[n]] /\ canon = [n \in 1 .. Len(canon) |-> canon[n]]
      /\ \A n \in DOMAIN ns : ns[n] \in KeysOfShapes
      /\ \A n \in DOMAIN canon : canon[n] \in KeysOfShapes
  BY <1>1
<1> QED
  BY <1>1, <1>2, <1>3 DEF StoreList

(* If the outputs reach every node, they reach every canonical node. *)
LEMMA CanonicalLive ==
  ASSUME NEW ns, PassOver(ns), NEW os \in Seq(IdsOf(ns)), Reachable(ns, os) = IdsOf(ns)
  PROVE  Reachable(canon, Mapped(os)) = IdsOf(canon)
<1> SUFFICES ASSUME NEW S \in SUBSET IdsOf(canon), ToSet(Mapped(os)) \subseteq S,
                    Closed(canon, S), NEW c \in IdsOf(canon)
             PROVE  c \in S
  BY DEF Reachable
<1> DEFINE P == {i \in IdsOf(ns) : map[i + 1] \in S}
<1>1. ToSet(os) \subseteq P
  <2> SUFFICES ASSUME NEW n \in DOMAIN os PROVE os[n] \in P
    BY DEF ToSet
  <2>1. map[os[n] + 1] \in ToSet(Mapped(os))
    BY DEF Mapped, ToSet
  <2> QED
    BY <2>1
<1>2. Closed(ns, P)
  <2> SUFFICES ASSUME NEW i \in P, NEW n \in DOMAIN ns[i + 1].inputs
               PROVE  ns[i + 1].inputs[n] \in P
    BY DEF Closed, ToSet
  <2> DEFINE key == KeyThrough(ns, map, i)
             xs == ns[i + 1].inputs
  <2>1. i \in IdsOf(ns) /\ map[i + 1] \in S
    OBVIOUS
  <2>2. /\ xs \in Seq(Nat) /\ key \in KeysOfShapes
        /\ xs[n] \in IdsOf(ns) /\ key.inputs[n] = map[xs[n] + 1] /\ n \in DOMAIN key.inputs
        /\ IsIdentity(key) => xs = <<xs[1]>> /\ map[i + 1] = map[xs[1] + 1]
        /\ ~ IsIdentity(key) =>
             \/ canon[map[i + 1] + 1] = key
             \/ IsSymmetric(key) /\ canon[map[i + 1] + 1] = Swapped(key)
    BY <2>1, PassedNode
  <2>3. ToSet(canon[map[i + 1] + 1].inputs) \subseteq S
    BY <2>1 DEF Closed
  <2> HIDE DEF key, xs
  <2>4. CASE IsIdentity(key)
    <3>1. xs = <<xs[1]>> /\ n \in DOMAIN xs
      BY <2>2, <2>4 DEF xs
    <3>2. n = 1
      BY <2>2, <3>1
    <3> QED
      BY <2>1, <2>2, <2>4, <3>2 DEF xs
  <2>5. CASE canon[map[i + 1] + 1] = key
    <3>1. key.inputs[n] \in S
      BY <2>2, <2>3, <2>5 DEF ToSet
    <3> QED
      BY <2>2, <3>1 DEF xs
  <2>6. CASE IsSymmetric(key) /\ canon[map[i + 1] + 1] = Swapped(key)
    <3>1. Swapped(key).inputs = <<key.inputs[2], key.inputs[1]>> /\ key.inputs \in Seq(Nat)
      BY <2>2, <2>6, SwappedKey, KeyInputs
    <3>2. Len(key.inputs) = 2
      BY <2>6 DEF IsSymmetric
    <3>3. n = 1 \/ n = 2
      BY <2>2, <3>1, <3>2
    <3> DEFINE ys == Swapped(key).inputs
    <3>4. /\ ys[1] = key.inputs[2] /\ ys[2] = key.inputs[1]
          /\ 1 \in DOMAIN ys /\ 2 \in DOMAIN ys
      BY <3>1
    <3> HIDE DEF ys
    <3>5. ys[1] \in ToSet(ys) /\ ys[2] \in ToSet(ys)
      BY <3>4 DEF ToSet
    <3>6. ToSet(ys) \subseteq S
      BY <2>3, <2>6 DEF ys
    <3>7. key.inputs[n] \in S
      BY <3>3, <3>4, <3>5, <3>6
    <3> QED
      BY <2>2, <3>7 DEF xs
  <2> QED
    BY <2>2, <2>4, <2>5, <2>6
<1>3. IdsOf(ns) \subseteq P
  <2>1. P \in SUBSET IdsOf(ns)
    OBVIOUS
  <2> HIDE DEF P
  <2> QED
    BY <1>1, <1>2, <2>1, ReachableIsLeast
<1>4. PICK i \in IdsOf(ns) : map[i + 1] = c
  BY PassClasses
<1> QED
  BY <1>3, <1>4

\* A classing of the nodes: a node is classed by an earlier one of its class.
ClassesOf(class, ns) ==
  /\ class \in [IdsOf(ns) -> IdsOf(ns)]
  /\ \A i \in IdsOf(ns) : class[i] <= i /\ class[class[i]] = class[i]

(* The first nodes of the classes of a whole graph are a graph. *)
LEMMA WholeQuotient ==
  ASSUME NEW ns, NEW g, NEW class, StoreList(ns), GraphOf(g, ns),
         DOMAIN g.node = IdsOf(ns), ClassesOf(class, ns)
  PROVE  /\ DOMAIN Quotient(g, class).node = {k \in IdsOf(ns) : class[k] = k}
         /\ GraphOf(Quotient(g, class), ns)
         /\ \A i \in DOMAIN Quotient(g, class).node :
              Quotient(g, class).node[i].inputs = Through(class, g.node[i].inputs)
<1>1. class \in [DOMAIN g.node -> DOMAIN g.node]
  BY DEF ClassesOf
<1>2. \A i \in DOMAIN g.node : class[i] <= i /\ class[class[i]] = class[i]
  BY DEF ClassesOf
<1>3. /\ DOMAIN Quotient(g, class).node = {k \in DOMAIN g.node : class[k] = k}
      /\ GraphOf(Quotient(g, class), ns)
      /\ \A i \in DOMAIN Quotient(g, class).node :
           Quotient(g, class).node[i].inputs = Through(class, g.node[i].inputs)
  BY <1>1, <1>2, QuotientIsGraph
<1> QED
  BY <1>3

(* The canonical graph numbers the first nodes of the classes in their order. *)
LEMMA PassRenumbers ==
  ASSUME NEW ns, PassOver(ns), NEW os \in Seq(IdsOf(ns)), NEW g, WholeGraph(g, ns),
         GraphOf(g, ns), g.outs = os,
         NEW q, WholeGraph(q, canon), q.outs = Mapped(os)
  PROVE  LET firsts == Quotient(g, PassClass(ns))
         IN /\ GraphOf(firsts, ns) /\ DOMAIN firsts.node \subseteq DOMAIN g.node
            /\ firsts.outs \in Seq(DOMAIN firsts.node)
            /\ Renumbers([i \in DOMAIN firsts.node |-> map[i + 1]], firsts, q)
<1> DEFINE class == PassClass(ns)
           firsts == Quotient(g, class)
           D == DOMAIN firsts.node
           to == [i \in D |-> map[i + 1]]
<1>1. /\ class \in [IdsOf(ns) -> IdsOf(ns)]
      /\ \A i \in IdsOf(ns) :
           /\ class[i] <= i /\ map[class[i] + 1] = map[i + 1] /\ class[class[i]] = class[i]
           /\ \A j \in 0 .. (class[i] - 1) : map[j + 1] < map[i + 1]
           /\ canon[map[i + 1] + 1] = KeyThrough(ns, map, class[i])
      /\ \A c \in IdsOf(canon) : \E i \in IdsOf(ns) : map[i + 1] = c
  BY PassClasses
<1>2. StoreList(ns) /\ DOMAIN g.node = IdsOf(ns) /\ DOMAIN q.node = IdsOf(canon)
  BY PassedStores DEF WholeGraph
<1>3. /\ D = {k \in IdsOf(ns) : class[k] = k} /\ GraphOf(firsts, ns)
      /\ \A i \in D : firsts.node[i].inputs = Through(class, g.node[i].inputs)
  <2>1. ClassesOf(class, ns)
    BY <1>1 DEF ClassesOf
  <2> HIDE DEF class
  <2>2. GraphOf(firsts, ns)
    BY <1>2, <2>1, WholeQuotient
  <2>3. firsts.node = [i \in {k \in DOMAIN g.node : class[k] = k} |->
                         [g.node[i] EXCEPT !.inputs = Through(class, @)]]
    BY DEF Quotient
  <2>4. D = {k \in IdsOf(ns) : class[k] = k}
    BY <1>2, <2>3
  <2>5. ASSUME NEW i \in D PROVE firsts.node[i].inputs = Through(class, g.node[i].inputs)
    <3>1. firsts.node[i] = [g.node[i] EXCEPT !.inputs = Through(class, @)]
      BY <1>2, <2>3, <2>4
    <3> QED
      BY <3>1
  <2> QED
    BY <2>2, <2>4, <2>5
<1>4. \A i \in IdsOf(ns) : class[i] \in D
  BY <1>1, <1>3
<1>5. /\ \A i \in D : firsts.node[i].token = g.node[i].token
      /\ firsts.outs = Through(class, os)
  BY DEF Quotient
<1>6. \A n \in DOMAIN os : os[n] \in IdsOf(ns)
  OBVIOUS
<1> HIDE DEF class, firsts
<1>7. firsts.outs \in Seq(D)
  <2>1. DOMAIN os = 1 .. Len(os) /\ Len(os) \in Nat
    OBVIOUS
  <2>2. Through(class, os) \in [1 .. Len(os) -> D]
    BY <1>4, <1>6, <2>1 DEF Through
  <2> QED
    BY <1>5, <2>1, <2>2, SeqDef
<1>8. \A i \in IdsOf(ns) : i \in Nat /\ map[i + 1] \in IdsOf(canon) /\ map[i + 1] \in Nat
  <2> SUFFICES ASSUME NEW i \in IdsOf(ns)
               PROVE  i \in Nat /\ map[i + 1] \in IdsOf(canon) /\ map[i + 1] \in Nat
    OBVIOUS
  <2>1. i \in Nat /\ map[i + 1] \in IdsOf(canon)
    BY PassedNode
  <2> QED
    BY <2>1 DEF IdsOf
<1>9. KeepsOrder(to, D, IdsOf(canon))
  <2>1. D \in SUBSET Nat /\ IdsOf(canon) \in SUBSET Nat /\ to \in [D -> IdsOf(canon)]
    BY <1>3, <1>8 DEF IdsOf
  <2>2. ASSUME NEW i \in D, NEW j \in D, i < j PROVE to[i] < to[j]
    <3>1. i \in 0 .. (class[j] - 1)
      BY <1>3, <1>8, <2>2
    <3> QED
      BY <1>1, <1>3, <3>1
  <2> QED
    BY <2>1, <2>2 DEF KeepsOrder
<1>10. ASSUME NEW k \in IdsOf(canon) PROVE \E i \in D : to[i] = k
  <2>1. PICK i \in IdsOf(ns) : map[i + 1] = k
    BY <1>1
  <2>2. class[i] \in D /\ to[class[i]] = k
    BY <1>1, <1>4, <2>1
  <2> QED
    BY <2>2
<1>11. ASSUME NEW i \in D
       PROVE  /\ q.node[to[i]].token = firsts.node[i].token
              /\ q.node[to[i]].inputs = Through(to, firsts.node[i].inputs)
  <2> DEFINE key == KeyThrough(ns, map, i)
             xs == ns[i + 1].inputs
  <2>1. i \in IdsOf(ns) /\ class[i] = i /\ to[i] = map[i + 1] /\ map[i + 1] \in IdsOf(canon)
    BY <1>3, <1>8
  <2>2. canon[map[i + 1] + 1] = key
    BY <1>1, <2>1
  <2>3. /\ xs \in Seq(Nat) /\ key \in KeysOfShapes /\ Token(key) = Token(ns[i + 1])
        /\ DOMAIN key.inputs = DOMAIN xs
        /\ \A n \in DOMAIN xs : xs[n] \in IdsOf(ns) /\ key.inputs[n] = map[xs[n] + 1]
    BY <2>1, PassedNode
  <2>4. q.node[to[i]].token = Token(key) /\ q.node[to[i]].inputs = key.inputs
    BY <2>1, <2>2 DEF WholeGraph
  <2>5. g.node[i].token = Token(ns[i + 1]) /\ g.node[i].inputs = xs
    BY <2>1 DEF WholeGraph
  <2> HIDE DEF key, xs
  <2>6. firsts.node[i].inputs = Through(class, xs)
    BY <1>3, <2>5
  <2>7. \A n \in DOMAIN xs : to[class[xs[n]]] = map[xs[n] + 1]
    <3> SUFFICES ASSUME NEW n \in DOMAIN xs PROVE to[class[xs[n]]] = map[xs[n] + 1]
      OBVIOUS
    <3>1. xs[n] \in IdsOf(ns)
      BY <2>3
    <3>2. class[xs[n]] \in D /\ map[class[xs[n]] + 1] = map[xs[n] + 1]
      BY <1>1, <1>4, <3>1
    <3> QED
      BY <3>2
  <2>8. Through(to, Through(class, xs)) = [n \in DOMAIN xs |-> map[xs[n] + 1]]
    <3> HIDE DEF to
    <3> QED
      BY <2>7 DEF Through
  <2>9. key.inputs = [n \in DOMAIN xs |-> map[xs[n] + 1]]
    <3>1. key.inputs \in Seq(Nat)
      BY <2>3, KeyInputs
    <3>2. key.inputs = [n \in DOMAIN key.inputs |-> key.inputs[n]]
      BY <3>1
    <3> QED
      BY <2>3, <3>2
  <2> QED
    BY <1>5, <2>3, <2>4, <2>5, <2>6, <2>8, <2>9
<1>12. q.outs = Through(to, firsts.outs)
  <2>1. \A n \in DOMAIN os : to[class[os[n]]] = map[os[n] + 1]
    <3> SUFFICES ASSUME NEW n \in DOMAIN os PROVE to[class[os[n]]] = map[os[n] + 1]
      OBVIOUS
    <3>1. class[os[n]] \in D /\ map[class[os[n]] + 1] = map[os[n] + 1]
      BY <1>1, <1>4, <1>6
    <3> QED
      BY <3>1
  <2> HIDE DEF to
  <2>2. Through(to, Through(class, os)) = [n \in DOMAIN os |-> map[os[n] + 1]]
    BY <2>1 DEF Through
  <2> QED
    BY <1>5, <2>2 DEF Mapped
<1> HIDE DEF to
<1>13. Renumbers(to, firsts, q)
  BY <1>2, <1>9, <1>10, <1>11, <1>12 DEF Renumbers
<1>14. D \subseteq DOMAIN g.node
  BY <1>2, <1>3
<1> QED
  BY <1>3, <1>7, <1>13, <1>14 DEF firsts, class, to

(* The canonical nodes are no twins. *)
LEMMA CanonicalTwinless ==
  ASSUME TokensNameShapes, NEW ns, PassOver(ns), NEW q, WholeGraph(q, canon)
  PROVE  NoTwins(q)
<1> SUFFICES ASSUME NEW i \in IdsOf(canon), NEW j \in IdsOf(canon),
                    q.node[i].token = q.node[j].token, q.node[i].inputs = q.node[j].inputs
             PROVE  i = j
  BY DEF NoTwins, WholeGraph
<1>1. canon \in Seq(KeysOfShapes) /\ CanonIrredundant
  BY DEF PassOver
<1>2. i + 1 \in DOMAIN canon /\ j + 1 \in DOMAIN canon /\ i \in Nat /\ j \in Nat
  BY <1>1 DEF IdsOf
<1>3. canon[i + 1] \in KeysOfShapes /\ canon[j + 1] \in KeysOfShapes
  BY <1>1, <1>2
<1>4. Token(canon[i + 1]) = Token(canon[j + 1]) /\ canon[i + 1].inputs = canon[j + 1].inputs
  BY DEF WholeGraph
<1>5. canon[i + 1] = canon[j + 1]
  BY <1>3, <1>4, TokenAndInputsName
<1>6. i + 1 = j + 1
  BY <1>1, <1>2, <1>5 DEF CanonIrredundant
<1> QED
  BY <1>2, <1>6

(***************************************************************************)
(* Where every node passed over is needed, reducing the canonical nodes   *)
(* gives the store the one-shot reduction gives.                          *)
(***************************************************************************)
LEMMA OnePassMatches ==
  ASSUME TokensNameShapes, NEW ns, PassOver(ns), NEW os \in Seq(IdsOf(ns)),
         Reachable(ns, os) = IdsOf(ns), NEW mode \in FusionModes
  PROVE  /\ ReduceCanonical(Mapped(os), mode).nodes = OneShot(ns, os, mode).nodes
         /\ ReduceCanonical(Mapped(os), mode).outs = OneShot(ns, os, mode).outs
<1> DEFINE g == ToEngineGraph(ns, os)
           q == ToEngineGraph(canon, Mapped(os))
           firsts == Quotient(g, PassClass(ns))
           to == [i \in DOMAIN firsts.node |-> map[i + 1]]
<1>1. StoreList(ns) /\ StoreList(canon)
  BY PassedStores
<1>2. GraphOf(g, ns) /\ GraphOf(q, canon)
  BY <1>1, KeptMeans
<1>3. Reachable(canon, Mapped(os)) = IdsOf(canon)
  BY CanonicalLive
<1>4. WholeGraph(g, ns) /\ WholeGraph(q, canon) /\ g.outs = os /\ q.outs = Mapped(os)
  BY <1>3 DEF WholeGraph, ToEngineGraph
<1> HIDE DEF g, q
<1>5. SaturatedClass(g) = PassClass(ns)
  BY <1>1, <1>2, <1>4, SaturationIsOnePass
<1>6. /\ GraphOf(firsts, ns) /\ DOMAIN firsts.node \subseteq DOMAIN g.node
      /\ firsts.outs \in Seq(DOMAIN firsts.node)
      /\ Renumbers(to, firsts, q)
  BY <1>2, <1>4, PassRenumbers, Zenon
<1>7. NoTwins(q)
  BY <1>4, CanonicalTwinless
<1>8. q.outs \in Seq(DOMAIN q.node)
  <2>1. DOMAIN os = 1 .. Len(os) /\ Len(os) \in Nat /\ \A n \in DOMAIN os : os[n] \in IdsOf(ns)
    OBVIOUS
  <2>2. \A n \in DOMAIN os : map[os[n] + 1] \in IdsOf(canon)
    BY <2>1, PassedNode
  <2>3. Mapped(os) \in [1 .. Len(os) -> IdsOf(canon)]
    BY <2>1, <2>2 DEF Mapped
  <2> QED
    BY <1>4, <2>1, <2>3, SeqDef DEF WholeGraph
<1>9. SameTokens(ns, g, canon, q)
  <2> SUFFICES ASSUME NEW i \in IdsOf(ns), NEW j \in IdsOf(canon),
                      g.node[i].token = q.node[j].token
               PROVE  Operator(ns[i + 1]) = Operator(canon[j + 1])
    BY <1>4 DEF SameTokens, WholeGraph
  <2>1. Token(ns[i + 1]) = Token(canon[j + 1])
    BY <1>4 DEF WholeGraph
  <2>2. canon[j + 1] \in KeysOfShapes
    <3>1. canon \in Seq(KeysOfShapes) /\ j + 1 \in DOMAIN canon
      BY DEF PassOver, IdsOf
    <3> QED
      BY <3>1
  <2>3. ns[i + 1] \in KeysOfShapes
    BY PassedNode
  <2> QED
    BY <2>1, <2>2, <2>3, TokensNameKeys
<1>10. /\ ReduceCanonical(Mapped(os), mode) = Finish(canon, q, q, mode)
       /\ OneShot(ns, os, mode) = Finish(ns, g, firsts, mode)
  BY <1>5 DEF ReduceCanonical, OneShot, g, q
<1> HIDE DEF firsts, to
<1>11. DOMAIN q.node \subseteq DOMAIN q.node
  OBVIOUS
<1>12. /\ Finish(canon, q, q, mode).nodes = Finish(ns, g, firsts, mode).nodes
       /\ Finish(canon, q, q, mode).outs = Finish(ns, g, firsts, mode).outs
  BY <1>1, <1>2, <1>6, <1>7, <1>8, <1>9, <1>11, FinishKept
<1> QED
  BY <1>10, <1>12

\* What the last finalize of a thread returned is what the one-shot reduction
\* of the nodes it had seen would be, where the outputs reach all of them.
MatchInv ==
  \A t \in Threads :
    reduced[t].tag = "graph" /\ call[t].tag = "finalize" =>
      /\ reduced[t].over \in 0 .. Len(arena)
      /\ Reachable(Seen(t), call[t].outs) = IdsOf(Seen(t)) => MatchesOneShot(t)

(* What a finalize has consumed is the pass over a prefix of the arena. *)
LEMMA ConsumedPrefix ==
  ASSUME ReducerInv, ExactInv, CanonIrredundant, PassInv
  PROVE  PassOver(SubSeq(arena, 1, Len(map)))
<1> DEFINE ns == SubSeq(arena, 1, Len(map))
<1>1. /\ arena \in Seq(KeysOfShapes) /\ Len(arena) \in Nat /\ InputsBefore(arena)
      /\ map \in Seq(0 .. (Len(canon) - 1)) /\ Len(map) \in Nat /\ Len(map) <= Len(arena)
      /\ canon \in Seq(KeysOfShapes) /\ Len(canon) \in Nat
  BY ArenaInputsBefore DEF ReducerInv, ReducerTyped, DeltaFollowsMap, ArenaOrdered
<1>2. /\ ns \in Seq(KeysOfShapes) /\ Len(ns) = Len(map)
      /\ DOMAIN ns = 1 .. Len(map) /\ \A n \in 1 .. Len(map) : ns[n] = arena[n]
  BY <1>1
<1>3. \A n \in DOMAIN ns : n \in DOMAIN arena /\ ns[n] = arena[n]
  BY <1>1, <1>2
<1> HIDE DEF ns
<1>4. \A n \in DOMAIN ns : IsIdentity(ns[n]) => Len(ns[n].inputs) <= 1
  BY <1>3 DEF ExactInv, IdentityInputs
<1>5. InputsBefore(ns)
  <2>1. \A i \in 0 .. (Len(ns) - 1) : i \in 0 .. (Len(arena) - 1) /\ ns[i + 1] = arena[i + 1]
    BY <1>1, <1>2
  <2> QED
    BY <1>1, <1>2, <2>1 DEF InputsBefore
<1>6. ASSUME NEW i \in 0 .. (Len(map) - 1)
      PROVE  KeyThrough(ns, map, i) = KeyThrough(arena, map, i)
  <2>1. i \in IdsOf(arena) /\ i <= Len(map) /\ i + 1 \in 1 .. Len(map)
    BY <1>1 DEF IdsOf
  <2>2. ns[i + 1] = arena[i + 1]
    BY <1>2, <2>1
  <2> QED
    BY <2>2 DEF KeyThrough
<1>7. OnePass(ns, map, canon)
  BY <1>6, Zenon DEF PassInv, OnePass, FirstTo
<1>8. InputsBefore(canon)
  BY DEF ExactInv
<1> QED
  BY <1>1, <1>2, <1>4, <1>5, <1>7, <1>8 DEF PassOver, ns

(* A finalize that is over matches the one-shot reduction. *)
LEMMA FinalizeDoneMatches ==
  ASSUME TokensNameShapes, ReducerInv, ExactInv, CanonIrredundant, PassInv,
         RequestTyped, MatchInv, NEW t \in Threads, FinalizeDone(t)
  PROVE  MatchInv'
<1> DEFINE os == call[t].outs
           mode == call[t].mode
           red == ReduceCanonical(Mapped(os), mode)
           ns == SubSeq(arena, 1, Len(map))
<1>1. pc[t] = "finalize" /\ UNCHANGED <<arena, canon, map, call>>
  BY DEF FinalizeDone, Goto
<1>2. \A n \in DOMAIN os : os[n] < Len(map)
  BY <1>1 DEF ReducerInv, RequestKnown
<1>3. os \in Seq(Nat) /\ mode \in FusionModes
  BY DEF RequestTyped
<1>4. reduced' = [reduced EXCEPT ![t] =
                    [tag |-> "graph", nodes |-> red.nodes, outs |-> red.outs,
                     places |-> red.places, over |-> Len(map)]]
  BY <1>2 DEF FinalizeDone
<1>5. DOMAIN reduced = Threads
  BY DEF ReducerInv, ReducerTyped
<1>6. Len(map) \in Nat /\ Len(map) <= Len(arena) /\ Len(arena) \in Nat
  BY DEF ReducerInv, ReducerTyped, ArenaOrdered, DeltaFollowsMap
<1>7. PassOver(ns)
  BY ConsumedPrefix
<1>8. IdsOf(ns) = 0 .. (Len(map) - 1)
  BY <1>7 DEF PassOver, IdsOf
<1>9. os \in Seq(IdsOf(ns))
  <2>1. DOMAIN os = 1 .. Len(os) /\ Len(os) \in Nat /\ \A n \in DOMAIN os : os[n] \in Nat
    BY <1>3
  <2>2. \A n \in DOMAIN os : os[n] \in IdsOf(ns)
    BY <1>2, <1>6, <1>8, <2>1
  <2>3. os \in [1 .. Len(os) -> IdsOf(ns)]
    BY <1>3, <2>1, <2>2
  <2> QED
    BY <2>1, <2>3, SeqDef
<1> HIDE DEF red
<1>10. /\ reduced'[t].nodes = red.nodes /\ reduced'[t].outs = red.outs
       /\ reduced'[t].over = Len(map)
       /\ \A u \in Threads : u # t => reduced'[u] = reduced[u]
  BY <1>4, <1>5
<1>11. Seen(t)' = ns
  BY <1>1, <1>10 DEF Seen
<1>12. ASSUME Reachable(ns, os) = IdsOf(ns)
       PROVE  red.nodes = OneShot(ns, os, mode).nodes /\ red.outs = OneShot(ns, os, mode).outs
  BY <1>3, <1>7, <1>9, <1>12, OnePassMatches DEF red
<1> HIDE DEF os, mode, ns
<1>13. Reachable(ns, os) = IdsOf(ns) => MatchesOneShot(t)'
  <2>1. call'[t].outs = os /\ call'[t].mode = mode
    BY <1>1 DEF os, mode
  <2> QED
    BY <1>10, <1>11, <1>12, <2>1 DEF MatchesOneShot
<1>14. ASSUME NEW u \in Threads, reduced'[u].tag = "graph", call'[u].tag = "finalize"
       PROVE  /\ reduced'[u].over \in 0 .. Len(arena')
              /\ (Reachable(Seen(u), call[u].outs) = IdsOf(Seen(u)) => MatchesOneShot(u))'
  <2>1. CASE u = t
    <3>1. call'[t].outs = os
      BY <1>1 DEF os
    <3> QED
      BY <1>1, <1>6, <1>10, <1>11, <1>13, <2>1, <3>1
  <2>2. CASE u # t
    <3>1. /\ reduced[u].over \in 0 .. Len(arena)
          /\ Reachable(Seen(u), call[u].outs) = IdsOf(Seen(u)) => MatchesOneShot(u)
          /\ reduced'[u] = reduced[u] /\ call'[u] = call[u]
      BY <1>1, <1>10, <1>14, <2>2 DEF MatchInv
    <3> QED
      BY <1>1, <3>1 DEF Seen, MatchesOneShot
  <2> QED
    BY <2>1, <2>2
<1> QED
  BY <1>14 DEF MatchInv

(* Every step keeps the match: recording only adds to what a finalize saw. *)
LEMMA MatchKept ==
  ASSUME TokensNameShapes, ReducerInv, ExactInv, CanonIrredundant, PassInv,
         RequestTyped, MatchInv, [Next]_vars, ReducerInv'
  PROVE  MatchInv'
<1>0. DOMAIN call = Threads /\ DOMAIN reduced = Threads
  BY DEF ReducerInv, ReducerTyped
<1>1. ASSUME UNCHANGED <<call, reduced>>, Len(arena) <= Len(arena'),
             \A i \in 1 .. Len(arena) : arena'[i] = arena[i]
      PROVE  MatchInv'
  <2>1. Len(arena) \in Nat /\ Len(arena') \in Nat
    BY DEF ReducerInv, ArenaOrdered
  <2>2. ASSUME NEW t \in Threads, reduced[t].tag = "graph", call[t].tag = "finalize"
        PROVE  /\ reduced[t].over \in 0 .. Len(arena')
               /\ (Reachable(Seen(t), call[t].outs) = IdsOf(Seen(t)) => MatchesOneShot(t))'
    <3>1. /\ reduced[t].over \in 0 .. Len(arena)
          /\ Reachable(Seen(t), call[t].outs) = IdsOf(Seen(t)) => MatchesOneShot(t)
      BY <2>2 DEF MatchInv
    <3>2. \A n \in 1 .. reduced[t].over : arena'[n] = arena[n]
      BY <1>1, <2>1, <3>1
    <3>3. SubSeq(arena', 1, reduced[t].over) = SubSeq(arena, 1, reduced[t].over)
      <4>1. /\ arena \in Seq(KeysOfShapes) /\ arena' \in Seq(KeysOfShapes)
            /\ reduced[t].over \in Nat /\ reduced[t].over <= Len(arena)
            /\ reduced[t].over <= Len(arena')
        BY <1>1, <2>1, <3>1 DEF ReducerInv, ArenaOrdered
      <4> QED
        BY <2>1, <3>2, <4>1
    <3>4. Seen(t)' = Seen(t)
      BY <1>1, <3>3 DEF Seen
    <3> QED
      BY <1>1, <2>1, <3>1, <3>4 DEF MatchesOneShot
  <2> QED
    BY <1>1, <2>2 DEF MatchInv
<1>2. CASE Record
  <2>1. UNCHANGED <<call, reduced>> /\ \E key : arena' = Append(arena, key)
    BY <1>2 DEF Record
  <2>2. PICK key : arena' = Append(arena, key)
    BY <2>1
  <2>3. arena \in Seq(KeysOfShapes) /\ arena' \in Seq(KeysOfShapes) /\ Len(arena) \in Nat
    BY DEF ReducerInv, ArenaOrdered
  <2>4. Len(arena) <= Len(arena') /\ \A i \in 1 .. Len(arena) : arena'[i] = arena[i]
    BY <2>2, <2>3
  <2> QED
    BY <1>1, <2>1, <2>4
<1>3. CASE UNCHANGED <<arena, call, reduced>>
  <2>1. Len(arena) \in Nat
    BY DEF ReducerInv, ArenaOrdered
  <2> QED
    BY <1>1, <1>3, <2>1
<1>4. ASSUME NEW t \in Threads, UNCHANGED arena, call'[t].tag = "step" \/ reduced'[t].tag = "none",
             \A u \in Threads : u # t => call'[u] = call[u] /\ reduced'[u] = reduced[u]
      PROVE  MatchInv'
  <2>1. ASSUME NEW u \in Threads, reduced'[u].tag = "graph", call'[u].tag = "finalize"
        PROVE  /\ reduced'[u].over \in 0 .. Len(arena')
               /\ (Reachable(Seen(u), call[u].outs) = IdsOf(Seen(u)) => MatchesOneShot(u))'
    <3>1. u # t
      BY <1>4, <2>1
    <3>2. /\ reduced[u].over \in 0 .. Len(arena)
          /\ Reachable(Seen(u), call[u].outs) = IdsOf(Seen(u)) => MatchesOneShot(u)
          /\ reduced'[u] = reduced[u] /\ call'[u] = call[u]
      BY <1>4, <2>1, <3>1 DEF MatchInv
    <3> QED
      BY <1>4, <3>2 DEF Seen, MatchesOneShot
  <2> QED
    BY <2>1 DEF MatchInv
<1>5. ASSUME NEW t \in Threads, CallStep(t)
      PROVE  MatchInv'
  <2>1. /\ UNCHANGED <<arena, reduced>> /\ call'[t] = Step
        /\ \A u \in Threads : u # t => call'[u] = call[u]
    BY <1>0, <1>5 DEF CallStep
  <2>2. Step.tag = "step"
    BY DEF Step
  <2> QED
    BY <1>4, <2>1, <2>2
<1>6. ASSUME NEW t \in Threads, NEW os \in SeqOf(IdsOf(arena), MaxOutputs),
             NEW m \in Modes, CallFinalize(t, os, m)
      PROVE  MatchInv'
  <2>1. /\ UNCHANGED arena /\ reduced'[t].tag = "none"
        /\ \A u \in Threads : u # t => call'[u] = call[u] /\ reduced'[u] = reduced[u]
    BY <1>0, <1>6 DEF CallFinalize, NoGraph
  <2> QED
    BY <1>4, <2>1
<1>7. ASSUME NEW t \in Threads, FinalizeDone(t)
      PROVE  MatchInv'
  BY <1>7, FinalizeDoneMatches
<1>8. \/ Record
      \/ UNCHANGED <<arena, call, reduced>>
      \/ \E t \in Threads :
           \/ CallStep(t)
           \/ \E os \in SeqOf(IdsOf(arena), MaxOutputs), m \in Modes :
                CallFinalize(t, os, m)
           \/ FinalizeDone(t)
  BY DEF Next, vars, Lock, LockPoisoned, Snapshot, ConsumeIdentity, ConsumeKnown,
     ConsumeTwin, ConsumeNew, Consumed, ConsumePanics, StepDone
<1> QED
  BY <1>2, <1>3, <1>5, <1>6, <1>7, <1>8

(***************************************************************************)
(* Where tokens name the operators of the vocabulary and its identity ops  *)
(* are unary, finalize returns, node for node and output for output, what  *)
(* the one-shot reduction returns of the nodes it had seen, as long as the *)
(* outputs need all of them: however its step, the steps of other threads  *)
(* and the recording interleaved, and in both fusion modes.                *)
(***************************************************************************)
THEOREM FinalizeMatchesReduceIfLiveAlways ==
  ASSUME TokensNameShapes, IdentitiesUnary
  PROVE  Spec => []FinalizeMatchesReduceIfLive
<1> DEFINE Inv == ExactInv /\ CanonIrredundant /\ FinalInv /\ PassInv /\ MatchInv
<1>1. Init => Inv
  <2> SUFFICES ASSUME Init PROVE Inv
    OBVIOUS
  <2>1. /\ arena = <<>> /\ canon = <<>> /\ map = <<>>
        /\ call = [t \in Threads |-> Step]
        /\ reduced = [t \in Threads |-> NoGraph]
    BY DEF Init
  <2>2. ExactInv /\ CanonIrredundant
    BY <2>1 DEF ExactInv, InputsBefore, IdentityInputs, TermsKept, CanonIrredundant
  <2>3. RequestTyped
    <3>1. Step.outs \in Seq(Nat) /\ Step.mode \in FusionModes
      BY DEF Step, FusionModes
    <3>2. \A t \in Threads : call[t] = Step
      BY <2>1
    <3> QED
      BY <3>1, <3>2 DEF RequestTyped
  <2>4. \A t \in Threads : reduced[t].tag = "none"
    BY <2>1 DEF NoGraph
  <2>5. PassInv
    <3>1. Len(map) = 0 /\ Len(canon) = 0
      BY <2>1
    <3> QED
      BY <3>1 DEF PassInv, OnePass, IdsOf
  <2> QED
    BY <2>2, <2>3, <2>4, <2>5 DEF FinalInv, MatchInv
<1>2. ReducerInv /\ Inv /\ [Next]_vars /\ ReducerInv' => Inv'
  <2> SUFFICES ASSUME ReducerInv, Inv, [Next]_vars, ReducerInv' PROVE Inv'
    OBVIOUS
  <2>1. RequestTyped
    BY DEF FinalInv
  <2>2. ExactInv' /\ CanonIrredundant' /\ FinalInv' /\ PassInv' /\ MatchInv'
    BY <2>1, ExactKept, IrredundantKept, AnswersKept, PassKept, MatchKept
  <2> QED
    BY <2>2
<1>3. Inv => FinalizeMatchesReduceIfLive
  BY DEF MatchInv, FinalizeMatchesReduceIfLive, Finalized
<1> HIDE DEF Inv
<1> QED
  BY <1>1, <1>2, <1>3, Invariance, PTL DEF Spec
=============================================================================
