--------------------------- MODULE CompileProofs ---------------------------
(***************************************************************************)
(* Proofs about a compile request: what the request keeps is closed, what *)
(* the engine merges is forced by the laws, what it extracts is ordered   *)
(* and what is made of it computes the same - for any vocabulary, any     *)
(* bound and any order of merges.                                         *)
(*                                                                        *)
(* A store is recorded node by node, and where AgainAllowed holds it may  *)
(* also be the result of an earlier request, with stages among its nodes. *)
(***************************************************************************)
EXTENDS Compile, ReductionProofs

-----------------------------------------------------------------------------
(* What is true of a request at every point of it. *)

\* Nodes refer to earlier nodes of the graph the outputs reach.
KeptOrdered ==
  /\ DOMAIN kept.node \subseteq IdsOf(arena)
  /\ \A i \in DOMAIN kept.node : \A j \in ToSet(kept.node[i].inputs) :
       j \in DOMAIN kept.node /\ j < i

\* A class is named by its earliest node.
ClassIsEarliest ==
  /\ class \in [DOMAIN kept.node -> DOMAIN kept.node]
  /\ \A i \in DOMAIN kept.node : class[i] <= i /\ class[class[i]] = class[i]

\* Merged nodes are equal under every labelling the laws allow.
MergesForced ==
  \A label \in [DOMAIN kept.node -> DOMAIN kept.node] :
    Lawful(label) =>
      \A i, j \in DOMAIN kept.node : class[i] = class[j] => label[i] = label[j]

\* A store: its keys are there once, and none is a stage unless a reduced
\* store may be gone on with.
ArenaTyped ==
  /\ StoreList(arena) /\ KeysOnce(arena)
  /\ AgainAllowed \/ \A n \in DOMAIN arena : arena[n] \in PlainKeys

ExtractedIsQuotient ==
  phase \in {"extracted", "done"} => canonical = Quotient(kept, class)

NothingExtracted == phase \in {"record", "saturate"} => canonical = EmptyGraph

RequestInv ==
  /\ TypeOK /\ ArenaTyped
  /\ KeptOrdered /\ ClassIsEarliest /\ MergesForced
  /\ NothingExtracted /\ ExtractedIsQuotient

(* The invariant holds before anything is recorded. *)
LEMMA InitInv == Init => RequestInv
<1> SUFFICES ASSUME Init PROVE RequestInv
  OBVIOUS
<1>1. DOMAIN kept.node = {} /\ DOMAIN canonical.node = {}
  BY DEF Init, EmptyGraph
<1>2. TypeOK
  BY <1>1 DEF Init, TypeOK, TopologicalList, FusionModes, ToSet
<1>3. ArenaTyped
  <2>1. DOMAIN arena = {} /\ Len(arena) = 0 /\ arena = <<>>
    BY DEF Init
  <2>2. arena = [n \in 1 .. Len(arena) |-> arena[n]]
    BY <2>1
  <2>3. InputsBefore(arena)
    BY <2>1 DEF InputsBefore
  <2> QED
    BY <2>1, <2>2, <2>3 DEF ArenaTyped, StoreList, KeysOnce
<1>4. KeptOrdered /\ ClassIsEarliest /\ MergesForced
  BY <1>1 DEF Init, KeptOrdered, ClassIsEarliest, MergesForced
<1> QED
  BY <1>2, <1>3, <1>4 DEF RequestInv, NothingExtracted, ExtractedIsQuotient, Init

(* Recording appends a key whose inputs are ids, and disturbs no request. *)
LEMMA RecordKeeps ==
  ASSUME RequestInv, Record
  PROVE  RequestInv'
<1>1. PICK s \in Shapes : \E inputs \in [1 .. s.arity -> IdsOf(arena)] :
        /\ ~ Contains(arena, WithInputs(s.op, inputs))
        /\ arena' = Append(arena, WithInputs(s.op, inputs))
  BY DEF Record
<1>2. PICK inputs \in [1 .. s.arity -> IdsOf(arena)] :
        /\ ~ Contains(arena, WithInputs(s.op, inputs))
        /\ arena' = Append(arena, WithInputs(s.op, inputs))
  BY <1>1
<1> DEFINE key == WithInputs(s.op, inputs)
<1>3. /\ StoreList(arena) /\ KeysOnce(arena)
      /\ Len(arena) \in Nat /\ arena = [n \in 1 .. Len(arena) |-> arena[n]]
  BY DEF RequestInv, ArenaTyped, StoreList, InputsBefore
<1>4. inputs \in Seq(Nat) /\ s.op \in Operators
  <2>1. s.arity \in Nat /\ s.op \in Operators
    BY ShapesAreOperators
  <2> QED
    BY <2>1, <1>3 DEF IdsOf
<1>5. key \in PlainKeys /\ StoreKey(key)
  BY <1>4 DEF PlainKeys, StoreKey
<1>6. \A n \in DOMAIN key.inputs : key.inputs[n] \in 0 .. (Len(arena) - 1)
  <2>1. key.inputs = <<>> \/ key.inputs = inputs
    BY <1>4 DEF WithInputs, Operators
  <2>2. \A n \in DOMAIN inputs : inputs[n] \in 0 .. (Len(arena) - 1)
    BY DEF IdsOf
  <2>3. DOMAIN <<>> = {}
    OBVIOUS
  <2> QED
    BY <2>1, <2>2, <2>3
<1>7. /\ arena' = Append(arena, key)
      /\ StoreList(arena') /\ Len(arena') = Len(arena) + 1
      /\ DOMAIN arena' = 1 .. (Len(arena) + 1)
      /\ \A n \in 1 .. Len(arena) : arena'[n] = arena[n]
      /\ arena'[Len(arena) + 1] = key
  <2>1. arena' = Append(arena, key)
    BY <1>2
  <2>2. ~ Contains(arena, key)
    BY <1>2
  <2> HIDE DEF key
  <2>3. StoreList(Append(arena, key)) /\ Len(Append(arena, key)) = Len(arena) + 1
    BY <1>3, <1>5, <1>6, AppendedKey
  <2>4. /\ DOMAIN Append(arena, key) = 1 .. (Len(arena) + 1)
        /\ \A n \in 1 .. Len(arena) : Append(arena, key)[n] = arena[n]
        /\ Append(arena, key)[Len(arena) + 1] = key
    BY <1>3, AppendedList
  <2> QED
    BY <2>1, <2>3, <2>4
<1>8. ArenaTyped'
  <2>1. \A n \in 1 .. Len(arena) : arena[n] # key
    BY <1>2 DEF Contains
  <2> HIDE DEF key
  <2>2. KeysOnce(arena')
    <3> SUFFICES ASSUME NEW p \in DOMAIN arena', NEW q \in DOMAIN arena',
                        arena'[p] = arena'[q]
                 PROVE  p = q
      BY DEF KeysOnce
    <3>1. DOMAIN arena = 1 .. Len(arena)
      BY <1>3
    <3>2. CASE p = Len(arena) + 1 \/ q = Len(arena) + 1
      BY <1>3, <1>7, <2>1, <3>2
    <3>3. CASE p \in 1 .. Len(arena) /\ q \in 1 .. Len(arena)
      BY <1>3, <1>7, <3>1, <3>3 DEF KeysOnce
    <3> QED
      BY <1>3, <1>7, <3>2, <3>3
  <2>3. ASSUME ~ AgainAllowed, NEW n \in DOMAIN arena' PROVE arena'[n] \in PlainKeys
    <3>1. DOMAIN arena = 1 .. Len(arena)
      BY <1>3
    <3>2. CASE n = Len(arena) + 1
      BY <1>5, <1>7, <3>2
    <3>3. CASE n \in 1 .. Len(arena)
      BY <1>7, <2>3, <3>1, <3>3 DEF RequestInv, ArenaTyped
    <3> QED
      BY <1>3, <1>7, <3>2, <3>3
  <2> QED
    BY <1>7, <2>2, <2>3 DEF ArenaTyped
<1>9. TopologicalList(arena)' /\ IdsOf(arena) \subseteq IdsOf(arena')
  <2>1. TopologicalList(arena)'
    BY <1>7, StoreOrdered DEF TopologicalList
  <2>2. IdsOf(arena) \subseteq IdsOf(arena')
    BY <1>3, <1>7 DEF IdsOf
  <2> QED
    BY <2>1, <2>2
<1>10. TypeOK'
  BY <1>9 DEF RequestInv, TypeOK, Record
<1>11. KeptOrdered'
  BY <1>9 DEF RequestInv, KeptOrdered, Record
<1>12. ClassIsEarliest'
  BY DEF RequestInv, ClassIsEarliest, Record
<1>13. MergesForced'
  BY DEF RequestInv, MergesForced, Lawful, Record
<1>14. NothingExtracted' /\ ExtractedIsQuotient'
  BY DEF RequestInv, NothingExtracted, ExtractedIsQuotient, Record
<1> QED
  BY <1>8, <1>10, <1>11, <1>12, <1>13, <1>14 DEF RequestInv

(* A request keeps a closed part of the arena and starts with no merge. *)
LEMMA RequestKeeps ==
  ASSUME RequestInv, NEW os \in SeqOf(IdsOf(arena), MaxOutputs), NEW m \in Modes,
         Request(os, m)
  PROVE  RequestInv'
<1>1. kept' = ToEngineGraph(arena, os) /\ arena' = arena
  BY DEF Request
<1>2. DOMAIN kept'.node = Reachable(arena, os)
  BY <1>1 DEF ToEngineGraph
<1>3. \A i \in DOMAIN kept'.node : kept'.node[i].inputs = arena[i + 1].inputs
  BY <1>1 DEF ToEngineGraph
<1>4. ArenaTyped /\ StoreList(arena) /\ Len(arena) \in Nat
  BY DEF RequestInv, ArenaTyped, StoreList, InputsBefore
<1>5. \A i \in IdsOf(arena) : \A j \in ToSet(arena[i + 1].inputs) :
        j \in IdsOf(arena) /\ j < i
  <2> SUFFICES ASSUME NEW i \in IdsOf(arena), NEW j \in ToSet(arena[i + 1].inputs)
               PROVE  j \in IdsOf(arena) /\ j < i
    OBVIOUS
  <2>1. i + 1 \in DOMAIN arena /\ i \in Nat
    BY <1>4 DEF IdsOf, StoreList
  <2>2. j \in IdsOf(arena) /\ j < (i + 1) - 1
    BY <2>1, <1>4, StoreOrdered
  <2> QED
    BY <2>1, <2>2
<1>6. Closed(arena, IdsOf(arena))
  BY <1>5 DEF Closed
<1>7. KeptOrdered'
  <2>1. Closed(arena, Reachable(arena, os))
    BY <1>6, ReachableIsClosed
  <2>2. Reachable(arena, os) \subseteq IdsOf(arena)
    BY DEF Reachable
  <2> QED
    BY <1>1, <1>2, <1>3, <1>5, <2>1, <2>2 DEF KeptOrdered, Closed
<1>8. DOMAIN kept'.node \subseteq Nat
  BY <1>7, <1>1, <1>4 DEF KeptOrdered, IdsOf
<1>9. class' = [i \in DOMAIN kept'.node |-> i]
  BY DEF Request
<1>10. ClassIsEarliest'
  BY <1>8, <1>9 DEF ClassIsEarliest
<1>11. MergesForced'
  BY <1>9 DEF MergesForced
<1>12. phase = "record" /\ phase' = "saturate" /\ outs' = os /\ mode' = m
      /\ canonical' = canonical
  BY DEF Request
<1>13. canonical' = EmptyGraph
  BY <1>12 DEF RequestInv, NothingExtracted
<1>14. DOMAIN canonical'.node = {}
  BY <1>13 DEF EmptyGraph
<1>15. ToSet(os) \subseteq IdsOf(arena)
  BY DEF SeqOf, ToSet
<1>16. TypeOK'
  BY <1>1, <1>7, <1>10, <1>12, <1>14, <1>15, ModesAreKnown
     DEF RequestInv, TypeOK, KeptOrdered, ClassIsEarliest
<1> QED
  BY <1>1, <1>4, <1>7, <1>10, <1>11, <1>12, <1>13, <1>16
     DEF RequestInv, ArenaTyped, NothingExtracted, ExtractedIsQuotient

(* Equality by one classification is equality by every coarser one. *)
LEMMA EqualByCoarser ==
  ASSUME KeptOrdered, NEW i \in DOMAIN kept.node, NEW j \in DOMAIN kept.node,
         NEW label,
         \A x, y \in DOMAIN kept.node : class[x] = class[y] => label[x] = label[y],
         Equal(kept, class, i, j)
  PROVE  Equal(kept, label, i, j)
<1> DEFINE in(k) == kept.node[k].inputs
<1>1. \A k \in DOMAIN kept.node : \A n \in DOMAIN in(k) : in(k)[n] \in DOMAIN kept.node
  BY DEF KeptOrdered, ToSet
<1>2. CASE Congruent(kept, class, i, j)
  <2>1. kept.node[i].token = kept.node[j].token
    BY <1>2 DEF Congruent
  <2>2. [n \in DOMAIN in(i) |-> class[in(i)[n]]] = [n \in DOMAIN in(j) |-> class[in(j)[n]]]
    BY <1>2 DEF Congruent, Through
  <2>3. DOMAIN in(i) = DOMAIN in(j)
    BY <2>2
  <2>4. \A n \in DOMAIN in(i) : class[in(i)[n]] = class[in(j)[n]]
    BY <2>2
  <2>5. \A n \in DOMAIN in(i) : label[in(i)[n]] = label[in(j)[n]]
    BY <1>1, <2>3, <2>4
  <2>6. Through(label, in(i)) = Through(label, in(j))
    BY <2>3, <2>5 DEF Through
  <2> QED
    BY <2>1, <2>6 DEF Equal, Congruent
<1>3. CASE Commuted(kept, class, i, j)
  BY <1>1, <1>3 DEF Equal, Commuted
<1>4. CASE IsIdentityOf(kept, i, j)
  BY <1>4 DEF Equal
<1> QED
  BY <1>2, <1>3, <1>4 DEF Equal

(* A merge is forced: the two classes are equal by what was merged before. *)
LEMMA MergeKeeps ==
  ASSUME RequestInv, NEW i \in DOMAIN kept.node, NEW j \in DOMAIN kept.node,
         MergeClasses(i, j)
  PROVE  RequestInv'
<1> DEFINE low == IF class[i] < class[j] THEN class[i] ELSE class[j]
<1> DEFINE Ids == DOMAIN kept.node
<1>1. /\ KeptOrdered /\ ClassIsEarliest /\ MergesForced /\ TypeOK
      /\ Ids \subseteq Nat
  BY DEF RequestInv, KeptOrdered, IdsOf
<1>2. class \in [Ids -> Ids]
  BY <1>1 DEF ClassIsEarliest
<1>3. class' = [k \in Ids |-> IF class[k] \in {class[i], class[j]} THEN low ELSE class[k]]
  BY <1>2 DEF MergeClasses, Merge
<1>4. low \in Ids /\ low <= class[i] /\ low <= class[j] /\ class[low] = low
  BY <1>1, <1>2 DEF ClassIsEarliest
<1>5. /\ kept' = kept /\ phase' = phase /\ phase = "saturate" /\ arena' = arena
      /\ outs' = outs /\ mode' = mode /\ canonical' = canonical
  BY DEF MergeClasses
<1>6. ClassIsEarliest'
  <2>1. class' \in [Ids -> Ids]
    BY <1>2, <1>3, <1>4
  <2> SUFFICES ASSUME NEW k \in Ids
               PROVE  class'[k] <= k /\ class'[class'[k]] = class'[k]
    BY <2>1, <1>5 DEF ClassIsEarliest
  <2>2. class[k] \in Ids /\ class[k] \in Nat /\ k \in Nat /\ class[k] <= k
        /\ class[class[k]] = class[k] /\ low \in Nat
    BY <1>1, <1>2, <1>4 DEF ClassIsEarliest
  <2>3. CASE class[k] \in {class[i], class[j]}
    <3>1. class'[k] = low /\ low <= k
      BY <1>1, <1>2, <1>3, <1>4, <2>2, <2>3
    <3>2. class'[low] = low
      BY <1>3, <1>4
    <3> QED
      BY <3>1, <3>2
  <2>4. CASE class[k] \notin {class[i], class[j]}
    <3>1. class'[k] = class[k]
      BY <1>3, <2>4
    <3>2. class'[class[k]] = class[k]
      BY <1>3, <2>2, <2>4
    <3> QED
      BY <3>1, <3>2, <2>2
  <2> QED
    BY <2>3, <2>4
<1>7. MergesForced'
  <2> SUFFICES ASSUME NEW label \in [Ids -> Ids], Lawful(label),
                      NEW x \in Ids, NEW y \in Ids, class'[x] = class'[y]
               PROVE  label[x] = label[y]
    BY <1>5 DEF MergesForced, Lawful
  <2>1. \A k, l \in Ids : class[k] = class[l] => label[k] = label[l]
    BY <1>1 DEF MergesForced
  <2>2. Equal(kept, class, i, j)
    BY DEF MergeClasses
  <2>3. Equal(kept, label, i, j)
    BY <1>1, <2>1, <2>2, EqualByCoarser
  <2>4. label[i] = label[j]
    BY <2>3 DEF Lawful
  <2>5. CASE class[x] \in {class[i], class[j]}
    <3>1. class'[y] = low
      BY <1>3, <2>5
    <3>2. class[y] \in {class[i], class[j]}
      BY <1>3, <3>1
    <3> QED
      BY <2>1, <2>4, <2>5, <3>2
  <2>6. CASE class[x] \notin {class[i], class[j]}
    <3>1. class'[x] = class[x]
      BY <1>3, <2>6
    <3>2. class'[y] = class[y]
      BY <1>3, <2>6, <3>1
    <3> QED
      BY <2>1, <3>1, <3>2
  <2> QED
    BY <2>5, <2>6
<1>8. TypeOK'
  BY <1>1, <1>5, <1>6 DEF TypeOK, ClassIsEarliest
<1> QED
  BY <1>5, <1>6, <1>7, <1>8
     DEF RequestInv, ArenaTyped, KeptOrdered, NothingExtracted, ExtractedIsQuotient

(* Extraction only reads the classes. *)
LEMMA ExtractKeeps ==
  ASSUME RequestInv, Extract
  PROVE  RequestInv'
<1>1. /\ arena' = arena /\ kept' = kept /\ class' = class /\ outs' = outs
      /\ mode' = mode /\ phase' = "extracted" /\ canonical' = Quotient(kept, class)
  BY DEF Extract
<1>2. DOMAIN canonical'.node \subseteq DOMAIN kept'.node
  BY <1>1 DEF Quotient
<1>3. TypeOK'
  BY <1>1, <1>2 DEF RequestInv, TypeOK
<1>4. KeptOrdered' /\ ClassIsEarliest' /\ ArenaTyped'
  BY <1>1 DEF RequestInv, KeptOrdered, ClassIsEarliest, ArenaTyped
<1>5. MergesForced'
  BY <1>1 DEF RequestInv, MergesForced, Lawful
<1> QED
  BY <1>1, <1>3, <1>4, <1>5 DEF RequestInv, NothingExtracted, ExtractedIsQuotient

(* The passes after the engine leave what it made as it is. *)
LEMMA FuseKeeps ==
  ASSUME RequestInv, FuseAndRebuild
  PROVE  RequestInv'
<1>1. /\ arena' = arena /\ kept' = kept /\ class' = class /\ outs' = outs
      /\ mode' = mode /\ phase = "extracted" /\ phase' = "done"
      /\ canonical' = canonical
  BY DEF FuseAndRebuild
<1>2. TypeOK'
  BY <1>1 DEF RequestInv, TypeOK
<1>3. KeptOrdered' /\ ClassIsEarliest' /\ ArenaTyped'
  BY <1>1 DEF RequestInv, KeptOrdered, ClassIsEarliest, ArenaTyped
<1>4. MergesForced'
  BY <1>1 DEF RequestInv, MergesForced, Lawful
<1>5. canonical' = Quotient(kept', class')
  BY <1>1 DEF RequestInv, ExtractedIsQuotient
<1> QED
  BY <1>1, <1>2, <1>3, <1>4, <1>5 DEF RequestInv, NothingExtracted, ExtractedIsQuotient

(* A finished request leaves the store as it was. *)
LEMMA RecordOnKeeps ==
  ASSUME RequestInv, RecordOn
  PROVE  RequestInv'
<1>1. /\ arena' = arena /\ phase' = "record" /\ outs' = <<>> /\ mode' = "SingleUse"
      /\ kept' = EmptyGraph /\ class' = <<>> /\ canonical' = EmptyGraph
  BY DEF RecordOn, Forget
<1>2. DOMAIN kept'.node = {} /\ DOMAIN canonical'.node = {}
  BY <1>1 DEF EmptyGraph
<1>3. TypeOK'
  BY <1>1, <1>2 DEF RequestInv, TypeOK, FusionModes, ToSet
<1>4. KeptOrdered' /\ ClassIsEarliest' /\ MergesForced'
  BY <1>1, <1>2 DEF KeptOrdered, ClassIsEarliest, MergesForced
<1> QED
  BY <1>1, <1>3, <1>4
     DEF RequestInv, ArenaTyped, NothingExtracted, ExtractedIsQuotient

-----------------------------------------------------------------------------
(* What the passes make of a request. *)

\* Which graph each pass had, and of which the result was made.
PassesInv ==
  /\ outs \in Seq(Nat)
  /\ phase # "record" => kept = ToEngineGraph(arena, outs)
  /\ phase = "done" => result = Finish(arena, kept, canonical, mode)

(* Every step keeps track of it. *)
LEMMA PassesKeep ==
  ASSUME RequestInv, PassesInv, [Next]_vars
  PROVE  PassesInv'
<1>1. CASE Record
  BY <1>1 DEF Record, PassesInv
<1>2. CASE \E os \in SeqOf(IdsOf(arena), MaxOutputs), m \in Modes : Request(os, m)
  <2>1. PICK os \in SeqOf(IdsOf(arena), MaxOutputs), m \in Modes : Request(os, m)
    BY <1>2
  <2>2. /\ arena' = arena /\ phase' = "saturate" /\ outs' = os
        /\ kept' = ToEngineGraph(arena, os)
    BY <2>1 DEF Request
  <2>3. os \in Seq(Nat)
    <3>1. Len(arena) \in Nat
      BY DEF RequestInv, ArenaTyped, StoreList, InputsBefore
    <3>2. IdsOf(arena) \subseteq Nat
      BY <3>1 DEF IdsOf
    <3>3. PICK n \in 0 .. MaxOutputs : os \in [1 .. n -> IdsOf(arena)]
      BY DEF SeqOf
    <3>4. n \in Nat /\ os \in [1 .. n -> Nat]
      BY <3>2, <3>3
    <3> QED
      BY <3>4, SeqDef
  <2> QED
    BY <2>2, <2>3 DEF PassesInv
<1>3. CASE \E i, j \in DOMAIN kept.node : MergeClasses(i, j)
  BY <1>3 DEF MergeClasses, PassesInv
<1>4. CASE Extract
  BY <1>4 DEF Extract, PassesInv
<1>5. CASE FuseAndRebuild
  BY <1>5 DEF FuseAndRebuild, PassesInv
<1>6. CASE RecordOn
  BY <1>6 DEF RecordOn, Forget, PassesInv
<1>7. CASE ReduceAgain
  BY <1>7 DEF ReduceAgain, Forget, PassesInv
<1>8. CASE UNCHANGED vars
  BY <1>8 DEF vars, PassesInv
<1> QED
  BY <1>1, <1>2, <1>3, <1>4, <1>5, <1>6, <1>7, <1>8 DEF Next

(* The arena is a store, and what is kept of it is a graph with its meaning. *)
LEMMA KeptIsStored ==
  ASSUME RequestInv, PassesInv, phase # "record"
  PROVE  /\ StoreList(arena)
         /\ GraphOf(kept, arena) /\ Means(kept, arena, Terms(arena))
         /\ kept.outs = outs
         /\ \A n \in DOMAIN outs : outs[n] \in DOMAIN kept.node
<1>5. StoreList(arena)
  BY DEF RequestInv, ArenaTyped
<1>6. kept = ToEngineGraph(arena, outs)
  BY DEF PassesInv
<1>7. GraphOf(kept, arena) /\ Means(kept, arena, Terms(arena))
  BY <1>5, <1>6, KeptMeans
<1>8. kept.outs = outs /\ DOMAIN kept.node = Reachable(arena, outs)
  BY <1>6 DEF ToEngineGraph
<1>9. ToSet(outs) \subseteq Reachable(arena, outs)
  BY ReachableHasOutputs DEF RequestInv, TypeOK
<1>10. \A n \in DOMAIN outs : outs[n] \in DOMAIN kept.node
  BY <1>8, <1>9 DEF ToSet
<1> QED
  BY <1>5, <1>7, <1>8, <1>10

(* Going on with the reduced store is going on with a store. *)
LEMMA ReduceAgainKeeps ==
  ASSUME RequestInv, PassesInv, ReduceAgain
  PROVE  RequestInv'
<1>1. /\ phase = "done" /\ AgainAllowed /\ arena' = result.nodes
      /\ phase' = "record" /\ outs' = <<>> /\ mode' = "SingleUse"
      /\ kept' = EmptyGraph /\ class' = <<>> /\ canonical' = EmptyGraph
  BY DEF ReduceAgain, Forget
<1>2. StoreList(arena) /\ GraphOf(kept, arena)
  BY <1>1, KeptIsStored
<1>3. canonical = Quotient(kept, class) /\ result = Finish(arena, kept, canonical, mode)
  BY <1>1 DEF RequestInv, ExtractedIsQuotient, PassesInv
<1>4. GraphOf(canonical, arena) /\ DOMAIN canonical.node \subseteq DOMAIN kept.node
  <2>1. /\ DOMAIN Quotient(kept, class).node = {k \in DOMAIN kept.node : class[k] = k}
        /\ GraphOf(Quotient(kept, class), arena)
    BY <1>2, QuotientIsGraph DEF RequestInv, ClassIsEarliest
  <2> QED
    BY <1>3, <2>1
<1>5. StoreList(result.nodes) /\ KeysOnce(result.nodes)
  <2>1. mode \in FusionModes
    BY DEF RequestInv, TypeOK
  <2>2. /\ StoreList(Finish(arena, kept, canonical, mode).nodes)
        /\ KeysOnce(Finish(arena, kept, canonical, mode).nodes)
    BY <1>2, <1>4, <2>1, FinishIsStore
  <2> QED
    BY <1>3, <2>2
<1>6. ArenaTyped'
  BY <1>1, <1>5 DEF ArenaTyped
<1>7. TopologicalList(arena)'
  BY <1>1, <1>5, StoreOrdered DEF TopologicalList
<1>8. DOMAIN kept'.node = {} /\ DOMAIN canonical'.node = {}
  BY <1>1 DEF EmptyGraph
<1>9. TypeOK'
  BY <1>1, <1>7, <1>8 DEF TypeOK, FusionModes, ToSet
<1>10. KeptOrdered' /\ ClassIsEarliest' /\ MergesForced'
  BY <1>1, <1>8 DEF KeptOrdered, ClassIsEarliest, MergesForced
<1> QED
  BY <1>1, <1>6, <1>9, <1>10 DEF RequestInv, NothingExtracted, ExtractedIsQuotient

(* Every step keeps the invariant. *)
LEMMA NextInv ==
  ASSUME RequestInv, PassesInv, [Next]_vars
  PROVE  RequestInv'
<1>1. CASE Record
  BY <1>1, RecordKeeps
<1>2. CASE \E os \in SeqOf(IdsOf(arena), MaxOutputs), m \in Modes : Request(os, m)
  BY <1>2, RequestKeeps
<1>3. CASE \E i, j \in DOMAIN kept.node : MergeClasses(i, j)
  BY <1>3, MergeKeeps
<1>4. CASE Extract
  BY <1>4, ExtractKeeps
<1>5. CASE FuseAndRebuild
  BY <1>5, FuseKeeps
<1>6. CASE RecordOn
  BY <1>6, RecordOnKeeps
<1>7. CASE ReduceAgain
  BY <1>7, ReduceAgainKeeps
<1>8. CASE UNCHANGED vars
  <2>1. TypeOK' /\ KeptOrdered' /\ ClassIsEarliest' /\ ArenaTyped'
    BY <1>8 DEF vars, RequestInv, TypeOK, KeptOrdered, ClassIsEarliest, ArenaTyped
  <2>2. MergesForced'
    BY <1>8 DEF vars, RequestInv, MergesForced, Lawful
  <2> QED
    BY <1>8, <2>1, <2>2 DEF vars, RequestInv, NothingExtracted, ExtractedIsQuotient
<1> QED
  BY <1>1, <1>2, <1>3, <1>4, <1>5, <1>6, <1>7, <1>8 DEF Next

(* The invariant holds at every moment of every request. *)
THEOREM Invariance == Spec => [](RequestInv /\ PassesInv)
<1>1. Init => RequestInv /\ PassesInv
  BY InitInv DEF Init, PassesInv
<1>2. RequestInv /\ PassesInv /\ [Next]_vars => (RequestInv /\ PassesInv)'
  BY NextInv, PassesKeep
<1> QED
  BY <1>1, <1>2, PTL DEF Spec

(* Type correctness of a request. *)
THEOREM TypeCorrect == Spec => []TypeOK
<1>1. RequestInv => TypeOK
  BY DEF RequestInv
<1> QED
  BY <1>1, Invariance, PTL

(* What the engine merged is equal under every interpretation of the      *)
(* operators that obeys the two laws, however many merges it made and in  *)
(* whatever order: stopping saturation at any moment is sound.            *)
THEOREM ClassesForcedAlways == Spec => []ClassesForced
<1>1. RequestInv => ClassesForced
  BY DEF RequestInv, MergesForced, ClassesForced
<1> QED
  BY <1>1, Invariance, PTL

(* Extraction by earliest members is topologically safe: an extracted node *)
(* reads extracted nodes before it.                                        *)
THEOREM ExtractionOrderedAlways == Spec => []ExtractionOrdered
<1>1. RequestInv => ExtractionOrdered
  <2> SUFFICES ASSUME RequestInv, phase \in {"extracted", "done"},
                      NEW i \in DOMAIN canonical.node,
                      NEW j \in ToSet(canonical.node[i].inputs)
               PROVE  j \in DOMAIN canonical.node /\ j < i
    BY DEF ExtractionOrdered
  <2>1. canonical = Quotient(kept, class)
    BY DEF RequestInv, ExtractedIsQuotient
  <2>2. DOMAIN canonical.node = {k \in DOMAIN kept.node : class[k] = k}
    BY <2>1 DEF Quotient
  <2>3. canonical.node[i].inputs = Through(class, kept.node[i].inputs)
    BY <2>1, <2>2 DEF Quotient
  <2>4. PICK n \in DOMAIN kept.node[i].inputs : j = class[kept.node[i].inputs[n]]
    BY <2>3 DEF Through, ToSet
  <2>5. /\ kept.node[i].inputs[n] \in DOMAIN kept.node
        /\ kept.node[i].inputs[n] < i
    BY <2>2 DEF RequestInv, KeptOrdered, ToSet
  <2>6. DOMAIN kept.node \subseteq Nat
    BY DEF RequestInv, KeptOrdered, IdsOf
  <2>7. j \in DOMAIN kept.node /\ j <= kept.node[i].inputs[n] /\ class[j] = j
    BY <2>4, <2>5 DEF RequestInv, ClassIsEarliest
  <2> QED
    BY <2>2, <2>5, <2>6, <2>7
<1> QED
  BY <1>1, Invariance, PTL

-----------------------------------------------------------------------------
(* What a result computes. *)

(* The classes of the engine are classes of nodes with one term: the terms *)
(* are a labelling that obeys the laws.                                    *)
LEMMA ClassesKeepTerms ==
  ASSUME RequestInv, PassesInv, phase # "record", TokensNameOperators
  PROVE  \A i \in DOMAIN kept.node : Terms(arena)[class[i]] = Terms(arena)[i]
<1> DEFINE D == DOMAIN kept.node
           term == Terms(arena)
           label == [i \in D |-> CHOOSE j \in D : term[j] = term[i]]
<1>1. StoreList(arena) /\ GraphOf(kept, arena) /\ Means(kept, arena, term)
  BY KeptIsStored
<1>2. TokensName(kept, arena)
  BY DEF TokensNameOperators, TokensName
<1> HIDE DEF term
<1>3. ASSUME NEW i \in D
      PROVE  label[i] \in D /\ term[label[i]] = term[i]
  <2>1. \E j \in D : term[j] = term[i]
    OBVIOUS
  <2> QED
    BY <2>1
<1>4. label \in [D -> D]
  BY <1>3
<1>5. \A i, j \in D : label[i] = label[j] => term[i] = term[j]
  BY <1>3
<1>6. \A i, j \in D : term[i] = term[j] => label[i] = label[j]
  OBVIOUS
<1> HIDE DEF label
<1>7. Lawful(label)
  <2> SUFFICES ASSUME NEW i \in D, NEW j \in D, Equal(kept, label, i, j)
               PROVE  label[i] = label[j]
    BY DEF Lawful
  <2>1. term[i] = term[j]
    BY <1>1, <1>2, <1>5, EqualMeans
  <2> QED
    BY <1>6, <2>1
<1>8. \A i, j \in D : class[i] = class[j] => label[i] = label[j]
  BY <1>4, <1>7 DEF RequestInv, MergesForced
<1>9. \A i \in D : class[i] \in D /\ class[class[i]] = class[i]
  BY DEF RequestInv, ClassIsEarliest
<1> QED
  BY <1>5, <1>8, <1>9 DEF term

(* Where tokens name operators, a compiled graph computes at each place what  *)
(* the requested node computed: for any vocabulary, any graph of a store, any *)
(* merges of the engine and both fusion modes.                                *)
THEOREM SemanticsPreservedAlways == Spec => []SemanticsPreserved
<1>1. RequestInv /\ PassesInv => SemanticsPreserved
  <2> SUFFICES ASSUME RequestInv, PassesInv, phase = "done", TokensNameOperators
               PROVE  OutputsKeepMeaning
    BY DEF SemanticsPreserved, Done
  <2> DEFINE term == Terms(arena)
  <2>1. /\ StoreList(arena) /\ GraphOf(kept, arena) /\ Means(kept, arena, term)
        /\ kept.outs = outs /\ \A n \in DOMAIN outs : outs[n] \in DOMAIN kept.node
    BY KeptIsStored
  <2>2. /\ class \in [DOMAIN kept.node -> DOMAIN kept.node]
        /\ \A i \in DOMAIN kept.node :
             class[i] <= i /\ class[class[i]] = class[i] /\ term[class[i]] = term[i]
    BY ClassesKeepTerms DEF RequestInv, ClassIsEarliest
  <2>3. canonical = Quotient(kept, class)
    BY DEF RequestInv, ExtractedIsQuotient
  <2> HIDE DEF term
  <2>4. /\ DOMAIN canonical.node = {k \in DOMAIN kept.node : class[k] = k}
        /\ GraphOf(canonical, arena) /\ Means(canonical, arena, term)
    <3>1. /\ DOMAIN Quotient(kept, class).node = {k \in DOMAIN kept.node : class[k] = k}
          /\ GraphOf(Quotient(kept, class), arena)
          /\ Means(Quotient(kept, class), arena, term)
      BY <2>1, <2>2, QuotientMeans, Zenon
    <3> QED
      BY <2>3, <3>1
  <2>5. canonical.outs = Through(class, outs)
    BY <2>1, <2>3 DEF Quotient
  <2>6. /\ canonical.outs \in Seq(DOMAIN canonical.node)
        /\ DOMAIN canonical.outs = DOMAIN outs
        /\ \A n \in DOMAIN outs : canonical.outs[n] = class[outs[n]]
    <3>1. DOMAIN outs = 1 .. Len(outs) /\ Len(outs) \in Nat
      BY DEF PassesInv
    <3>2. canonical.outs = [n \in 1 .. Len(outs) |-> class[outs[n]]]
      BY <2>5, <3>1 DEF Through
    <3>3. \A n \in 1 .. Len(outs) : class[outs[n]] \in DOMAIN canonical.node
      BY <2>1, <2>2, <2>4, <3>1
    <3>4. canonical.outs \in [1 .. Len(outs) -> DOMAIN canonical.node]
      BY <3>2, <3>3
    <3>5. canonical.outs \in Seq(DOMAIN canonical.node)
      BY <3>1, <3>4, SeqDef
    <3> QED
      BY <3>1, <3>2, <3>5
  <2>7. mode \in FusionModes /\ TokensName(kept, arena)
    BY DEF RequestInv, TypeOK, TokensNameOperators, TokensName
  <2>8. DOMAIN canonical.node \subseteq DOMAIN kept.node
    BY <2>4
  <2>9. KeepsOutputs(Finish(arena, kept, canonical, mode), canonical, term)
    BY <2>1, <2>4, <2>6, <2>7, <2>8, FinishMeans
  <2>10. result = Finish(arena, kept, canonical, mode)
    BY DEF PassesInv
  <2>11. \A n \in DOMAIN outs : Terms(result.nodes)[result.places[n]] = term[class[outs[n]]]
    BY <2>6, <2>9, <2>10 DEF KeepsOutputs
  <2>12. \A n \in DOMAIN outs : term[class[outs[n]]] = term[outs[n]]
    BY <2>1, <2>2
  <2> QED
    BY <2>11, <2>12 DEF OutputsKeepMeaning, term
<1> QED
  BY <1>1, Invariance, PTL

(* The kind of a kept node, by its token. *)
LEMMA KeptKind ==
  ASSUME RequestInv, PassesInv, phase # "record", NEW i \in DOMAIN kept.node
  PROVE  /\ kept.node[i].token[1] = "stage" <=> arena[i + 1].kind = "stage"
         /\ kept.node[i].token[1] = "op" <=> arena[i + 1].kind = "op"
         /\ ~ AgainAllowed => arena[i + 1] \in PlainKeys /\ arena[i + 1].kind # "stage"
<1>1. StoreList(arena) /\ GraphOf(kept, arena)
  BY KeptIsStored
<1>2. /\ StoreKey(arena[i + 1]) /\ i \in IdsOf(arena)
      /\ kept.node[i].token = Token(arena[i + 1])
  BY <1>1, GraphNode DEF GraphOf
<1> DEFINE k == arena[i + 1]
<1>3. k.kind \in {"source", "op", "reduction", "external", "stage"}
  BY <1>2, StoreKeyShape
<1>4. /\ Token(k)[1] = "stage" <=> k.kind = "stage"
      /\ Token(k)[1] = "op" <=> k.kind = "op"
  <2> HIDE DEF k
  <2> QED
    BY <1>3 DEF Token
<1>5. ~ AgainAllowed => k \in PlainKeys
  BY <1>1, <1>2 DEF RequestInv, ArenaTyped, IdsOf, StoreList
<1>6. k \in PlainKeys => k.kind # "stage"
  BY KeyIsOperatorOverInputs DEF Operators
<1> QED
  BY <1>2, <1>4, <1>5, <1>6

(* At the engine's fixpoint nothing redundant is left: two extracted nodes *)
(* with one term are one node.                                             *)
THEOREM SaturatedIsIrredundantAlways ==
  ASSUME ~ AgainAllowed PROVE Spec => []SaturatedIsIrredundant
<1>1. RequestInv /\ PassesInv => SaturatedIsIrredundant
  <2> SUFFICES ASSUME RequestInv, PassesInv, phase \in {"extracted", "done"}, Saturated,
                      NEW i \in DOMAIN canonical.node, NEW j \in DOMAIN canonical.node,
                      Terms(arena)[i] = Terms(arena)[j]
               PROVE  i = j
    BY DEF SaturatedIsIrredundant
  <2>1. /\ StoreList(arena) /\ GraphOf(kept, arena) /\ Means(kept, arena, Terms(arena))
    BY KeptIsStored
  <2>2. DOMAIN canonical.node = {k \in DOMAIN kept.node : class[k] = k}
    BY DEF RequestInv, ExtractedIsQuotient, Quotient
  <2>3. \A x, y \in DOMAIN kept.node :
          Terms(arena)[x] = Terms(arena)[y] => class[x] = class[y]
    <3>1. \A k \in DOMAIN kept.node : arena[k + 1] \in PlainKeys
      BY KeptKind
    <3> QED
      BY <2>1, <3>1, SaturatedClasses DEF Saturated
  <2> QED
    BY <2>2, <2>3
<1> QED
  BY <1>1, Invariance, PTL

(* Maximal fusion only fuses more than single-use fusion, on whatever graph *)
(* the engine extracts.                                                     *)
THEOREM MaximalFusesMoreAlways == Spec => []MaximalFusesMore
<1>1. RequestInv /\ PassesInv => MaximalFusesMore
  <2> SUFFICES ASSUME RequestInv, PassesInv, phase = "extracted"
               PROVE  \A i, j \in DOMAIN canonical.node :
                        SingleUseHead(canonical)[i] = SingleUseHead(canonical)[j] =>
                          MaximalHead(canonical)[i] = MaximalHead(canonical)[j]
    BY DEF MaximalFusesMore
  <2>1. StoreList(arena) /\ GraphOf(kept, arena)
    BY KeptIsStored
  <2>2. canonical = Quotient(kept, class)
    BY DEF RequestInv, ExtractedIsQuotient
  <2>3. GraphOf(canonical, arena)
    BY <2>1, <2>2, QuotientIsGraph DEF RequestInv, ClassIsEarliest
  <2> QED
    BY <2>1, <2>3, MaximalIsCoarser
<1> QED
  BY <1>1, Invariance, PTL

-----------------------------------------------------------------------------
(* What the engine's classes are made of, and the result.                  *)

\* Merging drops no input: what stands for a class reads what its nodes read.
EngineInv == phase # "record" => ClassesAreNodes(kept, class)

(* Every step keeps the classes classes of nodes. *)
LEMMA EngineKeeps ==
  ASSUME RequestInv, PassesInv, EngineInv, [Next]_vars
  PROVE  EngineInv'
<1>1. CASE Record
  BY <1>1 DEF Record, EngineInv
<1>2. CASE \E os \in SeqOf(IdsOf(arena), MaxOutputs), m \in Modes : Request(os, m)
  <2>1. class' = [i \in DOMAIN kept'.node |-> i]
    BY <1>2 DEF Request
  <2>2. ASSUME NEW x \in DOMAIN kept'.node, NEW y \in DOMAIN kept'.node, class'[x] = class'[y]
        PROVE  SameNode(kept', class', x, y)
    <3>1. x = y
      BY <2>1, <2>2
    <3> QED
      BY <3>1 DEF SameNode, Congruent
  <2> QED
    BY <2>2 DEF EngineInv, ClassesAreNodes
<1>3. CASE \E i, j \in DOMAIN kept.node : MergeClasses(i, j)
  <2>1. PICK i \in DOMAIN kept.node, j \in DOMAIN kept.node : MergeClasses(i, j)
    BY <1>3
  <2>2. /\ phase = "saturate" /\ class[i] # class[j] /\ Equal(kept, class, i, j)
        /\ class' = Merge(class, i, j) /\ kept' = kept
    BY <2>1 DEF MergeClasses
  <2>3. StoreList(arena) /\ GraphOf(kept, arena)
    BY <2>2, KeptIsStored
  <2>4. class \in [DOMAIN kept.node -> DOMAIN kept.node] /\ ClassesAreNodes(kept, class)
    BY <2>2 DEF RequestInv, ClassIsEarliest, EngineInv
  <2>5. ClassesAreNodes(kept, Merge(class, i, j))
    BY <2>2, <2>3, <2>4, MergedClassesAreNodes
  <2> QED
    BY <2>2, <2>5 DEF EngineInv
<1>4. CASE Extract
  BY <1>4 DEF Extract, EngineInv
<1>5. CASE FuseAndRebuild
  BY <1>5 DEF FuseAndRebuild, EngineInv
<1>6. CASE RecordOn
  BY <1>6 DEF RecordOn, Forget, EngineInv
<1>7. CASE ReduceAgain
  BY <1>7 DEF ReduceAgain, Forget, EngineInv
<1>8. CASE UNCHANGED vars
  BY <1>8 DEF vars, EngineInv
<1> QED
  BY <1>1, <1>2, <1>3, <1>4, <1>5, <1>6, <1>7, <1>8 DEF Next

(* The engine's classes are classes of nodes at every moment. *)
THEOREM EngineInvariance == Spec => [](RequestInv /\ PassesInv /\ EngineInv)
<1>1. Init => EngineInv
  BY DEF Init, EngineInv
<1>2. RequestInv /\ PassesInv /\ EngineInv /\ [Next]_vars => EngineInv'
  BY EngineKeeps
<1> QED
  BY <1>1, <1>2, Invariance, PTL DEF Spec

(* The reduced store holds the list that fusion emitted, and all of it is *)
(* needed; of a recorded graph it makes closed stages.                    *)
LEMMA ResultIsRebuilt ==
  ASSUME RequestInv, PassesInv, EngineInv, phase = "done", ~ StagesMeetOps
  PROVE  /\ RebuiltAsFused(result, StageFusion(arena, kept, Cse(canonical), mode))
         /\ ~ AgainAllowed => \A n \in DOMAIN result.nodes : StageClosed(result.nodes[n])
<1>1. /\ StoreList(arena) /\ GraphOf(kept, arena) /\ kept.outs = outs
      /\ \A n \in DOMAIN outs : outs[n] \in DOMAIN kept.node
  BY KeptIsStored
<1>2. /\ class \in [DOMAIN kept.node -> DOMAIN kept.node]
      /\ \A i \in DOMAIN kept.node : class[i] <= i /\ class[class[i]] = class[i]
  BY DEF RequestInv, ClassIsEarliest
<1>3. canonical = Quotient(kept, class) /\ result = Finish(arena, kept, canonical, mode)
  BY DEF RequestInv, ExtractedIsQuotient, PassesInv
<1>4. AllNeeded(kept)
  <2>1. kept = ToEngineGraph(arena, outs)
    BY DEF PassesInv
  <2> QED
    BY <2>1, KeptNeeded
<1>5. ReadsKept(kept, class)
  <2>1. ClassesAreNodes(kept, class)
    BY DEF EngineInv
  <2> QED
    BY <1>1, <1>2, <2>1, ClassesKeepReads
<1>6. /\ DOMAIN canonical.node = {k \in DOMAIN kept.node : class[k] = k}
      /\ GraphOf(canonical, arena)
  <2>1. /\ DOMAIN Quotient(kept, class).node = {k \in DOMAIN kept.node : class[k] = k}
        /\ GraphOf(Quotient(kept, class), arena)
        /\ \A i \in DOMAIN Quotient(kept, class).node :
             Quotient(kept, class).node[i].inputs = Through(class, kept.node[i].inputs)
    BY <1>1, <1>2, QuotientIsGraph
  <2> QED
    BY <1>3, <2>1
<1>7. AllNeeded(canonical)
  <2>1. ToSet(kept.outs) \subseteq DOMAIN kept.node
    BY <1>1 DEF ToSet
  <2> QED
    BY <1>1, <1>2, <1>3, <1>4, <1>5, <2>1, QuotientNeeded
<1>8. canonical.outs \in Seq(DOMAIN canonical.node)
  <2>1. DOMAIN outs = 1 .. Len(outs) /\ Len(outs) \in Nat
    BY DEF PassesInv
  <2>2. canonical.outs = [n \in 1 .. Len(outs) |-> class[outs[n]]]
    BY <1>1, <1>3, <2>1 DEF Through, Quotient
  <2>3. \A n \in 1 .. Len(outs) : class[outs[n]] \in DOMAIN canonical.node
    BY <1>1, <1>2, <1>6, <2>1
  <2>4. canonical.outs \in [1 .. Len(outs) -> DOMAIN canonical.node]
    BY <2>2, <2>3
  <2> QED
    BY <2>1, <2>4, SeqDef
<1>9. mode \in FusionModes /\ DOMAIN canonical.node \subseteq DOMAIN kept.node
  BY <1>6 DEF RequestInv, TypeOK
<1>10. Unmixed(canonical) /\ (~ AgainAllowed => NoStages(canonical))
  <2>1. \A i \in DOMAIN canonical.node :
          i \in DOMAIN kept.node /\ canonical.node[i].token = kept.node[i].token
    BY <1>3, <1>6 DEF Quotient
  <2>2. Unmixed(canonical)
    BY <2>1, KeptKind DEF Unmixed, StagesMeetOps
  <2>3. ASSUME ~ AgainAllowed PROVE NoStages(canonical)
    BY <2>1, <2>3, KeptKind DEF NoStages
  <2> QED
    BY <2>2, <2>3
<1>11. /\ RebuiltAsFused(Finish(arena, kept, canonical, mode),
                          StageFusion(arena, kept, Cse(canonical), mode))
       /\ NoStages(canonical) =>
            \A n \in DOMAIN Finish(arena, kept, canonical, mode).nodes :
              StageClosed(Finish(arena, kept, canonical, mode).nodes[n])
  BY <1>1, <1>6, <1>7, <1>8, <1>9, <1>10, FinishIsRebuilt
<1> QED
  BY <1>3, <1>10, <1>11

(* The reduced store is a graph: its nodes read earlier nodes, its stages *)
(* are closed, its outputs are nodes, and no node of it is dead - for any *)
(* recorded graph, any merges of the engine and both fusion modes.        *)
THEOREM ResultWellFormedAlways ==
  ASSUME ~ AgainAllowed PROVE Spec => []ResultWellFormed
<1>1. RequestInv /\ PassesInv /\ EngineInv => ResultWellFormed
  <2> SUFFICES ASSUME RequestInv, PassesInv, EngineInv, phase = "done"
               PROVE  /\ TopologicalList(result.nodes)
                      /\ \A n \in DOMAIN result.nodes : StageClosed(result.nodes[n])
                      /\ \A n \in DOMAIN result.outs : result.outs[n] < Len(result.nodes)
                      /\ Reachable(result.nodes, result.outs) = IdsOf(result.nodes)
    BY DEF ResultWellFormed, Done
  <2>1. /\ StoreList(result.nodes)
        /\ \A n \in DOMAIN result.nodes : StageClosed(result.nodes[n])
        /\ \A n \in DOMAIN result.outs : result.outs[n] < Len(result.nodes)
        /\ Reachable(result.nodes, result.outs) = IdsOf(result.nodes)
    <3>1. ~ StagesMeetOps
      BY KeptKind DEF StagesMeetOps
    <3> QED
      BY <3>1, ResultIsRebuilt DEF RebuiltAsFused
  <2>2. TopologicalList(result.nodes)
    BY <2>1, StoreOrdered DEF TopologicalList
  <2> QED
    BY <2>1, <2>2
<1> QED
  BY <1>1, EngineInvariance, PTL

(* Interning the reduced nodes merges none of them, so the node count of the *)
(* report, taken before it, is the count of the reduced store.               *)
THEOREM ReportCountsRebuiltAlways == Spec => []ReportCountsRebuilt
<1>1. RequestInv /\ PassesInv /\ EngineInv => ReportCountsRebuilt
  <2> SUFFICES ASSUME RequestInv, PassesInv, EngineInv, phase = "done", ~ StagesMeetOps
               PROVE  LET red == StageFusion(arena, kept, Cse(canonical), mode)
                      IN Len(result.nodes) = Len(red.nodes)
                         /\ Len(red.nodes) = red.stages + red.boundaries
    BY DEF ReportCountsRebuilt, Done
  <2> QED
    BY ResultIsRebuilt DEF RebuiltAsFused
<1> QED
  BY <1>1, EngineInvariance, PTL

(* The engine merges nothing of a store without ops: no rule matches it. *)
LEMMA WholeStoreUnmerged ==
  ASSUME RequestInv, PassesInv, phase # "record", WholeStore(kept, arena), TokensNameOperators
  PROVE  Fixes(class, kept)
<1> DEFINE D == DOMAIN kept.node
           id == [i \in D |-> i]
<1>1. StoreList(arena) /\ KeysOnce(arena) /\ GraphOf(kept, arena)
  BY KeptIsStored DEF RequestInv, ArenaTyped
<1>2. NoTwins(kept)
  <2>1. TokensName(kept, arena)
    BY DEF TokensNameOperators, TokensName
  <2> QED
    BY <1>1, <2>1, WholeStoreTwinless
<1>3. Lawful(id)
  <2> SUFFICES ASSUME NEW i \in D, NEW j \in D, Equal(kept, id, i, j)
               PROVE  i = j
    BY DEF Lawful
  <2>1. kept.node[i].token[1] # "op"
    BY DEF WholeStore, Boundary, BoundaryToken
  <2>2. ~ Commuted(kept, id, i, j)
    BY <2>1 DEF Commuted, SymmetricToken
  <2>3. ~ IsIdentityOf(kept, i, j)
    BY <2>1, IdentityTokens DEF IsIdentityOf
  <2>4. Congruent(kept, id, i, j)
    BY <2>2, <2>3, Zenon DEF Equal
  <2>5. ASSUME NEW k \in D
        PROVE  Through(id, kept.node[k].inputs) = kept.node[k].inputs
    <3>1. /\ kept.node[k].inputs \in Seq(Nat)
          /\ \A n \in DOMAIN kept.node[k].inputs : kept.node[k].inputs[n] \in D
      BY <1>1, GraphNode
    <3>2. \A x \in ToSet(kept.node[k].inputs) : id[x] = x
      BY <3>1 DEF ToSet
    <3> QED
      BY <3>1, <3>2, ThroughIdentity
  <2> HIDE DEF id
  <2>6. kept.node[i].inputs = kept.node[j].inputs /\ kept.node[i].token = kept.node[j].token
    BY <2>4, <2>5 DEF Congruent
  <2> QED
    BY <1>2, <2>6 DEF NoTwins
<1>4. id \in [D -> D]
  OBVIOUS
<1>5. \A i, j \in D : class[i] = class[j] => i = j
  <2>1. \A i, j \in D : class[i] = class[j] => id[i] = id[j]
    <3> HIDE DEF id
    <3> QED
      BY <1>3, <1>4 DEF RequestInv, MergesForced
  <2> QED
    BY <2>1
<1>6. \A i \in D : class[i] \in D /\ class[class[i]] = class[i]
  BY DEF RequestInv, ClassIsEarliest
<1> QED
  BY <1>5, <1>6 DEF Fixes

(* A reduced store is a fixpoint: a store without ops and dead nodes, however *)
(* it came about, is reduced to itself, id for id, in both fusion modes.      *)
THEOREM ReducedIsFixpointAlways == Spec => []ReducedIsFixpoint
<1>1. RequestInv /\ PassesInv => ReducedIsFixpoint
  <2> SUFFICES ASSUME RequestInv, PassesInv, phase = "done", TokensNameOperators,
                      DOMAIN kept.node = IdsOf(arena),
                      \A n \in DOMAIN arena : arena[n].kind # "op"
               PROVE  result.nodes = arena /\ result.places = outs
    BY DEF ReducedIsFixpoint, Done
  <2>1. /\ StoreList(arena) /\ KeysOnce(arena) /\ GraphOf(kept, arena)
        /\ kept.outs = outs /\ \A n \in DOMAIN outs : outs[n] \in DOMAIN kept.node
    BY KeptIsStored DEF RequestInv, ArenaTyped
  <2>2. outs \in Seq(DOMAIN kept.node)
    <3>1. DOMAIN outs = 1 .. Len(outs) /\ Len(outs) \in Nat
          /\ outs = [n \in 1 .. Len(outs) |-> outs[n]]
      BY DEF PassesInv
    <3>2. outs \in [1 .. Len(outs) -> DOMAIN kept.node]
      BY <2>1, <3>1
    <3> QED
      BY <3>1, <3>2, SeqDef
  <2>3. WholeStore(kept, arena)
    <3>1. kept = ToEngineGraph(arena, outs)
      BY DEF PassesInv
    <3>2. \A i \in DOMAIN kept.node : kept.node[i].inputs = arena[i + 1].inputs
      BY <3>1 DEF ToEngineGraph
    <3>3. \A i \in DOMAIN kept.node : Boundary(kept, i)
      <4> SUFFICES ASSUME NEW i \in DOMAIN kept.node
                   PROVE  kept.node[i].token[1] # "op"
        BY DEF Boundary, BoundaryToken
      <4>1. i + 1 \in DOMAIN arena
        BY <2>1 DEF IdsOf, StoreList, InputsBefore
      <4> QED
        BY <4>1, KeptKind
    <3> QED
      BY <2>1, <2>2, <3>2, <3>3 DEF WholeStore
  <2>4. Fixes(class, kept)
    BY <2>3, WholeStoreUnmerged
  <2>5. canonical = Quotient(kept, class) /\ result = Finish(arena, kept, canonical, mode)
    BY DEF RequestInv, ExtractedIsQuotient, PassesInv
  <2>6. SameGraph(canonical, kept) /\ GraphOf(canonical, arena)
    <3>1. OutputsKnown(kept) /\ class \in [DOMAIN kept.node -> DOMAIN kept.node]
      BY <2>1, <2>2 DEF OutputsKnown, RequestInv, ClassIsEarliest
    <3> QED
      BY <2>1, <2>4, <2>5, <3>1, QuotientByIdentity
  <2>7. WholeStore(canonical, arena) /\ canonical.outs = outs
        /\ DOMAIN canonical.node \subseteq DOMAIN kept.node
    BY <2>1, <2>3, <2>6 DEF WholeStore, SameGraph, Boundary
  <2>8. mode \in FusionModes /\ TokensName(kept, arena)
    BY DEF RequestInv, TypeOK, TokensNameOperators, TokensName
  <2>9. /\ Finish(arena, kept, canonical, mode).nodes = arena
        /\ Finish(arena, kept, canonical, mode).places = canonical.outs
    BY <2>1, <2>7, <2>8, WholeStoreFixed
  <2> QED
    BY <2>5, <2>7, <2>9
<1> QED
  BY <1>1, Invariance, PTL

-----------------------------------------------------------------------------
\* egg is done when its graph is extracted, and its classes stay.
RebuiltInv == phase \in {"extracted", "done"} => Rebuilt

(* Every step keeps the classes closed that were extracted. *)
LEMMA RebuiltKeeps ==
  ASSUME RebuiltInv, [Next]_vars
  PROVE  RebuiltInv'
<1>1. CASE Record
  BY <1>1 DEF Record, RebuiltInv
<1>2. CASE \E os \in SeqOf(IdsOf(arena), MaxOutputs), m \in Modes : Request(os, m)
  BY <1>2 DEF Request, RebuiltInv
<1>3. CASE \E i, j \in DOMAIN kept.node : MergeClasses(i, j)
  BY <1>3 DEF MergeClasses, RebuiltInv
<1>4. CASE Extract
  BY <1>4 DEF Extract, RebuiltInv, Rebuilt
<1>5. CASE FuseAndRebuild
  BY <1>5 DEF FuseAndRebuild, RebuiltInv, Rebuilt
<1>6. CASE RecordOn
  BY <1>6 DEF RecordOn, Forget, RebuiltInv
<1>7. CASE ReduceAgain
  BY <1>7 DEF ReduceAgain, Forget, RebuiltInv
<1>8. CASE UNCHANGED vars
  BY <1>8 DEF vars, RebuiltInv, Rebuilt
<1> QED
  BY <1>1, <1>2, <1>3, <1>4, <1>5, <1>6, <1>7, <1>8 DEF Next

(* Fusion neither drops nor repeats work: counting the members of stages, *)
(* the reduced store has as many nodes as the engine extracted, in both   *)
(* fusion modes.                                                          *)
THEOREM EachNodeOnceAlways == Spec => []EachNodeOnce
<1>1. Init => RebuiltInv
  BY DEF Init, RebuiltInv
<1>2. RequestInv /\ PassesInv /\ EngineInv /\ RebuiltInv => EachNodeOnce
  <2> SUFFICES ASSUME RequestInv, PassesInv, EngineInv, RebuiltInv, phase = "done",
                      ~ StagesMeetOps
               PROVE  SumFunction([i \in DOMAIN canonical.node |-> TokenSize(canonical.node[i].token)])
                        = FoldLeft(LAMBDA sum, key : sum + KeySize(key), 0, result.nodes)
    BY DEF EachNodeOnce, Done, TokenSize, KeySize
  <2>1. /\ StoreList(arena) /\ GraphOf(kept, arena) /\ kept.outs = outs
        /\ \A n \in DOMAIN outs : outs[n] \in DOMAIN kept.node
    BY KeptIsStored
  <2>2. /\ class \in [DOMAIN kept.node -> DOMAIN kept.node]
        /\ \A i \in DOMAIN kept.node : class[i] <= i /\ class[class[i]] = class[i]
    BY DEF RequestInv, ClassIsEarliest
  <2>3. canonical = Quotient(kept, class)
    BY DEF RequestInv, ExtractedIsQuotient
  <2>4. /\ DOMAIN canonical.node = {k \in DOMAIN kept.node : class[k] = k}
        /\ GraphOf(canonical, arena)
        /\ \A i \in DOMAIN canonical.node :
             /\ canonical.node[i].inputs = Through(class, kept.node[i].inputs)
             /\ canonical.node[i].token = kept.node[i].token
    <3>1. /\ DOMAIN Quotient(kept, class).node = {k \in DOMAIN kept.node : class[k] = k}
          /\ GraphOf(Quotient(kept, class), arena)
          /\ \A i \in DOMAIN Quotient(kept, class).node :
               Quotient(kept, class).node[i].inputs = Through(class, kept.node[i].inputs)
      BY <2>1, <2>2, QuotientIsGraph
    <3> QED
      BY <2>1, <2>3, <3>1 DEF GraphOf
  <2>5. NoTwins(canonical)
    <3>1. Rebuilt
      BY DEF RebuiltInv
    <3> QED
      BY <2>4, <3>1 DEF NoTwins, Rebuilt, Congruent
  <2>6. SameGraph(Cse(canonical), canonical) /\ GraphOf(Cse(canonical), arena)
    <3>1. canonical.outs \in Seq(DOMAIN canonical.node)
      <4>1. DOMAIN outs = 1 .. Len(outs) /\ Len(outs) \in Nat
        BY DEF PassesInv
      <4>2. canonical.outs = [n \in 1 .. Len(outs) |-> class[outs[n]]]
        BY <2>1, <2>3, <4>1 DEF Through, Quotient
      <4>3. \A n \in 1 .. Len(outs) : class[outs[n]] \in DOMAIN canonical.node
        BY <2>1, <2>2, <2>4, <4>1
      <4>4. canonical.outs \in [1 .. Len(outs) -> DOMAIN canonical.node]
        BY <4>2, <4>3
      <4> QED
        BY <4>1, <4>4, SeqDef
    <3> QED
      BY <2>1, <2>4, <2>5, <3>1, CseKeepsTwinless
  <2> DEFINE g == Cse(canonical)
  <2>7. [i \in DOMAIN g.node |-> TokenSize(g.node[i].token)]
          = [i \in DOMAIN canonical.node |-> TokenSize(canonical.node[i].token)]
    BY <2>6 DEF SameGraph
  <2>8. result.nodes = StageFusion(arena, kept, g, mode).nodes
    BY ResultIsRebuilt DEF RebuiltAsFused
  <2>9. mode \in FusionModes /\ DOMAIN g.node \subseteq DOMAIN kept.node /\ GraphOf(g, arena)
    BY <2>4, <2>6 DEF RequestInv, TypeOK, SameGraph
  <2> HIDE DEF g
  <2>10. SumFunction([i \in DOMAIN g.node |-> TokenSize(g.node[i].token)])
           = FoldLeft(LAMBDA sum, key : sum + KeySize(key), 0,
                      StageFusion(arena, kept, g, mode).nodes)
    BY <2>1, <2>9, FusionKeepsSize
  <2> QED
    BY <2>7, <2>8, <2>10
<1>3. RebuiltInv /\ [Next]_vars => RebuiltInv'
  BY RebuiltKeeps
<1> QED
  BY <1>1, <1>2, <1>3, EngineInvariance, PTL DEF Spec
=============================================================================
