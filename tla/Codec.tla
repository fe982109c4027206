------------------------------- MODULE Codec -------------------------------
(***************************************************************************)
(* The canonical form of a graph and its decoder (serialize.rs).           *)
(*                                                                         *)
(* The wire is a sequence of items: the magic, the number of nodes, the    *)
(* nodes in id order, the number of outputs, the outputs.  A node item     *)
(* holds the fields of its key, written and read one after the other with  *)
(* their lengths; the bytes of a field are left out, so a wire that ends   *)
(* inside an item is one that ends before it: the decoder says Truncated   *)
(* for both.  Here names, descriptors and member tokens are texts and      *)
(* parameters are maps (Params).                                           *)
(*                                                                         *)
(* The decoder is a machine that takes the next item or gives up.          *)
(***************************************************************************)
EXTENDS NodeKeys, Params

CONSTANTS MAGIC,       \* of this version
          OtherMagic   \* of another

ASSUME MagicsDiffer == MAGIC # OtherMagic

VARIABLES rest,      \* what the decoder has not read yet
          phase,     \* what it reads next, or how it ended
          due,       \* how many items of the kind it reads were announced
          read,      \* how many of them it has read
          loaded,    \* the nodes of the store it builds
          marks      \* the outputs of that store

loaderVars == <<rest, phase, due, read, loaded, marks>>

StageKey(members, inputs) == NodeKey("stage", <<>>, <<>>, <<>>, members, inputs)

\* Keys are equal when they are up to the floats of their parameters.
Identity(key) == [key EXCEPT !.params = CanonicalMap(@)]

AllBelow(ids, n) == \A j \in DOMAIN ids : ids[j] < n

\* Get-or-insert in a store that holds nodes: the first key of an identity stays.
Intern(nodes, key) ==
  IF \E n \in DOMAIN nodes : Identity(nodes[n]) = Identity(key)
  THEN nodes ELSE Append(nodes, key)

IdOf(nodes, key) ==
  (CHOOSE n \in DOMAIN nodes : Identity(nodes[n]) = Identity(key)) - 1

Mark(outs, id) == IF Contains(outs, id) THEN outs ELSE Append(outs, id)

-----------------------------------------------------------------------------
(* The writer.                                                             *)

\* Mutant: floats are written as interning sees them.
EncodeCanonical(nodes, outs) ==
  << <<"magic", MAGIC>>, <<"nodes", Len(nodes)>> >>
    \o [n \in DOMAIN nodes |-> <<"node", Identity(nodes[n])>>]
    \o << <<"outs", Len(outs)>> >> \o [n \in DOMAIN outs |-> <<"out", outs[n]>>]

\* serialize_with: floats go out with their own bits, outputs as requested.
Encode(nodes, outs) ==
  << <<"magic", MAGIC>>, <<"nodes", Len(nodes)>> >>
    \o [n \in DOMAIN nodes |-> <<"node", nodes[n]>>]
    \o << <<"outs", Len(outs)>> >> \o [n \in DOMAIN outs |-> <<"out", outs[n]>>]

-----------------------------------------------------------------------------
(* The decoder.                                                            *)

Idle ==
  /\ rest = <<>> /\ phase = "idle" /\ due = 0 /\ read = 0
  /\ loaded = <<>> /\ marks = <<>>

\* deserialize(wire), on a new store.
StartLoad(wire) ==
  /\ rest' = wire /\ phase' = "magic" /\ due' = 0 /\ read' = 0
  /\ loaded' = <<>> /\ marks' = <<>>

Item == Head(rest)[2]
HasItem == rest # <<>>
Advance(to) == rest' = Tail(rest) /\ phase' = to
Fail(error) == phase' = error /\ UNCHANGED <<rest, due, read, loaded, marks>>

Errors == {"BadMagic", "Truncated", "BadNodeRef"}

\* An item is still to come and there is none.
EndsEarly ==
  /\ phase \in {"magic", "count", "nodes", "outs"}
  /\ ~ (phase = "outs" /\ read = due)
  /\ ~ HasItem
  /\ Fail("Truncated")

ReadMagic ==
  /\ phase = "magic" /\ HasItem
  /\ Item = MAGIC
  /\ Advance("count")
  /\ UNCHANGED <<due, read, loaded, marks>>

RefuseMagic ==
  /\ phase = "magic" /\ HasItem
  /\ Item # MAGIC
  /\ Fail("BadMagic")

\* How many nodes there are, and once these are read, how many outputs.
ReadCount ==
  /\ HasItem
  /\ \/ phase = "count" /\ Advance("nodes")
     \/ phase = "nodes" /\ read = due /\ Advance("outs")
  /\ due' = Item /\ read' = 0
  /\ UNCHANGED <<loaded, marks>>

\* The reader's checks: inputs are earlier nodes of the wire, a stage member
\* refers to earlier members.
RefsBackward(key) ==
  /\ AllBelow(key.inputs, read)
  /\ \A m \in DOMAIN key.members : \A j \in DOMAIN key.members[m].inputs :
       LET ref == key.members[m].inputs[j]
       IN ref[1] = "member" => ref[2] < m - 1

\* Mutant: what the reader has checked the store does not check again.
KnownToReader(key) == RefsBackward(key)

\* The store's own check: inputs are ids it has given out, which are fewer
\* than the nodes read when two of them were one.
AcceptsNode(key) == RefsBackward(key) /\ AllBelow(key.inputs, Len(loaded))

\* ParamMap::new sorts again what it reads.
NodeOf(item) ==
  NodeKey(item.kind, item.name, ParamMap(item.params), item.prep, item.members,
          item.inputs)

ReadNode ==
  /\ phase = "nodes" /\ read < due /\ HasItem
  /\ AcceptsNode(Item)
  /\ loaded' = Intern(loaded, NodeOf(Item))
  /\ Advance("nodes")
  /\ read' = read + 1
  /\ UNCHANGED <<due, marks>>

RefuseNode ==
  /\ phase = "nodes" /\ read < due /\ HasItem
  /\ ~ AcceptsNode(Item)
  /\ Fail("BadNodeRef")

ReadOutput ==
  /\ phase = "outs" /\ read < due /\ HasItem
  /\ Item < Len(loaded)
  /\ marks' = Mark(marks, Item)
  /\ Advance("outs")
  /\ read' = read + 1
  /\ UNCHANGED <<due, loaded>>

RefuseOutput ==
  /\ phase = "outs" /\ read < due /\ HasItem
  /\ Item >= Len(loaded)
  /\ Fail("BadNodeRef")

\* The store is returned; items that follow are not looked at.
EndLoad ==
  /\ phase = "outs" /\ read = due
  /\ phase' = "loaded"
  /\ UNCHANGED <<rest, due, read, loaded, marks>>

Load ==
  \/ EndsEarly \/ ReadMagic \/ RefuseMagic \/ ReadCount \/ ReadNode
  \/ RefuseNode \/ ReadOutput \/ RefuseOutput \/ EndLoad

-----------------------------------------------------------------------------
(* nodes: the structured view of a store.  A stage is shown with the       *)
(* members its tokens decode to, and one that does not decode fails the    *)
(* call.                                                                   *)

MemberView(m) ==
  Mapped(ParseOpToken(m.token),
         LAMBDA op : [kind |-> op.kind, name |-> op.name,
                      params |-> ParamsToPy(op.params), inputs |-> m.inputs])

NodeView(key, isOutput) ==
  Mapped(AllOrNone([m \in DOMAIN key.members |-> MemberView(key.members[m])]),
         LAMBDA members :
           [kind |-> key.kind, name |-> key.name, prep |-> key.prep,
            params |-> ParamsToPy(key.params), inputs |-> key.inputs,
            output |-> isOutput, members |-> members])

NodesView(nodes, outs) ==
  AllOrNone([n \in DOMAIN nodes |-> NodeView(nodes[n], Contains(outs, n - 1))])

-----------------------------------------------------------------------------
\* Whatever the wire was, the store that is built from it is a graph: its keys
\* are different, its inputs are earlier ids, its outputs are ids, each once.
LoadedIsGraph ==
  /\ \A m, n \in DOMAIN loaded : Identity(loaded[m]) = Identity(loaded[n]) => m = n
  /\ \A n \in DOMAIN loaded : AllBelow(loaded[n].inputs, n - 1)
  /\ AllBelow(marks, Len(loaded))
  /\ \A m, n \in DOMAIN marks : marks[m] = marks[n] => m = n
=============================================================================
