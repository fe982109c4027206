---------------------------- MODULE InternTable ----------------------------
(***************************************************************************)
(* What the graph store promises its callers, with no lock and no intern   *)
(* table: an append-only arena in which get-or-insert is one indivisible   *)
(* decision somewhere between the call and the return, and an ordered set  *)
(* of marked outputs.  Ids are positions in the arena, counted from 0.     *)
(***************************************************************************)
EXTENDS Naturals, Sequences, SequencesExt

CONSTANTS Threads,   \* the callers
          Keys,      \* the keys they may intern; each has a field "inputs"
          NoKey      \* the argument of a thread that never called

VARIABLES arena, marks,
          phase,     \* per thread: "idle", "pending" or "done"
          key,       \* per thread: the key being interned
          reply      \* per thread: what the last intern answered

vars == <<arena, marks, phase, key, reply>>

None == [tag |-> "none", id |-> 0]
Ok(i) == [tag |-> "ok", id |-> i]
Bad(i) == [tag |-> "bad", id |-> i]

Init ==
  /\ arena = <<>>
  /\ marks = <<>>
  /\ phase = [t \in Threads |-> "idle"]
  /\ key = [t \in Threads |-> NoKey]
  /\ reply = [t \in Threads |-> None]

Call(t, k) ==
  /\ phase[t] = "idle"
  /\ phase' = [phase EXCEPT ![t] = "pending"]
  /\ key' = [key EXCEPT ![t] = k]
  /\ reply' = [reply EXCEPT ![t] = None]
  /\ UNCHANGED <<arena, marks>>

\* Some input is not an id yet: the reply names the first such input.
Refuse(t) ==
  \E j \in DOMAIN key[t].inputs :
    /\ key[t].inputs[j] >= Len(arena)
    /\ \A h \in 1 .. (j - 1) : key[t].inputs[h] < Len(arena)
    /\ reply' = [reply EXCEPT ![t] = Bad(key[t].inputs[j])]
    /\ UNCHANGED arena

InputsKnown(t) == \A j \in DOMAIN key[t].inputs : key[t].inputs[j] < Len(arena)

Find(t) ==
  /\ InputsKnown(t)
  /\ \E n \in DOMAIN arena :
       /\ arena[n] = key[t]
       /\ reply' = [reply EXCEPT ![t] = Ok(n - 1)]
  /\ UNCHANGED arena

Create(t) ==
  /\ InputsKnown(t)
  /\ \A n \in DOMAIN arena : arena[n] # key[t]
  /\ arena' = Append(arena, key[t])
  /\ reply' = [reply EXCEPT ![t] = Ok(Len(arena))]

Decide(t) ==
  /\ phase[t] = "pending"
  /\ Refuse(t) \/ Find(t) \/ Create(t)
  /\ phase' = [phase EXCEPT ![t] = "done"]
  /\ UNCHANGED <<marks, key>>

Return(t) ==
  /\ phase[t] = "done"
  /\ phase' = [phase EXCEPT ![t] = "idle"]
  /\ UNCHANGED <<arena, marks, key, reply>>

Mark(i) ==
  /\ i < Len(arena)
  /\ ~ Contains(marks, i)
  /\ marks' = Append(marks, i)
  /\ UNCHANGED <<arena, phase, key, reply>>

Next ==
  \/ \E t \in Threads : (\E k \in Keys : Call(t, k)) \/ Decide(t) \/ Return(t)
  \/ \E i \in 0 .. (Len(arena) - 1) : Mark(i)

Spec == Init /\ [][Next]_vars
=============================================================================
