----------------------------- MODULE Partitions -----------------------------
(***************************************************************************)
(* How the input of an analysis is cut into partitions (plan.py,           *)
(* execution.py): chunks of a known number of entries, or blind steps of a *)
(* file nobody has opened yet, which become entries when they are read.    *)
(* A uri stands for a file and the tree within it.                         *)
(***************************************************************************)
EXTENDS Integers, Sequences

CONSTANTS Uris, NumEntries    \* the files and how many entries each has

ASSUME EntriesAreCounts == NumEntries \in [Uris -> Nat]

VARIABLES asked,   \* the files to partition, in order
          at,      \* which of them the loop is at
          start,   \* where its next chunk starts
          size,    \* the chunk size
          tasks    \* the partitions made so far

plannerVars == <<asked, at, start, size, tasks>>

\* blind is <<>>, or the step and the number of steps.
Partition(uri, first, stop, blind) ==
  [uri |-> uri, entry_start |-> first, entry_stop |-> stop, blind |-> blind]

Blind(uri, step, steps) == Partition(uri, 0, 0, <<step, steps>>)

\* Mutant: every step has the same share and nobody takes the rest.
ResolveShare(p, entries) ==
  IF p.blind = <<>> THEN p
  ELSE Partition(p.uri, p.blind[1] * (entries \div p.blind[2]),
                 (p.blind[1] + 1) * (entries \div p.blind[2]), <<>>)

Resolve(p, entries) ==
  IF p.blind = <<>> THEN p
  ELSE Partition(p.uri, (p.blind[1] * entries) \div p.blind[2],
                 ((p.blind[1] + 1) * entries) \div p.blind[2], <<>>)

\* Who reads partition p of file u reads its entry e.
Reads(p, u, e) ==
  LET r == Resolve(p, NumEntries[u])
  IN p.uri = u /\ r.entry_start <= e /\ e < r.entry_stop

\* Mutant: the blind fields are not written.
JsonRange(p) ==
  [uri |-> p.uri, range |-> <<p.entry_start, p.entry_stop>>, steps |-> <<>>]

\* The JSON form; the blind fields are there only when both are set.
Json(p) ==
  [uri |-> p.uri, range |-> <<p.entry_start, p.entry_stop>>, steps |-> p.blind]

FromJson(d) ==
  IF d.steps # <<>> THEN Blind(d.uri, d.steps[1], d.steps[2])
  ELSE Partition(d.uri, d.range[1], d.range[2], <<>>)

-----------------------------------------------------------------------------
Unplanned == asked = <<>> /\ at = 1 /\ start = 0 /\ size = 1 /\ tasks = <<>>

\* partition_datasets; other chunk sizes are refused.
PlanChunks(uris, chunkSize) ==
  /\ chunkSize > 0
  /\ asked' = uris /\ at' = 1 /\ start' = 0 /\ size' = chunkSize /\ tasks' = <<>>

\* One partition per step, each made with Partition.blind.
PlanBlind(uri, steps) ==
  /\ steps >= 1
  /\ asked' = <<uri>> /\ at' = 2 /\ start' = 0 /\ size' = 1
  /\ tasks' = [n \in 1 .. steps |-> Blind(uri, n - 1, steps)]

NextChunk ==
  /\ at <= Len(asked)
  /\ start < NumEntries[asked[at]]
  /\ LET stop == IF start + size < NumEntries[asked[at]] THEN start + size
                 ELSE NumEntries[asked[at]]
     IN /\ tasks' = Append(tasks, Partition(asked[at], start, stop, <<>>))
        /\ start' = stop
  /\ UNCHANGED <<asked, at, size>>

NextDataset ==
  /\ at <= Len(asked)
  /\ start >= NumEntries[asked[at]]
  /\ at' = at + 1 /\ start' = 0
  /\ UNCHANGED <<asked, size, tasks>>

Split == NextChunk \/ NextDataset

Planned == at > Len(asked)

-----------------------------------------------------------------------------
\* The partitions of list read every entry of every file asked for, each
\* once, and nothing beyond the end of a file.
ReadOnce(list) ==
  \A n \in DOMAIN asked : \A e \in 0 .. NumEntries[asked[n]] :
    LET readers == {m \in DOMAIN list : Reads(list[m], asked[n], e)}
    IN IF e = NumEntries[asked[n]] THEN readers = {}
       ELSE \E m \in readers : readers = {m}
=============================================================================
