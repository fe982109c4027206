-------------------------- MODULE DeploymentProofs --------------------------
(***************************************************************************)
(* Proofs about a deployment, for any vocabulary, bounds and input.        *)
(* However the input is cut, in chunks of any size or in any number of     *)
(* blind steps, every entry is read by exactly one task of the worker:     *)
(* chunks cover what the loop has passed, and integer division cuts a file *)
(* into steps that meet.  Whatever bytes arrive, the store the worker      *)
(* builds from them is a graph; it is the graph that was sent when they    *)
(* arrive unharmed, and none is built when they were cut.  What the worker *)
(* lists of it is what the client recorded, and its tasks have one id      *)
(* exactly when they do the same work on the same graph.                   *)
(***************************************************************************)
EXTENDS Deployment, ParamsProofs

-----------------------------------------------------------------------------
(* The input. *)

\* What \div is.
LEMMA DivBounds ==
  ASSUME NEW a \in Nat, NEW n \in Nat \ {0}
  PROVE  /\ a \div n \in Nat
         /\ n * (a \div n) <= a
         /\ a < n * (a \div n) + n
  BY Z3

\* Products grow with their second factor.
LEMMA MulMonotone ==
  ASSUME NEW n \in Nat, NEW x \in Int, NEW y \in Int, x <= y
  PROVE  n * x <= n * y
  BY Z3

\* A quotient is at least x exactly when the product fits.
LEMMA DivAtLeast ==
  ASSUME NEW a \in Nat, NEW n \in Nat \ {0}, NEW x \in Nat
  PROVE  x <= a \div n <=> n * x <= a
<1> DEFINE q == a \div n
<1>1. q \in Nat /\ n * q <= a /\ a < n * q + n
  BY DivBounds
<1>2. n * x \in Nat /\ n * q \in Nat /\ n * (q + 1) = n * q + n
  BY <1>1, Z3
<1>3. CASE x <= q
  <2>1. n * x <= n * q
    BY <1>1, <1>3, MulMonotone
  <2> QED BY <1>1, <1>2, <1>3, <2>1
<1>4. CASE q + 1 <= x
  <2>1. n * (q + 1) <= n * x
    BY <1>1, <1>4, MulMonotone
  <2>2. ~ (x <= q)
    BY <1>1, <1>4
  <2> QED BY <1>1, <1>2, <2>1, <2>2
<1> QED BY <1>1, <1>3, <1>4

\* Some step has entry e: the one that holds its share of the file.
LEMMA SomeStepReads ==
  ASSUME NEW entries \in Nat, NEW steps \in Nat \ {0}, NEW e \in Nat, e < entries
  PROVE  \E s \in 0 .. (steps - 1) :
           /\ (s * entries) \div steps <= e
           /\ e < ((s + 1) * entries) \div steps
<1> DEFINE share == steps * (e + 1)
           s == (share - 1) \div entries
<1>1. share \in Nat /\ share >= 1
  BY Z3
<1>2. s \in Nat /\ entries * s <= share - 1 /\ share - 1 < entries * s + entries
  BY <1>1, DivBounds
<1>3. /\ entries * s \in Nat /\ s * entries = entries * s
      /\ (s + 1) * entries = entries * s + entries
  BY <1>2, Z3
<1>4. s < steps
  <2>1. share <= steps * entries
    BY MulMonotone
  <2>2. entries * steps = steps * entries /\ steps * entries \in Nat
    BY Z3
  <2>3. SUFFICES ASSUME steps <= s PROVE FALSE
    BY <1>2
  <2>4. entries * steps <= entries * s
    BY <1>2, <2>3, MulMonotone
  <2> HIDE DEF share, s
  <2> QED BY <1>1, <1>2, <1>3, <2>1, <2>2, <2>4
<1>5. ~ (e + 1 <= (s * entries) \div steps)
  <2>1. e + 1 <= (s * entries) \div steps <=> share <= s * entries
    BY <1>3, DivAtLeast
  <2> HIDE DEF share, s
  <2> QED BY <1>1, <1>2, <1>3, <2>1
<1>6. e + 1 <= ((s + 1) * entries) \div steps
  <2>1. (s + 1) * entries \in Nat
    BY <1>3
  <2>2. e + 1 <= ((s + 1) * entries) \div steps <=> share <= (s + 1) * entries
    BY SMTT(30), <2>1, DivAtLeast
  <2> HIDE DEF share, s
  <2> QED BY <1>1, <1>2, <1>3, <2>2
<1>7. (s * entries) \div steps \in Nat /\ ((s + 1) * entries) \div steps \in Nat
  <2>1. s * entries \in Nat /\ (s + 1) * entries \in Nat
    BY <1>3
  <2> QED BY <2>1, DivBounds
<1> HIDE DEF share, s
<1>8. s \in 0 .. (steps - 1)
  BY <1>2, <1>4
<1>9. (s * entries) \div steps <= e /\ e < ((s + 1) * entries) \div steps
  BY <1>5, <1>6, <1>7
<1> QED BY <1>8, <1>9, Zenon

\* Boundaries do not decrease, so two steps that have entry e are one.
LEMMA OneStepReads ==
  ASSUME NEW entries \in Nat, NEW steps \in Nat \ {0}, NEW e \in Nat,
         NEW s \in Nat, NEW t \in Nat,
         (t * entries) \div steps <= e, e < ((s + 1) * entries) \div steps
  PROVE  t <= s
<1> SUFFICES ASSUME s + 1 <= t PROVE FALSE
  OBVIOUS
<1>1. entries * (s + 1) <= entries * t
  BY MulMonotone
<1>2. (s + 1) * entries \in Nat /\ t * entries \in Nat /\ (s + 1) * entries <= t * entries
  BY <1>1, Z3
<1>3. ((s + 1) * entries) \div steps >= e + 1 /\ (t * entries) \div steps \in Nat
  BY <1>2, DivBounds
<1>4. steps * (e + 1) <= (s + 1) * entries
  BY <1>2, <1>3, DivAtLeast
<1>5. steps * (e + 1) \in Nat
  BY Z3
<1>6. e + 1 <= (t * entries) \div steps
  BY <1>2, <1>4, <1>5, DivAtLeast
<1> QED BY <1>3, <1>6

\* No step goes beyond the end of the file.
LEMMA StepsEnd ==
  ASSUME NEW entries \in Nat, NEW steps \in Nat \ {0}, NEW s \in 0 .. (steps - 1)
  PROVE  ((s + 1) * entries) \div steps <= entries
<1> DEFINE q == ((s + 1) * entries) \div steps
<1>1. (s + 1) * entries \in Nat /\ (s + 1) * entries <= steps * entries
  <2>1. entries * (s + 1) <= entries * steps
    BY MulMonotone
  <2> QED BY <2>1, Z3
<1>2. q \in Nat
  BY <1>1, DivBounds
<1>3. steps * q <= (s + 1) * entries
  BY <1>1, DivBounds
<1>4. SUFFICES ASSUME entries + 1 <= q PROVE FALSE
  BY <1>2
<1>5. steps * (entries + 1) <= steps * q
  BY <1>2, <1>4, MulMonotone
<1>6. steps * (entries + 1) = steps * entries + steps /\ steps * entries \in Nat
  BY Z3
<1>7. steps * q \in Nat
  BY <1>2, Z3
<1> HIDE DEF q
<1> QED BY <1>1, <1>3, <1>5, <1>6, <1>7

-----------------------------------------------------------------------------
(* The loop over the datasets.                                             *)

PartitionSet ==
  [uri : Uris, entry_start : Nat, entry_stop : Nat,
   blind : {<<>>} \union (Nat \X (Nat \ {0}))]

\* How far the n-th file is cut.
Upto(n) ==
  IF n < at THEN NumEntries[asked[n]] ELSE IF n = at THEN start ELSE 0

\* The partitions made so far read each entry up to there once, and no other.
Tiled ==
  \A n \in DOMAIN asked : \A e \in Nat :
    /\ e < Upto(n) => \E m \in DOMAIN tasks : Reads(tasks[m], asked[n], e)
    /\ \A m \in DOMAIN tasks : Reads(tasks[m], asked[n], e) => e < Upto(n)
    /\ \A l, m \in DOMAIN tasks :
         Reads(tasks[l], asked[n], e) /\ Reads(tasks[m], asked[n], e) => l = m

\* No file is listed twice.
Distinct(list) == \A m, n \in DOMAIN list : list[m] = list[n] => m = n

\* The state of the planner: what it was asked, where it is, and its partitions.
PlannerInv ==
  /\ asked \in Seq(Uris) /\ Distinct(asked)
  /\ at \in 1 .. (Len(asked) + 1)
  /\ start \in Nat /\ size \in Nat \ {0}
  /\ at <= Len(asked) => start <= NumEntries[asked[at]]
  /\ tasks \in Seq(PartitionSet)
  /\ \A n \in DOMAIN tasks :
       tasks[n].blind # <<>> => tasks[n].entry_start = 0 /\ tasks[n].entry_stop = 0
  /\ Tiled

\* Before there is a plan, nothing is asked and nothing is cut.
LEMMA UnplannedInv == Unplanned => PlannerInv
<1> SUFFICES ASSUME Unplanned PROVE PlannerInv
  OBVIOUS
<1>1. asked = <<>> /\ at = 1 /\ start = 0 /\ size = 1 /\ tasks = <<>>
  BY DEF Unplanned
<1>2. asked \in Seq(Uris) /\ Len(asked) = 0 /\ DOMAIN asked = {} /\ tasks \in Seq(PartitionSet)
      /\ DOMAIN tasks = {}
  BY <1>1
<1> QED BY <1>1, <1>2 DEF PlannerInv, Tiled, Distinct

\* A plan of chunks starts with nothing cut.
LEMMA PlanChunksInv ==
  ASSUME NEW uris \in Seq(Uris), Distinct(uris), NEW n \in Int, PlanChunks(uris, n)
  PROVE  PlannerInv'
<1>1. asked' = uris /\ at' = 1 /\ start' = 0 /\ size' = n /\ n > 0 /\ tasks' = <<>>
  BY DEF PlanChunks
<1>2. tasks' \in Seq(PartitionSet) /\ DOMAIN tasks' = {} /\ Len(uris) \in Nat
      /\ DOMAIN uris = 1 .. Len(uris) /\ \A i \in DOMAIN uris : uris[i] \in Uris
  BY <1>1
<1>3. at' <= Len(asked') => start' <= NumEntries[asked'[at']]
  BY <1>1, <1>2, EntriesAreCounts
<1>4. Tiled'
  <2> SUFFICES ASSUME NEW i \in DOMAIN uris, NEW e \in Nat PROVE ~ (e < Upto(i)')
    BY <1>1, <1>2 DEF Tiled
  <2> QED BY <1>1, <1>2 DEF Upto
<1> QED BY <1>1, <1>2, <1>3, <1>4 DEF PlannerInv, Distinct

\* A plan of blind steps is complete at once: the steps meet and end with the file.
LEMMA PlanBlindInv ==
  ASSUME NEW uri \in Uris, NEW steps \in Int, PlanBlind(uri, steps)
  PROVE  PlannerInv'
<1> DEFINE entries == NumEntries[uri]
<1>1. /\ asked' = <<uri>> /\ at' = 2 /\ start' = 0 /\ size' = 1
      /\ steps \in Nat \ {0}
      /\ tasks' = [n \in 1 .. steps |-> Blind(uri, n - 1, steps)]
  BY DEF PlanBlind
<1>2. entries \in Nat
  BY EntriesAreCounts
<1>3. asked' \in Seq(Uris) /\ Len(asked') = 1 /\ DOMAIN asked' = {1} /\ asked'[1] = uri
  BY <1>1
<1>4. /\ tasks' \in Seq(PartitionSet) /\ DOMAIN tasks' = 1 .. steps
      /\ \A n \in 1 .. steps :
           tasks'[n] = [uri |-> uri, entry_start |-> 0, entry_stop |-> 0,
                        blind |-> <<n - 1, steps>>]
  <2>1. \A n \in 1 .. steps : Blind(uri, n - 1, steps) \in PartitionSet
    BY <1>1 DEF Blind, Partition, PartitionSet
  <2> QED BY <1>1, <2>1 DEF Blind, Partition
<1>5. ASSUME NEW n \in 1 .. steps, NEW e \in Nat
      PROVE  Reads(tasks'[n], uri, e) <=>
               /\ ((n - 1) * entries) \div steps <= e
               /\ e < (((n - 1) + 1) * entries) \div steps
  <2>1. <<n - 1, steps>> # <<>> /\ <<n - 1, steps>>[1] = n - 1 /\ <<n - 1, steps>>[2] = steps
    OBVIOUS
  <2> QED BY <1>4, <2>1 DEF Reads, Resolve, Partition
<1>6. Tiled'
  <2>1. Upto(1)' = entries
    BY <1>1, <1>3 DEF Upto
  <2> SUFFICES ASSUME NEW n \in DOMAIN asked', NEW e \in Nat
               PROVE  /\ e < Upto(n)' =>
                           \E m \in DOMAIN tasks' : Reads(tasks'[m], asked'[n], e)
                      /\ \A m \in DOMAIN tasks' :
                           Reads(tasks'[m], asked'[n], e) => e < Upto(n)'
                      /\ \A l, m \in DOMAIN tasks' :
                           Reads(tasks'[l], asked'[n], e) /\ Reads(tasks'[m], asked'[n], e)
                             => l = m
    BY DEF Tiled, Reads
  <2> SUFFICES /\ e < entries => \E m \in 1 .. steps : Reads(tasks'[m], uri, e)
               /\ \A m \in 1 .. steps : Reads(tasks'[m], uri, e) => e < entries
               /\ \A l, m \in 1 .. steps :
                    Reads(tasks'[l], uri, e) /\ Reads(tasks'[m], uri, e) => l = m
    BY <1>3, <1>4, <2>1
  <2>2. ASSUME e < entries PROVE \E m \in 1 .. steps : Reads(tasks'[m], uri, e)
    <3>1. PICK s \in 0 .. (steps - 1) :
            /\ (s * entries) \div steps <= e
            /\ e < ((s + 1) * entries) \div steps
      BY <1>1, <1>2, <2>2, SomeStepReads
    <3>2. s + 1 \in 1 .. steps /\ (s + 1) - 1 = s
      BY <1>1
    <3>3. Reads(tasks'[s + 1], uri, e)
      BY <1>5, <3>1, <3>2
    <3> QED BY <3>2, <3>3
  <2>3. ASSUME NEW m \in 1 .. steps, Reads(tasks'[m], uri, e) PROVE e < entries
    <3>1. m - 1 \in 0 .. (steps - 1) /\ ((m - 1) + 1) * entries \in Nat
      BY <1>1, <1>2, Z3
    <3>2. e < (((m - 1) + 1) * entries) \div steps
      BY <1>5, <2>3
    <3>3. (((m - 1) + 1) * entries) \div steps <= entries
      BY <1>1, <1>2, <3>1, StepsEnd
    <3>4. (((m - 1) + 1) * entries) \div steps \in Nat
      BY <1>1, <3>1, DivBounds
    <3> QED BY <1>2, <3>2, <3>3, <3>4
  <2>4. ASSUME NEW l \in 1 .. steps, NEW m \in 1 .. steps,
               Reads(tasks'[l], uri, e), Reads(tasks'[m], uri, e)
        PROVE  l <= m
    <3>1. l - 1 \in Nat /\ m - 1 \in Nat
      BY <1>1
    <3>2. l - 1 <= m - 1
      BY <1>1, <1>2, <1>5, <2>4, <3>1, OneStepReads
    <3> QED BY <3>1, <3>2
  <2>5. \A l, m \in 1 .. steps :
          Reads(tasks'[l], uri, e) /\ Reads(tasks'[m], uri, e) => l <= m /\ m <= l
    BY <2>4
  <2>6. \A l, m \in 1 .. steps : l <= m /\ m <= l => l = m
    BY <1>1
  <2> QED BY <2>2, <2>3, <2>5, <2>6
<1>7. \A n \in DOMAIN tasks' :
        tasks'[n].blind # <<>> => tasks'[n].entry_start = 0 /\ tasks'[n].entry_stop = 0
  BY <1>4
<1> QED BY <1>1, <1>3, <1>4, <1>6, <1>7 DEF PlannerInv, Distinct

\* A file is left when all of it is cut, so the next one starts a new range.
LEMMA NextDatasetInv ==
  ASSUME PlannerInv, NextDataset
  PROVE  PlannerInv'
<1>1. /\ at \in 1 .. Len(asked) /\ start = NumEntries[asked[at]]
      /\ at' = at + 1 /\ start' = 0 /\ asked' = asked /\ size' = size /\ tasks' = tasks
  BY EntriesAreCounts DEF PlannerInv, NextDataset
<1>2. DOMAIN asked = 1 .. Len(asked) /\ Len(asked) \in Nat
      /\ \A n \in DOMAIN asked : asked[n] \in Uris /\ NumEntries[asked[n]] \in Nat
  BY EntriesAreCounts DEF PlannerInv
<1>3. ASSUME NEW n \in DOMAIN asked PROVE Upto(n)' = Upto(n)
  BY <1>1, <1>2 DEF Upto
<1>4. Tiled'
  <2> SUFFICES ASSUME NEW n \in DOMAIN asked, NEW e \in Nat
               PROVE  /\ e < Upto(n)' => \E m \in DOMAIN tasks : Reads(tasks[m], asked[n], e)
                      /\ \A m \in DOMAIN tasks : Reads(tasks[m], asked[n], e) => e < Upto(n)'
                      /\ \A l, m \in DOMAIN tasks :
                           Reads(tasks[l], asked[n], e) /\ Reads(tasks[m], asked[n], e)
                             => l = m
    BY <1>1 DEF Tiled, Reads
  <2> QED BY <1>3 DEF PlannerInv, Tiled
<1> QED BY <1>1, <1>2, <1>4 DEF PlannerInv, Distinct

\* A chunk extends what is cut of its file, and reads nothing else.
LEMMA NextChunkInv ==
  ASSUME PlannerInv, NextChunk
  PROVE  PlannerInv'
<1> DEFINE u == asked[at]
           stop == IF start + size < NumEntries[u] THEN start + size ELSE NumEntries[u]
           p == Partition(u, start, stop, <<>>)
<1>1. /\ at \in DOMAIN asked /\ start < NumEntries[u] /\ NumEntries[u] \in Nat
      /\ u \in Uris
      /\ tasks' = Append(tasks, p) /\ start' = stop
      /\ asked' = asked /\ at' = at /\ size' = size
  BY EntriesAreCounts DEF PlannerInv, NextChunk
<1>2. stop \in Nat /\ start < stop /\ stop <= NumEntries[u]
  BY <1>1 DEF PlannerInv
<1>3. /\ p = [uri |-> u, entry_start |-> start, entry_stop |-> stop, blind |-> <<>>]
      /\ p \in PartitionSet
  BY <1>1, <1>2 DEF Partition, PartitionSet, PlannerInv
<1> HIDE DEF p, stop
<1>4. \A v, e : Reads(p, v, e) <=> u = v /\ start <= e /\ e < stop
  <2>1. /\ p.uri = u /\ p.entry_start = start /\ p.entry_stop = stop /\ p.blind = <<>>
    BY <1>3
  <2>2. \A v : Resolve(p, NumEntries[v]) = p
    BY <2>1, Zenon DEF Resolve
  <2> QED
    BY <2>1, <2>2 DEF Reads
<1> DEFINE len == Len(tasks)
<1>5. /\ len \in Nat /\ DOMAIN tasks = 1 .. len
      /\ tasks' \in Seq(PartitionSet) /\ DOMAIN tasks' = 1 .. (len + 1)
      /\ tasks'[len + 1] = p
      /\ \A m \in 1 .. len : tasks'[m] = tasks[m]
  BY <1>1, <1>3 DEF PlannerInv
<1>6. \A n \in DOMAIN asked : asked[n] = u <=> n = at
  BY <1>1 DEF PlannerInv, Distinct
<1>7. Tiled'
  <2> SUFFICES ASSUME NEW n \in DOMAIN asked, NEW e \in Nat
               PROVE  /\ e < Upto(n)' => \E m \in DOMAIN tasks' : Reads(tasks'[m], asked[n], e)
                      /\ \A m \in DOMAIN tasks' : Reads(tasks'[m], asked[n], e) => e < Upto(n)'
                      /\ \A l, m \in DOMAIN tasks' :
                           Reads(tasks'[l], asked[n], e) /\ Reads(tasks'[m], asked[n], e)
                             => l = m
    BY SMTT(30), <1>1 DEF Tiled, Reads
  <2>1. /\ e < Upto(n) => \E m \in 1 .. len : Reads(tasks'[m], asked[n], e)
        /\ \A m \in 1 .. len : Reads(tasks'[m], asked[n], e) => e < Upto(n)
        /\ \A l, m \in 1 .. len :
             Reads(tasks'[l], asked[n], e) /\ Reads(tasks'[m], asked[n], e) => l = m
    BY <1>5 DEF PlannerInv, Tiled
  <2>2. CASE n = at
    <3>1. Upto(n) = start /\ Upto(n)' = stop /\ asked[n] = u
      BY <1>1, <2>2 DEF Upto, PlannerInv
    <3>2. Reads(tasks'[len + 1], asked[n], e) <=> start <= e /\ e < stop
      BY <1>4, <1>5, <3>1
    <3>3. start \in Nat
      BY DEF PlannerInv
    <3>4. ASSUME e < stop PROVE \E m \in 1 .. (len + 1) : Reads(tasks'[m], asked[n], e)
      <4>1. CASE e < start
        BY <1>5, <2>1, <3>1, <4>1
      <4>2. CASE start <= e
        <5>1. Reads(tasks'[len + 1], asked[n], e)
          BY <3>2, <3>4, <4>2
        <5> QED BY <1>5, <5>1
      <4> QED BY <3>3, <4>1, <4>2
    <3>5. ASSUME NEW m \in 1 .. (len + 1), Reads(tasks'[m], asked[n], e) PROVE e < stop
      BY <1>2, <1>5, <2>1, <3>1, <3>2, <3>3, <3>5
    <3>6. ASSUME NEW l \in 1 .. (len + 1), NEW m \in 1 .. (len + 1),
                 Reads(tasks'[l], asked[n], e), Reads(tasks'[m], asked[n], e)
          PROVE  l = m
      BY <1>5, <2>1, <3>1, <3>2, <3>3, <3>6
    <3> QED BY <1>5, <3>1, <3>4, <3>5, <3>6
  <2>3. CASE n # at
    <3>1. Upto(n)' = Upto(n)
      BY <1>1, <2>3 DEF Upto
    <3>2. ~ Reads(tasks'[len + 1], asked[n], e)
      BY <1>4, <1>5, <1>6, <2>3
    <3>3. \A m \in 1 .. (len + 1) : m # len + 1 => m \in 1 .. len
      BY <1>5
    <3>4. 1 .. len \subseteq 1 .. (len + 1)
      BY <1>5
    <3> HIDE DEF len
    <3> QED BY <1>5, <2>1, <3>1, <3>2, <3>3, <3>4
  <2> QED BY <2>2, <2>3
<1>8. ASSUME NEW n \in DOMAIN tasks', tasks'[n].blind # <<>>
      PROVE  tasks'[n].entry_start = 0 /\ tasks'[n].entry_stop = 0
  <2>1. n # len + 1
    BY <1>3, <1>5, <1>8
  <2> QED BY <1>5, <1>8, <2>1 DEF PlannerInv
<1>9. start' \in Nat /\ at' <= Len(asked') => start' <= NumEntries[asked'[at']]
  BY <1>1, <1>2
<1> QED BY <1>1, <1>2, <1>5, <1>7, <1>8, <1>9 DEF PlannerInv, Distinct

-----------------------------------------------------------------------------
(* The JSON form, and what a worker reads.                                 *)

\* A partition is what it was when its JSON form is read back.
LEMMA JsonReadsBack ==
  ASSUME NEW p \in PartitionSet,
         p.blind # <<>> => p.entry_start = 0 /\ p.entry_stop = 0
  PROVE  FromJson(Json(p)) = p
<1>1. p = [uri |-> p.uri, entry_start |-> p.entry_start, entry_stop |-> p.entry_stop,
           blind |-> p.blind]
  BY DEF PartitionSet
<1>2. CASE p.blind = <<>>
  BY <1>1, <1>2 DEF FromJson, Json, Partition
<1>3. CASE p.blind # <<>>
  <2>1. p.blind \in Nat \X (Nat \ {0})
    BY <1>3 DEF PartitionSet
  <2>2. p.blind = <<p.blind[1], p.blind[2]>>
    BY <2>1
  <2> QED BY <1>1, <1>3, <2>2 DEF FromJson, Json, Blind, Partition
<1> QED BY <1>2, <1>3

\* When every file is passed, a list with the planned partitions reads every
\* entry once.
LEMMA PlannedReadsOnce ==
  ASSUME PlannerInv, Planned,
         NEW list, DOMAIN list = DOMAIN tasks, \A n \in DOMAIN tasks : list[n] = tasks[n]
  PROVE  ReadOnce(list)
<1> SUFFICES ASSUME NEW n \in DOMAIN asked, NEW e \in 0 .. NumEntries[asked[n]]
             PROVE  LET readers == {m \in DOMAIN list : Reads(list[m], asked[n], e)}
                    IN IF e = NumEntries[asked[n]] THEN readers = {}
                       ELSE \E m \in readers : readers = {m}
  BY DEF ReadOnce
<1> DEFINE readers == {m \in DOMAIN list : Reads(list[m], asked[n], e)}
<1>1. readers = {m \in DOMAIN tasks : Reads(tasks[m], asked[n], e)}
  OBVIOUS
<1>2. NumEntries[asked[n]] \in Nat /\ e \in Nat /\ e <= NumEntries[asked[n]]
  BY EntriesAreCounts DEF PlannerInv
<1>3. Upto(n) = NumEntries[asked[n]]
  BY DEF PlannerInv, Planned, Upto
<1>4. /\ e < Upto(n) => \E m \in DOMAIN tasks : Reads(tasks[m], asked[n], e)
      /\ \A m \in DOMAIN tasks : Reads(tasks[m], asked[n], e) => e < Upto(n)
      /\ \A l, m \in DOMAIN tasks :
           Reads(tasks[l], asked[n], e) /\ Reads(tasks[m], asked[n], e) => l = m
  BY <1>2 DEF PlannerInv, Tiled
<1> HIDE DEF readers
<1>5. CASE e = NumEntries[asked[n]]
  <2>1. readers = {}
    BY <1>1, <1>2, <1>3, <1>4, <1>5
  <2> QED BY <1>5, <2>1 DEF readers
<1>6. CASE e # NumEntries[asked[n]]
  <2>1. e < Upto(n)
    BY <1>2, <1>3, <1>6
  <2>2. PICK m \in DOMAIN tasks : Reads(tasks[m], asked[n], e)
    BY <1>4, <2>1
  <2>3. m \in readers /\ readers = {m}
    BY <1>1, <1>4, <2>2
  <2> QED BY <1>6, <2>3 DEF readers
<1> QED BY <1>5, <1>6

\* A worker has the tasks that were planned, and planning has ended.
PlanInv ==
  /\ PlannerInv
  /\ pc = "work" =>
       /\ Planned
       /\ DOMAIN received = DOMAIN tasks
       /\ \A n \in DOMAIN tasks : received[n] = tasks[n]

(* Deployment's conditions on datasets are the planner's. *)
LEMMA UriListsAreDistinct ==
  ASSUME NEW uris \in UriLists
  PROVE  uris \in Seq(Uris) /\ Distinct(uris)
  BY InputIsKnown DEF Distinct

(* A step that is not the planner's leaves the plan. *)
LEMMA SamePlan ==
  ASSUME PlannerInv, UNCHANGED plannerVars
  PROVE  PlannerInv'
<1>1. asked' = asked /\ at' = at /\ start' = start /\ size' = size /\ tasks' = tasks
  BY DEF plannerVars
<1>2. Tiled'
  BY <1>1 DEF PlannerInv, Tiled, Upto, Reads
<1> QED BY <1>1, <1>2 DEF PlannerInv, Distinct

(* A session starts without a plan. *)
LEMMA NoPlanInv ==
  ASSUME asked' = <<>>, at' = 1, start' = 0, size' = 1, tasks' = <<>>
  PROVE  PlannerInv'
<1>1. /\ asked' \in Seq(Uris) /\ Len(asked') = 0 /\ DOMAIN asked' = {}
      /\ tasks' \in Seq(PartitionSet) /\ DOMAIN tasks' = {}
  BY SMT
<1> QED BY <1>1 DEF PlannerInv, Tiled, Distinct

(* What arrives is what was planned. *)
LEMMA DeliverInv ==
  ASSUME PlanInv, NEW arrival, Deliver(arrival)
  PROVE  PlanInv'
<1>1. /\ UNCHANGED plannerVars /\ Planned
      /\ received' = [n \in DOMAIN tasks |-> FromJson(Json(tasks[n]))]
  BY DEF Deliver
<1>2. PlannerInv'
  BY <1>1, SamePlan DEF PlanInv
<1>3. asked' = asked /\ at' = at /\ tasks' = tasks
  BY <1>1 DEF plannerVars
<1>4. \A n \in DOMAIN tasks : FromJson(Json(tasks[n])) = tasks[n]
  <2> TAKE n \in DOMAIN tasks
  <2>1. tasks[n] \in PartitionSet
    BY DEF PlanInv, PlannerInv
  <2>2. tasks[n].blind # <<>> => tasks[n].entry_start = 0 /\ tasks[n].entry_stop = 0
    BY DEF PlanInv, PlannerInv
  <2> QED BY <2>1, <2>2, JsonReadsBack
<1>5. Planned'
  BY <1>1, <1>3 DEF Planned
<1> QED BY <1>1, <1>2, <1>3, <1>4, <1>5 DEF PlanInv

(* Every step, seen from the plan. *)
LEMMA PlanStep ==
  ASSUME PlanInv, [Next]_vars
  PROVE  PlanInv'
<1>1. ASSUME NEW uris \in UriLists, NEW n \in ChunkSizes, ForDatasets(uris, n)
      PROVE  PlanInv'
  <2>1. n \in Int /\ uris \in Seq(Uris) /\ Distinct(uris)
    BY UriListsAreDistinct, InputIsKnown
  <2>2. PlannerInv'
    BY <1>1, <2>1, PlanChunksInv DEF ForDatasets
  <2> QED BY <1>1, <2>2 DEF ForDatasets, Goto, PlanInv
<1>2. ASSUME NEW uri \in Uris, NEW n \in StepCounts, ForSteps(uri, n)
      PROVE  PlanInv'
  <2>1. n \in Int
    BY InputIsKnown
  <2>2. PlannerInv'
    BY <1>2, <2>1, PlanBlindInv DEF ForSteps
  <2> QED BY <1>2, <2>2 DEF ForSteps, Goto, PlanInv
<1>3. CASE SplitStep
  <2>1. PlannerInv'
    BY <1>3, NextChunkInv, NextDatasetInv DEF SplitStep, Split, PlanInv
  <2> QED BY <1>3, <2>1 DEF SplitStep, PlanInv
<1>4. ASSUME NEW arrival, Deliver(arrival) PROVE PlanInv'
  BY <1>4, DeliverInv
<1>5. CASE NewSession
  <2>1. PlannerInv'
    BY <1>5, NoPlanInv DEF NewSession
  <2> QED BY <1>5, <2>1 DEF NewSession, Goto, PlanInv
<1>6. CASE LoadStep \/ RunTask \/ UNCHANGED vars
  <2>1. UNCHANGED <<plannerVars, received, pc>>
    BY <1>6 DEF LoadStep, RunTask, vars, workerVars
  <2>2. PlannerInv'
    BY <2>1, SamePlan DEF PlanInv
  <2> QED BY <2>1, <2>2 DEF PlanInv, Planned, plannerVars
<1>7. CASE \/ \E s \in Shapes : \E ins \in InputLists(s.arity) : Record(s, ins)
           \/ \E outs \in OutputLists : SerializeRecorded(outs)
           \/ SerializeCompiled
           \/ WithoutTasks
  <2>1. UNCHANGED plannerVars
    BY <1>7 DEF Record, SerializeRecorded, SerializeCompiled, Serialize, WithoutTasks
  <2>2. pc' # "work"
    BY <1>7 DEF Record, SerializeRecorded, SerializeCompiled, Serialize, WithoutTasks,
                Goto
  <2>3. PlannerInv'
    BY <2>1, SamePlan DEF PlanInv
  <2> QED BY <2>2, <2>3 DEF PlanInv
<1> QED BY <1>1, <1>2, <1>3, <1>4, <1>5, <1>6, <1>7 DEF Next

(* The tasks a worker gets read each entry of each file asked for once, and *)
(* nothing beyond its end, for any files, chunk size and number of steps.   *)
THEOREM EntriesReadOnceAlways == Spec => []EntriesReadOnce
<1>1. Init => PlanInv
  BY UnplannedInv DEF Init, PlanInv
<1>2. PlanInv /\ [Next]_vars => PlanInv'
  BY PlanStep
<1>3. PlanInv => EntriesReadOnce
  BY PlannedReadsOnce DEF PlanInv, EntriesReadOnce
<1> QED
  BY <1>1, <1>2, <1>3, PTL DEF Spec

-----------------------------------------------------------------------------
(* The decoder. *)

\* A graph: different keys, on earlier nodes.
IsGraph(ns) ==
  /\ IsList(ns)
  /\ \A m, n \in DOMAIN ns : Identity(ns[m]) = Identity(ns[n]) => m = n
  /\ \A n \in DOMAIN ns : AllBelow(ns[n].inputs, n - 1)

(* Interning keeps it one. *)
LEMMA InternGraph ==
  ASSUME NEW ns, IsGraph(ns), NEW key, AllBelow(key.inputs, Len(ns))
  PROVE  /\ IsGraph(Intern(ns, key))
         /\ Intern(ns, key) = ns \/ Intern(ns, key) = Append(ns, key)
<1> DEFINE next == Intern(ns, key)
<1>1. CASE \E n \in DOMAIN ns : Identity(ns[n]) = Identity(key)
  <2>1. next = ns
    BY <1>1 DEF Intern
  <2> QED BY <2>1
<1>2. CASE \A n \in DOMAIN ns : Identity(ns[n]) # Identity(key)
  <2>1. next = Append(ns, key)
    BY <1>2 DEF Intern
  <2> DEFINE len == Len(ns)
  <2> HIDE DEF next
  <2>2. /\ IsList(next) /\ len \in Nat /\ DOMAIN ns = 1 .. len
        /\ DOMAIN next = 1 .. (len + 1)
        /\ \A n \in DOMAIN ns : next[n] = ns[n]
        /\ next[len + 1] = key
    BY <2>1, AppendList DEF IsGraph
  <2> HIDE DEF len
  <2>3. \A n \in DOMAIN next : n # len + 1 => n \in DOMAIN ns
    BY <2>2
  <2>4. ASSUME NEW m \in DOMAIN next, NEW n \in DOMAIN next,
               Identity(next[m]) = Identity(next[n])
        PROVE  m = n
    <3>1. CASE m = len + 1 /\ n # len + 1
      BY <1>2, <2>2, <2>3, <2>4, <3>1
    <3>2. CASE n = len + 1 /\ m # len + 1
      BY <1>2, <2>2, <2>3, <2>4, <3>2
    <3>3. CASE m # len + 1 /\ n # len + 1
      BY <2>2, <2>3, <2>4, <3>3 DEF IsGraph
    <3> QED BY <3>1, <3>2, <3>3
  <2>5. ASSUME NEW n \in DOMAIN next
        PROVE  AllBelow(next[n].inputs, n - 1)
    <3>1. CASE n = len + 1
      <4>1. n - 1 = len
        BY <2>2, <3>1
      <4> QED BY <2>2, <3>1, <4>1 DEF len
    <3>2. CASE n # len + 1
      BY <2>2, <2>3, <3>2 DEF IsGraph
    <3> QED BY <3>1, <3>2
  <2>6. IsGraph(next)
    BY <2>2, <2>4, <2>5 DEF IsGraph
  <2> QED BY <2>1, <2>6 DEF next
<1> QED BY <1>1, <1>2

\* Outputs are marked after the last node, on a store that is a graph.
LoaderInv ==
  /\ IsList(loaded) /\ IsList(marks)
  /\ phase \in {"idle", "magic", "count", "nodes"} => marks = <<>>
  /\ LoadedIsGraph

(* The empty store is a graph. *)
LEMMA EmptyIsGraph ==
  ASSUME loaded = <<>>, marks = <<>>
  PROVE  LoaderInv
<1>1. DOMAIN loaded = {} /\ DOMAIN marks = {} /\ Len(loaded) = 0
  BY Zenon, SMT
<1>2. IsList(loaded) /\ IsList(marks)
  BY DEF IsList
<1> QED BY <1>1, <1>2 DEF LoaderInv, LoadedIsGraph, AllBelow

(* So is the one a decoder starts on. *)
LEMMA NewStoreIsGraph ==
  ASSUME loaded' = <<>>, marks' = <<>>
  PROVE  LoaderInv'
<1>1. loaded' = <<>> /\ marks' = <<>>
  OBVIOUS
<1>2. DOMAIN loaded' = {} /\ DOMAIN marks' = {} /\ Len(loaded') = 0
  BY <1>1, SMT
<1>3. IsList(loaded') /\ IsList(marks')
  BY <1>1 DEF IsList
<1> QED BY <1>1, <1>2, <1>3 DEF LoaderInv, LoadedIsGraph, AllBelow, IsList

(* A store and its outputs that do not change stay a graph. *)
LEMMA SameGraph ==
  ASSUME LoaderInv, UNCHANGED <<loaded, marks>>,
         phase' \in {"idle", "magic", "count", "nodes"} => marks = <<>>
  PROVE  LoaderInv'
  BY DEF LoaderInv, LoadedIsGraph, AllBelow, IsList

(* A node is read with its inputs checked against the store. *)
LEMMA ReadNodeInv ==
  ASSUME LoaderInv, ReadNode
  PROVE  LoaderInv'
<1> DEFINE key == NodeOf(Item)
<1>1. /\ marks = <<>> /\ marks' = <<>> /\ loaded' = Intern(loaded, key)
      /\ AllBelow(Item.inputs, Len(loaded))
  BY DEF LoaderInv, ReadNode, AcceptsNode
<1>2. key.inputs = Item.inputs
  BY DEF NodeOf, NodeKey
<1>3. AllBelow(key.inputs, Len(loaded))
  BY <1>1, <1>2
<1> HIDE DEF key
<1>4. /\ IsList(loaded')
      /\ \A m, n \in DOMAIN loaded' : Identity(loaded'[m]) = Identity(loaded'[n]) => m = n
      /\ \A n \in DOMAIN loaded' : AllBelow(loaded'[n].inputs, n - 1)
  <2>1. IsGraph(loaded)
    BY DEF LoaderInv, LoadedIsGraph, IsGraph
  <2>2. IsGraph(loaded')
    BY <1>1, <1>3, <2>1, InternGraph
  <2> QED
    BY <2>2 DEF IsGraph
<1>5. DOMAIN marks' = {} /\ IsList(marks)
  BY <1>1 DEF LoaderInv
<1>6. IsList(marks')
  BY <1>1, <1>5
<1>7. AllBelow(marks', Len(loaded'))
  BY <1>5 DEF AllBelow
<1>8. LoadedIsGraph'
  BY <1>4, <1>5, <1>7 DEF LoadedIsGraph, Identity, AllBelow
<1> QED BY <1>1, <1>4, <1>6, <1>8 DEF LoaderInv, IsList

(* An output is a node, and is marked once. *)
LEMMA ReadOutputInv ==
  ASSUME LoaderInv, ReadOutput
  PROVE  LoaderInv'
<1> DEFINE id == Item
<1>1. /\ phase' = "outs" /\ loaded' = loaded /\ marks' = Mark(marks, id)
      /\ id < Len(loaded)
      /\ IsList(marks) /\ AllBelow(marks, Len(loaded))
      /\ \A m, n \in DOMAIN marks : marks[m] = marks[n] => m = n
  BY DEF LoaderInv, LoadedIsGraph, ReadOutput, Advance
<1> HIDE DEF id
<1>2. CASE Contains(marks, id)
  <2>1. marks' = marks
    BY <1>1, <1>2 DEF Mark
  <2> QED BY <1>1, <2>1, SameGraph
<1>3. CASE ~ Contains(marks, id)
  <2>1. marks' = Append(marks, id)
    BY <1>1, <1>3 DEF Mark
  <2> DEFINE len == Len(marks)
  <2>2. /\ IsList(marks') /\ len \in Nat /\ DOMAIN marks = 1 .. len
        /\ DOMAIN marks' = 1 .. (len + 1)
        /\ \A n \in DOMAIN marks : marks'[n] = marks[n]
        /\ marks'[len + 1] = id
    BY <1>1, <2>1, AppendList
  <2>3. \A n \in DOMAIN marks : marks[n] # id
    BY <1>3, <2>2 DEF Contains
  <2> HIDE DEF len
  <2>4. \A n \in DOMAIN marks' : n # len + 1 => n \in DOMAIN marks
    BY <2>2
  <2>5. \A n \in DOMAIN marks' : marks'[n] < Len(loaded)
    BY <1>1, <2>2, <2>4 DEF AllBelow
  <2>6. \A m, n \in DOMAIN marks' : marks'[m] = marks'[n] => m = n
    BY <1>1, <2>2, <2>3, <2>4
  <2> QED
    BY <1>1, <2>2, <2>5, <2>6 DEF LoaderInv, LoadedIsGraph, AllBelow, IsList
<1> QED BY <1>2, <1>3

(* Every step of the decoder leaves a graph. *)
LEMMA LoadInv ==
  ASSUME LoaderInv, Load
  PROVE  LoaderInv'
<1>1. CASE ReadNode
  BY <1>1, ReadNodeInv
<1>2. CASE ReadOutput
  BY <1>2, ReadOutputInv
<1>3. CASE EndsEarly \/ RefuseMagic \/ RefuseNode \/ RefuseOutput
  BY <1>3, SameGraph DEF EndsEarly, RefuseMagic, RefuseNode, RefuseOutput, Fail
<1>4. CASE ReadMagic \/ ReadCount
  <2>1. UNCHANGED <<loaded, marks>>
    BY <1>4 DEF ReadMagic, ReadCount
  <2>2. phase' \in {"idle", "magic", "count", "nodes"} => phase \in {"magic", "count"}
    BY <1>4 DEF ReadMagic, ReadCount, Advance
  <2> QED BY <2>1, <2>2, SameGraph DEF LoaderInv
<1>5. CASE EndLoad
  BY <1>5, SameGraph DEF EndLoad
<1> QED BY <1>1, <1>2, <1>3, <1>4, <1>5 DEF Load

(* Every step keeps it a graph. *)
LEMMA LoaderStep ==
  ASSUME LoaderInv, [Next]_vars
  PROVE  LoaderInv'
<1>1. CASE LoadStep
  BY <1>1, LoadInv DEF LoadStep
<1>2. CASE pc = "split" /\ (\E arrival \in Arrivals : Deliver(arrival))
  BY <1>2, NewStoreIsGraph DEF Deliver, StartLoad
<1>3. CASE NewSession
  BY <1>3, NewStoreIsGraph DEF NewSession
<1>4. CASE UNCHANGED loaderVars
  BY <1>4, SameGraph DEF loaderVars, LoaderInv
<1>5. CASE \/ \E s \in Shapes : \E ins \in InputLists(s.arity) : Record(s, ins)
           \/ \E outs \in OutputLists : SerializeRecorded(outs)
           \/ SerializeCompiled
           \/ \E uris \in UriLists : \E n \in ChunkSizes : ForDatasets(uris, n)
           \/ \E uri \in Uris : \E n \in StepCounts : ForSteps(uri, n)
           \/ WithoutTasks \/ SplitStep \/ RunTask \/ UNCHANGED vars
  <2>1. UNCHANGED loaderVars
    BY <1>5 DEF Record, SerializeRecorded, SerializeCompiled, Serialize, ForDatasets,
                ForSteps, WithoutTasks, SplitStep, RunTask, vars
  <2> QED
    BY <1>4, <2>1
<1> QED
  BY <1>1, <1>2, <1>3, <1>5 DEF Next

(* The store a worker builds is a graph, whatever bytes it was given: cut,  *)
(* of another version, extended, or written by someone who does not intern. *)
THEOREM LoadedIsGraphAlways == Spec => []LoadedIsGraph
<1>1. Init => LoaderInv
  BY EmptyIsGraph DEF Init, Idle
<1>2. LoaderInv /\ [Next]_vars => LoaderInv'
  BY LoaderStep
<1>3. LoaderInv => LoadedIsGraph
  BY DEF LoaderInv
<1> QED
  BY <1>1, <1>2, <1>3, PTL DEF Spec

-----------------------------------------------------------------------------
(* The wire of a graph. *)

\* What the items of the wire w of a graph carry, with its two counts.
Holds(w, ns, outs) ==
  /\ IsList(w) /\ Len(w) = 3 + Len(ns) + Len(outs)
  /\ w[1][2] = MAGIC
  /\ w[2][2] = Len(ns)
  /\ \A n \in 1 .. Len(ns) : w[2 + n][2] = ns[n]
  /\ w[3 + Len(ns)][2] = Len(outs)
  /\ \A n \in 1 .. Len(outs) : w[3 + Len(ns) + n][2] = outs[n]

(* The writer writes them. *)
LEMMA WireHolds ==
  ASSUME NEW ns, NEW outs, IsList(ns), IsList(outs)
  PROVE  Holds(Encode(ns, outs), ns, outs)
<1> DEFINE N == Len(ns)
           M == Len(outs)
           a == << <<"magic", MAGIC>>, <<"nodes", N>> >>
           b == [n \in DOMAIN ns |-> <<"node", ns[n]>>]
           c == << <<"outs", M>> >>
           d == [n \in DOMAIN outs |-> <<"out", outs[n]>>]
<1>1. /\ N \in Nat /\ DOMAIN ns = 1 .. N
      /\ M \in Nat /\ DOMAIN outs = 1 .. M
  BY ListIs
<1>2. /\ IsList(a) /\ Len(a) = 2 /\ a[1][2] = MAGIC /\ a[2][2] = N
  <2>1. a \in Seq({<<"magic", MAGIC>>, <<"nodes", N>>})
    OBVIOUS
  <2> QED
    BY <2>1, ListIn
<1>3. IsList(c) /\ Len(c) = 1 /\ c[1][2] = M
  <2>1. c \in Seq({<<"outs", M>>})
    OBVIOUS
  <2> QED
    BY <2>1, ListIn
<1>4. IsList(b) /\ Len(b) = N /\ \A n \in 1 .. N : b[n][2] = ns[n]
  <2>1. DOMAIN b = 1 .. N /\ b = [n \in 1 .. N |-> b[n]]
    BY <1>1
  <2>2. \A n \in 1 .. N : b[n][2] = ns[n]
    BY <1>1
  <2> HIDE DEF b, N
  <2> QED
    BY <1>1, <2>1, <2>2, ListOf
<1>5. IsList(d) /\ Len(d) = M /\ \A n \in 1 .. M : d[n][2] = outs[n]
  <2>1. DOMAIN d = 1 .. M /\ d = [n \in 1 .. M |-> d[n]]
    BY <1>1
  <2>2. \A n \in 1 .. M : d[n][2] = outs[n]
    BY <1>1
  <2> HIDE DEF d, M
  <2> QED
    BY <1>1, <2>1, <2>2, ListOf
<1>6. Encode(ns, outs) = Joined(Joined(Joined(a, b), c), d)
  BY DEF Encode, Joined
<1> HIDE DEF a, b, c, d
<1> DEFINE ab == Joined(a, b)
           abc == Joined(ab, c)
           w == Joined(abc, d)
<1>7. /\ IsList(ab) /\ Len(ab) = 2 + N
      /\ \A n \in 1 .. 2 : ab[n] = a[n]
      /\ \A n \in 1 .. N : ab[2 + n] = b[n]
  <2>1. IsList(a) /\ IsList(b)
    BY <1>2, <1>4
  <2>2. /\ IsList(Joined(a, b)) /\ Len(Joined(a, b)) = Len(a) + Len(b)
        /\ \A n \in 1 .. Len(a) : Joined(a, b)[n] = a[n]
        /\ \A n \in 1 .. Len(b) : Joined(a, b)[Len(a) + n] = b[n]
    BY <2>1, JoinedLists
  <2> QED
    BY <1>2, <1>4, <2>2
<1> HIDE DEF ab
<1>8. /\ IsList(abc) /\ Len(abc) = Len(ab) + 1
      /\ \A n \in 1 .. Len(ab) : abc[n] = ab[n]
      /\ \A n \in 1 .. 1 : abc[Len(ab) + n] = c[n]
  <2>1. IsList(ab) /\ IsList(c)
    BY <1>3, <1>7
  <2>2. /\ IsList(Joined(ab, c)) /\ Len(Joined(ab, c)) = Len(ab) + Len(c)
        /\ \A n \in 1 .. Len(ab) : Joined(ab, c)[n] = ab[n]
        /\ \A n \in 1 .. Len(c) : Joined(ab, c)[Len(ab) + n] = c[n]
    BY <2>1, JoinedLists
  <2> QED
    BY <1>3, <1>7, <2>2
<1> HIDE DEF abc
<1>9. /\ IsList(w) /\ Len(w) = Len(abc) + M
      /\ \A n \in 1 .. Len(abc) : w[n] = abc[n]
      /\ \A n \in 1 .. M : w[Len(abc) + n] = d[n]
  <2>1. IsList(abc) /\ IsList(d)
    BY <1>5, <1>8
  <2>2. /\ IsList(Joined(abc, d)) /\ Len(Joined(abc, d)) = Len(abc) + Len(d)
        /\ \A n \in 1 .. Len(abc) : Joined(abc, d)[n] = abc[n]
        /\ \A n \in 1 .. Len(d) : Joined(abc, d)[Len(abc) + n] = d[n]
    BY <2>1, JoinedLists
  <2> QED
    BY <1>5, <1>8, <2>2
<1> HIDE DEF w
<1> HIDE DEF N, M
<1>10. Len(abc) = 3 + N /\ Len(w) = 3 + N + M
  BY <1>1, <1>7, <1>8, <1>9
<1>11. w[1] = a[1] /\ w[2] = a[2]
  <2>1. \A n \in 1 .. 2 : n \in 1 .. (2 + N) /\ n \in 1 .. (3 + N)
    BY <1>1
  <2>2. 1 \in 1 .. 2 /\ 2 \in 1 .. 2
    OBVIOUS
  <2> QED
    BY <1>7, <1>8, <1>9, <1>10, <2>1, <2>2
<1>12. ASSUME NEW n \in 1 .. N PROVE w[2 + n] = b[n]
  <2>1. 2 + n \in 1 .. (2 + N) /\ 2 + n \in 1 .. (3 + N)
    BY <1>1
  <2> QED
    BY <1>7, <1>8, <1>9, <1>10, <2>1
<1>13. w[3 + N] = c[1]
  <2>1. (2 + N) + 1 = 3 + N /\ 3 + N \in 1 .. (3 + N)
    BY <1>1
  <2>2. abc[3 + N] = c[1]
    BY <1>7, <1>8, <2>1
  <2> QED
    BY <1>9, <1>10, <2>1, <2>2
<1>14. ASSUME NEW n \in 1 .. M PROVE w[3 + N + n] = d[n]
  BY <1>9, <1>10
<1>15. Holds(w, ns, outs)
  <2>1. \A n \in 1 .. N : w[2 + n][2] = ns[n]
    BY <1>4, <1>12
  <2>2. \A n \in 1 .. M : w[3 + N + n][2] = outs[n]
    BY <1>5, <1>14
  <2> QED
    BY <1>2, <1>3, <1>9, <1>10, <1>11, <1>13, <2>1, <2>2 DEF Holds, N, M
<1> QED
  BY <1>6, <1>15 DEF w, abc, ab

-----------------------------------------------------------------------------
(* What the client sends. *)

\* A key the decoder reads as it is: it sorts no parameters and finds no
\* member that refers to a later one.
ReadsBack(key) ==
  /\ NodeOf(key) = key
  /\ \A m \in DOMAIN key.members : \A j \in DOMAIN key.members[m].inputs :
       LET ref == key.members[m].inputs[j] IN ref[1] = "member" => ref[2] < m - 1

Sendable(ns) == IsGraph(ns) /\ \A n \in DOMAIN ns : ReadsBack(ns[n])

\* The store holds recorded nodes, no stage; what was sent can be read.
ClientInv ==
  /\ Sendable(nodes)
  /\ pc # "record" =>
       /\ Sendable(sent.nodes)
       /\ sent.outs \in Seq(Nat)
       /\ AllBelow(sent.outs, Len(sent.nodes))
       /\ wire = Encode(sent.nodes, sent.outs)

(* The parameters of a recorded node are sorted. *)
LEMMA RecordedSorted ==
  ASSUME NEW s \in Shapes
  PROVE  SortedByName(ParamsFromPy(s.dict))
<1> DEFINE entries == [n \in DOMAIN s.dict |-> Entry(s.dict[n].k, FromPy(s.dict[n].v))]
           N == Len(s.dict)
<1>1. /\ s.dict \in Seq(ToSet(s.dict))
      /\ \A n \in DOMAIN s.dict : s.dict[n].k \in ToSet(NameOrder)
  BY ShapesAreCalls DEF IsList
<1>2. N \in Nat /\ DOMAIN s.dict = 1 .. N
  BY <1>1
<1>3. \A n \in DOMAIN s.dict : entries[n].k = s.dict[n].k
  BY DEF Entry
<1>4. DOMAIN entries = 1 .. N /\ entries = [n \in 1 .. N |-> entries[n]]
  BY <1>2
<1>5. ParamsFromPy(s.dict) = ParamMap(entries)
  BY DEF ParamsFromPy
<1> HIDE DEF entries, N
<1>6. IsList(entries)
  BY <1>2, <1>4, ListOf
<1>7. Named(entries)
  BY <1>1, <1>2, <1>3, <1>4, <1>6 DEF Named
<1> QED
  BY <1>5, <1>7, ParamMapSorts

(* A recorded key reads back. *)
LEMMA RecordedReadsBack ==
  ASSUME NEW s \in Shapes, NEW inputs
  PROVE  ReadsBack(NodeKey(s.kind, s.name, ParamsFromPy(s.dict), s.prep, <<>>, inputs))
<1> DEFINE params == ParamsFromPy(s.dict)
           key == NodeKey(s.kind, s.name, params, s.prep, <<>>, inputs)
<1>1. ParamMap(params) = params
  BY RecordedSorted, SortedStays
<1> HIDE DEF params
<1>2. NodeOf(key) = key
  BY <1>1 DEF NodeOf, NodeKey
<1>3. key.members = <<>> /\ DOMAIN <<>> = {}
  BY DEF NodeKey
<1> QED
  BY <1>2, <1>3 DEF ReadsBack, params

(* Recording. *)
LEMMA RecordSendable ==
  ASSUME Sendable(nodes), NEW s \in Shapes, NEW inputs, Record(s, inputs)
  PROVE  Sendable(nodes')
<1> DEFINE key == NodeKey(s.kind, s.name, ParamsFromPy(s.dict), s.prep, <<>>, inputs)
<1>1. nodes' = Intern(nodes, key) /\ AllBelow(inputs, Len(nodes))
  BY DEF Record
<1>2. key.inputs = inputs
  BY DEF NodeKey
<1>3. ReadsBack(key)
  BY RecordedReadsBack
<1> HIDE DEF key
<1>4. IsGraph(nodes') /\ (nodes' = nodes \/ nodes' = Append(nodes, key))
  BY <1>1, <1>2, InternGraph DEF Sendable
<1>5. CASE nodes' = nodes
  BY <1>5 DEF Sendable
<1>6. CASE nodes' = Append(nodes, key)
  <2>1. /\ Len(nodes) \in Nat /\ DOMAIN nodes = 1 .. Len(nodes)
        /\ DOMAIN Append(nodes, key) = 1 .. (Len(nodes) + 1)
        /\ \A n \in DOMAIN nodes : Append(nodes, key)[n] = nodes[n]
        /\ Append(nodes, key)[Len(nodes) + 1] = key
    BY AppendList DEF Sendable, IsGraph
  <2>2. ASSUME NEW n \in DOMAIN nodes' PROVE ReadsBack(nodes'[n])
    <3>1. CASE n = Len(nodes) + 1
      BY <1>3, <1>6, <2>1, <3>1
    <3>2. CASE n # Len(nodes) + 1
      <4>1. n \in DOMAIN nodes
        BY <1>6, <2>1, <3>2
      <4>2. nodes'[n] = nodes[n]
        BY <1>6, <2>1, <4>1
      <4> QED
        BY <4>1, <4>2 DEF Sendable
    <3> QED
      BY <3>1, <3>2
  <2> QED
    BY <1>4, <2>2 DEF Sendable
<1> QED
  BY <1>4, <1>5, <1>6

(* The stage of a fused chain reads back. *)
LEMMA FusedSendable ==
  ASSUME Sendable(nodes), IsChain(nodes)
  PROVE  Sendable(FusedChain(nodes)) /\ Len(FusedChain(nodes)) = 2
<1> DEFINE member(n) ==
             StageOp(OpToken("op", nodes[n].name, nodes[n].params),
                     <<IF n = 2 THEN InputRef(0) ELSE MemberRef(n - 3)>>)
           members == [n \in 1 .. (Len(nodes) - 1) |-> member(n + 1)]
           stage == StageKey(members, <<0>>)
           source == nodes[1]
           ns == FusedChain(nodes)
<1>1. ns = <<source, stage>>
  BY DEF FusedChain
<1>2. /\ Len(nodes) \in Nat /\ Len(nodes) > 1 /\ DOMAIN nodes = 1 .. Len(nodes)
      /\ source.kind = "source"
  BY ListIs DEF IsChain, Sendable, IsGraph
<1>3. /\ ReadsBack(source) /\ AllBelow(source.inputs, 0)
  <2>1. 1 \in DOMAIN nodes /\ 1 - 1 = 0
    BY <1>2
  <2> QED
    BY <2>1 DEF Sendable, IsGraph
<1>4. /\ stage.kind = "stage" /\ stage.members = members /\ stage.inputs = <<0>>
      /\ stage.params = <<>>
  BY DEF StageKey, NodeKey
<1>5. ReadsBack(stage)
  <2>1. ParamMap(<<>>) = <<>>
    BY NoEntriesSorted, SortedStays
  <2>2. NodeOf(stage) = stage
    BY <2>1 DEF NodeOf, StageKey, NodeKey
  <2>3. ASSUME NEW m \in DOMAIN members, NEW j \in DOMAIN members[m].inputs,
               members[m].inputs[j][1] = "member"
        PROVE  members[m].inputs[j][2] < m - 1
    <3>1. m \in Nat /\ members[m] = member(m + 1)
      BY <1>2
    <3>2. members[m].inputs = <<IF m + 1 = 2 THEN InputRef(0) ELSE MemberRef((m + 1) - 3)>>
      BY <3>1 DEF StageOp
    <3>3. j = 1
      BY <3>2
    <3>4. members[m].inputs[j] = IF m + 1 = 2 THEN InputRef(0) ELSE MemberRef((m + 1) - 3)
      BY <3>2, <3>3
    <3>5. members[m].inputs[j] = MemberRef((m + 1) - 3)
      BY <2>3, <3>4 DEF InputRef
    <3> QED
      BY <3>1, <3>5 DEF MemberRef
  <2> HIDE DEF members, stage
  <2> QED
    BY <1>4, <2>2, <2>3 DEF ReadsBack
<1>6. Identity(source) # Identity(stage)
  <2>1. Identity(source).kind = "source"
    <3>1. NodeOf(source) = source
      BY <1>3 DEF ReadsBack
    <3>2. source = [kind |-> source.kind, name |-> source.name,
                    params |-> ParamMap(source.params), prep |-> source.prep,
                    members |-> source.members, inputs |-> source.inputs]
      BY <3>1 DEF NodeOf, NodeKey
    <3>3. DOMAIN source = {"kind", "name", "params", "prep", "members", "inputs"}
      BY <3>2
    <3> HIDE DEF source
    <3> QED
      BY <1>2, <3>3 DEF Identity
  <2>2. Identity(stage).kind = "stage"
    BY DEF Identity, StageKey, NodeKey
  <2> QED
    BY <2>1, <2>2
<1> HIDE DEF source, stage, ns
<1>7. /\ IsList(ns) /\ Len(ns) = 2 /\ DOMAIN ns = 1 .. 2
      /\ ns[1] = source /\ ns[2] = stage
  <2>1. ns \in Seq({source, stage})
    BY <1>1
  <2>2. IsList(ns)
    BY <2>1, ListIn
  <2> QED
    BY <1>1, <2>2
<1>8. \A n \in DOMAIN ns : n = 1 \/ n = 2
  BY <1>7
<1>9. IsGraph(ns)
  <2>1. AllBelow(stage.inputs, 1)
    BY <1>4 DEF AllBelow
  <2>2. \A n \in DOMAIN ns : AllBelow(ns[n].inputs, n - 1)
    BY <1>3, <1>7, <1>8, <2>1
  <2>3. \A m, n \in DOMAIN ns : Identity(ns[m]) = Identity(ns[n]) => m = n
    BY <1>6, <1>7, <1>8
  <2> QED
    BY <1>7, <2>2, <2>3 DEF IsGraph
<1>10. Sendable(ns)
  BY <1>3, <1>5, <1>7, <1>8, <1>9 DEF Sendable
<1> QED
  BY <1>7, <1>10 DEF ns

-----------------------------------------------------------------------------
(* The order of the outputs. *)

\* e comes first at i in s.
FirstAt(s, e, i) ==
  i \in DOMAIN s /\ s[i] = e /\ \A j \in DOMAIN s : j < i => s[j] # e

(* First finds it. *)
LEMMA FirstFinds ==
  ASSUME NEW s, IsList(s), NEW e, NEW i, FirstAt(s, e, i)
  PROVE  First(s, e) = i
<1> DEFINE I == {n \in 1 .. Len(s) : s[n] = e}
<1>1. First(s, e) = IF I # {} THEN Min(I) ELSE 0
  BY DEF First, SelectInSeq
<1>2. Len(s) \in Nat /\ DOMAIN s = 1 .. Len(s)
  BY ListIs
<1>3. i \in I /\ \A n \in I : i <= n
  BY <1>2 DEF FirstAt
<1>4. \A n \in I : (\A m \in I : n <= m) => n = i
  BY <1>2, <1>3
<1>5. Min(I) = CHOOSE n \in I : \A m \in I : n <= m
  BY DEF Min
<1> HIDE DEF I
<1>6. Min(I) = i
  BY <1>3, <1>4, <1>5
<1> QED
  BY <1>1, <1>3, <1>6

\* The list kept holds the first k elements of outs, each once, in the order in
\* which they come first.
KeepsFirst(outs, k, kept) ==
  /\ IsList(kept)
  /\ \A n \in 1 .. k : outs[n] \in ToSet(kept)
  /\ \A m \in DOMAIN kept :
       First(outs, kept[m]) <= k /\ FirstAt(outs, kept[m], First(outs, kept[m]))
  /\ \A m, n \in DOMAIN kept : m < n => First(outs, kept[m]) < First(outs, kept[n])

(* Marking one more. *)
LEMMA MarkKeepsFirst ==
  ASSUME NEW outs, IsList(outs), NEW k \in Nat, k + 1 \in DOMAIN outs,
         NEW kept, KeepsFirst(outs, k, kept)
  PROVE  KeepsFirst(outs, k + 1, Mark(kept, outs[k + 1]))
<1> DEFINE e == outs[k + 1]
           next == Mark(kept, e)
<1>1. /\ IsList(kept) /\ Len(kept) \in Nat /\ DOMAIN kept = 1 .. Len(kept)
      /\ Len(outs) \in Nat /\ DOMAIN outs = 1 .. Len(outs)
  BY ListIs DEF KeepsFirst
<1>2. \A n \in 1 .. (k + 1) : n \in 1 .. k \/ n = k + 1
  OBVIOUS
<1>3. \A m \in DOMAIN kept : First(outs, kept[m]) \in Nat /\ First(outs, kept[m]) <= k
  BY <1>1 DEF KeepsFirst, FirstAt
<1>4. CASE Contains(kept, e)
  <2>1. next = kept
    BY <1>4 DEF Mark
  <2>2. e \in ToSet(kept)
    BY <1>1, <1>4 DEF Contains, ToSet
  <2>3. \A m \in DOMAIN kept : First(outs, kept[m]) <= k + 1
    BY <1>3
  <2> HIDE DEF next
  <2>4. \A n \in 1 .. (k + 1) : outs[n] \in ToSet(kept)
    BY <1>2, <2>2 DEF KeepsFirst
  <2> QED
    BY <2>1, <2>3, <2>4 DEF KeepsFirst, next
<1>5. CASE ~ Contains(kept, e)
  <2> DEFINE len == Len(kept)
  <2>1. next = Append(kept, e)
    BY <1>5 DEF Mark
  <2> HIDE DEF next
  <2>2. /\ IsList(next) /\ DOMAIN next = 1 .. (len + 1)
        /\ \A n \in DOMAIN kept : next[n] = kept[n]
        /\ next[len + 1] = e
    BY <1>1, <2>1, AppendList
  <2>3. \A n \in DOMAIN next : n \in DOMAIN kept \/ n = len + 1
    BY <1>1, <2>2
  <2>4. FirstAt(outs, e, k + 1)
    <3>1. \A m \in DOMAIN kept : kept[m] # e
      BY <1>1, <1>5 DEF Contains
    <3>2. e \notin ToSet(kept)
      BY <3>1 DEF ToSet
    <3>3. \A j \in DOMAIN outs : j < k + 1 => j \in 1 .. k
      BY <1>1
    <3> QED
      BY <3>2, <3>3 DEF KeepsFirst, FirstAt
  <2>5. First(outs, e) = k + 1
    BY <2>4, FirstFinds
  <2>6. \A n \in 1 .. (k + 1) : outs[n] \in ToSet(next)
    <3>1. e \in ToSet(next)
      <4>1. len + 1 \in DOMAIN next
        BY <1>1, <2>2
      <4> QED
        BY <2>2, <4>1 DEF ToSet
    <3>2. \A x \in ToSet(kept) : x \in ToSet(next)
      <4>1. \A m \in DOMAIN kept : m \in DOMAIN next
        BY <1>1, <2>2
      <4> QED
        BY <2>2, <4>1 DEF ToSet
    <3> QED
      BY <1>2, <3>1, <3>2 DEF KeepsFirst
  <2>7. ASSUME NEW m \in DOMAIN next
        PROVE  /\ First(outs, next[m]) <= k + 1
               /\ FirstAt(outs, next[m], First(outs, next[m]))
    <3>1. CASE m \in DOMAIN kept
      <4>1. next[m] = kept[m]
        BY <2>2, <3>1
      <4>2. FirstAt(outs, kept[m], First(outs, kept[m]))
        BY <3>1 DEF KeepsFirst
      <4>3. First(outs, kept[m]) <= k + 1
        BY <1>3, <3>1
      <4> QED
        BY <4>1, <4>2, <4>3
    <3>2. CASE m = len + 1
      BY <2>2, <2>4, <2>5, <3>2
    <3> QED
      BY <2>3, <3>1, <3>2
  <2>8. ASSUME NEW m \in DOMAIN next, NEW n \in DOMAIN next, m < n
        PROVE  First(outs, next[m]) < First(outs, next[n])
    <3>1. m \in DOMAIN kept /\ next[m] = kept[m]
      BY <1>1, <2>2, <2>8
    <3>2. CASE n \in DOMAIN kept
      <4>1. next[n] = kept[n]
        BY <2>2, <3>2
      <4>2. First(outs, kept[m]) < First(outs, kept[n])
        BY <2>8, <3>1, <3>2 DEF KeepsFirst
      <4> QED
        BY <3>1, <4>1, <4>2
    <3>3. CASE n = len + 1
      <4>1. First(outs, next[n]) = k + 1
        BY <2>2, <2>5, <3>3
      <4>2. First(outs, kept[m]) \in Nat /\ First(outs, kept[m]) <= k
        BY <1>3, <3>1
      <4> QED
        BY <3>1, <4>1, <4>2
    <3> QED
      BY <2>3, <3>2, <3>3
  <2> HIDE DEF len
  <2>9. KeepsFirst(outs, k + 1, next)
    BY <2>2, <2>6, <2>7, <2>8 DEF KeepsFirst
  <2> QED
    BY <2>9 DEF next
<1> QED
  BY <1>4, <1>5

(* All of them marked. *)
LEMMA AllKept ==
  ASSUME NEW outs, IsList(outs), NEW kept, KeepsFirst(outs, Len(outs), kept)
  PROVE  /\ ToSet(kept) = ToSet(outs)
         /\ \A m, n \in DOMAIN kept : m < n => First(outs, kept[m]) < First(outs, kept[n])
<1>1. Len(outs) \in Nat /\ DOMAIN outs = 1 .. Len(outs)
  BY ListIs
<1>2. \A n \in DOMAIN outs : outs[n] \in ToSet(kept)
  BY <1>1 DEF KeepsFirst
<1>3. \A m \in DOMAIN kept : \E n \in DOMAIN outs : outs[n] = kept[m]
  BY DEF KeepsFirst, FirstAt
<1>4. \A x \in ToSet(kept) : x \in ToSet(outs)
  BY <1>3 DEF ToSet
<1>5. \A x \in ToSet(outs) : x \in ToSet(kept)
  BY <1>2 DEF ToSet
<1> QED
  BY <1>4, <1>5 DEF KeepsFirst

(* When no output comes twice, those marked are the outputs themselves. *)
LEMMA KeptAsAsked ==
  ASSUME NEW outs, IsList(outs), IsInjective(outs),
         NEW kept, KeepsFirst(outs, Len(outs), kept)
  PROVE  kept = outs
<1> DEFINE N == Len(outs)
           K == Len(kept)
           F(m) == First(outs, kept[m])
<1>1. /\ IsList(kept) /\ K \in Nat /\ DOMAIN kept = 1 .. K
      /\ N \in Nat /\ DOMAIN outs = 1 .. N
  BY ListIs DEF KeepsFirst
<1>2. \A m \in 1 .. K : F(m) \in 1 .. N /\ outs[F(m)] = kept[m]
  BY <1>1 DEF KeepsFirst, FirstAt
<1>3. \A m, n \in 1 .. K : m < n => F(m) < F(n)
  BY <1>1 DEF KeepsFirst
<1>4. ASSUME NEW n \in 1 .. N PROVE \E m \in 1 .. K : F(m) = n
  <2>1. PICK m \in 1 .. K : kept[m] = outs[n]
    BY <1>1 DEF KeepsFirst, ToSet
  <2>2. outs[F(m)] = outs[n] /\ F(m) \in DOMAIN outs /\ n \in DOMAIN outs
    BY <1>1, <1>2, <2>1
  <2>3. F(m) = n
    BY <2>2 DEF IsInjective
  <2> QED
    BY <2>3
<1> HIDE DEF N, K, F
<1> DEFINE InPlace(n) == n \in 1 .. K /\ F(n) = n
           Bad == {n \in 1 .. N : ~ InPlace(n)}
<1>5. \A n \in 1 .. N : InPlace(n)
  <2> SUFFICES ASSUME Bad # {} PROVE FALSE
    OBVIOUS
  <2>1. Bad \subseteq Nat
    OBVIOUS
  <2>2. PICK n \in Bad : \A j \in Bad : n <= j
    <3> HIDE DEF Bad
    <3> QED
      BY <2>1, LeastNumber
  <2>3. n \in 1 .. N /\ ~ InPlace(n)
    OBVIOUS
  <2>4. ASSUME NEW j \in 1 .. N, j < n PROVE j \in 1 .. K /\ F(j) = j
    <3>1. j \in Nat /\ n \in Nat /\ ~ (n <= j)
      BY <2>4
    <3>2. j \notin Bad
      BY <2>2, <3>1
    <3> QED
      BY <3>2
  <2>5. PICK m \in 1 .. K : F(m) = n
    BY <1>4, <2>3
  <2> HIDE DEF Bad
  <2>6. n <= m /\ n \in 1 .. K
    <3>1. ~ (m < n)
      <4> SUFFICES ASSUME m < n PROVE FALSE
        OBVIOUS
      <4>1. m \in 1 .. N
        BY <1>1, <2>3
      <4> QED
        BY <2>3, <2>4, <2>5, <4>1
    <3> QED
      BY <1>1, <2>3, <3>1
  <2>7. n < m
    BY <1>1, <2>3, <2>5, <2>6
  <2>8. F(n) \in 1 .. N /\ F(n) < n
    BY <1>2, <1>3, <2>5, <2>6, <2>7
  <2>9. F(n) \in 1 .. K /\ F(F(n)) = F(n)
    BY <2>4, <2>8
  <2>10. F(F(n)) < F(n)
    BY <1>3, <2>6, <2>8, <2>9
  <2> QED
    BY <2>8, <2>9, <2>10
<1>6. K = N
  <2>1. K >= N
    <3>1. CASE N = 0
      BY <1>1, <3>1
    <3>2. CASE N # 0
      <4>1. N \in 1 .. N
        BY <1>1, <3>2
      <4> QED
        BY <1>1, <1>5, <4>1
    <3> QED
      BY <3>1, <3>2
  <2>2. ASSUME K > N PROVE FALSE
    <3>1. N + 1 \in 1 .. K
      BY <1>1, <2>2
    <3>2. F(N + 1) \in 1 .. N
      BY <1>2, <3>1
    <3>3. F(N + 1) \in 1 .. K /\ F(F(N + 1)) = F(N + 1)
      BY <1>5, <3>2
    <3>4. F(F(N + 1)) < F(N + 1)
      BY <1>1, <1>3, <3>1, <3>2, <3>3
    <3> QED
      BY <3>2, <3>3, <3>4
  <2> QED
    BY <1>1, <2>1, <2>2
<1>7. \A n \in 1 .. K : kept[n] = outs[n]
  BY <1>2, <1>5, <1>6
<1> QED
  BY <1>1, <1>6, <1>7, SameLists DEF N, K

-----------------------------------------------------------------------------
(* The decoder and the wire it reads. *)

\* What is left of the wire w when pos of its items were read; damage is d.
Follows(left, w, d, pos) ==
  /\ IsList(left)
  /\ \A n \in 1 .. Len(left) : pos + n <= Len(w) => left[n] = w[pos + n]
  /\ d = "cut" => pos + Len(left) < Len(w)
  /\ d \in {"none", "extended"} => pos + Len(left) >= Len(w)

(* One item further. *)
LEMMA FollowsNext ==
  ASSUME NEW left, NEW w, NEW d, NEW pos \in Nat, IsList(w),
         Follows(left, w, d, pos), left # <<>>
  PROVE  /\ pos < Len(w) => Head(left) = w[pos + 1]
         /\ Follows(Tail(left), w, d, pos + 1)
<1>1. /\ Len(left) \in Nat /\ Len(left) >= 1 /\ Head(left) = left[1]
      /\ IsList(Tail(left)) /\ Len(Tail(left)) = Len(left) - 1
      /\ \A n \in 1 .. (Len(left) - 1) : Tail(left)[n] = left[n + 1]
  BY TailOfList DEF Follows
<1>2. Len(w) \in Nat
  BY ListIs
<1>3. pos < Len(w) => Head(left) = w[pos + 1]
  <2>1. 1 \in 1 .. Len(left) /\ (pos < Len(w) => pos + 1 <= Len(w))
    BY <1>1, <1>2
  <2> QED
    BY <1>1, <2>1 DEF Follows
<1>4. ASSUME NEW n \in 1 .. Len(Tail(left)), (pos + 1) + n <= Len(w)
      PROVE  Tail(left)[n] = w[(pos + 1) + n]
  <2>1. /\ n + 1 \in 1 .. Len(left) /\ n \in 1 .. (Len(left) - 1)
        /\ pos + (n + 1) = (pos + 1) + n
    BY <1>1
  <2>2. left[n + 1] = w[pos + (n + 1)]
    BY <1>4, <2>1 DEF Follows
  <2> QED
    BY <1>1, <2>1, <2>2
<1>5. /\ d = "cut" => (pos + 1) + Len(Tail(left)) < Len(w)
      /\ d \in {"none", "extended"} => (pos + 1) + Len(Tail(left)) >= Len(w)
  <2>1. (pos + 1) + Len(Tail(left)) = pos + Len(left)
    BY <1>1
  <2> QED
    BY <2>1 DEF Follows
<1> QED
  BY <1>1, <1>3, <1>4, <1>5 DEF Follows

(* Nothing is left before the end only when the wire was cut. *)
LEMMA EndsWhereCut ==
  ASSUME NEW w, NEW d \in {"none", "extended", "cut"}, NEW pos \in Nat, IsList(w),
         Follows(<<>>, w, d, pos), pos < Len(w)
  PROVE  d = "cut"
<1>1. Len(<<>>) = 0 /\ Len(w) \in Nat
  BY ListIs
<1>2. d \in {"none", "extended"} => pos + 0 >= Len(w)
  BY <1>1 DEF Follows
<1> QED
  BY <1>1, <1>2

(* And the end is reached only when it was not. *)
LEMMA EndNotCut ==
  ASSUME NEW left, NEW w, NEW d \in {"none", "extended", "cut"}, NEW pos \in Nat,
         IsList(w), Follows(left, w, d, pos), pos = Len(w)
  PROVE  d \in {"none", "extended"}
<1>1. Len(left) \in Nat /\ Len(w) \in Nat
  BY ListIs DEF Follows
<1> QED
  BY <1>1 DEF Follows

\* While a wire is read that was not replaced, everything read so far is what
\* was sent.
ReadsWhatWasSent ==
  LET N == Len(sent.nodes)
      M == Len(sent.outs)
      At(pos) == Follows(rest, wire, damage, pos)
  IN \/ phase = "magic" /\ At(0) /\ loaded = <<>> /\ marks = <<>>
     \/ phase = "count" /\ At(1) /\ loaded = <<>> /\ marks = <<>>
     \/ /\ phase = "nodes" /\ due = N /\ read \in 0 .. N /\ At(2 + read)
        /\ loaded = SubSeq(sent.nodes, 1, read) /\ marks = <<>>
     \/ /\ phase = "outs" /\ due = M /\ read \in 0 .. M /\ At(3 + N + read)
        /\ loaded = sent.nodes /\ KeepsFirst(sent.outs, read, marks)
     \/ /\ phase = "loaded" /\ Unharmed /\ loaded = sent.nodes
        /\ KeepsFirst(sent.outs, M, marks)
     \/ phase \in Errors /\ damage = "cut"

TracksWire ==
  /\ phase # "idle" => pc = "work"
  /\ pc = "work" =>
       /\ damage \in {"none", "extended", "cut"} => ReadsWhatWasSent
       /\ damage = "other" =>
            \/ phase = "magic" /\ HasItem /\ Item = OtherMagic
            \/ phase = "BadMagic"

(* What a step of the decoder may assume. *)
LEMMA WireIs ==
  ASSUME ClientInv, pc # "record"
  PROVE  /\ Holds(wire, sent.nodes, sent.outs)
         /\ IsList(wire) /\ Len(wire) = 3 + Len(sent.nodes) + Len(sent.outs)
         /\ IsList(sent.nodes) /\ Len(sent.nodes) \in Nat
         /\ DOMAIN sent.nodes = 1 .. Len(sent.nodes)
         /\ IsList(sent.outs) /\ Len(sent.outs) \in Nat
         /\ DOMAIN sent.outs = 1 .. Len(sent.outs)
<1>1. /\ IsList(sent.nodes) /\ IsList(sent.outs)
      /\ wire = Encode(sent.nodes, sent.outs)
  BY ListIn DEF ClientInv, Sendable, IsGraph
<1>2. Holds(wire, sent.nodes, sent.outs)
  BY <1>1, WireHolds
<1> QED
  BY <1>1, <1>2, ListIs DEF Holds

(* The phases of a decoder, with the actions that take a step in each. *)
LEMMA StepsOfPhase ==
  ASSUME Load
  PROVE  /\ phase = "magic" => EndsEarly \/ ReadMagic \/ RefuseMagic
         /\ phase = "count" => EndsEarly \/ ReadCount
         /\ phase = "nodes" => EndsEarly \/ ReadCount \/ ReadNode \/ RefuseNode
         /\ phase = "outs" => EndsEarly \/ ReadOutput \/ RefuseOutput \/ EndLoad
         /\ phase \in {"magic", "count", "nodes", "outs"}
<1>1. CASE EndsEarly
  BY <1>1 DEF EndsEarly
<1>2. CASE ReadMagic \/ RefuseMagic
  BY <1>2 DEF ReadMagic, RefuseMagic
<1>3. CASE ReadCount
  BY <1>3 DEF ReadCount
<1>4. CASE ReadNode \/ RefuseNode
  BY <1>4 DEF ReadNode, RefuseNode
<1>5. CASE ReadOutput \/ RefuseOutput \/ EndLoad
  BY <1>5 DEF ReadOutput, RefuseOutput, EndLoad
<1> QED
  BY <1>1, <1>2, <1>3, <1>4, <1>5 DEF Load

\* A step of the decoder, on a wire that was not replaced.
Decodes ==
  /\ ClientInv /\ pc = "work" /\ damage \in {"none", "extended", "cut"}
  /\ Load /\ UNCHANGED <<sent, wire, damage>>

(* Giving up for want of an item. *)
LEMMA TruncatedWhenCut ==
  ASSUME Decodes, EndsEarly, NEW pos \in Nat, Follows(rest, wire, damage, pos),
         pos < Len(wire)
  PROVE  ReadsWhatWasSent'
<1>1. rest = <<>> /\ phase' = "Truncated" /\ damage' = damage
  BY DEF EndsEarly, HasItem, Fail, Decodes
<1>2. IsList(wire)
  BY WireIs DEF Decodes
<1>3. damage = "cut"
  BY <1>1, <1>2, EndsWhereCut DEF Decodes
<1> QED
  BY <1>1, <1>3 DEF ReadsWhatWasSent, Errors

(* Where its parts are. *)
LEMMA WirePlaces ==
  ASSUME ClientInv, pc # "record"
  PROVE  /\ Len(wire) \in Nat /\ 2 < Len(wire)
         /\ \A k \in 0 .. Len(sent.nodes) : 2 + k < Len(wire)
         /\ \A k \in 0 .. Len(sent.outs) :
              /\ k # Len(sent.outs) => 3 + Len(sent.nodes) + k < Len(wire)
              /\ k = Len(sent.outs) => 3 + Len(sent.nodes) + k = Len(wire)
<1> DEFINE N == Len(sent.nodes)
           M == Len(sent.outs)
           L == Len(wire)
<1>1. N \in Nat /\ M \in Nat /\ L = 3 + N + M
  BY WireIs
<1> HIDE DEF N, M, L
<1>2. /\ L \in Nat /\ 2 < L
      /\ \A k \in 0 .. N : 2 + k < L
      /\ \A k \in 0 .. M : (k # M => 3 + N + k < L) /\ (k = M => 3 + N + k = L)
  BY <1>1
<1> QED
  BY <1>2 DEF N, M, L

(* The magic. *)
LEMMA DecodesMagic ==
  ASSUME Decodes, phase = "magic", ReadsWhatWasSent
  PROVE  ReadsWhatWasSent'
<1>1. Follows(rest, wire, damage, 0)
  BY DEF ReadsWhatWasSent, Errors
<1>2. IsList(wire)
  BY WireIs DEF Decodes
<1>3. 0 \in Nat /\ 0 < Len(wire)
  BY WirePlaces DEF Decodes
<1>4. CASE EndsEarly
  BY <1>1, <1>3, <1>4, TruncatedWhenCut
<1>5. CASE rest # <<>>
  <2>1. /\ Head(rest) = wire[0 + 1]
        /\ Follows(Tail(rest), wire, damage, 0 + 1)
    BY <1>1, <1>2, <1>3, <1>5, FollowsNext
  <2>2. 0 + 1 = 1
    OBVIOUS
  <2>3. wire[1][2] = MAGIC
    BY WireIs DEF Decodes, Holds
  <2>4. Item = MAGIC
    BY <2>1, <2>2, <2>3 DEF Item
  <2>5. ReadMagic
    BY <1>5, <2>4, StepsOfPhase DEF Decodes, EndsEarly, HasItem, RefuseMagic
  <2>6. /\ rest' = Tail(rest) /\ phase' = "count" /\ loaded' = <<>> /\ marks' = <<>>
        /\ wire' = wire /\ damage' = damage
    BY <2>5 DEF ReadMagic, Advance, Decodes, ReadsWhatWasSent, Errors
  <2>7. Follows(rest', wire', damage', 1)
    BY <2>1, <2>2, <2>6
  <2> QED
    BY <2>6, <2>7 DEF ReadsWhatWasSent
<1>6. EndsEarly \/ rest # <<>>
  BY StepsOfPhase DEF Decodes, ReadMagic, RefuseMagic, HasItem
<1> QED
  BY <1>4, <1>5, <1>6

(* The number of nodes. *)
LEMMA DecodesCount ==
  ASSUME Decodes, phase = "count", ReadsWhatWasSent
  PROVE  ReadsWhatWasSent'
<1>1. Follows(rest, wire, damage, 1)
  BY DEF ReadsWhatWasSent, Errors
<1>2. IsList(wire)
  BY WireIs DEF Decodes
<1>3. 1 \in Nat /\ 1 < Len(wire)
  BY WirePlaces DEF Decodes
<1>4. CASE EndsEarly
  BY <1>1, <1>3, <1>4, TruncatedWhenCut
<1>5. CASE ReadCount
  <2>1. rest # <<>>
    BY <1>5 DEF ReadCount, HasItem
  <2>2. /\ Head(rest) = wire[1 + 1]
        /\ Follows(Tail(rest), wire, damage, 1 + 1)
    BY <1>1, <1>2, <1>3, <2>1, FollowsNext
  <2>3. 1 + 1 = 2 /\ 2 + 0 = 2
    OBVIOUS
  <2>4. wire[2][2] = Len(sent.nodes)
    BY WireIs DEF Decodes, Holds
  <2>5. Item = Len(sent.nodes)
    BY <2>2, <2>3, <2>4 DEF Item
  <2>6. /\ rest' = Tail(rest) /\ phase' = "nodes" /\ due' = Len(sent.nodes) /\ read' = 0
        /\ loaded' = <<>> /\ marks' = <<>>
        /\ wire' = wire /\ damage' = damage /\ sent' = sent
    BY <1>5, <2>5 DEF ReadCount, Advance, Decodes, ReadsWhatWasSent, Errors
  <2>7. Follows(rest', wire', damage', 2 + read')
    BY <2>2, <2>3, <2>6
  <2>8. SubSeq(sent.nodes, 1, 0) = <<>>
    BY SubSeqEmpty
  <2>9. Len(sent.nodes) \in Nat
    BY WireIs DEF Decodes
  <2>10. due' = Len(sent'.nodes) /\ read' \in 0 .. Len(sent'.nodes)
    BY <2>6, <2>9
  <2>11. loaded' = SubSeq(sent'.nodes, 1, read')
    BY <2>6, <2>8
  <2> QED
    BY <2>6, <2>7, <2>10, <2>11 DEF ReadsWhatWasSent
<1> QED
  BY <1>4, <1>5, StepsOfPhase DEF Decodes

(* A node, or the number of outputs. *)
LEMMA DecodesNodes ==
  ASSUME Decodes, phase = "nodes", ReadsWhatWasSent
  PROVE  ReadsWhatWasSent'
<1> DEFINE N == Len(sent.nodes)
           M == Len(sent.outs)
           pos == 2 + read
<1>1. Follows(rest, wire, damage, pos)
  BY DEF ReadsWhatWasSent, Errors
<1>2. IsList(wire)
  BY WireIs DEF Decodes
<1>3. N \in Nat /\ M \in Nat /\ due = N /\ read \in 0 .. N
  BY WireIs DEF Decodes, ReadsWhatWasSent, Errors
<1>4. pos \in Nat /\ pos < Len(wire) /\ read \in Nat
  BY <1>3, WirePlaces DEF Decodes
<1>5. loaded = SubSeq(sent.nodes, 1, read) /\ marks = <<>>
  BY DEF ReadsWhatWasSent, Errors
<1>6. IsList(sent.nodes) /\ DOMAIN sent.nodes = 1 .. N
  BY WireIs DEF Decodes
<1> HIDE DEF pos
<1>7. CASE EndsEarly
  BY <1>1, <1>4, <1>7, TruncatedWhenCut
<1>8. rest # <<>> => Head(rest) = wire[pos + 1] /\ Follows(Tail(rest), wire, damage, pos + 1)
  BY <1>1, <1>2, <1>4, FollowsNext
<1>9. /\ sent' = sent /\ wire' = wire /\ damage' = damage
  BY DEF Decodes
<1>10. CASE ReadCount
  <2>1. /\ rest # <<>> /\ read = N
        /\ rest' = Tail(rest) /\ phase' = "outs" /\ due' = Item /\ read' = 0
        /\ loaded' = loaded /\ marks' = marks
    BY <1>3, <1>10 DEF ReadCount, HasItem, Advance
  <2>2. pos + 1 = 3 + N /\ pos + 1 = 3 + N + read'
    BY <1>3, <2>1 DEF pos
  <2>3. Item = M
    <3>1. wire[3 + N][2] = M
      BY WireIs DEF Decodes, Holds
    <3> QED
      BY <1>8, <2>1, <2>2, <3>1 DEF Item
  <2>4. Follows(rest', wire', damage', 3 + Len(sent'.nodes) + read')
    BY <1>8, <1>9, <2>1, <2>2
  <2>5. loaded' = sent.nodes
    <3>1. N \in 0 .. Len(sent.nodes)
      BY <1>3
    <3>2. /\ IsList(SubSeq(sent.nodes, 1, N)) /\ Len(SubSeq(sent.nodes, 1, N)) = N
          /\ \A n \in 1 .. N : SubSeq(sent.nodes, 1, N)[n] = sent.nodes[n]
      BY <1>6, <3>1, StartOfList
    <3>3. SubSeq(sent.nodes, 1, N) = sent.nodes
      BY <1>6, <3>2, SameLists
    <3> QED
      BY <1>5, <2>1, <3>3
  <2>6. KeepsFirst(sent'.outs, read', marks')
    <3>1. IsList(<<>>) /\ DOMAIN <<>> = {}
      BY NoEntriesSorted DEF SortedByName, Named
    <3>2. 1 .. 0 = {}
      OBVIOUS
    <3>3. KeepsFirst(sent.outs, 0, <<>>)
      BY <3>1, <3>2 DEF KeepsFirst
    <3> QED
      BY <1>5, <1>9, <2>1, <3>3
  <2>7. due' = Len(sent'.outs) /\ read' \in 0 .. Len(sent'.outs)
    BY <1>3, <1>9, <2>1, <2>3
  <2> QED
    BY <1>9, <2>1, <2>4, <2>5, <2>6, <2>7 DEF ReadsWhatWasSent
<1>11. CASE (ReadNode \/ RefuseNode) /\ rest # <<>> /\ read < N
  <2> DEFINE key == sent.nodes[read + 1]
  <2>1. Item = key
    <3>1. read + 1 \in 1 .. N /\ 2 + (read + 1) = pos + 1
      BY <1>3, <1>11 DEF pos
    <3>2. wire[2 + (read + 1)][2] = key
      BY <3>1, WireIs DEF Decodes, Holds
    <3> QED
      BY <1>8, <1>11, <3>1, <3>2 DEF Item
  <2>2. read + 1 \in DOMAIN sent.nodes /\ (read + 1) - 1 = read
    BY <1>3, <1>6, <1>11
  <2>3. Sendable(sent.nodes)
    BY DEF Decodes, ClientInv
  <2>4. AllBelow(key.inputs, read) /\ ReadsBack(key)
    BY <2>2, <2>3 DEF Sendable, IsGraph
  <2>5. /\ IsList(loaded) /\ Len(loaded) = read
        /\ \A n \in 1 .. read : loaded[n] = sent.nodes[n]
    <3>1. read \in 0 .. Len(sent.nodes)
      BY <1>3
    <3>2. /\ IsList(SubSeq(sent.nodes, 1, read)) /\ Len(SubSeq(sent.nodes, 1, read)) = read
          /\ \A n \in 1 .. read : SubSeq(sent.nodes, 1, read)[n] = sent.nodes[n]
      BY <1>6, <3>1, StartOfList
    <3> QED
      BY <1>5, <3>2
  <2> HIDE DEF key
  <2>6. AcceptsNode(Item)
    <3>1. AllBelow(key.inputs, Len(loaded))
      BY <2>4, <2>5
    <3>2. RefsBackward(key)
      BY <2>4 DEF RefsBackward, ReadsBack
    <3> QED
      BY <2>1, <3>1, <3>2 DEF AcceptsNode
  <2>7. ReadNode
    BY <1>11, <2>6 DEF RefuseNode
  <2>8. /\ loaded' = Intern(loaded, key) /\ rest' = Tail(rest) /\ phase' = "nodes"
        /\ read' = read + 1 /\ due' = due /\ marks' = marks
    <3>1. NodeOf(Item) = key
      BY <2>1, <2>4 DEF ReadsBack
    <3> QED
      BY <2>7, <3>1 DEF ReadNode, Advance
  <2>9. loaded' = Append(loaded, key)
    <3>1. ASSUME NEW n \in DOMAIN loaded PROVE Identity(loaded[n]) # Identity(key)
      <4>1. n \in 1 .. read /\ loaded[n] = sent.nodes[n]
        BY <2>5, ListIs
      <4>2. n \in DOMAIN sent.nodes /\ n # read + 1
        BY <1>3, <1>6, <4>1
      <4> QED
        BY <2>2, <2>3, <4>1, <4>2 DEF Sendable, IsGraph, key
    <3> QED
      BY <2>8, <3>1 DEF Intern
  <2>10. loaded' = SubSeq(sent.nodes, 1, read + 1)
    <3> DEFINE front == SubSeq(sent.nodes, 1, read + 1)
               next == Append(loaded, key)
    <3>1. read + 1 \in 0 .. Len(sent.nodes)
      BY <1>3, <1>11
    <3>2. IsList(front) /\ Len(front) = read + 1
          /\ \A n \in 1 .. (read + 1) : front[n] = sent.nodes[n]
      BY <1>6, <3>1, StartOfList
    <3>3. /\ IsList(next) /\ Len(next) = Len(loaded) + 1
          /\ DOMAIN loaded = 1 .. Len(loaded)
          /\ \A n \in DOMAIN loaded : next[n] = loaded[n]
          /\ next[Len(loaded) + 1] = key
      BY <2>5, AppendList
    <3> HIDE DEF front, next
    <3>4. \A n \in 1 .. (read + 1) : n \in 1 .. read \/ n = read + 1
      BY <1>4
    <3>5. \A n \in 1 .. (read + 1) : next[n] = sent.nodes[n]
      BY <2>5, <3>3, <3>4 DEF key
    <3>6. IsList(next) /\ IsList(front) /\ Len(next) = Len(front)
          /\ \A n \in 1 .. Len(next) : next[n] = front[n]
      BY <2>5, <3>2, <3>3, <3>5
    <3>7. next = front
      BY <3>6, SameLists
    <3> QED
      BY <2>9, <3>7 DEF next, front
  <2>11. Follows(rest', wire', damage', 2 + read')
    <3>1. pos + 1 = 2 + read'
      BY <1>4, <2>8 DEF pos
    <3> QED
      BY <1>8, <1>9, <1>11, <2>8, <3>1
  <2>12. due' = Len(sent'.nodes) /\ read' \in 0 .. Len(sent'.nodes)
    BY <1>3, <1>9, <1>11, <2>8
  <2>13. loaded' = SubSeq(sent'.nodes, 1, read') /\ marks' = <<>>
    BY <1>5, <1>9, <2>8, <2>10
  <2> QED
    BY <2>8, <2>11, <2>12, <2>13 DEF ReadsWhatWasSent
<1>12. ReadNode \/ RefuseNode => rest # <<>> /\ read < N
  BY <1>3 DEF ReadNode, RefuseNode, HasItem
<1> QED
  BY <1>7, <1>10, <1>11, <1>12, StepsOfPhase DEF Decodes

(* An output, or the end. *)
LEMMA DecodesOuts ==
  ASSUME Decodes, phase = "outs", ReadsWhatWasSent
  PROVE  ReadsWhatWasSent'
<1> DEFINE N == Len(sent.nodes)
           M == Len(sent.outs)
           pos == 3 + N + read
<1>1. Follows(rest, wire, damage, pos)
  BY DEF ReadsWhatWasSent, Errors
<1>2. IsList(wire)
  BY WireIs DEF Decodes
<1>3. N \in Nat /\ M \in Nat /\ due = M /\ read \in 0 .. M
  BY WireIs DEF Decodes, ReadsWhatWasSent, Errors
<1>4. /\ pos \in Nat /\ read \in Nat
      /\ read # M => pos < Len(wire)
      /\ read = M => pos = Len(wire)
  <2>1. \A k \in 0 .. M : (k # M => 3 + N + k < Len(wire)) /\ (k = M => 3 + N + k = Len(wire))
    BY WirePlaces DEF Decodes
  <2> HIDE DEF N, M
  <2> QED
    BY <1>3, <2>1
<1>5. loaded = sent.nodes /\ KeepsFirst(sent.outs, read, marks)
  BY DEF ReadsWhatWasSent, Errors
<1>6. /\ sent.outs \in Seq(Nat) /\ IsList(sent.outs) /\ DOMAIN sent.outs = 1 .. M
      /\ AllBelow(sent.outs, N)
  BY WireIs DEF Decodes, ClientInv
<1>7. sent' = sent /\ wire' = wire /\ damage' = damage
  BY DEF Decodes
<1> HIDE DEF pos
<1>8. CASE EndsEarly
  <2>1. read # M
    BY <1>3, <1>8 DEF EndsEarly
  <2> QED
    BY <1>1, <1>4, <1>8, <2>1, TruncatedWhenCut
<1>9. CASE EndLoad
  <2>1. /\ read = M /\ phase' = "loaded" /\ loaded' = loaded /\ marks' = marks
    BY <1>3, <1>9 DEF EndLoad
  <2>2. damage \in {"none", "extended", "cut"}
    BY DEF Decodes
  <2>3. damage \in {"none", "extended"}
    BY <1>1, <1>2, <1>4, <2>1, <2>2, EndNotCut
  <2>4. Unharmed' /\ loaded' = sent'.nodes /\ KeepsFirst(sent'.outs, Len(sent'.outs), marks')
    BY <1>5, <1>7, <2>1, <2>3 DEF Unharmed
  <2> QED
    BY <2>1, <2>4 DEF ReadsWhatWasSent
<1>10. CASE ReadOutput \/ RefuseOutput
  <2>1. rest # <<>> /\ read # M /\ read + 1 \in DOMAIN sent.outs
    <3>1. read < M /\ rest # <<>>
      BY <1>3, <1>10 DEF ReadOutput, RefuseOutput, HasItem
    <3> HIDE DEF M
    <3> QED
      BY <1>3, <1>6, <3>1
  <2>2. Head(rest) = wire[pos + 1] /\ Follows(Tail(rest), wire, damage, pos + 1)
    BY <1>1, <1>2, <1>4, <2>1, FollowsNext
  <2>3. Item = sent.outs[read + 1]
    <3>1. wire[3 + N + (read + 1)][2] = sent.outs[read + 1]
      BY <1>6, <2>1, WireIs DEF Decodes, Holds
    <3>2. 3 + N + (read + 1) = pos + 1
      <4> HIDE DEF N, M
      <4> QED
        BY <1>3, <1>4 DEF pos
    <3> QED
      BY <2>2, <3>1, <3>2 DEF Item
  <2>4. Item \in Nat /\ Item < Len(loaded) /\ Len(loaded) \in Nat
    BY <1>3, <1>5, <1>6, <2>1, <2>3 DEF AllBelow
  <2>5. ReadOutput
    BY <1>10, <2>4 DEF RefuseOutput
  <2>6. /\ marks' = Mark(marks, sent.outs[read + 1]) /\ rest' = Tail(rest)
        /\ phase' = "outs" /\ read' = read + 1 /\ due' = due /\ loaded' = loaded
    BY <2>3, <2>5 DEF ReadOutput, Advance
  <2>7. KeepsFirst(sent.outs, read + 1, Mark(marks, sent.outs[read + 1]))
    BY <1>4, <1>5, <1>6, <2>1, MarkKeepsFirst
  <2>8. KeepsFirst(sent'.outs, read', marks')
    BY <1>7, <2>6, <2>7
  <2>9. Follows(rest', wire', damage', 3 + Len(sent'.nodes) + read')
    <3>1. pos + 1 = 3 + N + read'
      <4> HIDE DEF N, M
      <4> QED
        BY <1>3, <1>4, <2>6 DEF pos
    <3> QED
      BY <1>7, <2>2, <2>6, <3>1
  <2>10. due' = Len(sent'.outs) /\ read' \in 0 .. Len(sent'.outs) /\ loaded' = sent'.nodes
    BY <1>3, <1>5, <1>6, <1>7, <2>1, <2>6
  <2> QED
    BY <2>6, <2>8, <2>9, <2>10 DEF ReadsWhatWasSent
<1> QED
  BY <1>8, <1>9, <1>10, StepsOfPhase DEF Decodes

(* Every step of the decoder. *)
LEMMA LoadTracks ==
  ASSUME ClientInv, pc = "work", TracksWire, Load, UNCHANGED <<sent, wire, damage, pc>>
  PROVE  TracksWire'
<1>1. damage \in {"none", "extended", "cut"} => ReadsWhatWasSent'
  <2> SUFFICES ASSUME damage \in {"none", "extended", "cut"} PROVE ReadsWhatWasSent'
    OBVIOUS
  <2>1. Decodes /\ ReadsWhatWasSent
    BY DEF Decodes, TracksWire
  <2>2. phase \in {"magic", "count", "nodes", "outs"}
    BY StepsOfPhase
  <2> QED
    BY <2>1, <2>2, DecodesMagic, DecodesCount, DecodesNodes, DecodesOuts
<1>2. damage = "other" => phase' = "BadMagic"
  <2> SUFFICES ASSUME damage = "other" PROVE phase' = "BadMagic"
    OBVIOUS
  <2>1. phase \in {"magic", "count", "nodes", "outs"}
    BY StepsOfPhase
  <2>2. phase = "magic" /\ HasItem /\ Item = OtherMagic
    BY <2>1 DEF TracksWire
  <2>3. RefuseMagic
    BY <2>2, StepsOfPhase, MagicsDiffer DEF EndsEarly, ReadMagic
  <2> QED
    BY <2>3 DEF RefuseMagic, Fail
<1> QED
  BY <1>1, <1>2 DEF TracksWire

-----------------------------------------------------------------------------
(* What may arrive. *)

(* All of it, at first. *)
LEMMA FollowsFromStart ==
  ASSUME NEW w, IsList(w)
  PROVE  /\ Follows(w, w, "none", 0)
         /\ Len(w) > 0 => Follows(w \o <<w[1]>>, w, "extended", 0)
         /\ \A n \in 0 .. (Len(w) - 1) : Follows(SubSeq(w, 1, n), w, "cut", 0)
<1>1. Len(w) \in Nat /\ \A n \in 1 .. Len(w) : 0 + n = n
  BY ListIs
<1>2. Follows(w, w, "none", 0)
  BY <1>1 DEF Follows
<1>3. ASSUME Len(w) > 0 PROVE Follows(w \o <<w[1]>>, w, "extended", 0)
  <2> DEFINE one == <<w[1]>>
             more == Joined(w, one)
  <2>1. one \in Seq({w[1]}) /\ Len(one) = 1
    OBVIOUS
  <2>2. IsList(one)
    BY <2>1, ListIn
  <2> HIDE DEF one
  <2>3. /\ IsList(more) /\ Len(more) = Len(w) + Len(one)
        /\ \A n \in 1 .. Len(w) : more[n] = w[n]
    BY <2>2, JoinedLists
  <2> HIDE DEF more
  <2>4. ASSUME NEW n \in 1 .. Len(more), 0 + n <= Len(w) PROVE more[n] = w[0 + n]
    <3>1. 0 + n = n /\ n \in 1 .. Len(w)
      BY <1>1, <2>1, <2>3, <2>4
    <3> QED
      BY <2>3, <3>1
  <2>5. 0 + Len(more) >= Len(w)
    BY <1>1, <2>1, <2>3
  <2>6. Follows(more, w, "extended", 0)
    BY <2>3, <2>4, <2>5 DEF Follows
  <2>7. more = w \o <<w[1]>>
    BY DEF more, one, Joined
  <2> QED
    BY <2>6, <2>7
<1>4. ASSUME NEW n \in 0 .. (Len(w) - 1) PROVE Follows(SubSeq(w, 1, n), w, "cut", 0)
  <2> DEFINE front == SubSeq(w, 1, n)
  <2>1. n \in 0 .. Len(w) /\ n < Len(w)
    BY <1>1
  <2>2. IsList(front) /\ Len(front) = n /\ \A m \in 1 .. n : front[m] = w[m]
    BY <2>1, StartOfList
  <2> HIDE DEF front
  <2>3. \A m \in 1 .. n : 0 + m = m
    BY <1>1
  <2>4. 0 + Len(front) < Len(w)
    BY <1>1, <2>1, <2>2
  <2>5. \A m \in 1 .. Len(front) : front[m] = w[0 + m]
    BY <2>2, <2>3
  <2>6. Follows(front, w, "cut", 0)
    BY <2>2, <2>4, <2>5 DEF Follows
  <2> QED
    BY <2>6 DEF front
<1> QED
  BY <1>2, <1>3, <1>4

(* The decoder starts at the start of what arrives. *)
LEMMA DeliverTracks ==
  ASSUME ClientInv, NEW arrival \in Arrivals, Deliver(arrival)
  PROVE  TracksWire'
<1>1. /\ rest' = arrival[2] /\ damage' = arrival[1] /\ phase' = "magic"
      /\ loaded' = <<>> /\ marks' = <<>> /\ wire' = wire /\ sent' = sent
      /\ pc = "split" /\ pc' = "work"
  BY DEF Deliver, StartLoad, Goto, clientVars
<1>2. IsList(wire) /\ Len(wire) \in Nat /\ Len(wire) > 0
  BY <1>1, WireIs, WirePlaces
<1>3. /\ Follows(wire, wire, "none", 0)
      /\ Len(wire) > 0 => Follows(wire \o <<wire[1]>>, wire, "extended", 0)
      /\ \A n \in 0 .. (Len(wire) - 1) : Follows(SubSeq(wire, 1, n), wire, "cut", 0)
  BY <1>2, FollowsFromStart
<1>4. ASSUME damage' \in {"none", "extended", "cut"}
      PROVE  Follows(rest', wire', damage', 0)
  <2>1. \/ arrival = <<"none", wire>> \/ arrival = <<"extended", wire \o <<wire[1]>> >>
        \/ \E n \in 0 .. (Len(wire) - 1) : arrival = <<"cut", SubSeq(wire, 1, n)>>
    BY <1>1, <1>4 DEF Arrivals, Cuts
  <2>2. CASE arrival = <<"none", wire>>
    BY <1>1, <1>3, <2>2
  <2>3. CASE arrival = <<"extended", wire \o <<wire[1]>> >>
    BY <1>1, <1>2, <1>3, <2>3
  <2>4. ASSUME NEW n \in 0 .. (Len(wire) - 1), arrival = <<"cut", SubSeq(wire, 1, n)>>
        PROVE  Follows(rest', wire', damage', 0)
    <3>1. rest' = SubSeq(wire, 1, n) /\ damage' = "cut"
      BY <1>1, <2>4
    <3> QED
      BY <1>1, <1>3, <3>1
  <2> QED
    BY <2>1, <2>2, <2>3, <2>4
<1>5. ASSUME damage' = "other" PROVE HasItem' /\ Item' = OtherMagic
  <2>1. arrival = <<"other", OfOtherVersion>>
    <3>1. arrival[1] = "other"
      BY <1>1, <1>5
    <3> DEFINE three == {<<"none", wire>>, <<"other", OfOtherVersion>>,
                         <<"extended", wire \o <<wire[1]>> >>}
               cuts == {<<"cut", w>> : w \in Cuts}
               rewrites == {<<"rewritten", w>> : w \in Rewritten \ {wire}}
    <3>2. arrival \in three \/ arrival \in cuts \/ arrival \in rewrites
      BY DEF Arrivals
    <3>3. arrival \notin cuts /\ arrival \notin rewrites
      BY <3>1
    <3> QED
      BY <3>1, <3>2, <3>3
  <2>2. rest' = ReplaceAt(wire, 1, <<"magic", OtherMagic>>)
    BY <1>1, <2>1 DEF OfOtherVersion
  <2> DEFINE other == ReplaceAt(wire, 1, <<"magic", OtherMagic>>)
  <2>3. /\ DOMAIN other = 1 .. Len(wire) /\ other = [n \in 1 .. Len(wire) |-> other[n]]
        /\ other[1][2] = OtherMagic
    BY <1>2 DEF ReplaceAt
  <2> HIDE DEF other
  <2>4. IsList(other) /\ Len(other) = Len(wire)
    BY <1>2, <2>3, ListOf
  <2>5. other # <<>>
    BY <1>2, <2>4
  <2>6. Head(other) = other[1]
    BY <2>4, <2>5, TailOfList
  <2> QED
    BY <2>2, <2>3, <2>5, <2>6 DEF HasItem, Item, other
<1>6. damage' \in {"none", "extended", "cut"} => ReadsWhatWasSent'
  BY <1>1, <1>4 DEF ReadsWhatWasSent
<1> QED
  BY <1>1, <1>5, <1>6 DEF TracksWire

(* An empty store can be sent. *)
LEMMA EmptySendable == Sendable(<<>>)
<1>1. IsList(<<>>) /\ DOMAIN <<>> = {}
  BY NoEntriesSorted DEF SortedByName, Named
<1> QED
  BY <1>1 DEF Sendable, IsGraph

(* What is serialized can be read back. *)
LEMMA SerializeClient ==
  ASSUME ClientInv, NEW graph, Serialize(graph), Sendable(graph.nodes),
         graph.outs \in Seq(Nat), AllBelow(graph.outs, Len(graph.nodes))
  PROVE  ClientInv'
<1>1. sent' = graph /\ wire' = Encode(graph.nodes, graph.outs) /\ nodes' = nodes
  BY DEF Serialize
<1>2. Sendable(nodes')
  BY <1>1 DEF ClientInv
<1>3. /\ Sendable(sent'.nodes) /\ sent'.outs \in Seq(Nat)
      /\ AllBelow(sent'.outs, Len(sent'.nodes))
      /\ wire' = Encode(sent'.nodes, sent'.outs)
  BY <1>1
<1> QED
  BY <1>2, <1>3 DEF ClientInv

(* A store that stays, with what was sent from it. *)
LEMMA SameClient ==
  ASSUME ClientInv, UNCHANGED <<nodes, sent, wire>>, pc' # "record" => pc # "record"
  PROVE  ClientInv'
<1>1. nodes' = nodes /\ sent' = sent /\ wire' = wire
  OBVIOUS
<1>2. Sendable(nodes')
  BY <1>1 DEF ClientInv
<1>3. ASSUME pc' # "record"
      PROVE  /\ Sendable(sent'.nodes) /\ sent'.outs \in Seq(Nat)
             /\ AllBelow(sent'.outs, Len(sent'.nodes))
             /\ wire' = Encode(sent'.nodes, sent'.outs)
  BY <1>1, <1>3 DEF ClientInv
<1> QED
  BY <1>2, <1>3 DEF ClientInv

(* Every step of the client. *)
LEMMA ClientStep ==
  ASSUME ClientInv, [Next]_vars
  PROVE  ClientInv'
<1>1. ASSUME NEW s \in Shapes, NEW ins \in InputLists(s.arity), Record(s, ins)
      PROVE  ClientInv'
  <2>1. Sendable(nodes')
    BY <1>1, RecordSendable DEF ClientInv
  <2>2. pc' = "record"
    BY <1>1 DEF Record
  <2> QED
    BY <2>1, <2>2 DEF ClientInv
<1>2. ASSUME NEW outs \in OutputLists, SerializeRecorded(outs)
      PROVE  ClientInv'
  <2> DEFINE graph == [nodes |-> nodes, outs |-> outs, fused |-> FALSE]
  <2>1. AllBelow(outs, Len(nodes)) /\ Serialize(graph)
    BY <1>2 DEF SerializeRecorded
  <2>2. graph.nodes = nodes /\ graph.outs = outs /\ outs \in Seq(Nat)
    BY OutputsAreIds
  <2>3. Sendable(nodes)
    BY DEF ClientInv
  <2> HIDE DEF graph
  <2> QED
    BY <2>1, <2>2, <2>3, SerializeClient
<1>3. CASE SerializeCompiled
  <2> DEFINE graph == [nodes |-> FusedChain(nodes), outs |-> <<1>>, fused |-> TRUE]
  <2>1. IsChain(nodes) /\ Serialize(graph)
    BY <1>3 DEF SerializeCompiled
  <2>2. Sendable(FusedChain(nodes)) /\ Len(FusedChain(nodes)) = 2
    BY <2>1, FusedSendable DEF ClientInv
  <2>3. graph.nodes = FusedChain(nodes) /\ graph.outs = <<1>>
    OBVIOUS
  <2>4. <<1>> \in Seq(Nat) /\ AllBelow(<<1>>, 2)
    BY DEF AllBelow
  <2> HIDE DEF graph
  <2> QED
    BY <2>1, <2>2, <2>3, <2>4, SerializeClient
<1>4. CASE \/ \E uris \in UriLists : \E n \in ChunkSizes : ForDatasets(uris, n)
           \/ \E uri \in Uris : \E n \in StepCounts : ForSteps(uri, n)
           \/ WithoutTasks \/ SplitStep
           \/ pc = "split" /\ (\E arrival \in Arrivals : Deliver(arrival))
           \/ LoadStep \/ RunTask \/ UNCHANGED vars
  <2>1. UNCHANGED <<nodes, sent, wire>> /\ (pc' # "record" => pc # "record")
    BY <1>4 DEF ForDatasets, ForSteps, WithoutTasks, SplitStep, Deliver, LoadStep, RunTask,
                vars, clientVars, Goto
  <2> QED
    BY <2>1, SameClient
<1>5. CASE NewSession
  <2>1. nodes' = <<>> /\ pc' = "record"
    BY <1>5 DEF NewSession, Goto
  <2> QED
    BY <2>1, EmptySendable DEF ClientInv
<1> QED
  BY <1>1, <1>2, <1>3, <1>4, <1>5 DEF Next

(* Every step, seen from the decoder. *)
LEMMA TracksStep ==
  ASSUME ClientInv, TracksWire, [Next]_vars
  PROVE  TracksWire'
<1>1. CASE LoadStep
  <2>1. pc = "work" /\ Load /\ UNCHANGED <<sent, wire, damage, pc>>
    BY <1>1 DEF LoadStep, clientVars, workerVars
  <2> QED
    BY <2>1, LoadTracks
<1>2. CASE pc = "split" /\ (\E arrival \in Arrivals : Deliver(arrival))
  BY <1>2, DeliverTracks
<1>3. CASE NewSession
  BY <1>3 DEF NewSession, Goto, TracksWire
<1>4. CASE RunTask \/ UNCHANGED vars
  <2>1. UNCHANGED <<loaderVars, sent, wire, damage, pc>>
    BY <1>4 DEF RunTask, vars, clientVars, workerVars
  <2>2. /\ rest' = rest /\ phase' = phase /\ due' = due /\ read' = read
        /\ loaded' = loaded /\ marks' = marks /\ sent' = sent /\ wire' = wire
        /\ damage' = damage /\ pc' = pc
    BY <2>1 DEF loaderVars
  <2>3. (damage \in {"none", "extended", "cut"} => ReadsWhatWasSent)
        => (damage' \in {"none", "extended", "cut"} => ReadsWhatWasSent')
    BY <2>2 DEF ReadsWhatWasSent, Unharmed
  <2> QED
    BY <2>2, <2>3 DEF TracksWire, HasItem, Item
<1>5. CASE \/ \E s \in Shapes : \E ins \in InputLists(s.arity) : Record(s, ins)
           \/ \E outs \in OutputLists : SerializeRecorded(outs)
           \/ SerializeCompiled
           \/ \E uris \in UriLists : \E n \in ChunkSizes : ForDatasets(uris, n)
           \/ \E uri \in Uris : \E n \in StepCounts : ForSteps(uri, n)
           \/ WithoutTasks \/ SplitStep
  <2>1. phase' = phase /\ pc # "work" /\ pc' # "work"
    BY <1>5 DEF Record, SerializeRecorded, SerializeCompiled, Serialize, ForDatasets,
                ForSteps, WithoutTasks, SplitStep, Goto, loaderVars
  <2> QED
    BY <2>1 DEF TracksWire
<1> QED
  BY <1>1, <1>2, <1>3, <1>4, <1>5 DEF Next

(* Whoever reads what was sent loads it or refuses. *)
LEMMA TracksLoads ==
  ASSUME ClientInv, TracksWire
  PROVE  LoadsOrRefuses
<1>1. ASSUME phase \in Errors, Unharmed PROVE FALSE
  <2>1. ReadsWhatWasSent /\ damage # "cut"
    BY <1>1 DEF TracksWire, Unharmed, Errors
  <2> QED
    BY <1>1, <2>1 DEF ReadsWhatWasSent, Errors
<1>2. ASSUME phase = "loaded" PROVE damage # "other"
  BY <1>2 DEF TracksWire
<1>3. ASSUME phase = "loaded" PROVE damage # "cut"
  <2> SUFFICES ASSUME damage = "cut" PROVE FALSE
    OBVIOUS
  <2>1. ReadsWhatWasSent
    BY <1>3 DEF TracksWire
  <2> QED
    BY <1>3, <2>1 DEF ReadsWhatWasSent, Errors, Unharmed
<1>4. ASSUME phase = "loaded", Unharmed
      PROVE  /\ loaded = sent.nodes
             /\ ToSet(marks) = ToSet(sent.outs)
             /\ \A m, n \in DOMAIN marks :
                  m < n => First(sent.outs, marks[m]) < First(sent.outs, marks[n])
             /\ IsInjective(sent.outs) => Encode(loaded, marks) = wire
  <2>1. pc = "work" /\ ReadsWhatWasSent
    BY <1>4 DEF TracksWire, Unharmed
  <2>2. loaded = sent.nodes /\ KeepsFirst(sent.outs, Len(sent.outs), marks)
    BY <1>4, <2>1 DEF ReadsWhatWasSent, Errors
  <2>3. IsList(sent.outs)
    BY <2>1, WireIs
  <2>4. wire = Encode(sent.nodes, sent.outs)
    BY <2>1 DEF ClientInv
  <2>5. ASSUME IsInjective(sent.outs) PROVE Encode(loaded, marks) = wire
    <3>1. marks = sent.outs
      BY <2>2, <2>3, <2>5, KeptAsAsked
    <3> QED
      BY <2>2, <2>4, <3>1
  <2> QED
    BY <2>2, <2>3, <2>5, AllKept
<1> QED
  BY <1>1, <1>2, <1>3, <1>4 DEF LoadsOrRefuses

(* What arrives unharmed, or with bytes after its end, is loaded as it was *)
(* sent, its outputs in the order requested, each once; when none was      *)
(* requested twice, it serializes to the bytes that were sent.  A wire     *)
(* that was cut anywhere or is another version's is refused.               *)
THEOREM LoadsOrRefusesAlways == Spec => []LoadsOrRefuses
<1>1. Init => ClientInv /\ TracksWire
  BY EmptySendable DEF Init, Idle, ClientInv, TracksWire
<1>2. ClientInv /\ TracksWire /\ [Next]_vars => (ClientInv /\ TracksWire)'
  BY ClientStep, TracksStep
<1>3. ClientInv /\ TracksWire => LoadsOrRefuses
  BY TracksLoads
<1> QED
  BY <1>1, <1>2, <1>3, PTL DEF Spec

-----------------------------------------------------------------------------
(* What a recorded dict means. *)

\* A dict of Python values.
IsDict(d) ==
  /\ Named(d) /\ NamesDiffer(d)
  /\ \A n \in DOMAIN d : d[n] = Entry(d[n].k, d[n].v) /\ IsPy(d[n].v)

(* A shape has one. *)
LEMMA ShapeDict ==
  ASSUME NEW s \in Shapes
  PROVE  IsDict(s.dict)
  BY ShapesAreCalls DEF IsDict, Named, NamesDiffer, IsList

(* What the client keeps of a value is what Python is shown of it, and what *)
(* it means is what is shown of its canonical form.                         *)
LEMMA ValueShown ==
  ASSUME NEW v, IsPy(v)
  PROVE  /\ \E tag \in {"i", "f", "b", "s"} : \E val : FromPy(v) = ParamValue(tag, val)
         /\ \E tag \in {"i", "f", "b", "s"} : \E val :
              Canonical(FromPy(v)) = ParamValue(tag, val)
         /\ ToPy(FromPy(v)) = Kept(v)
         /\ ToPy(Canonical(FromPy(v))) = Meant(v)
         /\ Meant(Kept(v)) = Meant(v) /\ Meant(Meant(v)) = Meant(v)
<1>1. CASE \E b \in {"true", "false"} : v = PyValue("bool", <<b>>)
  <2>1. v.type = "bool"
    BY <1>1 DEF PyValue
  <2>2. v = PyValue("bool", v.val)
    BY <1>1 DEF PyValue
  <2>3. FromPy(v) = ParamValue("b", v.val)
    BY <2>1 DEF FromPy
  <2>4. Canonical(FromPy(v)) = ParamValue("b", v.val)
    BY <2>3 DEF Canonical, ParamValue
  <2>5. ToPy(ParamValue("b", v.val)) = v
    BY <2>2 DEF ToPy, ParamValue
  <2>6. Kept(v) = v /\ Meant(v) = v
    BY <2>1 DEF Kept, Meant
  <2> QED
    BY <2>3, <2>4, <2>5, <2>6
<1>2. CASE v = PyValue("str", v.val)
  <2>1. v.type = "str"
    BY <1>2 DEF PyValue
  <2>3. FromPy(v) = ParamValue("s", v.val)
    BY <2>1 DEF FromPy, FitsInt64
  <2>4. Canonical(FromPy(v)) = ParamValue("s", v.val)
    BY <2>3 DEF Canonical, ParamValue
  <2>5. ToPy(ParamValue("s", v.val)) = v
    BY <1>2 DEF ToPy, ParamValue
  <2>6. Kept(v) = v /\ Meant(v) = v
    BY <2>1 DEF Kept, Meant
  <2> QED
    BY <2>3, <2>4, <2>5, <2>6
<1>3. ASSUME NEW n \in Ints, v = PyValue("int", <<n>>)
      PROVE  /\ FromPy(v) = ParamValue("i", v.val)
             /\ Canonical(FromPy(v)) = ParamValue("i", v.val)
             /\ ToPy(ParamValue("i", v.val)) = v
             /\ Kept(v) = v /\ Meant(v) = v
  <2>1. v.type = "int" /\ v.val[1] = n /\ v = PyValue("int", v.val)
    BY <1>3 DEF PyValue
  <2>2. n \notin DOMAIN Rounded
    BY FloatsClosed
  <2>3. FromPy(v) = ParamValue("i", v.val)
    BY <2>1 DEF FromPy, FitsInt64
  <2>4. Canonical(FromPy(v)) = ParamValue("i", v.val)
    BY <2>3 DEF Canonical, ParamValue
  <2>5. ToPy(ParamValue("i", v.val)) = v
    BY <2>1 DEF ToPy, ParamValue
  <2>6. Kept(v) = v /\ Meant(v) = v
    BY <2>1, <2>2 DEF Kept, Meant
  <2> QED
    BY <2>3, <2>4, <2>5, <2>6
<1>4. ASSUME NEW n \in DOMAIN Rounded, v = PyValue("int", <<n>>)
      PROVE  /\ FromPy(v) = ParamValue("f", <<Rounded[n]>>)
             /\ Canonical(FromPy(v)) = ParamValue("f", <<Rounded[n]>>)
             /\ ToPy(ParamValue("f", <<Rounded[n]>>)) = PyValue("float", <<Rounded[n]>>)
             /\ Kept(v) = PyValue("float", <<Rounded[n]>>)
             /\ Meant(v) = PyValue("float", <<Rounded[n]>>)
             /\ Meant(PyValue("float", <<Rounded[n]>>)) = PyValue("float", <<Rounded[n]>>)
  <2>1. v.type = "int" /\ v.val[1] = n
    BY <1>4 DEF PyValue
  <2>2. n \notin Ints /\ Rounded[n] \notin NaNs
    BY FloatsClosed
  <2>3. FromPy(v) = ParamValue("f", <<Rounded[n]>>)
    BY <2>1, <2>2 DEF FromPy, FitsInt64
  <2>4. Canonical(FromPy(v)) = ParamValue("f", <<Rounded[n]>>)
    BY <2>2, <2>3 DEF Canonical, ParamValue, FloatKey
  <2>5. ToPy(ParamValue("f", <<Rounded[n]>>)) = PyValue("float", <<Rounded[n]>>)
    BY DEF ToPy, ParamValue
  <2>6. Kept(v) = PyValue("float", <<Rounded[n]>>)
    BY <2>1 DEF Kept
  <2>7. Meant(v) = PyValue("float", <<Rounded[n]>>)
    BY <2>1, <2>6 DEF Meant
  <2>8. Meant(PyValue("float", <<Rounded[n]>>)) = PyValue("float", <<Rounded[n]>>)
    BY <2>2 DEF Meant, Kept, PyValue
  <2> QED
    BY <2>3, <2>4, <2>5, <2>6, <2>7, <2>8
<1>5. ASSUME NEW bits \in Floats, v = PyValue("float", <<bits>>)
      PROVE  /\ FromPy(v) = ParamValue("f", v.val)
             /\ Canonical(FromPy(v)) = ParamValue("f", <<FloatKey(bits)>>)
             /\ ToPy(ParamValue("f", v.val)) = v
             /\ ToPy(ParamValue("f", <<FloatKey(bits)>>)) = PyValue("float", <<FloatKey(bits)>>)
             /\ Kept(v) = v
             /\ Meant(v) = PyValue("float", <<FloatKey(bits)>>)
             /\ Meant(PyValue("float", <<FloatKey(bits)>>))
                = PyValue("float", <<FloatKey(bits)>>)
  <2>1. v.type = "float" /\ v.val = <<bits>> /\ v.val[1] = bits /\ v = PyValue("float", v.val)
    BY <1>5 DEF PyValue
  <2>2. FromPy(v) = ParamValue("f", v.val)
    BY <2>1 DEF FromPy, FitsInt64
  <2>3. Canonical(FromPy(v)) = ParamValue("f", <<FloatKey(bits)>>)
    BY <2>1, <2>2 DEF Canonical, ParamValue
  <2>4. ToPy(ParamValue("f", v.val)) = v
    BY <2>1 DEF ToPy, ParamValue
  <2>5. ToPy(ParamValue("f", <<FloatKey(bits)>>)) = PyValue("float", <<FloatKey(bits)>>)
    BY DEF ToPy, ParamValue
  <2>6. Kept(v) = v
    BY <2>1 DEF Kept
  <2>7. Meant(v) = PyValue("float", <<FloatKey(bits)>>)
    BY <1>5, <2>1, <2>6 DEF Meant, FloatKey
  <2>8. Meant(PyValue("float", <<FloatKey(bits)>>)) = PyValue("float", <<FloatKey(bits)>>)
    BY FloatsClosed DEF Meant, Kept, PyValue, FloatKey
  <2> QED
    BY <2>2, <2>3, <2>4, <2>5, <2>6, <2>7, <2>8
<1> QED
  BY <1>1, <1>2, <1>3, <1>4, <1>5 DEF IsPy

(* What is shown of two values tells them apart. *)
LEMMA ShownApart ==
  ASSUME NEW v, \E tag \in {"i", "f", "b", "s"} : \E val : v = ParamValue(tag, val),
         NEW w, \E tag \in {"i", "f", "b", "s"} : \E val : w = ParamValue(tag, val)
  PROVE  v = w <=> ToPy(v) = ToPy(w)
  BY DEF ToPy, ParamValue, PyValue

\* The entries, and the pairs, of a dict with other values.
EntriesWith(d, f) == {Entry(d[n].k, f[n]) : n \in DOMAIN d}
PairsWith(d, f) == {<<d[n].k, f[n]>> : n \in DOMAIN d}

\* Each entry of d has one of e with the same name and a value that matches.
Covers(d, p, e, q) == \A m \in DOMAIN d : \E n \in DOMAIN e : d[m].k = e[n].k /\ p[m] = q[n]

(* Such sets are equal when each covers the other. *)
LEMMA WithCovers ==
  ASSUME NEW d, NEW e, NEW p, NEW q
  PROVE  /\ EntriesWith(d, p) = EntriesWith(e, q) <=> Covers(d, p, e, q) /\ Covers(e, q, d, p)
         /\ PairsWith(d, p) = PairsWith(e, q) <=> Covers(d, p, e, q) /\ Covers(e, q, d, p)
<1>1. \A m \in DOMAIN d : \A n \in DOMAIN e :
        /\ Entry(d[m].k, p[m]) = Entry(e[n].k, q[n]) <=> d[m].k = e[n].k /\ p[m] = q[n]
        /\ <<d[m].k, p[m]>> = <<e[n].k, q[n]>> <=> d[m].k = e[n].k /\ p[m] = q[n]
  BY DEF Entry
<1>2. ASSUME EntriesWith(d, p) = EntriesWith(e, q)
      PROVE  Covers(d, p, e, q) /\ Covers(e, q, d, p)
  <2>1. \A m \in DOMAIN d : \E n \in DOMAIN e : Entry(d[m].k, p[m]) = Entry(e[n].k, q[n])
    BY <1>2, Zenon DEF EntriesWith
  <2>2. \A n \in DOMAIN e : \E m \in DOMAIN d : Entry(d[m].k, p[m]) = Entry(e[n].k, q[n])
    BY <1>2, Zenon DEF EntriesWith
  <2> QED
    BY <1>1, <2>1, <2>2 DEF Covers
<1>3. ASSUME PairsWith(d, p) = PairsWith(e, q)
      PROVE  Covers(d, p, e, q) /\ Covers(e, q, d, p)
  <2>1. \A m \in DOMAIN d : \E n \in DOMAIN e : <<d[m].k, p[m]>> = <<e[n].k, q[n]>>
    BY <1>3, Zenon DEF PairsWith
  <2>2. \A n \in DOMAIN e : \E m \in DOMAIN d : <<d[m].k, p[m]>> = <<e[n].k, q[n]>>
    BY <1>3, Zenon DEF PairsWith
  <2> QED
    BY <1>1, <2>1, <2>2 DEF Covers
<1>4. ASSUME Covers(d, p, e, q), Covers(e, q, d, p)
      PROVE  EntriesWith(d, p) = EntriesWith(e, q) /\ PairsWith(d, p) = PairsWith(e, q)
  <2>1. ASSUME NEW m \in DOMAIN d
        PROVE  Entry(d[m].k, p[m]) \in EntriesWith(e, q) /\ <<d[m].k, p[m]>> \in PairsWith(e, q)
    <3>1. PICK n \in DOMAIN e : d[m].k = e[n].k /\ p[m] = q[n]
      BY <1>4 DEF Covers
    <3>2. Entry(d[m].k, p[m]) = Entry(e[n].k, q[n]) /\ <<d[m].k, p[m]>> = <<e[n].k, q[n]>>
      BY <3>1
    <3> QED
      BY <3>2, Zenon DEF EntriesWith, PairsWith
  <2>2. ASSUME NEW n \in DOMAIN e
        PROVE  Entry(e[n].k, q[n]) \in EntriesWith(d, p) /\ <<e[n].k, q[n]>> \in PairsWith(d, p)
    <3>1. PICK m \in DOMAIN d : e[n].k = d[m].k /\ q[n] = p[m]
      BY <1>4 DEF Covers
    <3>2. Entry(e[n].k, q[n]) = Entry(d[m].k, p[m]) /\ <<e[n].k, q[n]>> = <<d[m].k, p[m]>>
      BY <3>1
    <3> QED
      BY <3>2, Zenon DEF EntriesWith, PairsWith
  <2>3. /\ EntriesWith(d, p) \subseteq EntriesWith(e, q)
        /\ PairsWith(d, p) \subseteq PairsWith(e, q)
    BY <2>1, Zenon DEF EntriesWith, PairsWith
  <2>4. /\ EntriesWith(e, q) \subseteq EntriesWith(d, p)
        /\ PairsWith(e, q) \subseteq PairsWith(d, p)
    BY <2>2, Zenon DEF EntriesWith, PairsWith
  <2> QED
    BY <2>3, <2>4
<1> QED
  BY <1>2, <1>3, <1>4

(* Sorted lists that hold the entries of two dicts with some values are     *)
(* equal when the dicts are equal with any others that tell the same apart. *)
LEMMA SameEntries ==
  ASSUME NEW s, SortedByName(s), NamesDiffer(s), NEW t, SortedByName(t), NamesDiffer(t),
         NEW d, NEW e, NEW f, NEW g, NEW p, NEW q,
         ToSet(s) = EntriesWith(d, f), ToSet(t) = EntriesWith(e, g),
         \A m \in DOMAIN d : \A n \in DOMAIN e : f[m] = g[n] <=> p[m] = q[n]
  PROVE  s = t <=> PairsWith(d, p) = PairsWith(e, q)
<1>1. s = t <=> EntriesWith(d, f) = EntriesWith(e, g)
  BY SortedIsUnique
<1>2. /\ Covers(d, f, e, g) <=> Covers(d, p, e, q)
      /\ Covers(e, g, d, f) <=> Covers(e, q, d, p)
  BY DEF Covers
<1> QED
  BY <1>1, <1>2, WithCovers

(* The parameters a dict is recorded with. *)
LEMMA RecordedParams ==
  ASSUME NEW d, IsDict(d)
  PROVE  /\ SortedByName(ParamsFromPy(d)) /\ NamesDiffer(ParamsFromPy(d))
         /\ ToSet(ParamsFromPy(d)) = {Entry(d[n].k, FromPy(d[n].v)) : n \in DOMAIN d}
<1> DEFINE entries == [n \in DOMAIN d |-> Entry(d[n].k, FromPy(d[n].v))]
           N == Len(d)
<1>1. N \in Nat /\ DOMAIN d = 1 .. N
  BY ListIs DEF IsDict, Named
<1>2. \A n \in DOMAIN d : entries[n].k = d[n].k
  BY DEF Entry
<1>3. DOMAIN entries = 1 .. N /\ entries = [n \in 1 .. N |-> entries[n]]
  BY <1>1
<1>4. ParamsFromPy(d) = ParamMap(entries)
  BY DEF ParamsFromPy
<1>5. ToSet(entries) = {Entry(d[n].k, FromPy(d[n].v)) : n \in DOMAIN d}
  BY DEF ToSet
<1> HIDE DEF entries, N
<1>6. IsList(entries)
  BY <1>1, <1>3, ListOf
<1>7. Named(entries)
  BY <1>1, <1>2, <1>3, <1>6 DEF Named, IsDict
<1>8. NamesDiffer(entries)
  BY <1>1, <1>2, <1>3 DEF NamesDiffer, IsDict
<1> QED
  BY <1>4, <1>5, <1>7, <1>8, ParamMapSorts, ParamMapKeeps

(* Their canonical form. *)
LEMMA CanonicalParams ==
  ASSUME NEW s, SortedByName(s), NamesDiffer(s)
  PROVE  /\ SortedByName(CanonicalMap(s)) /\ NamesDiffer(CanonicalMap(s))
         /\ ToSet(CanonicalMap(s)) = {Entry(e.k, Canonical(e.v)) : e \in ToSet(s)}
<1> DEFINE r == CanonicalMap(s)
           N == Len(s)
<1>1. N \in Nat /\ DOMAIN s = 1 .. N
  BY ListIs DEF SortedByName, Named
<1>2. /\ DOMAIN r = 1 .. N /\ r = [n \in 1 .. N |-> r[n]]
      /\ \A n \in DOMAIN s : r[n] = Entry(s[n].k, Canonical(s[n].v))
  BY <1>1 DEF CanonicalMap
<1> HIDE DEF r, N
<1>3. \A n \in DOMAIN s : r[n].k = s[n].k
  <2>1. \A k, v : Entry(k, v).k = k
    BY DEF Entry
  <2> QED
    BY <1>2, <2>1
<1>4. IsList(r)
  BY <1>1, <1>2, ListOf
<1>5. SortedByName(r) /\ NamesDiffer(r)
  BY <1>1, <1>2, <1>3, <1>4 DEF SortedByName, Named, NamesDiffer
<1>6. ToSet(r) = {Entry(e.k, Canonical(e.v)) : e \in ToSet(s)}
  BY <1>1, <1>2, Zenon DEF ToSet
<1> QED
  BY <1>5, <1>6 DEF r

(* Two dicts are recorded with the same parameters when they keep the same, *)
(* and with the same canonical ones when they mean the same.                *)
LEMMA SameParams ==
  ASSUME NEW d, IsDict(d), NEW e, IsDict(e)
  PROVE  /\ ParamsFromPy(d) = ParamsFromPy(e) <=> Dict(d, Kept) = Dict(e, Kept)
         /\ CanonicalMap(ParamsFromPy(d)) = CanonicalMap(ParamsFromPy(e))
            <=> Dict(d, Meant) = Dict(e, Meant)
<1> DEFINE F(x) == [n \in DOMAIN x |-> FromPy(x[n].v)]
           C(x) == [n \in DOMAIN x |-> Canonical(FromPy(x[n].v))]
           K(x) == [n \in DOMAIN x |-> Kept(x[n].v)]
           M(x) == [n \in DOMAIN x |-> Meant(x[n].v)]
<1>1. \A n \in DOMAIN d : IsPy(d[n].v)
  BY DEF IsDict
<1>2. \A n \in DOMAIN e : IsPy(e[n].v)
  BY DEF IsDict
<1>3. ASSUME NEW m \in DOMAIN d, NEW n \in DOMAIN e
      PROVE  /\ F(d)[m] = F(e)[n] <=> K(d)[m] = K(e)[n]
             /\ C(d)[m] = C(e)[n] <=> M(d)[m] = M(e)[n]
  <2> DEFINE v == d[m].v
             w == e[n].v
  <2>1. IsPy(v) /\ IsPy(w)
    BY <1>1, <1>2
  <2> HIDE DEF v, w
  <2>2. FromPy(v) = FromPy(w) <=> Kept(v) = Kept(w)
    BY <2>1, ValueShown, ShownApart
  <2>3. Canonical(FromPy(v)) = Canonical(FromPy(w)) <=> Meant(v) = Meant(w)
    BY <2>1, ValueShown, ShownApart
  <2> QED
    BY <2>2, <2>3 DEF v, w
<1>4. ASSUME NEW x, IsDict(x)
      PROVE  /\ ToSet(ParamsFromPy(x)) = EntriesWith(x, F(x))
             /\ ToSet(CanonicalMap(ParamsFromPy(x))) = EntriesWith(x, C(x))
             /\ SortedByName(ParamsFromPy(x)) /\ NamesDiffer(ParamsFromPy(x))
             /\ SortedByName(CanonicalMap(ParamsFromPy(x)))
             /\ NamesDiffer(CanonicalMap(ParamsFromPy(x)))
  <2>1. /\ SortedByName(ParamsFromPy(x)) /\ NamesDiffer(ParamsFromPy(x))
        /\ ToSet(ParamsFromPy(x)) = {Entry(x[n].k, FromPy(x[n].v)) : n \in DOMAIN x}
    BY <1>4, RecordedParams
  <2>2. /\ SortedByName(CanonicalMap(ParamsFromPy(x)))
        /\ NamesDiffer(CanonicalMap(ParamsFromPy(x)))
        /\ ToSet(CanonicalMap(ParamsFromPy(x)))
           = {Entry(y.k, Canonical(y.v)) : y \in ToSet(ParamsFromPy(x))}
    BY <2>1, CanonicalParams
  <2>3. {Entry(x[n].k, FromPy(x[n].v)) : n \in DOMAIN x} = EntriesWith(x, F(x))
    BY Zenon DEF EntriesWith
  <2>4. \A n \in DOMAIN x :
          /\ Entry(x[n].k, FromPy(x[n].v)).k = x[n].k
          /\ Canonical(Entry(x[n].k, FromPy(x[n].v)).v) = C(x)[n]
    BY DEF Entry
  <2>5. ToSet(CanonicalMap(ParamsFromPy(x))) = EntriesWith(x, C(x))
    <3>1. \A n \in DOMAIN x : Entry(x[n].k, C(x)[n]) =
            Entry(Entry(x[n].k, FromPy(x[n].v)).k, Canonical(Entry(x[n].k, FromPy(x[n].v)).v))
      BY <2>4
    <3> HIDE DEF C
    <3>2. ASSUME NEW y \in ToSet(ParamsFromPy(x))
          PROVE  Entry(y.k, Canonical(y.v)) \in EntriesWith(x, C(x))
      <4>1. PICK n \in DOMAIN x : y = Entry(x[n].k, FromPy(x[n].v))
        BY <2>1
      <4> QED
        BY <3>1, <4>1, Zenon DEF EntriesWith
    <3>3. ASSUME NEW n \in DOMAIN x
          PROVE  Entry(x[n].k, C(x)[n]) \in ToSet(CanonicalMap(ParamsFromPy(x)))
      <4>1. Entry(x[n].k, FromPy(x[n].v)) \in ToSet(ParamsFromPy(x))
        BY <2>1
      <4> QED
        BY <2>2, <3>1, <4>1
    <3>4. ToSet(CanonicalMap(ParamsFromPy(x))) \subseteq EntriesWith(x, C(x))
      BY <2>2, <3>2
    <3>5. EntriesWith(x, C(x)) \subseteq ToSet(CanonicalMap(ParamsFromPy(x)))
      BY <3>3, Zenon DEF EntriesWith
    <3> QED
      BY <3>4, <3>5
  <2> QED
    BY <2>1, <2>2, <2>3, <2>5
<1>5. ASSUME NEW x
      PROVE  /\ Dict(x, Kept) = PairsWith(x, K(x))
             /\ Dict(x, Meant) = PairsWith(x, M(x))
  BY Zenon DEF Dict, PairsWith
<1> HIDE DEF F, C, K, M
<1>6. ParamsFromPy(d) = ParamsFromPy(e)
      <=> PairsWith(d, K(d)) = PairsWith(e, K(e))
  BY <1>3, <1>4, SameEntries
<1>7. CanonicalMap(ParamsFromPy(d)) = CanonicalMap(ParamsFromPy(e))
      <=> PairsWith(d, M(d)) = PairsWith(e, M(e))
  BY <1>3, <1>4, SameEntries
<1> QED
  BY <1>5, <1>6, <1>7

-----------------------------------------------------------------------------
(* The calls and the nodes they made. *)

\* The key a call records.
KeyOf(c) ==
  NodeKey(c.shape.kind, c.shape.name, ParamsFromPy(c.shape.dict), c.shape.prep, <<>>,
          c.inputs)

\* A call got the id of a node with its identity, and one that made the node
\* recorded its very key.
Answered(c, ns) ==
  /\ c.shape \in Shapes
  /\ c.id \in Nat /\ c.id + 1 \in DOMAIN ns
  /\ Identity(ns[c.id + 1]) = Identity(KeyOf(c))
  /\ c.new => ns[c.id + 1] = KeyOf(c)

\* Every call was answered, and every node was made by one.
CallsInv ==
  /\ IsList(calls)
  /\ \A m \in DOMAIN calls : Answered(calls[m], nodes)
  /\ \A n \in DOMAIN nodes : \E m \in DOMAIN calls : calls[m].new /\ calls[m].id = n - 1

(* Calls record the same key when they keep the same, and keys of one     *)
(* identity when they mean the same.                                      *)
LEMMA SameCalls ==
  ASSUME NEW c, c.shape \in Shapes, NEW d, d.shape \in Shapes
  PROVE  /\ KeyOf(c) = KeyOf(d) <=> CallAs(c, Kept) = CallAs(d, Kept)
         /\ Identity(KeyOf(c)) = Identity(KeyOf(d)) <=> CallAs(c, Meant) = CallAs(d, Meant)
<1> DEFINE Alike == /\ c.shape.kind = d.shape.kind /\ c.shape.name = d.shape.name
                    /\ c.shape.prep = d.shape.prep /\ c.inputs = d.inputs
<1>1. IsDict(c.shape.dict) /\ IsDict(d.shape.dict)
  BY ShapeDict
<1>2. /\ ParamsFromPy(c.shape.dict) = ParamsFromPy(d.shape.dict)
         <=> Dict(c.shape.dict, Kept) = Dict(d.shape.dict, Kept)
      /\ CanonicalMap(ParamsFromPy(c.shape.dict)) = CanonicalMap(ParamsFromPy(d.shape.dict))
         <=> Dict(c.shape.dict, Meant) = Dict(d.shape.dict, Meant)
  BY <1>1, SameParams
<1>3. KeyOf(c) = KeyOf(d)
      <=> Alike /\ ParamsFromPy(c.shape.dict) = ParamsFromPy(d.shape.dict)
  BY DEF KeyOf, NodeKey
<1>4. Identity(KeyOf(c)) = Identity(KeyOf(d))
      <=> /\ Alike
          /\ CanonicalMap(ParamsFromPy(c.shape.dict))
             = CanonicalMap(ParamsFromPy(d.shape.dict))
  BY DEF KeyOf, NodeKey, Identity
<1>5. CallAs(c, Kept) = CallAs(d, Kept)
      <=> Alike /\ Dict(c.shape.dict, Kept) = Dict(d.shape.dict, Kept)
  BY DEF CallAs
<1>6. CallAs(c, Meant) = CallAs(d, Meant)
      <=> Alike /\ Dict(c.shape.dict, Meant) = Dict(d.shape.dict, Meant)
  BY DEF CallAs
<1> QED
  BY <1>2, <1>3, <1>4, <1>5, <1>6

(* The id of a key that was interned. *)
LEMMA InternedId ==
  ASSUME NEW ns, IsGraph(ns), NEW key, AllBelow(key.inputs, Len(ns))
  PROVE  /\ IdOf(Intern(ns, key), key) \in Nat
         /\ IdOf(Intern(ns, key), key) + 1 \in DOMAIN Intern(ns, key)
         /\ Identity(Intern(ns, key)[IdOf(Intern(ns, key), key) + 1]) = Identity(key)
         /\ \/ Intern(ns, key) = ns
            \/ /\ Intern(ns, key) = Append(ns, key) /\ Append(ns, key) # ns
               /\ IdOf(Intern(ns, key), key) = Len(ns)
<1> DEFINE next == Intern(ns, key)
           n == CHOOSE i \in DOMAIN next : Identity(next[i]) = Identity(key)
<1>1. IsGraph(next) /\ (next = ns \/ next = Append(ns, key))
  BY InternGraph
<1>2. /\ Len(ns) \in Nat /\ DOMAIN ns = 1 .. Len(ns) /\ Len(Append(ns, key)) = Len(ns) + 1
      /\ DOMAIN Append(ns, key) = 1 .. (Len(ns) + 1)
      /\ Append(ns, key)[Len(ns) + 1] = key
  BY AppendList DEF IsGraph
<1>3. \E i \in DOMAIN next : Identity(next[i]) = Identity(key)
  <2>1. CASE \E i \in DOMAIN ns : Identity(ns[i]) = Identity(key)
    BY <2>1 DEF Intern
  <2>2. CASE ~ \E i \in DOMAIN ns : Identity(ns[i]) = Identity(key)
    <3>1. next = Append(ns, key)
      BY <2>2 DEF Intern
    <3> HIDE DEF next
    <3>2. Len(ns) + 1 \in DOMAIN next /\ next[Len(ns) + 1] = key
      BY <1>2, <3>1
    <3> QED
      BY <3>2
  <2> QED
    BY <2>1, <2>2
<1>4. n \in DOMAIN next /\ Identity(next[n]) = Identity(key)
  BY <1>3
<1>5. IdOf(next, key) = n - 1
  BY DEF IdOf
<1> HIDE DEF n, next
<1>6. n \in Nat /\ n # 0
  <2>1. Len(next) \in Nat /\ DOMAIN next = 1 .. Len(next)
    BY <1>1, ListIs DEF IsGraph
  <2> QED
    BY <1>4, <2>1
<1>7. ASSUME next = Append(ns, key) PROVE n = Len(ns) + 1 /\ Append(ns, key) # ns
  <2>1. Len(ns) + 1 \in DOMAIN next /\ Identity(next[Len(ns) + 1]) = Identity(key)
    BY <1>2, <1>7
  <2>2. n = Len(ns) + 1
    BY <1>1, <1>4, <2>1 DEF IsGraph
  <2>3. Len(ns) + 1 # Len(ns)
    <3>1. Len(ns) \in Nat
      BY <1>2
    <3> QED
      BY <3>1
  <2>4. Len(Append(ns, key)) = Len(ns) + 1
    BY <1>2
  <2>5. Append(ns, key) # ns
    BY <2>3, <2>4, Zenon
  <2> QED
    BY <2>2, <2>5
<1>8. IdOf(next, key) \in Nat /\ IdOf(next, key) + 1 = n
  BY <1>5, <1>6
<1>9. ASSUME next = Append(ns, key) PROVE IdOf(next, key) = Len(ns)
  <2>1. Len(ns) \in Nat /\ n = Len(ns) + 1
    BY <1>2, <1>7, <1>9
  <2>2. n - 1 = Len(ns)
    BY <2>1
  <2> QED
    BY <1>5, <2>2
<1> QED
  BY <1>1, <1>4, <1>7, <1>8, <1>9 DEF next

(* Recording answers. *)
LEMMA RecordAnswers ==
  ASSUME CallsInv, IsGraph(nodes), NEW s \in Shapes, NEW inputs, Record(s, inputs)
  PROVE  CallsInv'
<1> DEFINE key == NodeKey(s.kind, s.name, ParamsFromPy(s.dict), s.prep, <<>>, inputs)
           id == IdOf(nodes', key)
           c == [shape |-> s, inputs |-> inputs, id |-> id, new |-> nodes' # nodes]
<1>1. /\ nodes' = Intern(nodes, key) /\ AllBelow(inputs, Len(nodes))
      /\ calls' = Append(calls, c)
  BY DEF Record
<1>2. KeyOf(c) = key /\ key.inputs = inputs
  BY DEF KeyOf, NodeKey
<1>3. c.shape = s /\ c.id = id /\ (c.new <=> nodes' # nodes)
  OBVIOUS
<1> HIDE DEF key, c
<1>4. /\ id \in Nat /\ id + 1 \in DOMAIN nodes'
      /\ Identity(nodes'[id + 1]) = Identity(key)
      /\ \/ nodes' = nodes
         \/ /\ nodes' = Append(nodes, key) /\ Append(nodes, key) # nodes
            /\ id = Len(nodes)
  BY <1>1, <1>2, InternedId
<1> HIDE DEF id
<1>5. /\ Len(nodes) \in Nat /\ DOMAIN nodes = 1 .. Len(nodes)
      /\ DOMAIN Append(nodes, key) = 1 .. (Len(nodes) + 1)
      /\ \A n \in DOMAIN nodes : Append(nodes, key)[n] = nodes[n]
      /\ Append(nodes, key)[Len(nodes) + 1] = key
  BY AppendList DEF IsGraph
<1>6. /\ IsList(calls') /\ Len(calls) \in Nat /\ DOMAIN calls = 1 .. Len(calls)
      /\ DOMAIN calls' = 1 .. (Len(calls) + 1)
      /\ \A m \in DOMAIN calls : calls'[m] = calls[m]
      /\ calls'[Len(calls) + 1] = c
  <2>1. IsList(calls)
    BY DEF CallsInv
  <2> QED
    BY <1>1, <2>1, AppendList
<1>7. \A n \in DOMAIN nodes : n \in DOMAIN nodes' /\ nodes'[n] = nodes[n]
  <2>1. CASE nodes' = nodes
    BY <2>1
  <2>2. CASE nodes' = Append(nodes, key)
    <3>1. \A n \in DOMAIN nodes : n \in DOMAIN Append(nodes, key)
      BY <1>5
    <3> QED
      BY <1>5, <2>2, <3>1
  <2> QED
    BY <1>4, <2>1, <2>2
<1>8. Answered(c, nodes')
  <2>1. nodes' # nodes => nodes'[id + 1] = key
    BY <1>4, <1>5
  <2> QED
    BY <1>2, <1>3, <1>4, <2>1 DEF Answered
<1>9. ASSUME NEW m \in DOMAIN calls' PROVE Answered(calls'[m], nodes')
  <2>1. CASE m = Len(calls) + 1
    BY <1>6, <1>8, <2>1
  <2>2. CASE m # Len(calls) + 1
    <3>1. m \in DOMAIN calls /\ calls'[m] = calls[m]
      BY <1>6, <2>2
    <3>2. Answered(calls[m], nodes)
      BY <3>1 DEF CallsInv
    <3> QED
      BY <1>7, <3>1, <3>2 DEF Answered
  <2> QED
    BY <2>1, <2>2
<1>10. ASSUME NEW n \in DOMAIN nodes'
       PROVE  \E m \in DOMAIN calls' : calls'[m].new /\ calls'[m].id = n - 1
  <2>1. CASE n \in DOMAIN nodes
    <3>1. PICK m \in DOMAIN calls : calls[m].new /\ calls[m].id = n - 1
      BY <2>1 DEF CallsInv
    <3>2. m \in DOMAIN calls' /\ calls'[m] = calls[m]
      BY <1>6
    <3> QED
      BY <3>1, <3>2
  <2>2. CASE n \notin DOMAIN nodes
    <3>1. nodes' = Append(nodes, key) /\ nodes' # nodes /\ id = Len(nodes)
      BY <1>4, <2>2
    <3>2. n \in 1 .. (Len(nodes) + 1) /\ n \notin 1 .. Len(nodes)
      BY <1>5, <2>2, <3>1
    <3>3. Len(nodes) \in Nat
      BY <1>5
    <3>4. Len(nodes) = n - 1
      BY <3>2, <3>3
    <3>5. id = n - 1
      BY <3>1, <3>4
    <3>6. Len(calls) + 1 \in DOMAIN calls'
      BY <1>6
    <3> QED
      BY <1>3, <1>6, <3>1, <3>5, <3>6
  <2> QED
    BY <2>1, <2>2
<1> QED
  BY <1>6, <1>9, <1>10 DEF CallsInv

(* Two calls returned one id exactly when they mean the same. *)
LEMMA IdsTellCalls ==
  ASSUME CallsInv, IsGraph(nodes), NEW m \in DOMAIN calls, NEW n \in DOMAIN calls
  PROVE  calls[m].id = calls[n].id <=> CallAs(calls[m], Meant) = CallAs(calls[n], Meant)
<1> DEFINE c == calls[m]
           d == calls[n]
<1>1. Answered(c, nodes) /\ Answered(d, nodes)
  BY DEF CallsInv
<1> HIDE DEF c, d
<1>2. Identity(KeyOf(c)) = Identity(KeyOf(d)) <=> CallAs(c, Meant) = CallAs(d, Meant)
  BY <1>1, SameCalls DEF Answered
<1>3. Identity(KeyOf(c)) = Identity(KeyOf(d)) => c.id + 1 = d.id + 1
  BY <1>1 DEF Answered, IsGraph
<1>4. c.id = d.id => Identity(KeyOf(c)) = Identity(KeyOf(d))
  BY <1>1 DEF Answered
<1>5. c.id \in Nat /\ d.id \in Nat
  BY <1>1 DEF Answered
<1> QED
  BY <1>2, <1>3, <1>4, <1>5 DEF c, d

(* What is shown of parameters, sorted or canonical, means the dict they  *)
(* were given as.                                                         *)
LEMMA ShownParams ==
  ASSUME NEW d, IsDict(d), NEW s, s = ParamsFromPy(d) \/ s = CanonicalMap(ParamsFromPy(d))
  PROVE  Dict(ParamsToPy(s), Meant) = Dict(d, Meant)
<1> DEFINE r == ParamsFromPy(d)
           M(e) == <<e.k, Meant(ToPy(e.v))>>
           P(n) == <<d[n].k, Meant(d[n].v)>>
<1>1. /\ SortedByName(r) /\ NamesDiffer(r)
      /\ ToSet(r) = {Entry(d[n].k, FromPy(d[n].v)) : n \in DOMAIN d}
  BY RecordedParams
<1>2. ToSet(CanonicalMap(r)) = {Entry(e.k, Canonical(e.v)) : e \in ToSet(r)}
  BY <1>1, CanonicalParams
<1>3. ASSUME NEW n \in DOMAIN d
      PROVE  /\ M(Entry(d[n].k, FromPy(d[n].v))) = P(n)
             /\ M(Entry(d[n].k, Canonical(FromPy(d[n].v)))) = P(n)
  <2> DEFINE v == d[n].v
  <2>1. IsPy(v)
    BY DEF IsDict
  <2> HIDE DEF v
  <2>2. Meant(ToPy(FromPy(v))) = Meant(v) /\ Meant(ToPy(Canonical(FromPy(v)))) = Meant(v)
    BY <2>1, ValueShown
  <2>3. \A k, x : Entry(k, x).k = k /\ Entry(k, x).v = x
    BY DEF Entry
  <2> QED
    BY <2>2, <2>3 DEF v
<1>4. Dict(ParamsToPy(s), Meant) = {M(e) : e \in ToSet(s)}
  <2>1. DOMAIN ParamsToPy(s) = DOMAIN s
    BY DEF ParamsToPy
  <2>2. ASSUME NEW n \in DOMAIN s
        PROVE  <<ParamsToPy(s)[n].k, Meant(ParamsToPy(s)[n].v)>> = M(s[n])
    <3>1. ParamsToPy(s)[n] = Entry(s[n].k, ToPy(s[n].v))
      BY DEF ParamsToPy
    <3>2. ParamsToPy(s)[n].k = s[n].k /\ ParamsToPy(s)[n].v = ToPy(s[n].v)
      BY <3>1 DEF Entry
    <3> QED
      BY <3>2
  <2> HIDE DEF M
  <2> QED
    BY <2>1, <2>2, Zenon DEF Dict, ToSet
<1>5. Dict(d, Meant) = {P(n) : n \in DOMAIN d}
  BY Zenon DEF Dict
<1>6. ASSUME NEW e \in ToSet(r)
      PROVE  \E n \in DOMAIN d : e = Entry(d[n].k, FromPy(d[n].v))
  BY <1>1
<1>7. ASSUME NEW n \in DOMAIN d
      PROVE  Entry(d[n].k, FromPy(d[n].v)) \in ToSet(r)
  BY <1>1
<1>8. \A n \in DOMAIN d : /\ Entry(d[n].k, FromPy(d[n].v)).k = d[n].k
                          /\ Entry(d[n].k, FromPy(d[n].v)).v = FromPy(d[n].v)
  BY DEF Entry
<1> HIDE DEF M, P, r
<1>9. CASE s = r
  <2>1. ASSUME NEW e \in ToSet(s) PROVE M(e) \in {P(n) : n \in DOMAIN d}
    BY <1>3, <1>6, <1>9
  <2>2. ASSUME NEW n \in DOMAIN d PROVE P(n) \in {M(e) : e \in ToSet(s)}
    BY <1>3, <1>7, <1>9
  <2>3. {M(e) : e \in ToSet(s)} = {P(n) : n \in DOMAIN d}
    BY <2>1, <2>2, Zenon
  <2> QED
    BY <1>4, <1>5, <2>3
<1>10. CASE s = CanonicalMap(r)
  <2>1. ASSUME NEW e \in ToSet(s) PROVE M(e) \in {P(n) : n \in DOMAIN d}
    <3>1. PICK f \in ToSet(r) : e = Entry(f.k, Canonical(f.v))
      BY <1>2, <1>10
    <3>2. PICK n \in DOMAIN d : f = Entry(d[n].k, FromPy(d[n].v))
      BY <1>6
    <3>3. e = Entry(d[n].k, Canonical(FromPy(d[n].v)))
      BY <1>8, <3>1, <3>2
    <3> QED
      BY <1>3, <3>3
  <2>2. ASSUME NEW n \in DOMAIN d PROVE P(n) \in {M(e) : e \in ToSet(s)}
    <3>1. Entry(d[n].k, Canonical(FromPy(d[n].v))) \in ToSet(s)
      BY <1>2, <1>7, <1>8, <1>10
    <3> QED
      BY <1>3, <3>1
  <2>3. {M(e) : e \in ToSet(s)} = {P(n) : n \in DOMAIN d}
    BY <2>1, <2>2, Zenon
  <2> QED
    BY <1>4, <1>5, <2>3
<1> QED
  BY <1>9, <1>10 DEF r

\* What a text of a token may hold when op is recorded: also the names.
TextsOf(shape) ==
  {"%", ";", "=", "|", "2", "3", "5", "7", "B", "C", "D", "i", "f", "b", "s", "true",
   "false", "op", "red"}
    \union Ints \union Floats \union ToSet(shape.name)
    \union (UNION {ToSet(k) : k \in ToSet(NameOrder)})
    \union (UNION {ToSet(shape.dict[n].v.val) : n \in DOMAIN shape.dict})

(* A recorded value is one that is read back from its token. *)
LEMMA RecordedValue ==
  ASSUME NEW v, IsPy(v), NEW C, ToSet(v.val) \subseteq C
  PROVE  IsParam(FromPy(v), C)
<1>1. CASE \E b \in {"true", "false"} : v = PyValue("bool", <<b>>)
  <2>1. PICK b \in {"true", "false"} : v = PyValue("bool", <<b>>)
    BY <1>1
  <2>2. FromPy(v) = ParamValue("b", <<b>>)
    BY <2>1 DEF FromPy, PyValue, FitsInt64
  <2> QED
    BY <2>2 DEF IsParam
<1>2. ASSUME NEW n \in Ints, v = PyValue("int", <<n>>) PROVE IsParam(FromPy(v), C)
  <2>1. FromPy(v) = ParamValue("i", <<n>>)
    BY <1>2 DEF FromPy, PyValue, FitsInt64
  <2> QED
    BY <2>1 DEF IsParam
<1>3. ASSUME NEW n \in DOMAIN Rounded, v = PyValue("int", <<n>>) PROVE IsParam(FromPy(v), C)
  <2>1. n \notin Ints /\ Rounded[n] \in Floats
    BY FloatsClosed
  <2>2. FromPy(v) = ParamValue("f", <<Rounded[n]>>)
    BY <1>3, <2>1 DEF FromPy, PyValue, FitsInt64
  <2> QED
    BY <2>1, <2>2 DEF IsParam
<1>4. ASSUME NEW bits \in Floats, v = PyValue("float", <<bits>>) PROVE IsParam(FromPy(v), C)
  <2>1. FromPy(v) = ParamValue("f", <<bits>>)
    BY <1>4 DEF FromPy, PyValue, FitsInt64
  <2> QED
    BY <2>1 DEF IsParam
<1>5. ASSUME v = PyValue("str", v.val), IsList(v.val) PROVE IsParam(FromPy(v), C)
  <2>1. v.type = "str"
    BY <1>5 DEF PyValue
  <2>2. FromPy(v) = ParamValue("s", v.val)
    BY <2>1 DEF FromPy, FitsInt64
  <2>3. v.val \in Seq(ToSet(v.val))
    BY <1>5 DEF IsList
  <2>4. v.val \in Seq(C)
    BY <2>3, TextOver
  <2> QED
    BY <2>2, <2>4 DEF IsParam
<1> QED
  BY <1>1, <1>2, <1>3, <1>4, <1>5 DEF IsPy

(* The token of a recorded op is read back, with canonical parameters. *)
LEMMA RecordedOpReadBack ==
  ASSUME NEW s \in Shapes
  PROVE  ParseOpToken(OpToken("op", s.name, ParamsFromPy(s.dict)))
         = Some([kind |-> "op", name |-> s.name,
                 params |-> CanonicalMap(ParamsFromPy(s.dict))])
<1> DEFINE C == TextsOf(s)
           r == ParamsFromPy(s.dict)
<1>1. IsDict(s.dict)
  BY ShapeDict
<1>2. /\ SortedByName(r)
      /\ ToSet(r) = {Entry(s.dict[n].k, FromPy(s.dict[n].v)) : n \in DOMAIN s.dict}
  BY <1>1, RecordedParams
<1>3. TokenAlphabet(C)
  BY DEF TokenAlphabet, Alphabet, TextsOf
<1>4. s.name \in Seq(C)
  <2>1. s.name \in Seq(ToSet(s.name)) /\ ToSet(s.name) \subseteq C
    BY ShapesAreCalls DEF IsList, TextsOf
  <2> HIDE DEF C
  <2> QED
    BY <2>1, TextOver
<1>5. ASSUME NEW n \in DOMAIN s.dict
      PROVE  IsEntry(Entry(s.dict[n].k, FromPy(s.dict[n].v)), C)
  <2> DEFINE k == s.dict[n].k
             v == s.dict[n].v
  <2>1. k \in ToSet(NameOrder) /\ IsPy(v)
    BY <1>1, ListIs DEF IsDict, Named
  <2>2. k \in Seq(ToSet(k)) /\ ToSet(k) \subseteq C
    <3> HIDE DEF k, v
    <3>1. IsList(k)
      BY <2>1, NamesAreOrdered
    <3>2. ToSet(k) \subseteq UNION {ToSet(name) : name \in ToSet(NameOrder)}
      BY <2>1
    <3>3. UNION {ToSet(name) : name \in ToSet(NameOrder)} \subseteq C
      BY DEF TextsOf
    <3> HIDE DEF C
    <3>4. ToSet(k) \subseteq C
      BY <3>2, <3>3
    <3> QED
      BY <3>1, <3>4 DEF IsList
  <2>3. ToSet(v.val) \subseteq C
    BY DEF TextsOf
  <2> HIDE DEF k, v, C
  <2>4. k \in Seq(C)
    BY <2>2, TextOver
  <2>5. IsParam(FromPy(v), C)
    BY <2>1, <2>3, RecordedValue
  <2>6. IsEntry(Entry(k, FromPy(v)), C)
    BY <2>4, <2>5 DEF IsEntry, Entry
  <2> QED
    BY <2>6 DEF k, v
<1> HIDE DEF C, r
<1>6. \A n \in DOMAIN r : IsEntry(r[n], C)
  <2>1. \A n \in DOMAIN r : r[n] \in ToSet(r)
    BY DEF ToSet
  <2> QED
    BY <1>2, <1>5, <2>1
<1>7. ParseOpToken(OpToken("op", s.name, r))
      = Some([kind |-> "op", name |-> s.name, params |-> CanonicalMap(r)])
  BY <1>2, <1>3, <1>4, <1>6, OpReadBack
<1> QED
  BY <1>7 DEF r

\* What is sent of a store: its nodes, or the stage of a chain.
Sends(graph, ns) ==
  /\ graph.fused \in BOOLEAN
  /\ IF graph.fused
     THEN IsChain(ns) /\ graph.nodes = FusedChain(ns) /\ graph.outs = <<1>>
     ELSE graph.nodes = ns

SentInv == pc # "record" => Sends(sent, nodes)

(* Every step of the client, seen from its calls. *)
LEMMA CallsStep ==
  ASSUME ClientInv, CallsInv, [Next]_vars
  PROVE  CallsInv'
<1>1. ASSUME NEW s \in Shapes, NEW ins \in InputLists(s.arity), Record(s, ins)
      PROVE  CallsInv'
  BY <1>1, RecordAnswers DEF ClientInv, Sendable
<1>2. CASE NewSession
  <2>1. nodes' = <<>> /\ calls' = <<>>
    BY <1>2 DEF NewSession
  <2>2. IsList(<<>>) /\ DOMAIN <<>> = {}
    BY NoEntriesSorted DEF SortedByName, Named
  <2>3. IsList(calls') /\ DOMAIN calls' = {} /\ DOMAIN nodes' = {}
    BY <2>1, <2>2
  <2> QED
    BY <2>3 DEF CallsInv
<1>3. CASE \/ \E outs \in OutputLists : SerializeRecorded(outs)
           \/ SerializeCompiled
           \/ \E uris \in UriLists : \E n \in ChunkSizes : ForDatasets(uris, n)
           \/ \E uri \in Uris : \E n \in StepCounts : ForSteps(uri, n)
           \/ WithoutTasks \/ SplitStep
           \/ pc = "split" /\ (\E arrival \in Arrivals : Deliver(arrival))
           \/ LoadStep \/ RunTask \/ UNCHANGED vars
  <2>1. nodes' = nodes /\ calls' = calls
    BY <1>3 DEF SerializeRecorded, SerializeCompiled, Serialize, ForDatasets, ForSteps,
                WithoutTasks, SplitStep, Deliver, LoadStep, RunTask, vars, clientVars
  <2> QED
    BY <2>1 DEF CallsInv
<1> QED
  BY <1>1, <1>2, <1>3 DEF Next

(* And from what it sent. *)
LEMMA SentStep ==
  ASSUME SentInv, [Next]_vars
  PROVE  SentInv'
<1>1. ASSUME NEW s \in Shapes, NEW ins \in InputLists(s.arity), Record(s, ins)
      PROVE  SentInv'
  BY <1>1 DEF Record, SentInv
<1>2. ASSUME NEW outs \in OutputLists, SerializeRecorded(outs)
      PROVE  SentInv'
  <2>1. sent' = [nodes |-> nodes, outs |-> outs, fused |-> FALSE] /\ nodes' = nodes
    BY <1>2 DEF SerializeRecorded, Serialize
  <2>2. Sends(sent', nodes')
    BY <2>1 DEF Sends
  <2> QED
    BY <2>2 DEF SentInv
<1>3. CASE SerializeCompiled
  <2> DEFINE graph == [nodes |-> FusedChain(nodes), outs |-> <<1>>, fused |-> TRUE]
  <2>1. IsChain(nodes) /\ sent' = graph /\ nodes' = nodes
    BY <1>3 DEF SerializeCompiled, Serialize
  <2>2. graph.fused = TRUE /\ graph.nodes = FusedChain(nodes) /\ graph.outs = <<1>>
    OBVIOUS
  <2> HIDE DEF graph
  <2>3. Sends(graph, nodes)
    BY <2>1, <2>2 DEF Sends
  <2> QED
    BY <2>1, <2>3 DEF SentInv
<1>4. CASE \/ \E uris \in UriLists : \E n \in ChunkSizes : ForDatasets(uris, n)
           \/ \E uri \in Uris : \E n \in StepCounts : ForSteps(uri, n)
           \/ WithoutTasks \/ SplitStep
           \/ pc = "split" /\ (\E arrival \in Arrivals : Deliver(arrival))
           \/ LoadStep \/ RunTask \/ UNCHANGED vars
  <2>1. nodes' = nodes /\ sent' = sent /\ (pc' # "record" => pc # "record")
    BY <1>4 DEF ForDatasets, ForSteps, WithoutTasks, SplitStep, Deliver, LoadStep, RunTask,
                vars, clientVars, Goto
  <2> QED
    BY <2>1 DEF SentInv
<1>5. CASE NewSession
  BY <1>5 DEF NewSession, Goto, SentInv
<1> QED
  BY <1>1, <1>2, <1>3, <1>4, <1>5 DEF Next

-----------------------------------------------------------------------------
(* What a worker lists. *)

\* A view of a node.
ViewOf(view, key, isOutput) ==
  /\ view # None
  /\ view[1].kind = key.kind /\ view[1].name = key.name /\ view[1].prep = key.prep
  /\ view[1].params = ParamsToPy(key.params) /\ view[1].inputs = key.inputs
  /\ view[1].output = isOutput

(* A node whose members all have a view has one. *)
LEMMA NodeShown ==
  ASSUME NEW key, NEW b,
         \A m \in DOMAIN key.members : MemberView(key.members[m]) # None
  PROVE  /\ ViewOf(NodeView(key, b), key, b)
         /\ NodeView(key, b)[1].members
            = [m \in DOMAIN key.members |-> MemberView(key.members[m])[1]]
<1> DEFINE options == [m \in DOMAIN key.members |-> MemberView(key.members[m])]
           shown == [m \in DOMAIN key.members |-> MemberView(key.members[m])[1]]
           view == [kind |-> key.kind, name |-> key.name, prep |-> key.prep,
                    params |-> ParamsToPy(key.params), inputs |-> key.inputs,
                    output |-> b, members |-> shown]
<1>1. AllOrNone(options) = Some(shown)
  BY DEF AllOrNone
<1>2. Some(shown) # None /\ Some(shown)[1] = shown
  BY DEF Some, None
<1> HIDE DEF shown, options
<1>3. NodeView(key, b) = Some(view)
  BY <1>1, <1>2 DEF NodeView, Mapped, options
<1>4. Some(view) # None /\ Some(view)[1] = view
  BY DEF Some, None
<1>5. /\ view.kind = key.kind /\ view.name = key.name /\ view.prep = key.prep
      /\ view.params = ParamsToPy(key.params) /\ view.inputs = key.inputs
      /\ view.output = b /\ view.members = shown
  OBVIOUS
<1> HIDE DEF view
<1> QED
  BY <1>3, <1>4, <1>5 DEF ViewOf, shown

(* Nodes that all have a view are listed. *)
LEMMA NodesShown ==
  ASSUME NEW ns, NEW outs,
         \A n \in DOMAIN ns : NodeView(ns[n], Contains(outs, n - 1)) # None
  PROVE  /\ NodesView(ns, outs) # None
         /\ \A n \in DOMAIN ns :
              NodesView(ns, outs)[1][n] = NodeView(ns[n], Contains(outs, n - 1))[1]
<1> DEFINE options == [n \in DOMAIN ns |-> NodeView(ns[n], Contains(outs, n - 1))]
           shown == [n \in DOMAIN ns |-> NodeView(ns[n], Contains(outs, n - 1))[1]]
<1>1. AllOrNone(options) = Some(shown)
  BY DEF AllOrNone
<1>2. Some(shown) # None /\ Some(shown)[1] = shown
  BY DEF Some, None
<1>3. \A n \in DOMAIN ns : shown[n] = NodeView(ns[n], Contains(outs, n - 1))[1]
  OBVIOUS
<1> HIDE DEF shown
<1>4. NodesView(ns, outs) = Some(shown)
  BY <1>1 DEF NodesView
<1> HIDE DEF options
<1> QED
  BY <1>2, <1>3, <1>4

(* The view of a member that carries the token of a recorded op. *)
LEMMA MemberShown ==
  ASSUME NEW s \in Shapes, NEW refs
  PROVE  LET m == StageOp(OpToken("op", s.name, ParamsFromPy(s.dict)), refs)
         IN /\ MemberView(m) # None
            /\ MemberView(m)[1].kind = "op" /\ MemberView(m)[1].name = s.name
            /\ MemberView(m)[1].params = ParamsToPy(CanonicalMap(ParamsFromPy(s.dict)))
<1> DEFINE token == OpToken("op", s.name, ParamsFromPy(s.dict))
           m == StageOp(token, refs)
           params == CanonicalMap(ParamsFromPy(s.dict))
           op == [kind |-> "op", name |-> s.name, params |-> params]
           view == [kind |-> op.kind, name |-> op.name, params |-> ParamsToPy(op.params),
                    inputs |-> m.inputs]
<1>1. ParseOpToken(token) = Some(op)
  BY RecordedOpReadBack
<1>2. m.token = token
  BY DEF StageOp
<1>3. op.kind = "op" /\ op.name = s.name /\ op.params = params
  OBVIOUS
<1>4. view.kind = op.kind /\ view.name = op.name /\ view.params = ParamsToPy(op.params)
  OBVIOUS
<1>5. Some(op) # None /\ Some(op)[1] = op
  BY DEF Some, None
<1> HIDE DEF op, token, m
<1>6. MemberView(m) = Some(view)
  BY <1>1, <1>2, <1>5 DEF MemberView, Mapped
<1>7. Some(view) # None /\ Some(view)[1] = view
  BY DEF Some, None
<1> HIDE DEF view, params
<1>8. /\ MemberView(m) # None
      /\ MemberView(m)[1].kind = "op" /\ MemberView(m)[1].name = s.name
      /\ MemberView(m)[1].params = ParamsToPy(params)
  BY <1>3, <1>4, <1>6, <1>7
<1> QED
  BY <1>8 DEF m, token, params

\* A call that made node n.
Made(d, n) == d.shape \in Shapes /\ nodes[n] = KeyOf(d)

(* Every node was made, and a call that was answered with it means the same *)
(* as the call that made it.                                                *)
LEMMA EachMade ==
  ASSUME CallsInv, NEW n \in DOMAIN nodes, IsGraph(nodes)
  PROVE  \E d : /\ Made(d, n)
                /\ \A c : Answered(c, nodes) /\ c.id = n - 1
                          => CallAs(c, Meant) = CallAs(d, Meant)
<1>1. PICK m \in DOMAIN calls : calls[m].new /\ calls[m].id = n - 1
  BY DEF CallsInv
<1> DEFINE d == calls[m]
<1>2. Answered(d, nodes) /\ d.new /\ d.id = n - 1
  BY <1>1 DEF CallsInv
<1> HIDE DEF d
<1>3. n \in Nat
  BY ListIs DEF IsGraph
<1>4. d.id + 1 = n
  BY <1>2, <1>3
<1>5. Made(d, n)
  BY <1>2, <1>4 DEF Made, Answered
<1>6. ASSUME NEW c, Answered(c, nodes), c.id = n - 1
      PROVE  CallAs(c, Meant) = CallAs(d, Meant)
  <2>1. c.id + 1 = n
    BY <1>3, <1>6
  <2>2. Identity(KeyOf(c)) = Identity(KeyOf(d)) /\ c.shape \in Shapes /\ d.shape \in Shapes
    BY <1>2, <1>4, <1>6, <2>1 DEF Answered
  <2> QED
    BY <2>2, SameCalls
<1> QED
  BY <1>5, <1>6

(* Calls that mean the same agree on what is shown of them. *)
LEMMA SameShown ==
  ASSUME NEW c, NEW d, CallAs(c, Meant) = CallAs(d, Meant)
  PROVE  /\ c.shape.kind = d.shape.kind /\ c.shape.name = d.shape.name
         /\ c.shape.prep = d.shape.prep /\ c.inputs = d.inputs
         /\ Dict(c.shape.dict, Meant) = Dict(d.shape.dict, Meant)
  BY DEF CallAs

(* Marked is contained. *)
LEMMA MarkedIs ==
  ASSUME NEW s, IsList(s), NEW x
  PROVE  Contains(s, x) <=> x \in ToSet(s)
<1>1. DOMAIN s = 1 .. Len(s)
  BY ListIs
<1> QED
  BY <1>1 DEF Contains, ToSet

(* The view of a node shows the call that made it. *)
LEMMA ShowsCall ==
  ASSUME NEW c, NEW d, d.shape \in Shapes, CallAs(c, Meant) = CallAs(d, Meant),
         NEW b, NEW view, ViewOf(view, KeyOf(d), b)
  PROVE  /\ Shows(view[1], c) /\ view[1].inputs = c.inputs /\ view[1].prep = c.shape.prep
         /\ view[1].output = b
<1> DEFINE key == KeyOf(d)
           r == ParamsFromPy(d.shape.dict)
<1>1. /\ key.kind = d.shape.kind /\ key.name = d.shape.name /\ key.prep = d.shape.prep
      /\ key.inputs = d.inputs /\ key.params = r
  BY DEF KeyOf, NodeKey
<1>2. IsDict(d.shape.dict)
  BY ShapeDict
<1>3. Dict(ParamsToPy(r), Meant) = Dict(d.shape.dict, Meant)
  BY <1>2, ShownParams
<1> HIDE DEF key, r
<1>4. /\ view[1].kind = key.kind /\ view[1].name = key.name /\ view[1].prep = key.prep
      /\ view[1].params = ParamsToPy(key.params) /\ view[1].inputs = key.inputs
      /\ view[1].output = b
  BY DEF ViewOf, key
<1>5. /\ c.shape.kind = d.shape.kind /\ c.shape.name = d.shape.name
      /\ c.shape.prep = d.shape.prep /\ c.inputs = d.inputs
      /\ Dict(c.shape.dict, Meant) = Dict(d.shape.dict, Meant)
  BY SameShown
<1>6. Dict(view[1].params, Meant) = Dict(c.shape.dict, Meant)
  BY <1>1, <1>3, <1>4, <1>5
<1> QED
  BY <1>1, <1>4, <1>5, <1>6 DEF Shows

(* A store that was sent as it is is listed call by call. *)
LEMMA PlainListed ==
  ASSUME CallsInv, IsGraph(nodes), ~ sent.fused, loaded = nodes, IsList(marks),
         ToSet(marks) = ToSet(sent.outs)
  PROVE  ListsAll(NodesView(loaded, marks))
<1> DEFINE view(n) == NodeView(loaded[n], Contains(marks, n - 1))
<1>1. ASSUME NEW n \in DOMAIN loaded, NEW d, Made(d, n)
      PROVE  ViewOf(view(n), KeyOf(d), Contains(marks, n - 1))
  <2> DEFINE key == KeyOf(d)
             b == Contains(marks, n - 1)
  <2>1. loaded[n] = key
    BY <1>1 DEF Made
  <2>2. key.members = <<>> /\ DOMAIN <<>> = {}
    BY DEF KeyOf, NodeKey
  <2> HIDE DEF key, b
  <2>3. \A m \in DOMAIN key.members : MemberView(key.members[m]) # None
    BY <2>2
  <2>4. ViewOf(NodeView(key, b), key, b)
    BY <2>3, NodeShown
  <2> QED
    BY <2>1, <2>4 DEF key, b
<1>2. ASSUME NEW n \in DOMAIN loaded PROVE view(n) # None
  <2>1. PICK d : Made(d, n)
    BY EachMade
  <2> QED
    BY <1>1, <2>1 DEF ViewOf
<1>3. /\ NodesView(loaded, marks) # None
      /\ \A n \in DOMAIN loaded : NodesView(loaded, marks)[1][n] = view(n)[1]
  BY <1>2, NodesShown
<1>4. ASSUME NEW m \in DOMAIN calls
      PROVE  Lists(NodesView(loaded, marks)[1], calls[m])
  <2> DEFINE c == calls[m]
             n == c.id + 1
             shown == NodesView(loaded, marks)[1][n]
  <2>1. Answered(c, nodes)
    BY DEF CallsInv
  <2> HIDE DEF c
  <2>2. c.id \in Nat /\ n \in DOMAIN loaded
    BY <2>1 DEF Answered
  <2>3. c.id = n - 1
    BY <2>2
  <2> HIDE DEF n
  <2>4. PICK d : Made(d, n) /\ CallAs(c, Meant) = CallAs(d, Meant)
    BY <2>1, <2>2, <2>3, EachMade
  <2>5. ViewOf(view(n), KeyOf(d), Contains(marks, n - 1)) /\ shown = view(n)[1]
    BY <1>1, <1>3, <2>2, <2>4
  <2>6. d.shape \in Shapes
    BY <2>4 DEF Made
  <2> HIDE DEF shown, view
  <2>7. /\ Shows(shown, c) /\ shown.inputs = c.inputs /\ shown.prep = c.shape.prep
        /\ shown.output = Contains(marks, n - 1)
    BY <2>4, <2>5, <2>6, ShowsCall
  <2>8. Contains(marks, n - 1) <=> c.id \in ToSet(sent.outs)
    BY <2>3, MarkedIs
  <2>9. shown.output <=> c.id \in ToSet(sent.outs)
    BY <2>7, <2>8
  <2> QED
    BY <2>7, <2>9 DEF Lists, shown, c, n
<1> QED
  BY <1>3, <1>4 DEF ListsAll

\* The source and the stage of a chain, and the tokens the stage carries.
IsFused(f, ns) ==
  /\ Len(ns) \in Nat /\ Len(ns) > 1 /\ DOMAIN ns = 1 .. Len(ns)
  /\ DOMAIN f = {1, 2} /\ f[1] = ns[1]
  /\ DOMAIN f[2].members = 1 .. (Len(ns) - 1)
  /\ \A n \in 1 .. (Len(ns) - 1) :
       /\ n + 1 \in DOMAIN ns /\ ns[n + 1].kind = "op"
       /\ \E refs : f[2].members[n] =
            StageOp(OpToken("op", ns[n + 1].name, ns[n + 1].params), refs)

(* The nodes of a compiled chain. *)
LEMMA FusedIs ==
  ASSUME NEW ns, IsGraph(ns), IsChain(ns)
  PROVE  IsFused(FusedChain(ns), ns)
<1> DEFINE N == Len(ns)
           refs(n) == <<IF n = 2 THEN InputRef(0) ELSE MemberRef(n - 3)>>
           member(n) == StageOp(OpToken("op", ns[n].name, ns[n].params), refs(n))
           stage == StageKey([n \in 1 .. (Len(ns) - 1) |-> member(n + 1)], <<0>>)
<1>1. N \in Nat /\ DOMAIN ns = 1 .. N /\ N > 1
  BY ListIs DEF IsGraph, IsChain
<1>2. FusedChain(ns) = <<ns[1], stage>>
  BY Zenon DEF FusedChain
<1>3. stage.members = [n \in 1 .. (N - 1) |-> member(n + 1)]
  BY DEF StageKey, NodeKey
<1> HIDE DEF stage, member
<1>4. DOMAIN FusedChain(ns) = {1, 2} /\ FusedChain(ns)[1] = ns[1] /\ FusedChain(ns)[2] = stage
  BY <1>2
<1>5. /\ DOMAIN FusedChain(ns)[2].members = 1 .. (N - 1)
      /\ \A n \in 1 .. (N - 1) : FusedChain(ns)[2].members[n] = member(n + 1)
  BY <1>3, <1>4
<1>6. ASSUME NEW n \in 1 .. (N - 1)
      PROVE  /\ n + 1 \in DOMAIN ns /\ ns[n + 1].kind = "op"
             /\ \E r : FusedChain(ns)[2].members[n] =
                  StageOp(OpToken("op", ns[n + 1].name, ns[n + 1].params), r)
  <2>1. n + 1 \in 2 .. N
    BY <1>1
  <2>2. n + 1 \in DOMAIN ns /\ ns[n + 1].kind = "op"
    BY <1>1, <2>1 DEF IsChain
  <2>3. member(n + 1)
        = StageOp(OpToken("op", ns[n + 1].name, ns[n + 1].params), refs(n + 1))
    BY Zenon DEF member
  <2> HIDE DEF refs
  <2> QED
    BY <1>5, <2>2, <2>3
<1> QED
  BY <1>1, <1>4, <1>5, <1>6 DEF IsFused

(* A chain that was sent compiled is listed call by call: the source as a *)
(* node, the ops as the members of the stage.                             *)
LEMMA FusedListed ==
  ASSUME CallsInv, IsGraph(nodes), sent.fused, IsChain(nodes), loaded = FusedChain(nodes),
         IsList(marks), ToSet(marks) = ToSet(sent.outs)
  PROVE  ListsAll(NodesView(loaded, marks))
<1> DEFINE view(n) == NodeView(loaded[n], Contains(marks, n - 1))
           N == Len(nodes)
           members == FusedChain(nodes)[2].members
<1>1. /\ N \in Nat /\ N > 1 /\ DOMAIN nodes = 1 .. N
      /\ DOMAIN FusedChain(nodes) = {1, 2} /\ FusedChain(nodes)[1] = nodes[1]
      /\ DOMAIN members = 1 .. (N - 1)
      /\ \A n \in 1 .. (N - 1) :
           /\ n + 1 \in DOMAIN nodes /\ nodes[n + 1].kind = "op"
           /\ \E refs : members[n] =
                StageOp(OpToken("op", nodes[n + 1].name, nodes[n + 1].params), refs)
  BY FusedIs DEF IsFused
<1> HIDE DEF N, members
<1>2. ASSUME NEW d, Made(d, 1)
      PROVE  ViewOf(view(1), KeyOf(d), Contains(marks, 0))
  <2> DEFINE key == KeyOf(d)
             b == Contains(marks, 0)
  <2>1. loaded[1] = key /\ view(1) = NodeView(loaded[1], b)
    BY <1>1, <1>2 DEF Made
  <2>2. key.members = <<>> /\ DOMAIN <<>> = {}
    BY DEF KeyOf, NodeKey
  <2> HIDE DEF key, b, view
  <2>3. \A m \in DOMAIN key.members : MemberView(key.members[m]) # None
    BY <2>2
  <2>4. ViewOf(NodeView(key, b), key, b)
    BY <2>3, NodeShown
  <2> QED
    BY <2>1, <2>4 DEF key, b
<1>3. ASSUME NEW n \in 1 .. (N - 1), NEW d, Made(d, n + 1)
      PROVE  /\ MemberView(members[n]) # None
             /\ d.shape.kind = "op"
             /\ MemberView(members[n])[1].kind = "op"
             /\ MemberView(members[n])[1].name = d.shape.name
             /\ MemberView(members[n])[1].params
                = ParamsToPy(CanonicalMap(ParamsFromPy(d.shape.dict)))
  <2>1. PICK refs : members[n] =
          StageOp(OpToken("op", nodes[n + 1].name, nodes[n + 1].params), refs)
    BY <1>1
  <2>2. nodes[n + 1] = KeyOf(d) /\ d.shape \in Shapes /\ nodes[n + 1].kind = "op"
    BY <1>1, <1>3 DEF Made
  <2>3. /\ KeyOf(d).name = d.shape.name /\ KeyOf(d).params = ParamsFromPy(d.shape.dict)
        /\ KeyOf(d).kind = d.shape.kind
    BY DEF KeyOf, NodeKey
  <2>4. members[n] = StageOp(OpToken("op", d.shape.name, ParamsFromPy(d.shape.dict)), refs)
    BY <2>1, <2>2, <2>3
  <2> DEFINE m == StageOp(OpToken("op", d.shape.name, ParamsFromPy(d.shape.dict)), refs)
  <2>5. /\ MemberView(m) # None
        /\ MemberView(m)[1].kind = "op" /\ MemberView(m)[1].name = d.shape.name
        /\ MemberView(m)[1].params = ParamsToPy(CanonicalMap(ParamsFromPy(d.shape.dict)))
    BY <2>2, MemberShown
  <2> HIDE DEF m
  <2>6. members[n] = m
    BY <2>4 DEF m
  <2> QED
    BY <2>2, <2>3, <2>5, <2>6
<1>4. /\ view(2) # None
      /\ view(2)[1].members = [n \in 1 .. (N - 1) |-> MemberView(members[n])[1]]
  <2> DEFINE key == FusedChain(nodes)[2]
             b == Contains(marks, 2 - 1)
  <2>1. DOMAIN key.members = 1 .. (N - 1) /\ key.members = members
    BY <1>1 DEF members
  <2>2. \A n \in DOMAIN key.members : MemberView(key.members[n]) # None
    <3> SUFFICES ASSUME NEW n \in 1 .. (N - 1) PROVE MemberView(members[n]) # None
      BY <2>1
    <3>1. n + 1 \in DOMAIN nodes
      BY <1>1
    <3>2. PICK d : Made(d, n + 1)
      BY <3>1, EachMade
    <3> QED
      BY <1>3, <3>2
  <2>3. view(2) = NodeView(key, b)
    OBVIOUS
  <2> HIDE DEF key, b, view
  <2>4. /\ ViewOf(NodeView(key, b), key, b)
        /\ NodeView(key, b)[1].members
           = [n \in DOMAIN key.members |-> MemberView(key.members[n])[1]]
    BY <2>2, NodeShown
  <2> QED
    BY <2>1, <2>3, <2>4 DEF ViewOf
<1>5. 1 \in DOMAIN nodes
  BY <1>1
<1>6. view(1) # None
  <2>1. PICK d : Made(d, 1)
    BY <1>5, EachMade
  <2> QED
    BY <1>2, <2>1 DEF ViewOf
<1>7. /\ NodesView(loaded, marks) # None
      /\ \A n \in DOMAIN loaded : NodesView(loaded, marks)[1][n] = view(n)[1]
  <2>1. \A n \in DOMAIN loaded : view(n) # None
    BY <1>1, <1>4, <1>6
  <2> QED
    BY <2>1, NodesShown
<1>8. /\ NodesView(loaded, marks)[1][1] = view(1)[1]
      /\ NodesView(loaded, marks)[1][2] = view(2)[1]
  <2>1. 1 \in DOMAIN loaded /\ 2 \in DOMAIN loaded
    BY <1>1
  <2> QED
    BY <1>7, <2>1
<1>9. ASSUME NEW m \in DOMAIN calls
      PROVE  Lists(NodesView(loaded, marks)[1], calls[m])
  <2> DEFINE c == calls[m]
             n == c.id + 1
             shown == NodesView(loaded, marks)[1]
  <2>1. Answered(c, nodes)
    BY DEF CallsInv
  <2> HIDE DEF c
  <2>2. c.id \in Nat /\ n \in DOMAIN nodes
    BY <2>1 DEF Answered
  <2>3. c.id = n - 1
    BY <2>2
  <2> HIDE DEF n
  <2>4. PICK d : Made(d, n) /\ CallAs(c, Meant) = CallAs(d, Meant)
    BY <2>1, <2>2, <2>3, EachMade
  <2>5. d.shape \in Shapes
    BY <2>4 DEF Made
  <2>6. CASE c.id = 0
    <3>1. n = 1
      BY <2>2, <2>3, <2>6 DEF n
    <3>2. ViewOf(view(1), KeyOf(d), Contains(marks, 0)) /\ shown[1] = view(1)[1]
      BY <1>2, <1>8, <2>4, <3>1
    <3> HIDE DEF shown, view
    <3>3. /\ Shows(shown[1], c) /\ shown[1].inputs = c.inputs
          /\ shown[1].prep = c.shape.prep
          /\ shown[1].output = Contains(marks, 0)
      BY <2>4, <2>5, <3>2, ShowsCall
    <3>4. shown[1].output <=> c.id \in ToSet(sent.outs)
      BY <2>6, <3>3, MarkedIs
    <3>5. Lists(shown, c)
      BY <2>6, <3>1, <3>3, <3>4 DEF Lists, n
    <3> QED
      BY <3>5 DEF shown, c
  <2>7. CASE c.id > 0
    <3>1. c.id \in 1 .. (N - 1) /\ n = c.id + 1
      BY <1>1, <2>2, <2>3, <2>7
    <3> DEFINE i == c.id
               r == ParamsFromPy(d.shape.dict)
               seen == MemberView(members[i])[1]
    <3>2. i \in 1 .. (N - 1) /\ Made(d, i + 1) /\ c.id = i
      BY <2>4, <3>1
    <3> HIDE DEF i
    <3>3. /\ d.shape.kind = "op" /\ seen.kind = "op" /\ seen.name = d.shape.name
          /\ seen.params = ParamsToPy(CanonicalMap(r))
      BY <1>3, <3>2
    <3>4. shown[2].members[i] = seen
      <4>1. shown[2] = view(2)[1]
        BY <1>8
      <4> HIDE DEF shown, view
      <4>2. view(2)[1].members[i] = seen
        BY <1>4, <3>2
      <4> QED
        BY <4>1, <4>2
    <3>5. IsDict(d.shape.dict)
      BY <2>5, ShapeDict
    <3>6. Dict(ParamsToPy(CanonicalMap(r)), Meant) = Dict(d.shape.dict, Meant)
      BY <3>5, ShownParams
    <3> HIDE DEF seen, r, shown
    <3>7. /\ c.shape.kind = d.shape.kind /\ c.shape.name = d.shape.name
          /\ Dict(c.shape.dict, Meant) = Dict(d.shape.dict, Meant)
      BY <2>4, SameShown
    <3>8. Dict(seen.params, Meant) = Dict(c.shape.dict, Meant)
      BY <3>3, <3>6, <3>7
    <3>9. Shows(seen, c)
      BY <3>3, <3>7, <3>8 DEF Shows
    <3>10. Lists(shown, c)
      BY <2>7, <3>2, <3>4, <3>9 DEF Lists
    <3> QED
      BY <3>10 DEF shown, c
  <2> QED
    BY <2>2, <2>6, <2>7
<1> QED
  BY <1>7, <1>9 DEF ListsAll

(* A session starts with nothing recorded. *)
LEMMA InitClient ==
  ASSUME Init
  PROVE  ClientInv /\ CallsInv /\ SentInv
<1>1. ClientInv /\ SentInv
  BY EmptySendable DEF Init, ClientInv, SentInv
<1>2. CallsInv
  <2>1. nodes = <<>> /\ calls = <<>>
    BY DEF Init
  <2>2. IsList(<<>>) /\ DOMAIN <<>> = {}
    BY NoEntriesSorted DEF SortedByName, Named
  <2> QED
    BY <2>1, <2>2 DEF CallsInv
<1> QED
  BY <1>1, <1>2

(* What the worker lists is what the client recorded. *)
THEOREM ListsWhatWasRecordedAlways == Spec => []ListsWhatWasRecorded
<1> DEFINE Inv == ClientInv /\ TracksWire /\ CallsInv /\ SentInv /\ LoaderInv
<1>1. Init => Inv
  <2> SUFFICES ASSUME Init PROVE Inv
    OBVIOUS
  <2>1. ClientInv /\ CallsInv /\ SentInv
    BY InitClient
  <2>2. TracksWire
    BY DEF Init, Idle, TracksWire
  <2>3. LoaderInv
    BY EmptyIsGraph DEF Init, Idle
  <2> QED
    BY <2>1, <2>2, <2>3
<1>2. Inv /\ [Next]_vars => Inv'
  BY ClientStep, TracksStep, CallsStep, SentStep, LoaderStep
<1>3. Inv => ListsWhatWasRecorded
  <2> SUFFICES ASSUME Inv PROVE ListsWhatWasRecorded
    OBVIOUS
  <2>1. IsGraph(nodes)
    BY DEF ClientInv, Sendable
  <2>2. \A m, n \in DOMAIN calls :
          calls[m].id = calls[n].id <=> CallAs(calls[m], Meant) = CallAs(calls[n], Meant)
    BY <2>1, IdsTellCalls
  <2>3. ASSUME phase = "loaded", Unharmed PROVE ListsAll(NodesView(loaded, marks))
    <3>1. pc # "record" /\ IsList(marks)
      BY <2>3 DEF TracksWire, LoaderInv
    <3>2. loaded = sent.nodes /\ ToSet(marks) = ToSet(sent.outs)
      BY <2>3, TracksLoads DEF LoadsOrRefuses
    <3>3. CASE sent.fused
      BY <2>1, <3>1, <3>2, <3>3, FusedListed DEF SentInv, Sends
    <3>4. CASE ~ sent.fused
      BY <2>1, <3>1, <3>2, <3>4, PlainListed DEF SentInv, Sends
    <3> QED
      BY <3>3, <3>4
  <2> QED
    BY <2>2, <2>3 DEF ListsWhatWasRecorded
<1> QED
  BY <1>1, <1>2, <1>3, PTL DEF Spec

-----------------------------------------------------------------------------
(* The ids of tasks. *)

(* Graphs with the same wire are the same. *)
LEMMA WireTells ==
  ASSUME NEW ns, NEW outs, NEW ms, NEW marked, IsList(ns), IsList(outs), IsList(ms),
         IsList(marked), Encode(ns, outs) = Encode(ms, marked)
  PROVE  ns = ms /\ outs = marked
<1> DEFINE w == Encode(ns, outs)
<1>1. Holds(w, ns, outs) /\ Holds(w, ms, marked)
  BY WireHolds
<1> HIDE DEF w
<1>2. Len(ns) = Len(ms) /\ \A n \in 1 .. Len(ns) : ns[n] = ms[n]
  BY <1>1 DEF Holds
<1>3. Len(outs) = Len(marked) /\ \A n \in 1 .. Len(outs) : outs[n] = marked[n]
  BY <1>1, <1>2 DEF Holds
<1>4. ns = ms
  BY <1>2, SameLists
<1>5. outs = marked
  BY <1>3, SameLists
<1> QED
  BY <1>4, <1>5

\* A store, with the call that made each node.
Recorded(ns, by) ==
  /\ IsGraph(ns) /\ by = [n \in DOMAIN ns |-> by[n]]
  /\ \A n \in DOMAIN ns : by[n].shape \in Shapes /\ ns[n] = KeyOf(by[n])

\* The calls of a store, node by node.
CallsAs(by, As(_)) == [n \in DOMAIN by |-> CallAs(by[n], As)]

\* What is logged of a task.
LoggedAs(by, graph, proc, p) ==
  [id |-> <<Encode(graph.nodes, graph.outs), proc, Json(p)>>,
   graph |-> CallsAs(by, Kept), meaning |-> CallsAs(by, Meant),
   work |-> <<graph.outs, graph.fused, proc, p>>]

\* A partition that is planned.
IsPlanned(p) ==
  p \in PartitionSet /\ (p.blind # <<>> => p.entry_start = 0 /\ p.entry_stop = 0)

IsLogged(e, ns, by, graph, proc, p) ==
  /\ Recorded(ns, by) /\ Sends(graph, ns)
  /\ IsList(graph.nodes) /\ IsList(graph.outs) /\ IsPlanned(p)
  /\ e = LoggedAs(by, graph, proc, p)

LogInv == \A e \in log : \E ns, by, graph, proc, p : IsLogged(e, ns, by, graph, proc, p)

(* A recorded node. *)
LEMMA KeyIs ==
  ASSUME NEW c, c.shape \in Shapes
  PROVE  /\ KeyOf(c).kind = c.shape.kind /\ KeyOf(c).name = c.shape.name
         /\ KeyOf(c).params = ParamsFromPy(c.shape.dict)
         /\ KeyOf(c).prep = c.shape.prep /\ KeyOf(c).members = <<>>
         /\ KeyOf(c).inputs = c.inputs
         /\ KeyOf(c).kind # "stage" /\ (KeyOf(c).kind # "external" => KeyOf(c).prep = <<>>)
<1>1. /\ KeyOf(c).kind = c.shape.kind /\ KeyOf(c).name = c.shape.name
      /\ KeyOf(c).params = ParamsFromPy(c.shape.dict)
      /\ KeyOf(c).prep = c.shape.prep /\ KeyOf(c).members = <<>>
      /\ KeyOf(c).inputs = c.inputs
  BY DEF KeyOf, NodeKey
<1>2. /\ c.shape.kind \in {"source", "op", "reduction", "external"}
      /\ c.shape.kind # "external" => c.shape.prep = <<>>
  BY ShapesAreCalls
<1>3. c.shape.kind # "stage"
  BY <1>2
<1> QED
  BY <1>1, <1>2, <1>3

(* Stages whose members carry the same tokens were ops of the same meaning. *)
LEMMA TokensTell ==
  ASSUME NEW c, c.shape \in Shapes, NEW d, d.shape \in Shapes, NEW refs, NEW others,
         StageOp(OpToken("op", KeyOf(c).name, KeyOf(c).params), refs)
         = StageOp(OpToken("op", KeyOf(d).name, KeyOf(d).params), others),
         KeyOf(c).kind = "op", KeyOf(d).kind = "op", KeyOf(c).inputs = KeyOf(d).inputs
  PROVE  Identity(KeyOf(c)) = Identity(KeyOf(d))
<1> DEFINE r == ParamsFromPy(c.shape.dict)
           s == ParamsFromPy(d.shape.dict)
           op(name, params) == [kind |-> "op", name |-> name, params |-> params]
<1>1. OpToken("op", c.shape.name, r) = OpToken("op", d.shape.name, s)
  BY KeyIs DEF StageOp
<1>2. /\ ParseOpToken(OpToken("op", c.shape.name, r))
         = Some(op(c.shape.name, CanonicalMap(r)))
      /\ ParseOpToken(OpToken("op", d.shape.name, s))
         = Some(op(d.shape.name, CanonicalMap(s)))
  BY RecordedOpReadBack
<1> HIDE DEF r, s
<1>3. op(c.shape.name, CanonicalMap(r)) = op(d.shape.name, CanonicalMap(s))
  BY <1>1, <1>2 DEF Some
<1>4. c.shape.name = d.shape.name /\ CanonicalMap(r) = CanonicalMap(s)
  BY <1>3
<1>5. c.shape.kind = d.shape.kind /\ c.shape.prep = d.shape.prep /\ c.inputs = d.inputs
  BY KeyIs
<1>6. /\ Identity(KeyOf(c)) = NodeKey(c.shape.kind, c.shape.name, CanonicalMap(r),
                                      c.shape.prep, <<>>, c.inputs)
      /\ Identity(KeyOf(d)) = NodeKey(d.shape.kind, d.shape.name, CanonicalMap(s),
                                      d.shape.prep, <<>>, d.inputs)
  BY DEF Identity, KeyOf, NodeKey, r, s
<1> QED
  BY <1>4, <1>5, <1>6

(* Stores that were sent as the same nodes agree on fusing, and hold nodes *)
(* of the same meaning.                                                    *)
LEMMA SentTells ==
  ASSUME NEW ns, NEW ms, NEW by, NEW made, Recorded(ns, by), Recorded(ms, made),
         NEW g, NEW h, Sends(g, ns), Sends(h, ms), g.nodes = h.nodes
  PROVE  /\ g.fused = h.fused /\ DOMAIN ns = DOMAIN ms
         /\ \A n \in DOMAIN ns : Identity(KeyOf(by[n])) = Identity(KeyOf(made[n]))
<1>1. ASSUME NEW xs, NEW cs, Recorded(xs, cs), NEW n \in DOMAIN xs
      PROVE  xs[n].kind # "stage"
  BY <1>1, KeyIs DEF Recorded
<1>2. ASSUME NEW xs, NEW cs, Recorded(xs, cs), IsChain(xs)
      PROVE  2 \in DOMAIN FusedChain(xs) /\ FusedChain(xs)[2].kind = "stage"
  <2>1. 2 \in DOMAIN FusedChain(xs)
    BY <1>2, FusedIs DEF Recorded, IsFused
  <2>2. FusedChain(xs)[2].kind = "stage"
    BY DEF FusedChain, StageKey, NodeKey
  <2> QED
    BY <2>1, <2>2
<1>3. g.fused = h.fused
  <2>1. CASE g.fused /\ ~ h.fused
    BY <1>1, <1>2, <2>1 DEF Sends
  <2>2. CASE h.fused /\ ~ g.fused
    BY <1>1, <1>2, <2>2 DEF Sends
  <2> QED
    BY <2>1, <2>2 DEF Sends
<1>4. CASE ~ g.fused
  <2>1. ns = ms
    BY <1>3, <1>4 DEF Sends
  <2> QED
    BY <1>3, <2>1 DEF Recorded
<1>5. CASE g.fused
  <2>1. IsChain(ns) /\ IsChain(ms) /\ FusedChain(ns) = FusedChain(ms)
    BY <1>3, <1>5 DEF Sends
  <2> DEFINE N == Len(ns)
             M == Len(ms)
             f == FusedChain(ns)
  <2>2. IsFused(f, ns) /\ IsFused(f, ms)
    BY <2>1, FusedIs DEF Recorded
  <2>3. /\ N \in Nat /\ N > 1 /\ DOMAIN ns = 1 .. N /\ f[1] = ns[1]
        /\ DOMAIN f[2].members = 1 .. (N - 1)
        /\ \A n \in 1 .. (N - 1) :
             /\ n + 1 \in DOMAIN ns /\ ns[n + 1].kind = "op"
             /\ \E refs : f[2].members[n] =
                  StageOp(OpToken("op", ns[n + 1].name, ns[n + 1].params), refs)
    BY <2>2 DEF IsFused
  <2>4. /\ M \in Nat /\ M > 1 /\ DOMAIN ms = 1 .. M /\ f[1] = ms[1]
        /\ DOMAIN f[2].members = 1 .. (M - 1)
        /\ \A n \in 1 .. (M - 1) :
             /\ n + 1 \in DOMAIN ms /\ ms[n + 1].kind = "op"
             /\ \E refs : f[2].members[n] =
                  StageOp(OpToken("op", ms[n + 1].name, ms[n + 1].params), refs)
    BY <2>2 DEF IsFused
  <2>5. /\ \A n \in 2 .. N : ns[n].inputs = <<n - 2>>
        /\ \A n \in 2 .. M : ms[n].inputs = <<n - 2>>
    BY <2>1 DEF IsChain
  <2> HIDE DEF N, M, f
  <2>6. N = M
    <3>1. N - 1 \in 1 .. (N - 1) /\ M - 1 \in 1 .. (M - 1)
      BY <2>3, <2>4
    <3>2. N - 1 \in 1 .. (M - 1) /\ M - 1 \in 1 .. (N - 1)
      BY <2>3, <2>4, <3>1
    <3> QED
      BY <2>3, <2>4, <3>2
  <2>7. ASSUME NEW n \in DOMAIN ns
        PROVE  Identity(KeyOf(by[n])) = Identity(KeyOf(made[n]))
    <3> DEFINE c == by[n]
               d == made[n]
    <3>1. /\ c.shape \in Shapes /\ ns[n] = KeyOf(c)
          /\ d.shape \in Shapes /\ ms[n] = KeyOf(d)
      BY <2>3, <2>4, <2>6 DEF Recorded
    <3> HIDE DEF c, d
    <3>2. CASE n = 1
      <4>1. KeyOf(c) = KeyOf(d)
        BY <2>3, <2>4, <3>1, <3>2
      <4> QED
        BY <4>1 DEF c, d
    <3>3. CASE n # 1
      <4> DEFINE i == n - 1
      <4>1. i \in 1 .. (N - 1) /\ i \in 1 .. (M - 1) /\ i + 1 = n /\ n \in 2 .. N
        BY <2>3, <2>6, <3>3
      <4> HIDE DEF i
      <4>2. PICK refs : f[2].members[i] =
              StageOp(OpToken("op", ns[n].name, ns[n].params), refs)
        BY <2>3, <4>1
      <4>3. PICK others : f[2].members[i] =
              StageOp(OpToken("op", ms[n].name, ms[n].params), others)
        BY <2>4, <4>1
      <4>4. StageOp(OpToken("op", KeyOf(c).name, KeyOf(c).params), refs)
            = StageOp(OpToken("op", KeyOf(d).name, KeyOf(d).params), others)
        BY <3>1, <4>2, <4>3
      <4>5. KeyOf(c).kind = "op" /\ KeyOf(d).kind = "op"
        BY <2>3, <2>4, <3>1, <4>1
      <4>6. KeyOf(c).inputs = KeyOf(d).inputs
        BY <2>5, <2>6, <3>1, <4>1
      <4>7. Identity(KeyOf(c)) = Identity(KeyOf(d))
        BY <3>1, <4>4, <4>5, <4>6, TokensTell
      <4> QED
        BY <4>7 DEF c, d
    <3> QED
      BY <3>2, <3>3
  <2> QED
    BY <1>3, <2>3, <2>4, <2>6, <2>7
<1> QED
  BY <1>4, <1>5

(* Tasks with one id do the same work on graphs that mean the same. *)
LEMMA IdTells ==
  ASSUME NEW e, NEW ns, NEW by, NEW g, NEW proc, NEW p, IsLogged(e, ns, by, g, proc, p),
         NEW f, NEW ms, NEW made, NEW h, NEW other, NEW q,
         IsLogged(f, ms, made, h, other, q), e.id = f.id
  PROVE  e.work = f.work /\ e.meaning = f.meaning
<1>1. /\ e = LoggedAs(by, g, proc, p) /\ f = LoggedAs(made, h, other, q)
      /\ Recorded(ns, by) /\ Recorded(ms, made) /\ Sends(g, ns) /\ Sends(h, ms)
      /\ IsList(g.nodes) /\ IsList(g.outs) /\ IsList(h.nodes) /\ IsList(h.outs)
      /\ IsPlanned(p) /\ IsPlanned(q)
  BY DEF IsLogged
<1>2. /\ Encode(g.nodes, g.outs) = Encode(h.nodes, h.outs) /\ proc = other
      /\ Json(p) = Json(q)
  BY <1>1 DEF LoggedAs
<1>3. g.nodes = h.nodes /\ g.outs = h.outs
  BY <1>1, <1>2, WireTells
<1>4. p = q
  <2>1. FromJson(Json(p)) = p /\ FromJson(Json(q)) = q
    BY <1>1, JsonReadsBack DEF IsPlanned
  <2> QED
    BY <1>2, <2>1
<1>5. /\ g.fused = h.fused /\ DOMAIN ns = DOMAIN ms
      /\ \A n \in DOMAIN ns : Identity(KeyOf(by[n])) = Identity(KeyOf(made[n]))
  BY <1>1, <1>3, SentTells
<1>6. e.work = f.work
  BY <1>1, <1>2, <1>3, <1>4, <1>5 DEF LoggedAs
<1>7. \A n \in DOMAIN ns : CallAs(by[n], Meant) = CallAs(made[n], Meant)
  <2> SUFFICES ASSUME NEW n \in DOMAIN ns PROVE CallAs(by[n], Meant) = CallAs(made[n], Meant)
    OBVIOUS
  <2> DEFINE c == by[n]
             d == made[n]
  <2>1. c.shape \in Shapes /\ d.shape \in Shapes /\ Identity(KeyOf(c)) = Identity(KeyOf(d))
    BY <1>1, <1>5 DEF Recorded
  <2> HIDE DEF c, d
  <2>2. CallAs(c, Meant) = CallAs(d, Meant)
    BY <2>1, SameCalls
  <2> QED
    BY <2>2 DEF c, d
<1>8. DOMAIN by = DOMAIN ns /\ DOMAIN made = DOMAIN ns
  <2>1. by = [n \in DOMAIN ns |-> by[n]] /\ made = [n \in DOMAIN ms |-> made[n]]
    BY <1>1 DEF Recorded
  <2> QED
    BY <1>5, <2>1, Zenon
<1>9. CallsAs(by, Meant) = CallsAs(made, Meant)
  BY <1>7, <1>8, Zenon DEF CallsAs
<1>10. e.meaning = f.meaning
  BY <1>1, <1>9 DEF LoggedAs
<1> QED
  BY <1>6, <1>10

(* The same work on one graph gets one id. *)
LEMMA WorkTells ==
  ASSUME NEW e, NEW ns, NEW by, NEW g, NEW proc, NEW p, IsLogged(e, ns, by, g, proc, p),
         NEW f, NEW ms, NEW made, NEW h, NEW other, NEW q,
         IsLogged(f, ms, made, h, other, q), e.work = f.work, e.graph = f.graph
  PROVE  e.id = f.id
<1>1. /\ e = LoggedAs(by, g, proc, p) /\ f = LoggedAs(made, h, other, q)
      /\ Recorded(ns, by) /\ Recorded(ms, made) /\ Sends(g, ns) /\ Sends(h, ms)
  BY DEF IsLogged
<1>2. /\ g.outs = h.outs /\ g.fused = h.fused /\ proc = other /\ p = q
      /\ CallsAs(by, Kept) = CallsAs(made, Kept)
  BY <1>1 DEF LoggedAs
<1>3. DOMAIN by = DOMAIN ns /\ DOMAIN made = DOMAIN ms
  <2>1. by = [n \in DOMAIN ns |-> by[n]] /\ made = [n \in DOMAIN ms |-> made[n]]
    BY <1>1 DEF Recorded
  <2> QED
    BY <2>1, Zenon
<1>4. DOMAIN by = DOMAIN made
  BY <1>2, Zenon DEF CallsAs
<1>5. ASSUME NEW n \in DOMAIN ns PROVE ns[n] = ms[n]
  <2> DEFINE c == by[n]
             d == made[n]
  <2>1. n \in DOMAIN by /\ n \in DOMAIN made /\ n \in DOMAIN ms
    BY <1>3, <1>4
  <2>2. CallAs(c, Kept) = CallAs(d, Kept)
    <3>1. CallsAs(by, Kept)[n] = CallAs(c, Kept) /\ CallsAs(made, Kept)[n] = CallAs(d, Kept)
      BY <2>1, Zenon DEF CallsAs
    <3> QED
      BY <1>2, <3>1
  <2>3. c.shape \in Shapes /\ d.shape \in Shapes /\ ns[n] = KeyOf(c) /\ ms[n] = KeyOf(d)
    BY <1>1, <2>1 DEF Recorded
  <2> HIDE DEF c, d
  <2>4. KeyOf(c) = KeyOf(d)
    BY <2>2, <2>3, SameCalls
  <2> QED
    BY <2>3, <2>4
<1>6. ns = ms
  <2>1. IsList(ns) /\ IsList(ms) /\ DOMAIN ns = DOMAIN ms
    BY <1>1, <1>3, <1>4 DEF Recorded, IsGraph
  <2>2. /\ ns = [n \in 1 .. Len(ns) |-> ns[n]] /\ DOMAIN ns = 1 .. Len(ns)
        /\ ms = [n \in 1 .. Len(ms) |-> ms[n]] /\ DOMAIN ms = 1 .. Len(ms)
    BY <2>1, ListIs
  <2>3. ns = [n \in DOMAIN ns |-> ns[n]] /\ ms = [n \in DOMAIN ns |-> ms[n]]
    BY <2>1, <2>2
  <2> QED
    BY <1>5, <2>3
<1>7. g.nodes = h.nodes
  BY <1>1, <1>2, <1>6 DEF Sends
<1> QED
  BY <1>1, <1>2, <1>7 DEF LoggedAs

\* A worker runs its tasks in turn.
RanInv == ran \in Nat /\ IsList(received)

(* Every step, seen from there. *)
LEMMA RanStep ==
  ASSUME RanInv, PlanInv, [Next]_vars
  PROVE  RanInv'
<1>1. ASSUME NEW arrival, Deliver(arrival) PROVE RanInv'
  <2> DEFINE N == Len(tasks)
             list == [n \in 1 .. N |-> FromJson(Json(tasks[n]))]
  <2>1. N \in Nat /\ DOMAIN tasks = 1 .. N
    BY DEF PlanInv, PlannerInv
  <2>2. received' = list /\ ran' = 0
    BY <1>1, <2>1 DEF Deliver
  <2>3. DOMAIN list = 1 .. N /\ list = [n \in 1 .. N |-> list[n]]
    OBVIOUS
  <2> HIDE DEF N, list
  <2>4. IsList(list)
    BY <2>1, <2>3, ListOf
  <2> QED
    BY <2>2, <2>4 DEF RanInv
<1>2. CASE RunTask
  BY <1>2 DEF RunTask, RanInv
<1>3. CASE NewSession
  <2>1. received' = <<>> /\ ran' = 0 /\ IsList(<<>>)
    BY <1>3, NoEntriesSorted DEF NewSession, SortedByName, Named
  <2> QED
    BY <2>1 DEF RanInv
<1>4. CASE \/ \E s \in Shapes : \E ins \in InputLists(s.arity) : Record(s, ins)
           \/ \E outs \in OutputLists : SerializeRecorded(outs)
           \/ SerializeCompiled
           \/ \E uris \in UriLists : \E n \in ChunkSizes : ForDatasets(uris, n)
           \/ \E uri \in Uris : \E n \in StepCounts : ForSteps(uri, n)
           \/ WithoutTasks \/ SplitStep \/ LoadStep \/ UNCHANGED vars
  <2>1. ran' = ran /\ received' = received
    BY <1>4 DEF Record, SerializeRecorded, SerializeCompiled, Serialize, ForDatasets,
                ForSteps, WithoutTasks, SplitStep, LoadStep, vars, workerVars
  <2> QED
    BY <2>1 DEF RanInv
<1> QED
  BY <1>1, <1>2, <1>3, <1>4 DEF Next

(* What a task logs. *)
LEMMA RunLogs ==
  ASSUME ClientInv, CallsInv, SentInv, PlanInv, RanInv, LogInv, RunTask
  PROVE  LogInv'
<1> DEFINE by == [n \in DOMAIN nodes |-> Maker(n)]
           p == tasks[ran + 1]
           e == [id |-> TaskId(received[ran + 1]),
                 graph |-> GraphAs(Kept), meaning |-> GraphAs(Meant),
                 work |-> <<sent.outs, sent.fused, process, tasks[ran + 1]>>]
<1>1. pc = "work" /\ log' = log \union {e}
  BY DEF RunTask
<1>2. Recorded(nodes, by)
  <2>1. ASSUME NEW n \in DOMAIN nodes
        PROVE  Maker(n).shape \in Shapes /\ nodes[n] = KeyOf(Maker(n))
    <3> DEFINE m == CHOOSE m \in DOMAIN calls : calls[m].new /\ calls[m].id = n - 1
               c == calls[m]
    <3>1. \E i \in DOMAIN calls : calls[i].new /\ calls[i].id = n - 1
      BY DEF CallsInv
    <3>2. m \in DOMAIN calls /\ c.new /\ c.id = n - 1
      BY <3>1
    <3>3. Maker(n) = c
      BY DEF Maker
    <3> HIDE DEF m
    <3>4. Answered(c, nodes)
      BY <3>2 DEF CallsInv
    <3> HIDE DEF c
    <3>5. n \in Nat
      BY ListIs DEF ClientInv, Sendable, IsGraph
    <3>6. c.id + 1 = n
      BY <3>2, <3>5
    <3> QED
      BY <3>2, <3>3, <3>4, <3>6 DEF Answered
  <2>2. by = [n \in DOMAIN nodes |-> by[n]] /\ \A n \in DOMAIN nodes : by[n] = Maker(n)
    OBVIOUS
  <2> HIDE DEF by
  <2> QED
    BY <2>1, <2>2 DEF Recorded, ClientInv, Sendable
<1>3. Sends(sent, nodes) /\ IsList(sent.nodes) /\ IsList(sent.outs)
  BY <1>1, WireIs DEF SentInv
<1>4. IsPlanned(p) /\ received[ran + 1] = p
  <2>1. ran + 1 \in DOMAIN tasks
    <3>1. ran < Len(received) /\ ran \in Nat
      BY DEF RunTask, RanInv
    <3>2. Len(received) \in Nat /\ DOMAIN received = 1 .. Len(received)
      BY ListIs DEF RanInv
    <3>3. DOMAIN received = DOMAIN tasks
      BY <1>1 DEF PlanInv
    <3> QED
      BY <3>1, <3>2, <3>3
  <2>2. received[ran + 1] = p
    BY <1>1, <2>1 DEF PlanInv
  <2>3. p \in PartitionSet
    BY <2>1 DEF PlanInv, PlannerInv
  <2>4. p.blind # <<>> => p.entry_start = 0 /\ p.entry_stop = 0
    BY <2>1 DEF PlanInv, PlannerInv
  <2> QED
    BY <2>2, <2>3, <2>4 DEF IsPlanned
<1>5. e = LoggedAs(by, sent, process, p)
  <2>1. TaskId(p) = <<Encode(sent.nodes, sent.outs), process, Json(p)>>
    BY <1>1 DEF TaskId, ClientInv
  <2>2. GraphAs(Kept) = CallsAs(by, Kept) /\ GraphAs(Meant) = CallsAs(by, Meant)
    BY Zenon DEF GraphAs, CallsAs
  <2> HIDE DEF by, p
  <2> QED
    BY <1>4, <2>1, <2>2 DEF LoggedAs, p
<1> HIDE DEF by, p, e
<1>6. IsLogged(e, nodes, by, sent, process, p)
  BY <1>2, <1>3, <1>4, <1>5 DEF IsLogged
<1>7. ASSUME NEW x \in log'
      PROVE  \E ns, cs, graph, proc, q : IsLogged(x, ns, cs, graph, proc, q)
  <2>1. CASE x \in log
    BY <2>1 DEF LogInv
  <2>2. CASE x = e
    BY <1>6, <2>2
  <2> QED
    BY <1>1, <2>1, <2>2
<1> QED
  BY <1>7 DEF LogInv

(* The id of a task changes exactly when the computation or the input does. *)
THEOREM SameIdSameWorkAlways == Spec => []SameIdSameWork
<1> DEFINE Inv == ClientInv /\ CallsInv /\ SentInv /\ PlanInv /\ RanInv /\ LogInv
<1>1. Init => Inv
  <2> SUFFICES ASSUME Init PROVE Inv
    OBVIOUS
  <2>1. ClientInv /\ CallsInv /\ SentInv
    BY InitClient
  <2>2. PlanInv
    BY UnplannedInv DEF Init, PlanInv
  <2>3. RanInv
    BY NoEntriesSorted DEF Init, RanInv, SortedByName, Named
  <2>4. LogInv
    BY DEF Init, LogInv
  <2> QED
    BY <2>1, <2>2, <2>3, <2>4
<1>2. Inv /\ [Next]_vars => Inv'
  <2> SUFFICES ASSUME Inv, [Next]_vars PROVE Inv'
    OBVIOUS
  <2>1. ClientInv' /\ CallsInv' /\ SentInv' /\ PlanInv' /\ RanInv'
    BY ClientStep, CallsStep, SentStep, PlanStep, RanStep
  <2>2. LogInv'
    <3>1. CASE RunTask
      BY <3>1, RunLogs
    <3>2. CASE ~ RunTask
      <4>1. log' = log
        BY <3>2 DEF Next, Record, SerializeRecorded, SerializeCompiled, Serialize,
                    ForDatasets, ForSteps, WithoutTasks, SplitStep, Deliver, LoadStep,
                    NewSession, vars
      <4> QED
        BY <4>1 DEF LogInv
    <3> QED
      BY <3>1, <3>2
  <2> QED
    BY <2>1, <2>2
<1>3. Inv => SameIdSameWork
  <2> SUFFICES ASSUME LogInv, NEW e \in log, NEW f \in log
               PROVE  /\ e.id = f.id => e.work = f.work /\ e.meaning = f.meaning
                      /\ e.work = f.work /\ e.graph = f.graph => e.id = f.id
    BY DEF SameIdSameWork
  <2>1. PICK ns, by, g, proc, p : IsLogged(e, ns, by, g, proc, p)
    BY DEF LogInv
  <2>2. PICK ms, made, h, other, q : IsLogged(f, ms, made, h, other, q)
    BY DEF LogInv
  <2>3. e.id = f.id => e.work = f.work /\ e.meaning = f.meaning
    BY <2>1, <2>2, IdTells
  <2>4. e.work = f.work /\ e.graph = f.graph => e.id = f.id
    BY <2>1, <2>2, WorkTells
  <2> QED
    BY <2>3, <2>4
<1> QED
  BY <1>1, <1>2, <1>3, PTL DEF Spec
=============================================================================
