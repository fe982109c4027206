------------------------ MODULE SequentialRunProofs ------------------------
(***************************************************************************)
(* Proofs about a run: whatever it opens, evicts and runs into, no handle  *)
(* leaks, none is closed twice and the cache holds the uris used last, and *)
(* its tasks run, fold and are reported in key order; for any tasks, uris  *)
(* and bound of the cache, zero included.                                  *)
(***************************************************************************)
EXTENDS SequentialRun, SequenceTheorems, FiniteSetTheorems, TLAPS

(* The entries of a concatenation are those of its parts. *)
LEMMA EntriesOfConcat ==
  ASSUME NEW S, NEW s \in Seq(S), NEW t \in Seq(S)
  PROVE  ToSet(s \o t) = ToSet(s) \union ToSet(t)
<1>1. /\ Len(s) \in Nat /\ Len(t) \in Nat
      /\ DOMAIN s = 1 .. Len(s) /\ DOMAIN t = 1 .. Len(t)
      /\ DOMAIN (s \o t) = 1 .. (Len(s) + Len(t))
  OBVIOUS
<1>2. \A i \in 1 .. Len(s) + Len(t) :
        (s \o t)[i] = IF i <= Len(s) THEN s[i] ELSE t[i - Len(s)]
  BY ConcatProperties
<1>3. ASSUME NEW i \in 1 .. Len(s) PROVE i \in 1 .. (Len(s) + Len(t)) /\ (s \o t)[i] = s[i]
  BY <1>1, <1>2
<1>4. ASSUME NEW i \in 1 .. Len(t)
      PROVE  i + Len(s) \in 1 .. (Len(s) + Len(t)) /\ (s \o t)[i + Len(s)] = t[i]
  BY <1>1, <1>2
<1>5. ToSet(s) \union ToSet(t) \subseteq ToSet(s \o t)
  BY <1>1, <1>3, <1>4 DEF ToSet
<1>6. ASSUME NEW i \in 1 .. (Len(s) + Len(t))
      PROVE  (s \o t)[i] \in ToSet(s) \union ToSet(t)
  <2>1. CASE i <= Len(s)
    <3>1. i \in 1 .. Len(s) /\ (s \o t)[i] = s[i]
      BY <2>1, <1>1, <1>2
    <3> QED
      BY <3>1, <1>1 DEF ToSet
  <2>2. CASE i > Len(s)
    <3>1. i - Len(s) \in 1 .. Len(t) /\ (s \o t)[i] = t[i - Len(s)]
      BY <2>2, <1>1, <1>2
    <3> QED
      BY <3>1, <1>1 DEF ToSet
  <2> QED
    BY <2>1, <2>2, <1>1
<1>7. ToSet(s \o t) \subseteq ToSet(s) \union ToSet(t)
  BY <1>1, <1>6 DEF ToSet
<1> QED
  BY <1>5, <1>7

(* The entries of a list with one more. *)
LEMMA EntriesOfAppend ==
  ASSUME NEW S, NEW s \in Seq(S), NEW e \in S
  PROVE  ToSet(Append(s, e)) = ToSet(s) \union {e}
<1>1. /\ Len(s) \in Nat /\ DOMAIN s = 1 .. Len(s)
      /\ DOMAIN Append(s, e) = 1 .. (Len(s) + 1)
      /\ \A i \in 1 .. Len(s) : Append(s, e)[i] = s[i]
      /\ Append(s, e)[Len(s) + 1] = e
  OBVIOUS
<1>2. ASSUME NEW i \in 1 .. (Len(s) + 1) PROVE i \in 1 .. Len(s) \/ i = Len(s) + 1
  BY <1>1
<1>3. Len(s) + 1 \in 1 .. (Len(s) + 1) /\ 1 .. Len(s) \subseteq 1 .. (Len(s) + 1)
  BY <1>1
<1> QED
  BY <1>1, <1>2, <1>3 DEF ToSet

(* Moving an entry to the end: where each entry goes. *)
LEMMA MovedToEnd ==
  ASSUME NEW S, NEW s \in Seq(S), NEW p \in 1 .. Len(s)
  PROVE  LET moved == Append(RemoveAt(s, p), s[p])
         IN /\ moved \in Seq(S) /\ Len(moved) = Len(s)
            /\ \A i \in 1 .. (p - 1) : moved[i] = s[i]
            /\ \A i \in p .. (Len(s) - 1) : moved[i] = s[i + 1]
            /\ moved[Len(s)] = s[p]
<1> DEFINE front == SubSeq(s, 1, p - 1)
           back == SubSeq(s, p + 1, Len(s))
<1>1. Len(s) \in Nat /\ p \in Nat /\ \A i \in 1 .. Len(s) : s[i] \in S
  BY LenProperties, ElementOfSeq
<1>2. /\ front \in Seq(S) /\ Len(front) = p - 1
      /\ \A i \in 1 .. (p - 1) : front[i] = s[i]
  <2>1. \A i \in 1 .. (p - 1) : s[i] \in S
    BY <1>1
  <2>2. /\ front \in Seq(S)
        /\ Len(front) = IF 1 <= p - 1 THEN p - 1 - 1 + 1 ELSE 0
        /\ \A i \in 1 .. p - 1 - 1 + 1 : front[i] = s[1 + i - 1]
    BY <1>1, <2>1, SubSeqProperties
  <2> HIDE DEF front
  <2> QED
    BY <2>2, <1>1
<1>3. /\ back \in Seq(S) /\ Len(back) = Len(s) - p
      /\ \A i \in 1 .. (Len(s) - p) : back[i] = s[p + i]
  <2>1. \A i \in (p + 1) .. Len(s) : s[i] \in S
    BY <1>1
  <2>2. /\ back \in Seq(S)
        /\ Len(back) = IF p + 1 <= Len(s) THEN Len(s) - (p + 1) + 1 ELSE 0
        /\ \A i \in 1 .. Len(s) - (p + 1) + 1 : back[i] = s[(p + 1) + i - 1]
    BY <1>1, <2>1, SubSeqProperties
  <2> HIDE DEF back
  <2> QED
    BY <2>2, <1>1
<1>4. RemoveAt(s, p) = front \o back
  BY DEF RemoveAt
<1> HIDE DEF front, back
<1>5. /\ front \o back \in Seq(S)
      /\ Len(front \o back) = Len(s) - 1
      /\ \A i \in 1 .. (Len(s) - 1) :
           (front \o back)[i] = IF i < p THEN s[i] ELSE s[i + 1]
  <2>1. /\ front \o back \in Seq(S)
        /\ Len(front \o back) = Len(front) + Len(back)
        /\ \A i \in 1 .. Len(front) + Len(back) : (front \o back)[i] =
             IF i <= Len(front) THEN front[i] ELSE back[i - Len(front)]
    BY <1>2, <1>3, ConcatProperties
  <2> QED
    BY <2>1, <1>1, <1>2, <1>3
<1> DEFINE rest == front \o back
<1> HIDE DEF rest
<1>6. /\ rest \in Seq(S) /\ Len(rest) = Len(s) - 1
      /\ \A i \in 1 .. (Len(s) - 1) : rest[i] = IF i < p THEN s[i] ELSE s[i + 1]
  BY <1>5 DEF rest
<1>7. /\ Append(rest, s[p]) \in Seq(S) /\ Len(Append(rest, s[p])) = Len(s)
      /\ \A i \in 1 .. (Len(s) - 1) : Append(rest, s[p])[i] = rest[i]
      /\ Append(rest, s[p])[Len(s)] = s[p]
  BY <1>1, <1>6
<1>8. RemoveAt(s, p) = rest
  BY <1>4 DEF rest
<1>9. \A i \in 1 .. (p - 1) : Append(rest, s[p])[i] = s[i]
  BY <1>1, <1>6, <1>7
<1>10. \A i \in p .. (Len(s) - 1) : Append(rest, s[p])[i] = s[i + 1]
  BY <1>1, <1>6, <1>7
<1> QED
  BY <1>7, <1>8, <1>9, <1>10

-----------------------------------------------------------------------------
Handles == [uri : Uris, id : Nat]

ResourcesTyped ==
  handles \in Seq(Handles) /\ opened \in Seq(Handles) /\ closed \in Seq(Handles)

ResourcesInv ==
  ResourcesTyped /\ OpenedIsCachedOrClosed /\ CacheBounded

(* A worker starts with no handle. *)
LEMMA NoResourcesInv == NoResources => ResourcesInv
<1> SUFFICES ASSUME NoResources PROVE ResourcesInv
  OBVIOUS
<1>1. handles = <<>> /\ opened = <<>> /\ closed = <<>>
  BY DEF NoResources
<1> QED
  BY <1>1, MaxOpenIsANumber
     DEF ResourcesInv, ResourcesTyped, OpenedIsCachedOrClosed, CacheBounded, ToSet

(* A hit reorders the cache and changes nothing else. *)
LEMMA OpenCachedKeeps ==
  ASSUME ResourcesInv, NEW uri \in Uris, OpenCached(uri)
  PROVE  ResourcesInv'
<1>1. handles \in Seq(Handles) /\ Len(handles) \in Nat /\ DOMAIN handles = 1 .. Len(handles)
  BY DEF ResourcesInv, ResourcesTyped
<1>2. PICK p \in 1 .. Len(handles) : handles' = Append(RemoveAt(handles, p), handles[p])
  BY <1>1 DEF OpenCached
<1>3. /\ handles' \in Seq(Handles) /\ Len(handles') = Len(handles)
      /\ \A i \in 1 .. (p - 1) : handles'[i] = handles[i]
      /\ \A i \in p .. (Len(handles) - 1) : handles'[i] = handles[i + 1]
      /\ handles'[Len(handles)] = handles[p]
  BY <1>1, <1>2, MovedToEnd
<1> DEFINE from(i) == IF i < p THEN i ELSE IF i < Len(handles) THEN i + 1 ELSE p
<1>4. \A i \in 1 .. Len(handles) :
        from(i) \in 1 .. Len(handles) /\ handles'[i] = handles[from(i)]
  BY <1>1, <1>2, <1>3
<1>5. \A i, j \in 1 .. Len(handles) : from(i) = from(j) => i = j
  BY <1>1, <1>2
<1>6. \A j \in 1 .. Len(handles) : \E i \in 1 .. Len(handles) : handles'[i] = handles[j]
  <2> SUFFICES ASSUME NEW j \in 1 .. Len(handles)
               PROVE  \E i \in 1 .. Len(handles) : handles'[i] = handles[j]
    OBVIOUS
  <2>1. CASE j < p
    <3>1. handles'[j] = handles[j]
      BY <2>1, <1>1, <1>2, <1>3
    <3> QED
      BY <3>1
  <2>2. CASE j = p
    <3>1. Len(handles) \in 1 .. Len(handles)
      BY <1>1, <1>2
    <3> QED
      BY <2>2, <3>1, <1>3
  <2>3. CASE j > p
    <3>1. j - 1 \in p .. (Len(handles) - 1) /\ j - 1 \in 1 .. Len(handles)
          /\ (j - 1) + 1 = j
      BY <2>3, <1>1, <1>2
    <3>2. handles'[j - 1] = handles[j]
      BY <3>1, <1>3
    <3> QED
      BY <3>1, <3>2
  <2>4. j < p \/ j = p \/ j > p
    BY <1>1, <1>2
  <2> QED
    BY <2>1, <2>2, <2>3, <2>4
<1> HIDE DEF from
<1>7. DOMAIN handles' = 1 .. Len(handles)
  BY <1>1, <1>3
<1>8. ToSet(handles') = ToSet(handles)
  <2>1. \A i \in DOMAIN handles' : handles'[i] \in ToSet(handles)
    BY <1>1, <1>4, <1>7 DEF ToSet
  <2>2. \A j \in DOMAIN handles : handles[j] \in ToSet(handles')
    <3> SUFFICES ASSUME NEW j \in DOMAIN handles
                 PROVE  \E i \in DOMAIN handles' : handles'[i] = handles[j]
      BY DEF ToSet
    <3> QED
      BY <1>1, <1>6, <1>7
  <2>3. ToSet(handles') \subseteq ToSet(handles)
    BY <2>1 DEF ToSet
  <2>4. ToSet(handles) \subseteq ToSet(handles')
    BY <2>2 DEF ToSet
  <2> QED
    BY <2>3, <2>4
<1>9. opened' = opened /\ closed' = closed
  BY DEF OpenCached
<1>10. OpenedIsCachedOrClosed'
  BY <1>3, <1>8, <1>9 DEF ResourcesInv, OpenedIsCachedOrClosed
<1>11. CacheBounded'
  <2>1. Len(handles') <= MaxOpen
    BY <1>3 DEF ResourcesInv, CacheBounded
  <2>2. \A i, j \in DOMAIN handles' : handles'[i].uri = handles'[j].uri => i = j
    <3> SUFFICES ASSUME NEW i \in DOMAIN handles', NEW j \in DOMAIN handles',
                        handles'[i].uri = handles'[j].uri
                 PROVE  i = j
      OBVIOUS
    <3>1. i \in 1 .. Len(handles) /\ j \in 1 .. Len(handles)
      BY <1>7
    <3>2. /\ from(i) \in DOMAIN handles /\ from(j) \in DOMAIN handles
          /\ handles'[i] = handles[from(i)] /\ handles'[j] = handles[from(j)]
      BY <3>1, <1>1, <1>4
    <3>3. handles[from(i)].uri = handles[from(j)].uri
      BY <3>2
    <3>4. from(i) = from(j)
      BY <3>2, <3>3 DEF ResourcesInv, CacheBounded
    <3> QED
      BY <3>1, <3>4, <1>5
  <2> QED
    BY <2>1, <2>2 DEF CacheBounded
<1> QED
  BY <1>3, <1>9, <1>10, <1>11 DEF ResourcesInv, ResourcesTyped

(***************************************************************************)
(* A miss splits what was cached and the new handle in what is closed and *)
(* what stays.                                                            *)
(***************************************************************************)
LEMMA OpenNewKeeps ==
  ASSUME ResourcesInv, NEW uri \in Uris, OpenNew(uri)
  PROVE  ResourcesInv'
<1> DEFINE handle == [uri |-> uri, id |-> Len(opened) + 1]
           cached == Append(handles, handle)
           excess == IF Len(cached) > MaxOpen THEN Len(cached) - MaxOpen ELSE 0
           gone == SubSeq(cached, 1, excess)
           kept == SubSeq(cached, excess + 1, Len(cached))
<1>1. /\ ~ UriCached(uri) /\ opened' = Append(opened, handle)
      /\ handles' = kept /\ closed' = closed \o gone
  BY DEF OpenNew
<1>2. /\ handles \in Seq(Handles) /\ opened \in Seq(Handles) /\ closed \in Seq(Handles)
      /\ Len(handles) \in Nat /\ Len(opened) \in Nat /\ Len(closed) \in Nat
      /\ MaxOpen \in Nat
  BY MaxOpenIsANumber DEF ResourcesInv, ResourcesTyped
<1>3. handle \in Handles /\ handle.uri = uri
  BY <1>2 DEF Handles
<1> HIDE DEF handle
<1>4. /\ cached \in Seq(Handles) /\ Len(cached) = Len(handles) + 1
      /\ \A i \in 1 .. Len(handles) : cached[i] = handles[i]
      /\ cached[Len(handles) + 1] = handle
  BY <1>2, <1>3
<1>5. ToSet(cached) = ToSet(handles) \union {handle}
  BY <1>2, <1>3, EntriesOfAppend
<1>6. ToSet(opened') = ToSet(opened) \union {handle} /\ Len(opened') = Len(opened) + 1
      /\ opened' \in Seq(Handles)
  BY <1>1, <1>2, <1>3, EntriesOfAppend
<1>7. \A i, j \in 1 .. Len(cached) : cached[i].uri = cached[j].uri => i = j
  <2>1. DOMAIN handles = 1 .. Len(handles)
    BY <1>2
  <2>2. \A i \in 1 .. Len(handles) : handles[i].uri # uri
    BY <1>1, <2>1 DEF UriCached
  <2>3. \A i, j \in 1 .. Len(handles) : handles[i].uri = handles[j].uri => i = j
    BY <2>1 DEF ResourcesInv, CacheBounded
  <2>4. \A i \in 1 .. Len(cached) : i \in 1 .. Len(handles) \/ i = Len(handles) + 1
    BY <1>2, <1>4
  <2> QED
    BY <1>3, <1>4, <2>2, <2>3, <2>4
<1> HIDE DEF cached
<1>8. excess \in 0 .. Len(cached) /\ Len(cached) - excess <= MaxOpen
  BY <1>2, <1>4
<1> HIDE DEF excess
<1>9. \A i \in 1 .. Len(cached) : cached[i] \in Handles
  BY <1>4, ElementOfSeq
<1>10. gone \in Seq(Handles) /\ Len(gone) = excess
  <2>1. \A i \in 1 .. excess : cached[i] \in Handles
    BY <1>2, <1>4, <1>8, <1>9
  <2>2. /\ gone \in Seq(Handles)
        /\ Len(gone) = IF 1 <= excess THEN excess - 1 + 1 ELSE 0
    BY <1>8, <2>1, SubSeqProperties
  <2> HIDE DEF gone
  <2> QED
    BY <2>2, <1>8
<1>11. /\ kept \in Seq(Handles) /\ Len(kept) = Len(cached) - excess
       /\ \A i \in 1 .. Len(kept) : kept[i] = cached[excess + i]
  <2>1. \A i \in (excess + 1) .. Len(cached) : cached[i] \in Handles
    BY <1>2, <1>4, <1>8, <1>9
  <2>2. excess + 1 \in Int /\ Len(cached) \in Int
    BY <1>2, <1>4, <1>8
  <2>3. /\ kept \in Seq(Handles)
        /\ Len(kept) = IF excess + 1 <= Len(cached) THEN Len(cached) - (excess + 1) + 1 ELSE 0
        /\ \A i \in 1 .. Len(cached) - (excess + 1) + 1 : kept[i] = cached[(excess + 1) + i - 1]
    BY <2>1, <2>2, SubSeqProperties
  <2> HIDE DEF kept
  <2> QED
    BY <2>3, <1>2, <1>4, <1>8
<1>12. gone \o kept = cached
  <2>1. /\ 1 \in 1 .. Len(cached) + 1 /\ excess \in 1 - 1 .. Len(cached)
        /\ Len(cached) \in excess .. Len(cached)
    BY <1>2, <1>4, <1>8
  <2>2. gone \o kept = SubSeq(cached, 1, Len(cached))
    BY <1>4, <2>1, ConcatAdjacentSubSeq
  <2> QED
    BY <2>2, <1>4, SubSeqFull
<1> HIDE DEF gone, kept
<1>13. ToSet(gone) \union ToSet(kept) = ToSet(cached)
  <2>1. gone \in Seq(Handles) /\ kept \in Seq(Handles)
    BY <1>10, <1>11
  <2>2. ToSet(gone \o kept) = ToSet(gone) \union ToSet(kept)
    BY ONLY <2>1, EntriesOfConcat, SMT
  <2> QED
    BY <2>2, <1>12
<1>14. ToSet(closed') = ToSet(closed) \union ToSet(gone)
       /\ closed' \in Seq(Handles) /\ Len(closed') = Len(closed) + Len(gone)
  <2>1. closed' = closed \o gone
    BY <1>1
  <2>2. ToSet(closed \o gone) = ToSet(closed) \union ToSet(gone)
    BY <1>2, <1>10, EntriesOfConcat
  <2>3. closed \o gone \in Seq(Handles) /\ Len(closed \o gone) = Len(closed) + Len(gone)
    BY <1>2, <1>10, ConcatProperties
  <2> QED
    BY <2>1, <2>2, <2>3
<1>15. OpenedIsCachedOrClosed'
  <2>1. ToSet(opened') = ToSet(handles') \union ToSet(closed')
    <3>1. ToSet(opened) = ToSet(handles) \union ToSet(closed)
      BY DEF ResourcesInv, OpenedIsCachedOrClosed
    <3>2. ToSet(opened') = ToSet(opened) \union {handle}
      BY <1>6
    <3>3. ToSet(handles') \union ToSet(gone) = ToSet(handles) \union {handle}
      BY <1>1, <1>5, <1>13
    <3>4. ToSet(closed') = ToSet(closed) \union ToSet(gone)
      BY <1>14
    <3> QED
      BY <3>1, <3>2, <3>3, <3>4
  <2>2. Len(opened') = Len(handles') + Len(closed')
    BY <1>1, <1>2, <1>4, <1>6, <1>8, <1>10, <1>11, <1>14
       DEF ResourcesInv, OpenedIsCachedOrClosed
  <2> QED
    BY <2>1, <2>2 DEF OpenedIsCachedOrClosed
<1>16. CacheBounded'
  <2>1. Len(handles') <= MaxOpen
    BY <1>1, <1>8, <1>11
  <2>2. \A i \in DOMAIN handles' :
          /\ i \in Nat /\ excess + i \in 1 .. Len(cached)
          /\ handles'[i] = cached[excess + i]
    <3>1. /\ DOMAIN handles' = 1 .. Len(kept)
          /\ Len(cached) \in Nat /\ excess \in Nat /\ Len(kept) = Len(cached) - excess
      BY <1>1, <1>2, <1>4, <1>8, <1>11
    <3>2. \A i \in 1 .. Len(kept) : i \in Nat /\ excess + i \in 1 .. Len(cached)
      BY <3>1
    <3> QED
      BY <3>1, <3>2, <1>1, <1>11
  <2>3. \A i, j \in DOMAIN handles' : handles'[i].uri = handles'[j].uri => i = j
    <3> SUFFICES ASSUME NEW i \in DOMAIN handles', NEW j \in DOMAIN handles',
                        handles'[i].uri = handles'[j].uri
                 PROVE  i = j
      OBVIOUS
    <3>1. excess + i = excess + j
      BY <2>2, <1>7
    <3> QED
      BY <3>1, <2>2, <1>8
  <2> QED
    BY <2>1, <2>3 DEF CacheBounded
<1> QED
  BY <1>1, <1>6, <1>11, <1>14, <1>15, <1>16 DEF ResourcesInv, ResourcesTyped

(* close leaves nothing cached and every handle closed. *)
LEMMA CloseAllKeeps ==
  ASSUME ResourcesInv, CloseAll
  PROVE  ResourcesInv' /\ handles' = <<>>
<1>1. closed' = closed \o handles /\ handles' = <<>> /\ opened' = opened
  BY DEF CloseAll
<1>2. handles \in Seq(Handles) /\ opened \in Seq(Handles) /\ closed \in Seq(Handles)
  BY DEF ResourcesInv, ResourcesTyped
<1>3. /\ ToSet(closed') = ToSet(closed) \union ToSet(handles)
      /\ closed' \in Seq(Handles) /\ Len(closed') = Len(closed) + Len(handles)
  BY <1>1, <1>2, EntriesOfConcat, ConcatProperties
<1>4. ToSet(handles') = {} /\ Len(handles') = 0 /\ handles' \in Seq(Handles)
  BY <1>1 DEF ToSet
<1>5. OpenedIsCachedOrClosed'
  BY <1>1, <1>2, <1>3, <1>4 DEF ResourcesInv, OpenedIsCachedOrClosed
<1>6. CacheBounded'
  BY <1>1, <1>4, MaxOpenIsANumber DEF CacheBounded
<1> QED
  BY <1>1, <1>2, <1>3, <1>4, <1>5, <1>6 DEF ResourcesInv, ResourcesTyped

-----------------------------------------------------------------------------
\* What a run that is over has in its cache: nothing.
RunInv == ResourcesInv /\ (Over => handles = <<>>)

(* A run that starts has opened nothing. *)
LEMMA InitInv == Init => RunInv
BY NoResourcesInv DEF Init, RunInv, NoResources

(* Only process opens, and only the finally clause closes and ends the run. *)
LEMMA NextInv == RunInv /\ [Next]_vars => RunInv'
<1> SUFFICES ASSUME RunInv, [Next]_vars PROVE RunInv'
  OBVIOUS
<1>1. ASSUME resources' = resources, Over' => Over PROVE RunInv'
  BY <1>1 DEF RunInv, ResourcesInv, ResourcesTyped, OpenedIsCachedOrClosed,
     CacheBounded, resources
<1>2. CASE Empty \/ Submit \/ Start \/ ProcessReturns \/ ProcessRaises
           \/ Combine \/ Finish \/ EmptyRaises \/ CombineRaises \/ Interrupted
  <2>1. resources' = resources /\ ~ Over'
    BY <1>2 DEF Empty, Submit, Start, ProcessReturns, ProcessRaises, Combine,
       Finish, EmptyRaises, CombineRaises, Interrupted,
       Over
  <2> QED
    BY <1>1, <2>1
<1>3. CASE \E uri \in Uris : Use(uri)
  <2>1. PICK uri \in Uris : Use(uri)
    BY <1>3
  <2>2. ResourcesInv' /\ ~ Over'
    BY <2>1, OpenCachedKeeps, OpenNewKeeps DEF RunInv, Use, run, Over
  <2> QED
    BY <2>2 DEF RunInv
<1>4. CASE Return \/ Raise
  <2>1. ResourcesInv' /\ handles' = <<>>
    BY <1>4, CloseAllKeeps DEF RunInv, Return, Raise
  <2> QED
    BY <2>1 DEF RunInv
<1>5. CASE UNCHANGED vars
  BY <1>1, <1>5 DEF vars, run, resources, Over
<1> QED
  BY <1>2, <1>3, <1>4, <1>5 DEF Next

(***************************************************************************)
(* However a run ends, every handle it opened was closed, and each once;  *)
(* before that each is cached and open or was closed on eviction.         *)
(***************************************************************************)
THEOREM HandlesReleasedAlways == Spec => []HandlesReleased
<1>1. RunInv => HandlesReleased
  <2> SUFFICES ASSUME RunInv PROVE HandlesReleased
    OBVIOUS
  <2>1. handles = <<>> => ToSet(handles) = {}
    BY DEF ToSet
  <2> QED
    BY <2>1 DEF RunInv, ResourcesInv, OpenedIsCachedOrClosed, HandlesReleased
<1> QED
  BY <1>1, InitInv, NextInv, PTL DEF Spec

(* The cache stays within its bound and caches no uri twice. *)
THEOREM CacheBoundedAlways == Spec => []CacheBounded
<1>1. RunInv => CacheBounded
  BY DEF RunInv, ResourcesInv
<1> QED
  BY <1>1, InitInv, NextInv, PTL DEF Spec

-----------------------------------------------------------------------------
(* The order tasks run in.                                                 *)

PlanTyped ==
  /\ tasks \in Seq([key : Int, place : Nat])
  /\ \A m \in DOMAIN tasks : tasks[m].place = m

\* order lists tasks, each before those after it.
Sorts(order) ==
  /\ order \in [DOMAIN tasks -> ToSet(tasks)]
  /\ \A k, m \in DOMAIN tasks : k < m => Before(order[k], order[m])

(* Of two tasks of a plan one comes before the other, whatever their keys. *)
LEMMA BeforeIsTotal ==
  ASSUME PlanTyped
  PROVE  /\ \A s \in ToSet(tasks) : ~ Before(s, s)
         /\ \A s, t \in ToSet(tasks) : s = t \/ Before(s, t) \/ Before(t, s)
         /\ \A s, t, u \in ToSet(tasks) : Before(s, t) /\ Before(t, u) => Before(s, u)
<1>1. \A m \in DOMAIN tasks : tasks[m] \in [key : Int, place : Nat]
  BY ZenonT(30), ElementOfSeq, LenProperties DEF PlanTyped
<1>2. \A s \in ToSet(tasks) : s.key \in Int /\ s.place \in Nat
  BY <1>1 DEF ToSet
<1>3. \A s, t \in ToSet(tasks) : s.place = t.place => s = t
  BY DEF PlanTyped, ToSet
<1> QED
  BY <1>2, <1>3 DEF Before

(* The numbers up to n are n numbers. *)
LEMMA CardinalityOfFirst ==
  ASSUME NEW m \in Nat
  PROVE  IsFiniteSet(1 .. m) /\ Cardinality(1 .. m) = m
<1>1. IsFiniteSet(1 .. m) /\ Cardinality(1 .. m) = IF 1 > m THEN 0 ELSE m - 1 + 1
  <2>1. 1 \in Int /\ m \in Int
    OBVIOUS
  <2> QED
    BY <2>1, FS_Interval, Zenon
<1> DEFINE card == Cardinality(1 .. m)
<1>2. card = IF 1 > m THEN 0 ELSE m - 1 + 1
  BY <1>1
<1> HIDE DEF card
<1>3. card = m
  BY <1>2
<1> QED
  BY <1>1, <1>3 DEF card

(* A plan has as many tasks as it lists. *)
LEMMA TasksCounted ==
  ASSUME PlanTyped
  PROVE  /\ Len(tasks) \in Nat /\ DOMAIN tasks = 1 .. Len(tasks)
         /\ IsFiniteSet(ToSet(tasks)) /\ Cardinality(ToSet(tasks)) = Len(tasks)
<1>1. Len(tasks) \in Nat /\ DOMAIN tasks = 1 .. Len(tasks)
  BY LenProperties DEF PlanTyped
<1>2. tasks \in Bijection(1 .. Len(tasks), ToSet(tasks))
  <2>1. tasks \in [1 .. Len(tasks) -> ToSet(tasks)]
    BY <1>1, SMT DEF PlanTyped, ToSet
  <2>2. tasks \in Injection(1 .. Len(tasks), ToSet(tasks))
    BY <1>1, <2>1 DEF PlanTyped, Injection, IsInjective
  <2>3. tasks \in Surjection(1 .. Len(tasks), ToSet(tasks))
    BY <1>1, <2>1 DEF ToSet, Surjection
  <2> QED
    BY <2>2, <2>3 DEF Bijection
<1>3. ExistsBijection(1 .. Len(tasks), ToSet(tasks))
  BY <1>2 DEF ExistsBijection
<1>4. IsFiniteSet(1 .. Len(tasks)) /\ Cardinality(1 .. Len(tasks)) = Len(tasks)
  BY <1>1, CardinalityOfFirst
<1> QED
  BY <1>1, <1>3, <1>4, FS_Bijection

(* And there is an order of them: a task comes as many places on as there are *)
(* tasks before it.                                                           *)
LEMMA SomeOrderSorts ==
  ASSUME PlanTyped
  PROVE  \E order : Sorts(order)
<1> DEFINE All == ToSet(tasks)
           Prior(t) == {u \in All : Before(u, t)}
           rank == [t \in All |-> Cardinality(Prior(t)) + 1]
           Total == Len(tasks)
<1>1. Total \in Nat /\ DOMAIN tasks = 1 .. Total
  BY TasksCounted
<1>2. IsFiniteSet(All) /\ Cardinality(All) = Total
  BY TasksCounted
<1>3. /\ \A s \in All : ~ Before(s, s)
      /\ \A s, t \in All : s = t \/ Before(s, t) \/ Before(t, s)
      /\ \A s, t, u \in All : Before(s, t) /\ Before(t, u) => Before(s, u)
  BY BeforeIsTotal
<1>4. ASSUME NEW t \in All
      PROVE  IsFiniteSet(Prior(t)) /\ rank[t] \in 1 .. Total
  <2>1. Prior(t) \in SUBSET All /\ Prior(t) # All
    BY <1>3
  <2>2. /\ IsFiniteSet(Prior(t)) /\ Cardinality(Prior(t)) <= Total
        /\ Cardinality(Prior(t)) # Total
    BY <1>2, <2>1, FS_Subset
  <2>3. Cardinality(Prior(t)) \in Nat
    BY <2>2, FS_CardinalityType
  <2> HIDE DEF Prior, All
  <2> QED
    BY <1>1, <2>2, <2>3
<1>5. ASSUME NEW s \in All, NEW t \in All, Before(s, t)
      PROVE  rank[s] < rank[t]
  <2>1. Prior(s) \in SUBSET Prior(t) /\ s \in Prior(t) /\ s \notin Prior(s)
    BY <1>3, <1>5
  <2>2. /\ Cardinality(Prior(s)) <= Cardinality(Prior(t))
        /\ Cardinality(Prior(s)) # Cardinality(Prior(t))
    BY <1>4, <2>1, FS_Subset
  <2>3. rank[s] = Cardinality(Prior(s)) + 1 /\ rank[t] = Cardinality(Prior(t)) + 1
    OBVIOUS
  <2>4. Cardinality(Prior(s)) \in Nat /\ Cardinality(Prior(t)) \in Nat
    BY <1>4, FS_CardinalityType
  <2> HIDE DEF Prior, All, rank
  <2> QED
    BY <1>1, <2>2, <2>3, <2>4
<1> HIDE DEF Prior
<1>6. rank \in [All -> 1 .. Total]
  BY <1>4
<1> HIDE DEF rank
<1>7. ASSUME NEW s \in All, NEW t \in All, rank[s] = rank[t] PROVE s = t
  <2>1. rank[s] \in Int /\ rank[t] \in Int
    BY <1>1, <1>6
  <2> HIDE DEF All
  <2>2. ~ (rank[s] < rank[t]) /\ ~ (rank[t] < rank[s])
    BY <2>1, <1>7
  <2> QED
    BY <1>3, <1>5, <2>2
<1>8. ASSUME NEW p \in 1 .. Total PROVE \E t \in All : rank[t] = p
  <2> SUFFICES ASSUME \A t \in All : rank[t] # p PROVE FALSE
    OBVIOUS
  <2>1. rank \in [All -> (1 .. Total) \ {p}]
    BY <1>6
  <2>2. IsFiniteSet(1 .. Total) /\ Cardinality(1 .. Total) = Total
    BY <1>1, CardinalityOfFirst
  <2>3. /\ IsFiniteSet((1 .. Total) \ {p})
        /\ Cardinality((1 .. Total) \ {p}) = Total - 1
    BY <2>2, FS_RemoveElement
  <2>4. Total - 1 < Total
    BY <1>1
  <2>5. \E s, t \in All : s # t /\ rank[s] = rank[t]
    BY <1>2, <2>1, <2>3, <2>4, FS_PigeonHole
  <2> QED
    BY <1>7, <2>5
<1> DEFINE order == [m \in 1 .. Total |-> CHOOSE t \in All : rank[t] = m]
<1>9. \A m \in 1 .. Total : order[m] \in All /\ rank[order[m]] = m
  BY <1>8
<1>10. order \in [1 .. Total -> All]
  BY <1>9
<1> HIDE DEF order
<1>11. ASSUME NEW k \in 1 .. Total, NEW m \in 1 .. Total, k < m
       PROVE  Before(order[k], order[m])
  <2>1. rank[order[k]] < rank[order[m]]
    BY <1>1, <1>9, <1>11
  <2>2. order[k] # order[m]
    BY <1>1, <1>9, <1>11
  <2>3. ~ Before(order[m], order[k])
    <3> SUFFICES ASSUME Before(order[m], order[k]) PROVE FALSE
      OBVIOUS
    <3>1. rank[order[m]] < rank[order[k]]
      BY <1>5, <1>9
    <3> QED
      BY <1>1, <1>9, <2>1, <3>1
  <2> QED
    BY <1>3, <1>9, <2>2, <2>3
<1>12. Sorts(order)
  BY <1>1, <1>10, <1>11 DEF Sorts
<1> QED
  BY <1>12

(* Tasks run in an order of the plan's tasks, each of them once. *)
LEMMA OrderedSorts ==
  ASSUME PlanTyped
  PROVE  /\ Sorts(ordered)
         /\ \A t \in ToSet(tasks) : \E m \in 1 .. Len(tasks) : ordered[m] = t
         /\ \A k, m \in 1 .. Len(tasks) : Before(ordered[k], ordered[m]) => k < m
         /\ \A k, m \in 1 .. Len(tasks) : ordered[k] = ordered[m] => k = m
<1>1. ordered = CHOOSE order \in [DOMAIN tasks -> ToSet(tasks)] :
                  \A k, m \in DOMAIN tasks : k < m => Before(order[k], order[m])
  BY DEF ordered
<1>2. \E order \in [DOMAIN tasks -> ToSet(tasks)] :
        \A k, m \in DOMAIN tasks : k < m => Before(order[k], order[m])
  BY SomeOrderSorts DEF Sorts
<1>3. Sorts(ordered)
  BY <1>1, <1>2, Zenon DEF Sorts
<1>4. Len(tasks) \in Nat /\ DOMAIN tasks = 1 .. Len(tasks)
  BY TasksCounted
<1>5. \A k, m \in 1 .. Len(tasks) : k < m => Before(ordered[k], ordered[m])
  BY <1>3, <1>4 DEF Sorts
<1>6. \A m \in 1 .. Len(tasks) : ordered[m] \in ToSet(tasks)
  BY <1>3, <1>4 DEF Sorts
<1>7. ASSUME NEW k \in 1 .. Len(tasks), NEW m \in 1 .. Len(tasks)
      PROVE  /\ Before(ordered[k], ordered[m]) => k < m
             /\ ordered[k] = ordered[m] => k = m
  <2>1. k < m \/ k = m \/ m < k
    BY <1>4
  <2>2. /\ ~ Before(ordered[k], ordered[k])
        /\ Before(ordered[m], ordered[k]) => ~ Before(ordered[k], ordered[m])
    BY <1>6, BeforeIsTotal
  <2>3. ~ Before(ordered[m], ordered[m])
    BY <1>6, BeforeIsTotal
  <2> QED
    BY <1>5, <2>1, <2>2, <2>3
<1>8. ASSUME NEW t \in ToSet(tasks)
      PROVE  \E m \in 1 .. Len(tasks) : ordered[m] = t
  <2> SUFFICES ASSUME \A m \in 1 .. Len(tasks) : ordered[m] # t PROVE FALSE
    OBVIOUS
  <2>1. ordered \in [1 .. Len(tasks) -> ToSet(tasks) \ {t}]
    BY <1>3, <1>4 DEF Sorts
  <2>2. /\ IsFiniteSet(ToSet(tasks) \ {t})
        /\ Cardinality(ToSet(tasks) \ {t}) = Len(tasks) - 1
    BY TasksCounted, FS_RemoveElement
  <2>3. 1 \in Int /\ Len(tasks) \in Int /\ Len(tasks) - 1 < Len(tasks)
    BY <1>4
  <2>4. IsFiniteSet(1 .. Len(tasks)) /\ Cardinality(1 .. Len(tasks)) = Len(tasks)
    BY <1>4, CardinalityOfFirst
  <2>5. \E k, m \in 1 .. Len(tasks) : k # m /\ ordered[k] = ordered[m]
    BY <2>1, <2>2, <2>3, <2>4, FS_PigeonHole
  <2> QED
    BY <1>7, <2>5
<1> QED
  BY <1>3, <1>7, <1>8

-----------------------------------------------------------------------------
(* What a run has emitted and folded, by how far it is.                    *)

Phases == {"submitted", "started", "finished", "errored"}
Events == [phase : Phases, task : ToSet(tasks)]

\* The p-th event of a run that finished k tasks is e.
EventIs(p, e, k) ==
  \/ p <= Len(tasks) /\ e = Event("submitted", ordered[p])
  \/ \E m \in 1 .. Len(tasks) :
       p = Len(tasks) + 2 * m - 1 /\ e = Event("started", ordered[m])
  \/ \E m \in 1 .. k : p = Len(tasks) + 2 * m /\ e = Event("finished", ordered[m])
  \/ k < Len(tasks) /\ p = Len(tasks) + 2 * k + 2 /\ e = Event("errored", ordered[k + 1])

History ==
  /\ emitted \in Seq(Events)
  /\ \A p \in DOMAIN emitted : EventIs(p, emitted[p], n)

\* How many events there are at each point of the run.
Progress ==
  /\ n \in 0 .. Len(tasks)
  /\ \/ pc = "empty" /\ n = 0 /\ Len(emitted) = 0
     \/ pc = "submit" /\ n = 0 /\ Len(emitted) <= Len(tasks)
     \/ pc = "submit" /\ Len(emitted) = Len(tasks) + 2 * n
     \/ /\ pc \in {"process", "combine", "finish"} /\ n < Len(tasks)
        /\ Len(emitted) = Len(tasks) + 2 * n + 1
     \/ pc \in {"raise", "raised"} /\ n = 0 /\ Len(emitted) = 0
     \/ /\ pc \in {"raise", "raised"} /\ n < Len(tasks)
        /\ Len(emitted) \in {Len(tasks) + 2 * n + 1, Len(tasks) + 2 * n + 2}
     \/ pc = "returned" /\ n = Len(tasks) /\ Len(emitted) = Len(tasks) + 2 * n

\* The value is the fold of the tasks that were combined.
Folded ==
  /\ value \in Seq(ToSet(tasks))
  /\ \A m \in DOMAIN value : value[m] = ordered[m]
  /\ pc \in {"empty", "submit", "process", "combine", "returned"} => Len(value) = n
  /\ pc = "finish" => Len(value) = n + 1
  /\ pc = "combine" => partial = <<Current>>

OrderInv == PlanTyped /\ History /\ Progress /\ Folded

(* The order of the tasks depends on the plan alone. *)
LEMMA OrderedStays ==
  ASSUME tasks' = tasks
  PROVE  ordered' = ordered
BY DEF ordered, ToSet, Before

(* A plan lists tasks with integer keys, each at its place. *)
LEMMA PlansAreTyped ==
  ASSUME NEW f \in PlansOf(TaskKeys)
  PROVE  /\ f \in Seq([key : Int, place : Nat])
         /\ \A m \in DOMAIN f : f[m].place = m
<1>1. PICK ks \in SeqOf(TaskKeys, MaxTasks) :
        f = [m \in DOMAIN ks |-> [key |-> ks[m], place |-> m]]
  BY DEF PlansOf
<1>2. PICK l \in 0 .. MaxTasks : ks \in [1 .. l -> TaskKeys]
  BY DEF SeqOf
<1>3. l \in Nat
  BY <1>2
<1>4. ASSUME NEW m \in 1 .. l
      PROVE  [key |-> ks[m], place |-> m] \in [key : Int, place : Nat]
  <2>1. ks[m] \in TaskKeys
    BY <1>2
  <2>2. ks[m] \in Int
    BY <2>1, KeysAreIntegers
  <2>3. m \in Nat
    BY <1>3
  <2> QED
    BY <2>2, <2>3
<1> DEFINE plan == [m \in 1 .. l |-> [key |-> ks[m], place |-> m]]
<1>5. plan \in [1 .. l -> [key : Int, place : Nat]]
  BY <1>4
<1>6. \A m \in 1 .. l : plan[m].place = m
  OBVIOUS
<1>7. f = plan
  BY <1>1, <1>2
<1> HIDE DEF plan
<1>8. plan \in Seq([key : Int, place : Nat])
  <2> DEFINE T == [key : Int, place : Nat]
  <2>1. plan \in [1 .. l -> T]
    BY <1>5
  <2> HIDE DEF T
  <2>2. plan \in Seq(T)
    BY <1>3, <2>1, SeqDef
  <2> QED
    BY <2>2 DEF T
<1>9. DOMAIN plan = 1 .. l
  BY <1>5
<1> QED
  BY <1>6, <1>7, <1>8, <1>9

(* A run starts with nothing emitted and nothing folded. *)
LEMMA InitOrder == Init => OrderInv
<1> SUFFICES ASSUME Init PROVE OrderInv
  OBVIOUS
<1>1. tasks \in PlansOf(TaskKeys) /\ pc = "empty" /\ n = 0
      /\ value = <<>> /\ partial = <<>> /\ emitted = <<>>
  BY DEF Init
<1>2. PlanTyped
  BY <1>1, PlansAreTyped DEF PlanTyped
<1>3. History
  BY <1>1 DEF History
<1>4. Len(tasks) \in Nat
  BY <1>2, TasksCounted
<1>5. Progress
  BY <1>1, <1>4 DEF Progress
<1>6. Folded
  BY <1>1 DEF Folded
<1> QED
  BY <1>2, <1>3, <1>5, <1>6 DEF OrderInv

(* The types of what a run counts. *)
LEMMA OrderTypes ==
  ASSUME OrderInv
  PROVE  /\ PlanTyped /\ Len(tasks) \in Nat /\ n \in Nat /\ n <= Len(tasks)
         /\ emitted \in Seq(Events) /\ Len(emitted) \in Nat
         /\ DOMAIN emitted = 1 .. Len(emitted)
         /\ value \in Seq(ToSet(tasks)) /\ Len(value) \in Nat
         /\ DOMAIN value = 1 .. Len(value)
<1>1. PlanTyped
  BY DEF OrderInv
<1>2. Len(tasks) \in Nat
  BY <1>1, TasksCounted
<1>3. n \in 0 .. Len(tasks)
  BY DEF OrderInv, Progress
<1>4. n \in Nat /\ n <= Len(tasks)
  BY <1>2, <1>3
<1>5. emitted \in Seq(Events) /\ value \in Seq(ToSet(tasks))
  BY DEF OrderInv, History, Folded
<1>6. Len(emitted) \in Nat /\ DOMAIN emitted = 1 .. Len(emitted)
  BY <1>5, LenProperties
<1>7. Len(value) \in Nat /\ DOMAIN value = 1 .. Len(value)
  BY <1>5, LenProperties
<1> QED
  BY <1>1, <1>2, <1>4, <1>5, <1>6, <1>7

(* What a step that emits e adds to the history. *)
LEMMA EmitKeepsHistory ==
  ASSUME OrderInv, tasks' = tasks, NEW e \in Events, emitted' = Append(emitted, e),
         n' \in {n, n + 1}, n' # n => Len(emitted) = Len(tasks) + 2 * n + 1,
         EventIs(Len(emitted) + 1, e, n')
  PROVE  History' /\ Len(emitted') = Len(emitted) + 1
<1>1. /\ emitted \in Seq(Events) /\ Len(emitted) \in Nat
      /\ n \in Nat /\ Len(tasks) \in Nat
  BY OrderTypes
<1>2. /\ emitted' \in Seq(Events) /\ Len(emitted') = Len(emitted) + 1
      /\ DOMAIN emitted' = 1 .. (Len(emitted) + 1)
      /\ \A p \in 1 .. Len(emitted) : emitted'[p] = emitted[p]
      /\ emitted'[Len(emitted) + 1] = e
  BY <1>1
<1>3. ordered' = ordered /\ Events' = Events
  BY OrderedStays DEF Events
<1>4. ASSUME NEW p \in 1 .. Len(emitted) PROVE EventIs(p, emitted[p], n')
  <2>1. EventIs(p, emitted[p], n)
    BY OrderTypes DEF OrderInv, History
  <2>2. CASE n' = n
    BY <2>1, <2>2
  <2>3. CASE n' = n + 1
    <3>1. Len(emitted) = Len(tasks) + 2 * n + 1
      BY <1>1, <2>3
    <3>2. \A m \in 1 .. n : m \in 1 .. n'
      BY <1>1, <2>3
    <3>3. p # Len(tasks) + 2 * n + 2
      BY <1>1, <3>1
    <3> QED
      BY <2>1, <3>2, <3>3 DEF EventIs
  <2> QED
    BY <2>2, <2>3
<1>5. ASSUME NEW p \in DOMAIN emitted' PROVE EventIs(p, emitted'[p], n')
  <2>1. p \in 1 .. Len(emitted) \/ p = Len(emitted) + 1
    BY <1>1, <1>2
  <2> QED
    BY <1>2, <1>4, <2>1
<1>6. ASSUME NEW p \in DOMAIN emitted' PROVE EventIs(p, emitted[p], n)'
  BY <1>3, <1>5 DEF EventIs, Event
<1> QED
  BY <1>2, <1>3, <1>6 DEF History

(* The next task to run, and every other, is one of the plan's. *)
LEMMA OrderedTyped ==
  ASSUME PlanTyped, NEW m \in 1 .. Len(tasks)
  PROVE  ordered[m] \in ToSet(tasks)
BY OrderedSorts, TasksCounted DEF Sorts

(* Every step keeps the history in step with the run. *)
LEMMA NextOrder == OrderInv /\ [Next]_vars => OrderInv'
<1> SUFFICES ASSUME OrderInv, [Next]_vars PROVE OrderInv'
  OBVIOUS
<1>1. /\ PlanTyped /\ Len(tasks) \in Nat /\ n \in Nat /\ n <= Len(tasks)
      /\ Len(emitted) \in Nat /\ Len(value) \in Nat
      /\ emitted \in Seq(Events) /\ value \in Seq(ToSet(tasks))
  BY OrderTypes
<1>2. tasks' = tasks
  BY DEF Next, vars, run, Empty, Submit, Start, Use, ProcessReturns, ProcessRaises,
     Combine, Finish, EmptyRaises, CombineRaises, Interrupted,
     Return, Raise
<1>3. PlanTyped' /\ ordered' = ordered /\ ToSet(tasks)' = ToSet(tasks)
  BY <1>1, <1>2, OrderedStays DEF PlanTyped
<1>4. ASSUME emitted' = emitted, n' = n PROVE History'
  BY <1>2, <1>3, <1>4 DEF OrderInv, History, EventIs, Event, Events
<1>5. ASSUME n' = n, value' = value, pc' = "finish" => pc = "finish",
             pc' = "combine" => partial' = <<ordered[n + 1]>>,
             pc' \in {"empty", "submit", "process", "combine", "returned"} => Len(value) = n
      PROVE  Folded'
  BY <1>3, <1>5 DEF OrderInv, Folded, Current
<1>6. CASE Empty
  <2>1. /\ pc = "empty" /\ pc' = "submit" /\ n' = n /\ value' = value
        /\ emitted' = emitted
    BY <1>6 DEF Empty
  <2>2. n = 0 /\ Len(emitted) = 0 /\ Len(value) = n
    BY <2>1 DEF OrderInv, Progress, Folded
  <2>3. Progress'
    BY <1>1, <1>2, <2>1, <2>2 DEF Progress
  <2> QED
    BY <1>3, <1>4, <1>5, <2>1, <2>2, <2>3 DEF OrderInv
<1>7. CASE Submit
  <2> DEFINE e == Event("submitted", ordered[Len(emitted) + 1])
  <2>1. /\ pc = "submit" /\ pc' = "submit" /\ n' = n /\ value' = value
        /\ emitted' = Append(emitted, e) /\ Len(emitted) < Len(tasks)
    BY <1>7 DEF Submit, Emit
  <2>2. n = 0 /\ Len(value) = n
    BY <1>1, <2>1 DEF OrderInv, Progress, Folded
  <2>3. Len(emitted) + 1 \in 1 .. Len(tasks)
    BY <1>1, <2>1
  <2>4. e \in Events /\ EventIs(Len(emitted) + 1, e, n')
    BY <1>1, <2>3, OrderedTyped DEF Events, Event, Phases, EventIs
  <2>5. History' /\ Len(emitted') = Len(emitted) + 1
    BY <1>2, <2>1, <2>4, EmitKeepsHistory
  <2>6. Progress'
    BY <1>1, <1>2, <2>1, <2>2, <2>5 DEF Progress
  <2> QED
    BY <1>3, <1>5, <2>1, <2>2, <2>5, <2>6 DEF OrderInv
<1>8. CASE Start
  <2> DEFINE e == Event("started", ordered[n + 1])
  <2>1. /\ pc = "submit" /\ pc' = "process" /\ n' = n /\ value' = value
        /\ emitted' = Append(emitted, e) /\ Len(emitted) >= Len(tasks) /\ n < Len(tasks)
    BY <1>8 DEF Start, Emit, Current
  <2>2. Len(emitted) = Len(tasks) + 2 * n /\ Len(value) = n
    BY <1>1, <2>1 DEF OrderInv, Progress, Folded
  <2>3. n + 1 \in 1 .. Len(tasks) /\ Len(emitted) + 1 = Len(tasks) + 2 * (n + 1) - 1
    BY <1>1, <2>1, <2>2
  <2>4. e \in Events /\ EventIs(Len(emitted) + 1, e, n')
    BY <1>1, <2>3, OrderedTyped DEF Events, Event, Phases, EventIs
  <2>5. History' /\ Len(emitted') = Len(emitted) + 1
    BY <1>2, <2>1, <2>4, EmitKeepsHistory
  <2>6. Progress'
    BY <1>1, <1>2, <2>1, <2>2, <2>5 DEF Progress
  <2> QED
    BY <1>3, <1>5, <2>1, <2>2, <2>5, <2>6 DEF OrderInv
<1>9. CASE ProcessReturns
  <2>1. /\ pc = "process" /\ pc' = "combine" /\ n' = n /\ value' = value
        /\ emitted' = emitted /\ partial' = <<ordered[n + 1]>>
    BY <1>9 DEF ProcessReturns, Current
  <2>2. Len(value) = n
    BY <2>1 DEF OrderInv, Folded
  <2>3. Progress'
    BY <1>1, <1>2, <2>1 DEF Progress, OrderInv
  <2> QED
    BY <1>3, <1>4, <1>5, <2>1, <2>2, <2>3 DEF OrderInv
<1>10. CASE ProcessRaises
  <2> DEFINE e == Event("errored", ordered[n + 1])
  <2>1. /\ pc = "process" /\ pc' = "raise" /\ n' = n /\ value' = value
        /\ emitted' = Append(emitted, e)
    BY <1>10 DEF ProcessRaises, Emit, Current
  <2>2. Len(emitted) = Len(tasks) + 2 * n + 1 /\ n < Len(tasks)
    BY <1>1, <2>1 DEF OrderInv, Progress
  <2>3. n + 1 \in 1 .. Len(tasks) /\ Len(emitted) + 1 = Len(tasks) + 2 * n + 2
    BY <1>1, <2>2
  <2>4. e \in Events /\ EventIs(Len(emitted) + 1, e, n')
    BY <1>1, <2>1, <2>2, <2>3, OrderedTyped DEF Events, Event, Phases, EventIs
  <2>5. History' /\ Len(emitted') = Len(emitted) + 1
    BY <1>2, <2>1, <2>4, EmitKeepsHistory
  <2>6. Progress'
    BY <1>1, <1>2, <2>1, <2>2, <2>5 DEF Progress
  <2> QED
    BY <1>3, <1>5, <2>1, <2>5, <2>6 DEF OrderInv
<1>11. CASE Combine
  <2>1. /\ pc = "combine" /\ pc' = "finish" /\ n' = n /\ emitted' = emitted
        /\ value' = value \o partial /\ partial = <<ordered[n + 1]>>
    BY <1>11 DEF Combine, OrderInv, Folded, Current
  <2>2. n < Len(tasks) /\ Len(value) = n
    BY <2>1 DEF OrderInv, Progress, Folded
  <2>3. ordered[n + 1] \in ToSet(tasks)
    BY <1>1, <2>2, OrderedTyped
  <2>4. value' = Append(value, ordered[n + 1])
    BY <1>1, <2>1, <2>3
  <2>5. /\ value' \in Seq(ToSet(tasks)) /\ Len(value') = n + 1
        /\ DOMAIN value = 1 .. n /\ DOMAIN value' = 1 .. (n + 1)
        /\ \A m \in 1 .. n : value'[m] = value[m]
        /\ value'[n + 1] = ordered[n + 1]
    BY <1>1, <2>2, <2>3, <2>4
  <2>6. \A m \in 1 .. n : value[m] = ordered[m]
    BY <2>5 DEF OrderInv, Folded
  <2>7. ASSUME NEW m \in DOMAIN value' PROVE value'[m] = ordered[m]
    <3>1. m \in 1 .. n \/ m = n + 1
      BY <1>1, <2>5
    <3> QED
      BY <2>5, <2>6, <3>1
  <2>8. Folded'
    BY <1>3, <2>1, <2>5, <2>7 DEF Folded
  <2>9. Progress'
    BY <1>1, <1>2, <2>1 DEF Progress, OrderInv
  <2> QED
    BY <1>3, <1>4, <2>1, <2>8, <2>9 DEF OrderInv
<1>12. CASE Finish
  <2> DEFINE e == Event("finished", ordered[n + 1])
  <2>1. /\ pc = "finish" /\ pc' = "submit" /\ n' = n + 1 /\ value' = value
        /\ emitted' = Append(emitted, e)
    BY <1>12 DEF Finish, Emit, Current
  <2>2. Len(emitted) = Len(tasks) + 2 * n + 1 /\ n < Len(tasks) /\ Len(value) = n + 1
    BY <1>1, <2>1 DEF OrderInv, Progress, Folded
  <2>3. /\ n + 1 \in 1 .. Len(tasks) /\ n + 1 \in 1 .. (n + 1)
        /\ Len(emitted) + 1 = Len(tasks) + 2 * (n + 1)
    BY <1>1, <2>2
  <2>4. e \in Events /\ EventIs(Len(emitted) + 1, e, n')
    BY <1>1, <2>1, <2>3, OrderedTyped DEF Events, Event, Phases, EventIs
  <2>5. History' /\ Len(emitted') = Len(emitted) + 1
    BY <1>2, <2>1, <2>2, <2>4, EmitKeepsHistory
  <2>6. Progress'
    BY <1>1, <1>2, <2>1, <2>2, <2>5 DEF Progress
  <2>7. Folded'
    BY <1>3, <2>1, <2>2 DEF OrderInv, Folded
  <2> QED
    BY <1>3, <2>5, <2>6, <2>7 DEF OrderInv
<1>13. CASE EmptyRaises \/ CombineRaises \/ Interrupted \/ Raise
  <2>1. /\ pc \in {"empty", "process", "combine", "raise"} /\ pc' \in {"raise", "raised"}
        /\ n' = n /\ value' = value /\ emitted' = emitted
    BY <1>13 DEF EmptyRaises, CombineRaises, Interrupted, Raise
  <2>2. Progress'
    BY <1>1, <1>2, <2>1 DEF Progress, OrderInv
  <2> QED
    BY <1>3, <1>4, <1>5, <2>1, <2>2 DEF OrderInv
<1>14. CASE Return
  <2>1. /\ pc = "submit" /\ pc' = "returned" /\ n = Len(tasks) /\ Len(emitted) >= Len(tasks)
        /\ n' = n /\ value' = value /\ emitted' = emitted
    BY <1>14 DEF Return
  <2>2. Len(emitted) = Len(tasks) + 2 * n /\ Len(value) = n
    BY <1>1, <2>1 DEF OrderInv, Progress, Folded
  <2>3. Progress'
    BY <1>1, <1>2, <2>1, <2>2 DEF Progress
  <2> QED
    BY <1>3, <1>4, <1>5, <2>1, <2>2, <2>3 DEF OrderInv
<1>15. CASE UNCHANGED run
  BY <1>2, <1>3, <1>4, <1>15 DEF run, OrderInv, Progress, Folded, Current
<1> QED
  BY <1>6, <1>7, <1>8, <1>9, <1>10, <1>11, <1>12, <1>13, <1>14, <1>15
     DEF Next, vars, Use

(* Where the events of a run are, and what they are. *)
LEMMA EventsOfRun ==
  ASSUME OrderInv, NEW p \in 1 .. Len(emitted)
  PROVE  EventIs(p, emitted[p], n)
<1>1. DOMAIN emitted = 1 .. Len(emitted)
  BY OrderTypes
<1> QED
  BY <1>1 DEF OrderInv, History

(* What is emitted between submitting and starting: every task is submitted *)
(* before any starts, and the k-th ends before the next one starts.         *)
LEMMA PastEvents ==
  ASSUME OrderInv, NEW p \in 1 .. Len(emitted), NEW m \in 1 .. Len(tasks)
  PROVE  /\ p > Len(tasks) \/ p > m => emitted[m] = Event("submitted", ordered[m])
         /\ p > Len(tasks) + 2 * m - 1 =>
              emitted[Len(tasks) + 2 * m - 1] = Event("started", ordered[m])
         /\ p > Len(tasks) + 2 * m /\ Len(tasks) + 2 * m <= Len(tasks) + 2 * n =>
              emitted[Len(tasks) + 2 * m] = Event("finished", ordered[m])
<1> DEFINE Total == Len(tasks)
<1>1. /\ Total \in Nat /\ n \in Nat /\ n <= Total /\ Len(emitted) \in Nat
  BY OrderTypes
<1> HIDE DEF Total
<1>2. ASSUME p > Total \/ p > m
      PROVE  emitted[m] = Event("submitted", ordered[m])
  <2>1. m \in 1 .. Len(emitted) /\ m <= Total
    BY <1>1, <1>2 DEF Total
  <2>2. EventIs(m, emitted[m], n)
    BY <2>1, EventsOfRun
  <2> QED
    BY <1>1, <2>1, <2>2 DEF EventIs, Total
<1>3. ASSUME p > Total + 2 * m - 1
      PROVE  emitted[Total + 2 * m - 1] = Event("started", ordered[m])
  <2> DEFINE q == Total + 2 * m - 1
  <2>1. q \in 1 .. Len(emitted) /\ q > Total /\ m \in Nat
    BY <1>1, <1>3 DEF Total
  <2>2. EventIs(q, emitted[q], n)
    BY <2>1, EventsOfRun
  <2>3. \A k \in 1 .. Total : q = Total + 2 * k - 1 => k = m
    BY <1>1, <2>1
  <2>4. \A k \in 1 .. n : q # Total + 2 * k
    BY <1>1, <2>1
  <2>5. q # Total + 2 * n + 2
    BY <1>1, <2>1
  <2> QED
    BY <1>1, <2>1, <2>2, <2>3, <2>4, <2>5 DEF EventIs, Total
<1>4. ASSUME p > Total + 2 * m, Total + 2 * m <= Total + 2 * n
      PROVE  emitted[Total + 2 * m] = Event("finished", ordered[m])
  <2> DEFINE q == Total + 2 * m
  <2>1. q \in 1 .. Len(emitted) /\ q > Total /\ m \in Nat /\ m <= n
    BY <1>1, <1>4 DEF Total
  <2>2. EventIs(q, emitted[q], n)
    BY <2>1, EventsOfRun
  <2>3. \A k \in 1 .. Total : q # Total + 2 * k - 1
    BY <1>1, <2>1
  <2>4. \A k \in 1 .. n : q = Total + 2 * k => k = m
    BY <1>1, <2>1
  <2>5. q # Total + 2 * n + 2
    BY <1>1, <2>1
  <2> QED
    BY <1>1, <2>1, <2>2, <2>3, <2>4, <2>5 DEF EventIs, Total
<1> QED
  BY <1>2, <1>3, <1>4 DEF Total

(* The folded value is the tasks in key order, each once. *)
LEMMA FoldedInOrder == OrderInv => FoldsInKeyOrder
<1> SUFFICES ASSUME OrderInv, pc = "returned"
             PROVE  /\ ToSet(value) = ToSet(tasks) /\ n = Len(tasks) /\ Len(value) = n
                    /\ \A k, m \in DOMAIN value : k < m => value[k].key <= value[m].key
  BY DEF FoldsInKeyOrder
<1>1. n = Len(tasks) /\ Len(value) = n
  BY OrderTypes DEF OrderInv, Progress, Folded
<1>2. DOMAIN value = 1 .. Len(tasks)
  BY <1>1, OrderTypes
<1>3. \A m \in 1 .. Len(tasks) : value[m] = ordered[m]
  BY <1>2 DEF OrderInv, Folded
<1>4. PlanTyped
  BY DEF OrderInv
<1>5. ToSet(value) = ToSet(tasks)
  <2>1. \A m \in 1 .. Len(tasks) : value[m] \in ToSet(tasks)
    BY <1>3, <1>4, OrderedTyped
  <2>2. \A t \in ToSet(tasks) : \E m \in 1 .. Len(tasks) : value[m] = t
    BY <1>3, <1>4, OrderedSorts
  <2>3. ToSet(value) = {value[m] : m \in 1 .. Len(tasks)}
    BY <1>2 DEF ToSet
  <2> QED
    BY <2>1, <2>2, <2>3
<1>6. ASSUME NEW k \in 1 .. Len(tasks), NEW m \in 1 .. Len(tasks), k < m
      PROVE  ordered[k].key <= ordered[m].key
  <2>1. DOMAIN tasks = 1 .. Len(tasks)
    BY <1>4, TasksCounted
  <2>2. Before(ordered[k], ordered[m])
    BY <1>4, <1>6, <2>1, OrderedSorts DEF Sorts
  <2>3. ordered[k] \in ToSet(tasks) /\ ordered[m] \in ToSet(tasks)
    BY <1>4, OrderedTyped
  <2>4. \A t \in ToSet(tasks) : t.key \in Int
    <3>1. \A i \in DOMAIN tasks : tasks[i] \in [key : Int, place : Nat]
      BY <1>4, <2>1, ElementOfSeq DEF PlanTyped
    <3> QED
      BY <3>1 DEF ToSet
  <2>5. ordered[k].key \in Int /\ ordered[m].key \in Int
    BY <2>3, <2>4
  <2> QED
    BY <2>2, <2>5 DEF Before
<1> QED
  BY <1>1, <1>2, <1>3, <1>5, <1>6

(* A task starts only after all before it finished. *)
LEMMA StartedInOrder == OrderInv => StartsInKeyOrder
<1> SUFFICES ASSUME OrderInv, NEW m \in DOMAIN emitted, emitted[m].phase = "started",
                    NEW k \in DOMAIN tasks, Before(tasks[k], emitted[m].task)
             PROVE  \E l \in 1 .. (m - 1) : emitted[l] = Event("finished", tasks[k])
  BY DEF StartsInKeyOrder
<1>1. m \in 1 .. Len(emitted) /\ PlanTyped
  BY OrderTypes
<1>2. Len(tasks) \in Nat /\ n \in Nat /\ Len(emitted) \in Nat
  BY OrderTypes
<1>3. PICK i \in 1 .. Len(tasks) :
        m = Len(tasks) + 2 * i - 1 /\ emitted[m] = Event("started", ordered[i])
  <2>1. EventIs(m, emitted[m], n)
    BY <1>1, EventsOfRun
  <2>2. \A t : /\ emitted[m] # Event("submitted", t) /\ emitted[m] # Event("finished", t)
               /\ emitted[m] # Event("errored", t)
    BY DEF Event
  <2> QED
    BY <2>1, <2>2, Zenon DEF EventIs
<1>4. PICK j \in 1 .. Len(tasks) : ordered[j] = tasks[k]
  BY <1>1, OrderedSorts DEF ToSet
<1>5. j < i
  BY <1>1, <1>3, <1>4, OrderedSorts DEF Event
<1>6. m <= Len(tasks) + 2 * n + 1
  <2>1. Len(emitted) <= Len(tasks) + 2 * n + 2
    BY <1>2 DEF OrderInv, Progress
  <2> QED
    BY <1>1, <1>2, <1>3, <2>1
<1>7. /\ Len(tasks) + 2 * j \in 1 .. (m - 1) /\ m > Len(tasks) + 2 * j
      /\ Len(tasks) + 2 * j <= Len(tasks) + 2 * n
  BY <1>1, <1>2, <1>3, <1>5, <1>6
<1>8. emitted[Len(tasks) + 2 * j] = Event("finished", ordered[j])
  BY <1>1, <1>7, PastEvents
<1> QED
  BY <1>4, <1>7, <1>8

(* What happened to a task before an event is what must come before it. *)
LEMMA EventsOrdered == OrderInv => EventsInOrder
<1> DEFINE Due(phase) == CASE phase = "submitted" -> {}
                           [] phase = "started" -> {"submitted"}
                           [] phase \in {"finished", "errored"} -> {"submitted", "started"}
           Total == Len(tasks)
<1> SUFFICES ASSUME OrderInv, NEW p \in DOMAIN emitted
             PROVE  Earlier(p) = Due(emitted[p].phase)
  BY DEF EventsInOrder
<1>1. p \in 1 .. Len(emitted) /\ PlanTyped
  BY OrderTypes
<1>2. Total \in Nat /\ n \in Nat /\ n <= Total /\ Len(emitted) \in Nat
  BY OrderTypes
<1>3. \A q \in 1 .. (p - 1) : EventIs(q, emitted[q], n)
  <2>1. \A q \in 1 .. (p - 1) : q \in 1 .. Len(emitted)
    BY <1>1, <1>2
  <2> QED
    BY <2>1, EventsOfRun
<1>4. \A k, m \in 1 .. Total : ordered[k] = ordered[m] => k = m
  BY <1>1, OrderedSorts
<1>5. /\ \A m \in 1 .. Total : p > Total \/ p > m => emitted[m] = Event("submitted", ordered[m])
      /\ \A m \in 1 .. Total : p > Total + 2 * m - 1 =>
           emitted[Total + 2 * m - 1] = Event("started", ordered[m])
  BY <1>1, PastEvents
<1> DEFINE Same(q) == emitted[q].task = emitted[p].task
<1>6. Earlier(p) = {emitted[q].phase : q \in {q \in 1 .. (p - 1) : Same(q)}}
  BY DEF Earlier
<1> HIDE DEF Total
\* What an event of the m-th task may be, by where it is.
<1>7. ASSUME NEW m \in 1 .. Total, emitted[p].task = ordered[m], p <= Total + 2 * m,
             NEW q \in 1 .. (p - 1), Same(q)
      PROVE  \/ q = m /\ emitted[q].phase = "submitted"
             \/ q = Total + 2 * m - 1 /\ emitted[q].phase = "started"
  <2>1. EventIs(q, emitted[q], n) /\ emitted[q].task = ordered[m] /\ q < Total + 2 * m
    BY <1>1, <1>2, <1>3, <1>7
  <2>2. CASE q <= Total /\ emitted[q] = Event("submitted", ordered[q])
    <3>1. q \in 1 .. Total
      BY <1>2, <2>2
    <3> QED
      BY <1>4, <2>1, <2>2, <3>1 DEF Event
  <2>3. CASE \E i \in 1 .. Total :
               q = Total + 2 * i - 1 /\ emitted[q] = Event("started", ordered[i])
    BY <1>4, <2>1, <2>3 DEF Event
  <2>4. CASE \E i \in 1 .. n : q = Total + 2 * i /\ emitted[q] = Event("finished", ordered[i])
    <3>1. PICK i \in 1 .. n : q = Total + 2 * i /\ emitted[q] = Event("finished", ordered[i])
      BY <2>4
    <3>2. i \in 1 .. Total
      BY <1>2
    <3>3. i = m
      BY <1>4, <2>1, <3>1, <3>2 DEF Event
    <3> QED
      BY <1>2, <2>1, <3>1, <3>3
  <2>5. CASE /\ n < Total /\ q = Total + 2 * n + 2
             /\ emitted[q] = Event("errored", ordered[n + 1])
    <3>1. n + 1 \in 1 .. Total
      BY <1>2, <2>5
    <3>2. n + 1 = m
      BY <1>4, <2>1, <2>5, <3>1 DEF Event
    <3> QED
      BY <1>2, <2>1, <2>5, <3>2
  <2> QED
    BY <2>1, <2>2, <2>3, <2>4, <2>5 DEF EventIs, Total
<1>8. EventIs(p, emitted[p], n)
  BY <1>1, EventsOfRun
<1>9. CASE p <= Total /\ emitted[p] = Event("submitted", ordered[p])
  <2>1. p \in 1 .. Total /\ p <= Total + 2 * p /\ emitted[p].task = ordered[p]
    BY <1>1, <1>2, <1>9 DEF Event
  <2>2. \A q \in 1 .. (p - 1) : q # p /\ q # Total + 2 * p - 1
    BY <1>2, <2>1
  <2>3. \A q \in 1 .. (p - 1) : ~ Same(q)
    BY <1>7, <2>1, <2>2
  <2>4. Earlier(p) = {}
    BY <1>6, <2>3
  <2> QED
    BY <1>9, <2>4 DEF Event
<1>10. CASE \E m \in 1 .. Total :
              p = Total + 2 * m - 1 /\ emitted[p] = Event("started", ordered[m])
  <2>1. PICK m \in 1 .. Total :
          p = Total + 2 * m - 1 /\ emitted[p] = Event("started", ordered[m])
    BY <1>10
  <2>2. /\ emitted[p].task = ordered[m] /\ p <= Total + 2 * m
        /\ m \in 1 .. (p - 1)
    BY <1>2, <2>1 DEF Event
  <2>3. emitted[m] = Event("submitted", ordered[m])
    BY <1>2, <1>5, <2>2
  <2>4. Same(m) /\ emitted[m].phase = "submitted"
    BY <2>2, <2>3 DEF Event
  <2>5. \A q \in 1 .. (p - 1) : Same(q) => emitted[q].phase = "submitted"
    <3>1. \A q \in 1 .. (p - 1) : q # Total + 2 * m - 1
      BY <1>2, <2>1
    <3> QED
      BY <1>7, <2>2, <3>1
  <2>6. Earlier(p) = {"submitted"}
    BY <1>6, <2>2, <2>4, <2>5
  <2> QED
    BY <2>1, <2>6 DEF Event
<1>11. ASSUME NEW m \in 1 .. Total, p = Total + 2 * m, emitted[p].task = ordered[m],
              emitted[p].phase \in {"finished", "errored"}
       PROVE  Earlier(p) = Due(emitted[p].phase)
  <2>1. /\ m \in 1 .. (p - 1) /\ p > m /\ p > Total + 2 * m - 1
        /\ Total + 2 * m - 1 \in 1 .. (p - 1) /\ p <= Total + 2 * m
    BY <1>2, <1>11
  <2>2. /\ emitted[m] = Event("submitted", ordered[m])
        /\ emitted[Total + 2 * m - 1] = Event("started", ordered[m])
    BY <1>5, <2>1
  <2>3. /\ Same(m) /\ emitted[m].phase = "submitted"
        /\ Same(Total + 2 * m - 1) /\ emitted[Total + 2 * m - 1].phase = "started"
    BY <1>11, <2>2 DEF Event
  <2>4. \A q \in 1 .. (p - 1) : Same(q) => emitted[q].phase \in {"submitted", "started"}
    BY <1>7, <1>11, <2>1
  <2>5. Earlier(p) = {"submitted", "started"}
    BY <1>6, <2>1, <2>3, <2>4
  <2> QED
    BY <1>11, <2>5
<1>12. CASE \E m \in 1 .. n : p = Total + 2 * m /\ emitted[p] = Event("finished", ordered[m])
  <2>1. PICK m \in 1 .. n : p = Total + 2 * m /\ emitted[p] = Event("finished", ordered[m])
    BY <1>12
  <2>2. m \in 1 .. Total
    BY <1>2
  <2> QED
    BY <1>11, <2>1, <2>2 DEF Event
<1>13. CASE /\ n < Total /\ p = Total + 2 * n + 2
            /\ emitted[p] = Event("errored", ordered[n + 1])
  <2>1. n + 1 \in 1 .. Total /\ p = Total + 2 * (n + 1)
    BY <1>2, <1>13
  <2> QED
    BY <1>11, <1>13, <2>1 DEF Event
<1> QED
  BY <1>8, <1>9, <1>10, <1>12, <1>13 DEF EventIs, Total

(***************************************************************************)
(* The events of a run tell the truth about every task, whatever its plan, *)
(* the order it is listed in, its keys, and wherever the run fails: before *)
(* an event of a task is exactly what has to come before it.               *)
(***************************************************************************)
THEOREM EventsInOrderAlways == Spec => []EventsInOrder
BY InitOrder, NextOrder, EventsOrdered, PTL DEF Spec

(* A task starts only when all that come before it in key order finished. *)
THEOREM StartsInKeyOrderAlways == Spec => []StartsInKeyOrder
BY InitOrder, NextOrder, StartedInOrder, PTL DEF Spec

(***************************************************************************)
(* What a run returns is the fold of every task of the plan, each once, in *)
(* the order of their keys.                                                *)
(***************************************************************************)
THEOREM FoldsInKeyOrderAlways == Spec => []FoldsInKeyOrder
BY InitOrder, NextOrder, FoldedInOrder, PTL DEF Spec

-----------------------------------------------------------------------------
(* The cache and the uses of it.                                            *)

(* A use is the last of its uri, and no earlier use of it is any more. *)
LEMMA LastUsesOfOneMore ==
  ASSUME NEW uri \in Uris, used \in Seq(Uris), used' = Append(used, uri)
  PROVE  /\ used' \in Seq(Uris) /\ Len(used) \in Nat
         /\ Len(used) + 1 \in LastUses' /\ used'[Len(used) + 1] = uri
         /\ \A m \in LastUses : used[m] # uri => m \in LastUses'
         /\ \A m \in LastUses' :
              m # Len(used) + 1 => m \in LastUses /\ used[m] # uri /\ m < Len(used) + 1
         /\ \A m \in LastUses : used'[m] = used[m] /\ m \in 1 .. Len(used)
<1> DEFINE L == Len(used)
<1>1. L \in Nat
  OBVIOUS
<1>2. /\ used' \in Seq(Uris) /\ Len(used') = L + 1
      /\ \A m \in 1 .. L : used'[m] = used[m]
      /\ used'[L + 1] = uri
  OBVIOUS
<1>3. DOMAIN used = 1 .. L /\ DOMAIN used' = 1 .. (L + 1)
  BY <1>1, <1>2
<1>4. LastUses = {m \in 1 .. L : \A k \in (m + 1) .. L : used[k] # used[m]}
  BY <1>3 DEF LastUses
<1>5. LastUses' = {m \in 1 .. (L + 1) : \A k \in (m + 1) .. (L + 1) : used'[k] # used'[m]}
  BY <1>2, <1>3 DEF LastUses
<1> HIDE DEF L
<1>6. L + 1 \in LastUses'
  BY <1>1, <1>5
<1>7. ASSUME NEW m \in LastUses, used[m] # uri PROVE m \in LastUses'
  <2>1. m \in 1 .. L /\ m \in 1 .. (L + 1)
    BY <1>1, <1>4
  <2>2. ASSUME NEW k \in (m + 1) .. (L + 1) PROVE used'[k] # used'[m]
    <3>1. k = L + 1 \/ (k \in (m + 1) .. L /\ k \in 1 .. L)
      BY <1>1, <2>1
    <3> QED
      BY <1>2, <1>4, <1>7, <2>1, <3>1
  <2> QED
    BY <1>5, <2>1, <2>2
<1>8. ASSUME NEW m \in LastUses', m # L + 1
      PROVE  m \in LastUses /\ used[m] # uri /\ m < L + 1
  <2>1. m \in 1 .. L /\ L + 1 \in (m + 1) .. (L + 1) /\ m < L + 1
    BY <1>1, <1>5, <1>8
  <2>2. used[m] # uri
    BY <1>2, <1>5, <2>1
  <2>3. ASSUME NEW k \in (m + 1) .. L PROVE used[k] # used[m]
    <3>1. k \in (m + 1) .. (L + 1) /\ k \in 1 .. L
      BY <1>1, <2>1
    <3> QED
      BY <1>2, <1>5, <2>1, <3>1
  <2> QED
    BY <1>4, <2>1, <2>2, <2>3
<1> QED
  BY <1>1, <1>2, <1>4, <1>6, <1>7, <1>8 DEF L

\* What CacheIsMostRecent says of a run that is not over.
MostRecent ==
  /\ \A c \in DOMAIN handles : \E m \in LastUses : handles[c].uri = used[m]
  /\ Len(handles) < MaxOpen =>
       \A m \in LastUses : \E c \in DOMAIN handles : handles[c].uri = used[m]
  /\ \A m, k \in LastUses : \A c \in DOMAIN handles :
       m < k /\ handles[c].uri = used[m] =>
         \E d \in (c + 1) .. Len(handles) : handles[d].uri = used[k]

(* A hit: the handle goes where its use is in the order of uses. *)
LEMMA OpenCachedKeepsRecent ==
  ASSUME ResourcesInv, MostRecent, used \in Seq(Uris),
         NEW uri \in Uris, OpenCached(uri), used' = Append(used, uri)
  PROVE  MostRecent'
<1> DEFINE H == Len(handles)
           U == Len(used)
<1>1. handles \in Seq(Handles)
  BY DEF ResourcesInv, ResourcesTyped
<1>2. H \in Nat /\ DOMAIN handles = 1 .. H
  BY <1>1
<1>3. PICK p \in 1 .. H : /\ handles[p].uri = uri
                          /\ handles' = Append(RemoveAt(handles, p), handles[p])
  BY <1>2 DEF OpenCached
<1>4. /\ handles' \in Seq(Handles) /\ Len(handles') = H
      /\ \A i \in 1 .. (p - 1) : handles'[i] = handles[i]
      /\ \A i \in p .. (H - 1) : handles'[i] = handles[i + 1]
      /\ handles'[H] = handles[p]
  BY <1>1, <1>3, MovedToEnd
<1>5. DOMAIN handles' = 1 .. H
  BY <1>4
<1>6. \A i, j \in 1 .. H : handles[i].uri = handles[j].uri => i = j
  BY <1>2 DEF ResourcesInv, CacheBounded
<1>7. /\ U \in Nat /\ U + 1 \in LastUses' /\ used'[U + 1] = uri
      /\ \A m \in LastUses : used[m] # uri => m \in LastUses'
      /\ \A m \in LastUses' : m # U + 1 => m \in LastUses /\ used[m] # uri /\ m < U + 1
      /\ \A m \in LastUses : used'[m] = used[m] /\ m \in 1 .. U
  BY LastUsesOfOneMore
<1>8. /\ \A c \in 1 .. H : \E m \in LastUses : handles[c].uri = used[m]
      /\ H < MaxOpen =>
           \A m \in LastUses : \E c \in 1 .. H : handles[c].uri = used[m]
      /\ \A m, k \in LastUses : \A c \in 1 .. H :
           m < k /\ handles[c].uri = used[m] =>
             \E d \in (c + 1) .. H : handles[d].uri = used[k]
  BY SMTT(30), <1>2 DEF MostRecent
<1> HIDE DEF H, U
\* Where a handle of another uri went, and where it came from.
<1>9. ASSUME NEW j \in 1 .. H, j # p
      PROVE  \E i \in 1 .. H : /\ handles'[i] = handles[j]
                               /\ i = IF j < p THEN j ELSE j - 1
  <2>1. CASE j < p
    BY <1>2, <1>4, <2>1
  <2>2. CASE j > p
    <3>1. j - 1 \in p .. (H - 1) /\ j - 1 \in 1 .. H /\ (j - 1) + 1 = j
      BY <1>2, <2>2
    <3> QED
      BY <1>4, <2>2, <3>1
  <2> QED
    BY <1>2, <1>9, <2>1, <2>2
<1>10. ASSUME NEW i \in 1 .. H, i # H
       PROVE  \E j \in 1 .. H : /\ handles'[i] = handles[j] /\ j # p
                                /\ j = IF i < p THEN i ELSE i + 1
  <2>1. CASE i < p
    BY <1>2, <1>4, <2>1
  <2>2. CASE i >= p
    <3>1. i \in p .. (H - 1) /\ i + 1 \in 1 .. H
      BY <1>2, <1>10, <2>2
    <3> QED
      BY <1>4, <2>2, <3>1
  <2> QED
    BY <1>2, <2>1, <2>2
<1>11. ASSUME NEW c \in 1 .. H
       PROVE  \E m \in LastUses' : handles'[c].uri = used'[m]
  <2>1. CASE c = H
    BY <1>3, <1>4, <1>7, <2>1
  <2>2. CASE c # H
    <3>1. PICK j \in 1 .. H : handles'[c] = handles[j] /\ j # p
      BY <1>10, <2>2
    <3>2. PICK m \in LastUses : handles[j].uri = used[m]
      BY <1>8
    <3>3. handles[j].uri # uri
      BY <1>3, <1>6, <3>1
    <3>4. m \in LastUses' /\ used'[m] = used[m]
      BY <1>7, <3>2, <3>3
    <3> QED
      BY <3>1, <3>2, <3>4
  <2> QED
    BY <2>1, <2>2
<1>12. ASSUME H < MaxOpen, NEW m \in LastUses'
       PROVE  \E c \in 1 .. H : handles'[c].uri = used'[m]
  <2>1. CASE m = U + 1
    <3>1. H \in 1 .. H
      BY <1>2
    <3> QED
      BY <1>3, <1>4, <1>7, <2>1, <3>1
  <2>2. CASE m # U + 1
    <3>1. m \in LastUses /\ used[m] # uri /\ used'[m] = used[m]
      BY <1>7, <2>2
    <3>2. PICK j \in 1 .. H : handles[j].uri = used[m]
      BY <1>8, <1>12, <3>1
    <3>3. j # p
      BY <1>3, <3>1, <3>2
    <3> QED
      BY <1>9, <3>1, <3>2, <3>3
  <2> QED
    BY <2>1, <2>2
<1>13. ASSUME NEW m \in LastUses', NEW k \in LastUses', NEW c \in 1 .. H,
              m < k, handles'[c].uri = used'[m]
       PROVE  \E d \in (c + 1) .. H : handles'[d].uri = used'[k]
  <2>1. m # U + 1
    BY <1>7, <1>13
  <2>2. m \in LastUses /\ used[m] # uri /\ used'[m] = used[m]
    BY <1>7, <2>1
  <2>3. c # H
    BY <1>3, <1>4, <1>13, <2>2
  <2>4. PICK i \in 1 .. H : /\ handles'[c] = handles[i] /\ i # p
                            /\ i = IF c < p THEN c ELSE c + 1
    BY <1>10, <2>3
  <2>5. CASE k = U + 1
    <3>1. H \in (c + 1) .. H
      BY <1>2, <2>3
    <3> QED
      BY <1>3, <1>4, <1>7, <2>5, <3>1
  <2>6. CASE k # U + 1
    <3>1. k \in LastUses /\ used[k] # uri /\ used'[k] = used[k]
      BY <1>7, <2>6
    <3>2. handles[i].uri = used[m]
      BY <1>13, <2>2, <2>4
    <3>3. PICK j \in (i + 1) .. H : handles[j].uri = used[k]
      BY <1>8, <1>13, <2>2, <3>1, <3>2
    <3>4. j \in 1 .. H /\ j > i
      BY <1>2, <3>3
    <3>5. j # p
      BY <1>3, <3>1, <3>3
    <3>6. PICK d \in 1 .. H : /\ handles'[d] = handles[j]
                              /\ d = IF j < p THEN j ELSE j - 1
      BY <1>9, <3>4, <3>5
    <3>7. d \in (c + 1) .. H
      BY <1>2, <2>4, <3>4, <3>5, <3>6
    <3> QED
      BY <3>1, <3>3, <3>6, <3>7
  <2> QED
    BY <2>5, <2>6
<1>14. Len(handles') = H
  BY <1>4
<1> QED
  <2>1. \A c \in DOMAIN handles' : \E m \in LastUses' : handles'[c].uri = used'[m]
    BY <1>5, <1>11
  <2>2. Len(handles') < MaxOpen =>
          \A m \in LastUses' : \E c \in DOMAIN handles' : handles'[c].uri = used'[m]
    BY <1>5, <1>12, <1>14
  <2>3. \A m, k \in LastUses' : \A c \in DOMAIN handles' :
          m < k /\ handles'[c].uri = used'[m] =>
            \E d \in (c + 1) .. Len(handles') : handles'[d].uri = used'[k]
    BY <1>5, <1>13, <1>14
  <2> QED
    BY <2>1, <2>2, <2>3, Zenon DEF MostRecent

(* A miss: the new handle comes last, and what is evicted was used first. *)
LEMMA OpenNewKeepsRecent ==
  ASSUME ResourcesInv, MostRecent, used \in Seq(Uris),
         NEW uri \in Uris, OpenNew(uri), used' = Append(used, uri)
  PROVE  MostRecent'
<1> DEFINE H == Len(handles)
           U == Len(used)
           handle == [uri |-> uri, id |-> Len(opened) + 1]
           cached == Append(handles, handle)
           excess == IF Len(cached) > MaxOpen THEN Len(cached) - MaxOpen ELSE 0
<1>1. handles \in Seq(Handles) /\ opened \in Seq(Handles) /\ H <= MaxOpen
  BY DEF ResourcesInv, ResourcesTyped, CacheBounded
<1>2. H \in Nat /\ DOMAIN handles = 1 .. H
  BY <1>1
<1>3. handle \in Handles /\ handle.uri = uri
  BY <1>1 DEF Handles
<1> HIDE DEF handle
<1>4. /\ cached \in Seq(Handles) /\ Len(cached) = H + 1
      /\ \A i \in 1 .. H : cached[i] = handles[i]
      /\ cached[H + 1] = handle
  BY <1>1, <1>3
<1>5. /\ \A i \in 1 .. H : handles[i].uri # uri
      /\ handles' = SubSeq(cached, excess + 1, Len(cached))
  BY <1>2 DEF OpenNew, UriCached, handle
<1>6. \A i \in 1 .. (H + 1) : cached[i] \in Handles
  BY <1>4, ElementOfSeq
<1> HIDE DEF cached
<1>7. excess \in 0 .. (H + 1) /\ excess = IF H + 1 > MaxOpen THEN H + 1 - MaxOpen ELSE 0
  BY <1>2, <1>4, MaxOpenIsANumber
<1> HIDE DEF H
<1> HIDE DEF excess
<1>18. PICK x \in 0 .. (H + 1) : x = excess
  BY <1>7
<1>8. /\ Len(handles') = H + 1 - x
      /\ DOMAIN handles' = 1 .. (H + 1 - x)
      /\ \A i \in 1 .. (H + 1 - x) : handles'[i] = cached[x + i]
  <2> DEFINE low == x + 1
             high == H + 1
             kept == SubSeq(cached, low, high)
  <2>1. \A i \in low .. high : cached[i] \in Handles
    BY <1>2, <1>6
  <2>2. low \in Int /\ high \in Int
    BY <1>2
  <2> HIDE DEF low, high
  <2>3. /\ kept \in Seq(Handles)
        /\ Len(kept) = IF low <= high THEN high - low + 1 ELSE 0
        /\ \A i \in 1 .. (high - low + 1) : kept[i] = cached[low + i - 1]
    BY <2>1, <2>2, SubSeqProperties
  <2>4. handles' = kept
    BY <1>4, <1>5, <1>18 DEF low, high
  <2> HIDE DEF kept
  <2>7. x \in Nat /\ x <= H + 1 /\ high - low + 1 = H + 1 - x
    BY <1>2 DEF low, high
  <2>8. Len(kept) = H + 1 - x
    BY <1>2, <2>3, <2>7 DEF low, high
  <2>9. ASSUME NEW i \in 1 .. (H + 1 - x) PROVE kept[i] = cached[x + i]
    <3>1. kept[i] = cached[low + i - 1]
      BY <2>3, <2>7
    <3>2. low + i - 1 = x + i
      BY <1>2, <2>7 DEF low
    <3> QED
      BY <3>1, <3>2
  <2>5. Len(kept) = H + 1 - x /\ \A i \in 1 .. (H + 1 - x) : kept[i] = cached[x + i]
    BY <2>8, <2>9
  <2>6. DOMAIN kept = 1 .. Len(kept)
    BY <2>3
  <2> QED
    BY <2>4, <2>5, <2>6
<1>9. /\ U \in Nat /\ U + 1 \in LastUses' /\ used'[U + 1] = uri
      /\ \A m \in LastUses : used[m] # uri => m \in LastUses'
      /\ \A m \in LastUses' : m # U + 1 => m \in LastUses /\ used[m] # uri /\ m < U + 1
      /\ \A m \in LastUses : used'[m] = used[m] /\ m \in 1 .. U
  BY LastUsesOfOneMore
<1>10. /\ \A c \in 1 .. H : \E m \in LastUses : handles[c].uri = used[m]
       /\ H < MaxOpen =>
            \A m \in LastUses : \E c \in 1 .. H : handles[c].uri = used[m]
       /\ \A m, k \in LastUses : \A c \in 1 .. H :
            m < k /\ handles[c].uri = used[m] =>
              \E d \in (c + 1) .. H : handles[d].uri = used[k]
  BY SMTT(30), <1>2 DEF MostRecent, H
<1> HIDE DEF U
<1>11. x \in 0 .. (H + 1) /\ x = IF H + 1 > MaxOpen THEN H + 1 - MaxOpen ELSE 0
  BY <1>7, <1>18
<1> DEFINE K == H + 1 - x
<1>12. ASSUME NEW c \in 1 .. K
       PROVE  \/ c = K /\ handles'[c].uri = uri
              \/ c < K /\ x + c \in 1 .. H /\ handles'[c] = handles[x + c]
  <2>1. x + c \in 1 .. (H + 1)
    BY <1>2, <1>11
  <2>2. x + c = H + 1 \/ x + c \in 1 .. H
    BY <1>2, <1>11, <2>1
  <2>3. x + c = H + 1 <=> c = K
    BY <1>2, <1>11
  <2>4. c <= K
    BY <1>2, <1>11
  <2> QED
    <3>1. CASE c = K
      <4>1. handles'[c] = cached[H + 1]
        BY <1>8, <2>3, <3>1
      <4> QED
        BY <1>3, <1>4, <3>1, <4>1
    <3>2. CASE c # K
      <4>1. c < K /\ x + c \in 1 .. H
        BY <1>2, <1>11, <2>2, <2>3, <2>4, <3>2
      <4>2. handles'[c] = cached[x + c] /\ cached[x + c] = handles[x + c]
        BY <1>4, <1>8, <4>1
      <4> QED
        BY <4>1, <4>2
    <3> QED
      BY <3>1, <3>2
<1>13. ASSUME NEW j \in 1 .. H, j > x
       PROVE  j - x \in 1 .. K /\ handles'[j - x] = handles[j] /\ j - x < K
  <2>1. j - x \in 1 .. K /\ x + (j - x) = j /\ j - x < K
    BY SMTT(30), <1>2, <1>11, <1>13
  <2> QED
    BY <1>4, <1>8, <2>1
<1>14. ASSUME NEW c \in 1 .. K PROVE \E m \in LastUses' : handles'[c].uri = used'[m]
  <2>1. CASE handles'[c].uri = uri
    BY <1>9, <2>1
  <2>2. CASE handles'[c].uri # uri
    <3>1. x + c \in 1 .. H /\ handles'[c] = handles[x + c]
      BY <1>12, <2>2
    <3>2. PICK m \in LastUses : handles[x + c].uri = used[m]
      BY <1>10, <3>1
    <3>3. m \in LastUses' /\ used'[m] = used[m]
      BY <1>9, <2>2, <3>1, <3>2
    <3> QED
      BY <3>1, <3>2, <3>3
  <2> QED
    BY <2>1, <2>2
<1>15. ASSUME K < MaxOpen, NEW m \in LastUses'
       PROVE  \E c \in 1 .. K : handles'[c].uri = used'[m]
  <2>1. x = 0 /\ H < MaxOpen
    <3>1. H <= MaxOpen /\ MaxOpen \in Nat
      BY <1>1, MaxOpenIsANumber DEF H
    <3> QED
      BY <1>2, <1>11, <1>15, <3>1
  <2>2. CASE m = U + 1
    <3>1. K \in 1 .. K
      BY <1>2, <2>1
    <3>2. handles'[K].uri = uri
      BY <1>12, <3>1
    <3> QED
      BY <1>9, <2>2, <3>1, <3>2
  <2>3. CASE m # U + 1
    <3>1. m \in LastUses /\ used'[m] = used[m]
      BY <1>9, <2>3
    <3>2. PICK j \in 1 .. H : handles[j].uri = used[m]
      BY <1>10, <2>1, <3>1
    <3>3. j > x
      BY <1>2, <2>1
    <3> QED
      BY <1>13, <3>1, <3>2, <3>3
  <2> QED
    BY <2>2, <2>3
<1>16. ASSUME NEW m \in LastUses', NEW k \in LastUses', NEW c \in 1 .. K,
              m < k, handles'[c].uri = used'[m]
       PROVE  \E d \in (c + 1) .. K : handles'[d].uri = used'[k]
  <2>1. m # U + 1
    BY <1>9, <1>16
  <2>2. m \in LastUses /\ used[m] # uri /\ used'[m] = used[m]
    BY <1>9, <2>1
  <2>3. c < K /\ x + c \in 1 .. H /\ handles'[c] = handles[x + c]
    BY <1>12, <1>16, <2>2
  <2>4. CASE k = U + 1
    <3>1. K \in (c + 1) .. K /\ K \in 1 .. K
      BY SMTT(30), <1>2, <1>11, <2>3
    <3>2. handles'[K].uri = uri
      BY <1>12, <3>1
    <3> QED
      BY <1>9, <2>4, <3>1, <3>2
  <2>5. CASE k # U + 1
    <3>1. k \in LastUses /\ used'[k] = used[k]
      BY <1>9, <2>5
    <3>2. handles[x + c].uri = used[m]
      BY <1>16, <2>2, <2>3
    <3>3. PICK j \in (x + c + 1) .. H : handles[j].uri = used[k]
      BY <1>10, <1>16, <2>2, <2>3, <3>1, <3>2
    <3>4. j \in 1 .. H /\ j > x /\ j > x + c
      BY <1>2, <1>11, <3>3
    <3>5. /\ j - x \in 1 .. K /\ handles'[j - x] = handles[j]
      BY <1>13, <3>4
    <3>6. j - x \in (c + 1) .. K
      BY <1>2, <1>11, <3>4, <3>5
    <3> QED
      BY <3>1, <3>3, <3>5, <3>6
  <2> QED
    BY <2>4, <2>5
<1>17. Len(handles') = K /\ DOMAIN handles' = 1 .. K
  BY <1>8
<1> HIDE DEF K
<1> QED
  <2>1. \A c \in DOMAIN handles' : \E m \in LastUses' : handles'[c].uri = used'[m]
    BY <1>14, <1>17
  <2>2. Len(handles') < MaxOpen =>
          \A m \in LastUses' : \E c \in DOMAIN handles' : handles'[c].uri = used'[m]
    BY <1>15, <1>17
  <2>3. \A m, k \in LastUses' : \A c \in DOMAIN handles' :
          m < k /\ handles'[c].uri = used'[m] =>
            \E d \in (c + 1) .. Len(handles') : handles'[d].uri = used'[k]
    BY <1>16, <1>17
  <2> QED
    BY <2>1, <2>2, <2>3, Zenon DEF MostRecent

\* The cache of a run that is not over.
RecentInv == RunInv /\ used \in Seq(Uris) /\ (~ Over => MostRecent)

(* A run starts with nothing used and nothing cached. *)
LEMMA InitRecent == Init => RecentInv
<1> SUFFICES ASSUME Init PROVE RecentInv
  OBVIOUS
<1>1. used = <<>> /\ handles = <<>>
  BY DEF Init, NoResources
<1>2. LastUses = {}
  BY <1>1 DEF LastUses
<1>3. MostRecent
  BY <1>1, <1>2 DEF MostRecent
<1> QED
  BY <1>1, <1>3, InitInv DEF RecentInv

(* Only open_once uses a uri or moves a handle while the run goes on. *)
LEMMA NextRecent == RecentInv /\ [Next]_vars => RecentInv'
<1> SUFFICES ASSUME RecentInv, [Next]_vars PROVE RecentInv'
  OBVIOUS
<1>1. RunInv'
  BY NextInv DEF RecentInv
<1>2. CASE \E uri \in Uris : Use(uri)
  <2>1. PICK uri \in Uris : Use(uri)
    BY <1>2
  <2>2. /\ ResourcesInv /\ used \in Seq(Uris) /\ ~ Over
        /\ used' = Append(used, uri) /\ (OpenCached(uri) \/ OpenNew(uri))
    BY <2>1 DEF Use, RecentInv, RunInv, Over
  <2>3. MostRecent'
    BY <2>2, OpenCachedKeepsRecent, OpenNewKeepsRecent DEF RecentInv
  <2>4. used' \in Seq(Uris)
    BY <2>2
  <2> QED
    BY <1>1, <2>3, <2>4 DEF RecentInv
<1>3. ASSUME used' = used, handles' = handles, Over => Over' PROVE RecentInv'
  <2>1. LastUses' = LastUses
    BY <1>3 DEF LastUses
  <2>2. MostRecent => MostRecent'
    BY <1>3, <2>1 DEF MostRecent
  <2> QED
    BY <1>1, <1>3, <2>2 DEF RecentInv
<1>4. CASE Empty \/ Submit \/ Start \/ ProcessReturns \/ ProcessRaises
           \/ Combine \/ Finish \/ EmptyRaises \/ CombineRaises \/ Interrupted
  BY <1>3, <1>4 DEF Empty, Submit, Start, ProcessReturns, ProcessRaises, Combine,
     Finish, EmptyRaises, CombineRaises, Interrupted, Over,
     resources
<1>5. CASE Return \/ Raise
  <2>1. Over' /\ used' = used
    BY <1>5 DEF Return, Raise, Over
  <2> QED
    BY <1>1, <2>1 DEF RecentInv
<1>6. CASE UNCHANGED vars
  BY <1>3, <1>6 DEF vars, run, resources, Over
<1> QED
  BY <1>2, <1>4, <1>5, <1>6 DEF Next

(***************************************************************************)
(* Eviction is least recently used: whatever uris a run reads in whatever  *)
(* order, and whatever the bound of the cache, it holds the uris used last *)
(* in the order of their last uses, and all of them when it is not full.   *)
(***************************************************************************)
THEOREM CacheIsMostRecentAlways == Spec => []CacheIsMostRecent
<1>1. RecentInv => CacheIsMostRecent
  BY DEF RecentInv, MostRecent, CacheIsMostRecent
<1> QED
  BY <1>1, InitRecent, NextRecent, PTL DEF Spec
=============================================================================
