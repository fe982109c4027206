---------------------------- MODULE ParamsProofs ----------------------------
(***************************************************************************)
(* What parameters are after the conversions they go through, for any     *)
(* names and values.  Sorting puts entries in the order of their names,   *)
(* the same whatever order they came in.  Escaping is taken back, so a    *)
(* token is cut where it was joined and reads back as what was printed.   *)
(***************************************************************************)
EXTENDS Params, SequenceTheorems, FiniteSetTheorems, NaturalsInduction, WellFoundedInduction,
        TLAPS

-----------------------------------------------------------------------------
(* Lists. *)

(* A list with one more element is a list. *)
LEMMA AppendList ==
  ASSUME NEW s, IsList(s), NEW x
  PROVE  /\ IsList(Append(s, x))
         /\ Len(s) \in Nat /\ DOMAIN s = 1 .. Len(s)
         /\ Len(Append(s, x)) = Len(s) + 1
         /\ DOMAIN Append(s, x) = 1 .. (Len(s) + 1)
         /\ \A n \in DOMAIN s : Append(s, x)[n] = s[n]
         /\ Append(s, x)[Len(s) + 1] = x
<1> DEFINE S == ToSet(s) \union {x}
<1>1. s \in Seq(S) /\ x \in S
  BY DEF IsList
<1>2. /\ Append(s, x) \in Seq(S)
      /\ Len(s) \in Nat /\ DOMAIN s = 1 .. Len(s)
      /\ Len(Append(s, x)) = Len(s) + 1
      /\ DOMAIN Append(s, x) = 1 .. (Len(s) + 1)
      /\ \A n \in DOMAIN s : Append(s, x)[n] = s[n]
      /\ Append(s, x)[Len(s) + 1] = x
  BY <1>1
<1>3. \A n \in DOMAIN Append(s, x) : Append(s, x)[n] \in ToSet(Append(s, x))
  BY DEF ToSet
<1>4. Append(s, x) \in Seq(ToSet(Append(s, x)))
  BY <1>2, <1>3
<1> QED BY <1>2, <1>4 DEF IsList

(* A function on the first numbers is a list. *)
LEMMA ListOf ==
  ASSUME NEW s, NEW N \in Nat, DOMAIN s = 1 .. N, s = [n \in 1 .. N |-> s[n]]
  PROVE  IsList(s) /\ Len(s) = N
<1>1. \A n \in 1 .. N : s[n] \in ToSet(s)
  BY DEF ToSet
<1>2. s \in [1 .. N -> ToSet(s)]
  BY <1>1
<1>3. s \in Seq(ToSet(s))
  BY <1>2, SeqDef
<1>4. Len(s) = N
  BY <1>2, LenProperties
<1> QED
  BY <1>3, <1>4 DEF IsList

(* What a list is. *)
LEMMA ListIs ==
  ASSUME NEW s, IsList(s)
  PROVE  Len(s) \in Nat /\ DOMAIN s = 1 .. Len(s) /\ s = [n \in 1 .. Len(s) |-> s[n]]
  BY DEF IsList

(* A list in a set. *)
LEMMA ListIn ==
  ASSUME NEW S, NEW s \in Seq(S)
  PROVE  IsList(s)
<1>1. Len(s) \in Nat /\ DOMAIN s = 1 .. Len(s) /\ s = [n \in 1 .. Len(s) |-> s[n]]
  OBVIOUS
<1> QED
  BY <1>1, ListOf

\* Two lists, one after the other.
Joined(s, t) == s \o t

(* Where their elements are. *)
LEMMA JoinedLists ==
  ASSUME NEW s, NEW t, IsList(s), IsList(t)
  PROVE  /\ IsList(Joined(s, t)) /\ Len(Joined(s, t)) = Len(s) + Len(t)
         /\ \A n \in 1 .. Len(s) : Joined(s, t)[n] = s[n]
         /\ \A n \in 1 .. Len(t) : Joined(s, t)[Len(s) + n] = t[n]
<1> DEFINE S == ToSet(s) \union ToSet(t)
           r == s \o t
<1>1. s \in Seq(S) /\ t \in Seq(S)
  BY DEF IsList
<1> HIDE DEF S
<1>2. /\ r \in Seq(S) /\ Len(r) = Len(s) + Len(t)
      /\ \A i \in 1 .. Len(s) + Len(t) :
           r[i] = IF i <= Len(s) THEN s[i] ELSE t[i - Len(s)]
  BY <1>1, ConcatProperties
<1> HIDE DEF r
<1>3. IsList(r)
  BY <1>2, ListIn
<1>4. Len(s) \in Nat /\ Len(t) \in Nat
  BY ListIs
<1>5. ASSUME NEW n \in 1 .. Len(s) PROVE r[n] = s[n]
  BY <1>2, <1>4
<1>6. ASSUME NEW n \in 1 .. Len(t) PROVE r[Len(s) + n] = t[n]
  <2>1. /\ Len(s) + n \in 1 .. Len(s) + Len(t) /\ ~ (Len(s) + n <= Len(s))
        /\ (Len(s) + n) - Len(s) = n
    BY <1>4
  <2> QED
    BY <1>2, <2>1
<1>7. Joined(s, t) = r
  BY DEF Joined, r
<1> QED
  BY <1>2, <1>3, <1>5, <1>6, <1>7

(* The rest of a list. *)
LEMMA TailOfList ==
  ASSUME NEW s, IsList(s), s # <<>>
  PROVE  /\ Len(s) \in Nat /\ Len(s) >= 1 /\ Head(s) = s[1]
         /\ IsList(Tail(s)) /\ Len(Tail(s)) = Len(s) - 1
         /\ \A n \in 1 .. (Len(s) - 1) : Tail(s)[n] = s[n + 1]
<1>1. s \in Seq(ToSet(s))
  BY DEF IsList
<1>2. /\ Tail(s) \in Seq(ToSet(s)) /\ Len(Tail(s)) = Len(s) - 1
      /\ \A i \in 1 .. Len(Tail(s)) : Tail(s)[i] = s[i + 1]
  BY <1>1, HeadTailProperties
<1>3. Len(s) \in Nat /\ Len(s) # 0 /\ Head(s) = s[1]
  BY <1>1
<1>4. IsList(Tail(s))
  BY <1>2, ListIn
<1>5. \A n \in 1 .. (Len(s) - 1) : Tail(s)[n] = s[n + 1]
  BY <1>2
<1> QED
  BY <1>2, <1>3, <1>4, <1>5

(* The start of a list. *)
LEMMA StartOfList ==
  ASSUME NEW s, IsList(s), NEW k \in 0 .. Len(s)
  PROVE  /\ IsList(SubSeq(s, 1, k)) /\ Len(SubSeq(s, 1, k)) = k
         /\ \A n \in 1 .. k : SubSeq(s, 1, k)[n] = s[n]
<1>1. Len(s) \in Nat /\ DOMAIN s = 1 .. Len(s) /\ s = [n \in 1 .. Len(s) |-> s[n]]
  BY ListIs
<1>2. 1 \in Int /\ k \in Int /\ \A i \in 1 .. k : s[i] \in ToSet(s)
  BY <1>1 DEF ToSet
<1>3. /\ SubSeq(s, 1, k) \in Seq(ToSet(s))
      /\ Len(SubSeq(s, 1, k)) = IF 1 <= k THEN k - 1 + 1 ELSE 0
      /\ \A i \in 1 .. (k - 1 + 1) : SubSeq(s, 1, k)[i] = s[1 + i - 1]
  BY <1>2, SubSeqProperties
<1>4. Len(SubSeq(s, 1, k)) = k
  BY <1>1, <1>3
<1>5. ASSUME NEW n \in 1 .. k PROVE SubSeq(s, 1, k)[n] = s[n]
  <2>1. n \in 1 .. (k - 1 + 1) /\ 1 + n - 1 = n
    BY <1>2
  <2> QED
    BY <1>3, <2>1
<1> QED
  BY <1>3, <1>4, <1>5, ListIn

(* Equal lists. *)
LEMMA SameLists ==
  ASSUME NEW s, NEW t, IsList(s), IsList(t), Len(s) = Len(t),
         \A n \in 1 .. Len(s) : s[n] = t[n]
  PROVE  s = t
<1>1. /\ s = [n \in 1 .. Len(s) |-> s[n]]
      /\ t = [n \in 1 .. Len(t) |-> t[n]]
  BY ListIs
<1> QED
  BY <1>1

-----------------------------------------------------------------------------
(* The entries of a parameter map are sorted.                              *)

\* Where a name comes in the order of names.
Rank(k) == CHOOSE n \in DOMAIN NameOrder : NameOrder[n] = k

\* Entries of names that are in the order.
Named(s) == IsList(s) /\ \A n \in DOMAIN s : s[n].k \in ToSet(NameOrder)

\* Entry m goes before entry n, and the entries that go before n.
Goes(s, m, n) == Rank(s[m].k) < Rank(s[n].k) \/ (s[m].k = s[n].k /\ m < n)
Prior(s, n) == {m \in DOMAIN s : Goes(s, m, n)}

SortedByName(s) ==
  Named(s) /\ \A m, n \in DOMAIN s : m < n => Rank(s[m].k) <= Rank(s[n].k)

(* Names have ranks, each its own. *)
LEMMA NamesRanked ==
  ASSUME NEW s, Named(s), NEW n \in DOMAIN s
  PROVE  Rank(s[n].k) \in Nat /\ NameOrder[Rank(s[n].k)] = s[n].k
<1>1. \E i \in DOMAIN NameOrder : NameOrder[i] = s[n].k
  BY DEF Named, ToSet
<1>2. Rank(s[n].k) \in DOMAIN NameOrder /\ NameOrder[Rank(s[n].k)] = s[n].k
  BY <1>1, Zenon DEF Rank
<1>3. DOMAIN NameOrder = 1 .. Len(NameOrder)
  BY NamesAreOrdered
<1> QED
  BY <1>2, <1>3

(* What goes before what is a strict total order of the entries. *)
LEMMA GoesIsTotal ==
  ASSUME NEW s, Named(s)
  PROVE  /\ Len(s) \in Nat /\ DOMAIN s = 1 .. Len(s)
         /\ \A n \in DOMAIN s : ~ Goes(s, n, n)
         /\ \A m, n \in DOMAIN s : m = n \/ Goes(s, m, n) \/ Goes(s, n, m)
         /\ \A l, m, n \in DOMAIN s : Goes(s, l, m) /\ Goes(s, m, n) => Goes(s, l, n)
<1>1. Len(s) \in Nat /\ DOMAIN s = 1 .. Len(s)
  BY DEF Named, IsList
<1>2. \A n \in DOMAIN s : n \in Nat /\ Rank(s[n].k) \in Nat
  BY <1>1, NamesRanked
<1>3. ASSUME NEW n \in DOMAIN s PROVE ~ Goes(s, n, n)
  BY <1>2 DEF Goes
<1>4. ASSUME NEW m \in DOMAIN s, NEW n \in DOMAIN s
      PROVE  m = n \/ Goes(s, m, n) \/ Goes(s, n, m)
  <2>1. Rank(s[m].k) = Rank(s[n].k) => s[m].k = s[n].k
    BY NamesRanked
  <2>2. m \in Nat /\ n \in Nat /\ Rank(s[m].k) \in Nat /\ Rank(s[n].k) \in Nat
    BY <1>2
  <2> QED
    BY <2>1, <2>2 DEF Goes
<1>5. ASSUME NEW l \in DOMAIN s, NEW m \in DOMAIN s, NEW n \in DOMAIN s,
             Goes(s, l, m), Goes(s, m, n)
      PROVE  Goes(s, l, n)
  <2>1. /\ l \in Nat /\ m \in Nat /\ n \in Nat
        /\ Rank(s[l].k) \in Nat /\ Rank(s[m].k) \in Nat /\ Rank(s[n].k) \in Nat
    BY <1>2
  <2> QED
    BY <1>5, <2>1 DEF Goes
<1> QED
  BY <1>1, <1>3, <1>4, <1>5

(* Sorting leaves sorted entries alone. *)
LEMMA SortedStays ==
  ASSUME NEW s, SortedByName(s)
  PROVE  ParamMap(s) = s
<1>1. Named(s) /\ IsList(s) /\ Len(s) \in Nat /\ DOMAIN s = 1 .. Len(s)
  BY GoesIsTotal DEF SortedByName, Named
<1>2. ASSUME NEW m \in DOMAIN s, NEW n \in DOMAIN s PROVE Goes(s, m, n) <=> m < n
  <2>1. /\ m \in Nat /\ n \in Nat /\ Rank(s[m].k) \in Nat /\ Rank(s[n].k) \in Nat
        /\ Rank(s[m].k) = Rank(s[n].k) => s[m].k = s[n].k
    BY <1>1, NamesRanked
  <2>2. /\ m < n => Rank(s[m].k) <= Rank(s[n].k)
        /\ n < m => Rank(s[n].k) <= Rank(s[m].k)
    BY DEF SortedByName
  <2> QED
    BY <2>1, <2>2 DEF Goes
<1>3. ASSUME NEW n \in DOMAIN s PROVE Cardinality(Prior(s, n)) = n - 1
  <2>1. Prior(s, n) = 1 .. (n - 1)
    BY <1>1, <1>2 DEF Prior
  <2>2. 1 \in Int /\ n - 1 \in Int /\ n - 1 >= 0
    BY <1>1
  <2>3. Cardinality(1 .. (n - 1)) = IF 1 > n - 1 THEN 0 ELSE (n - 1) - 1 + 1
    BY <2>2, FS_Interval
  <2> QED
    BY <1>1, <2>1, <2>2, <2>3
<1>4. ParamMap(s) = [i \in DOMAIN s |->
                       s[CHOOSE n \in DOMAIN s : Cardinality(Prior(s, n)) = i - 1]]
  BY Zenon DEF ParamMap, Prior, Goes, Rank
<1>5. ASSUME NEW i \in DOMAIN s
      PROVE  (CHOOSE n \in DOMAIN s : Cardinality(Prior(s, n)) = i - 1) = i
  <2>1. \A n \in DOMAIN s : Cardinality(Prior(s, n)) = i - 1 <=> n = i
    BY <1>1, <1>3
  <2> QED
    BY <2>1
<1>6. ParamMap(s) = [i \in DOMAIN s |-> s[i]]
  BY <1>4, <1>5
<1>7. s = [i \in DOMAIN s |-> s[i]]
  BY <1>1 DEF IsList
<1> QED
  BY <1>6, <1>7

\* p puts the entries of s in the order of their names.
Sorts(p, s) ==
  /\ p \in [DOMAIN s -> DOMAIN s]
  /\ \A n \in DOMAIN s : \E i \in DOMAIN s : p[i] = n
  /\ \A m, n \in DOMAIN s : m < n => Goes(s, p[m], p[n])
  /\ ParamMap(s) = [i \in DOMAIN s |-> s[p[i]]]

(* There is one place for each entry: as many entries go before it. *)
LEMMA SomeOrderSorts ==
  ASSUME NEW s, Named(s)
  PROVE  \E p : Sorts(p, s)
<1> DEFINE D == DOMAIN s
           N == Len(s)
           card == [n \in D |-> Cardinality(Prior(s, n))]
<1>1. N \in Nat /\ D = 1 .. N
  BY GoesIsTotal
<1>2. /\ \A n \in D : ~ Goes(s, n, n)
      /\ \A m, n \in D : m = n \/ Goes(s, m, n) \/ Goes(s, n, m)
      /\ \A l, m, n \in D : Goes(s, l, m) /\ Goes(s, m, n) => Goes(s, l, n)
  BY GoesIsTotal
<1>3. IsFiniteSet(D) /\ Cardinality(D) = N
  <2>1. 1 \in Int /\ N \in Int
    BY <1>1
  <2>2. IsFiniteSet(1 .. N) /\ Cardinality(1 .. N) = IF 1 > N THEN 0 ELSE N - 1 + 1
    BY <2>1, FS_Interval
  <2> QED
    BY <1>1, <2>2
<1> HIDE DEF D
<1>4. ASSUME NEW n \in D
      PROVE  IsFiniteSet(Prior(s, n)) /\ card[n] \in 0 .. (N - 1)
  <2>1. Prior(s, n) \in SUBSET D /\ Prior(s, n) # D
    BY <1>2 DEF Prior, D
  <2>2. /\ IsFiniteSet(Prior(s, n)) /\ Cardinality(Prior(s, n)) <= N
        /\ Cardinality(Prior(s, n)) # N
    BY <1>3, <2>1, FS_Subset
  <2>3. Cardinality(Prior(s, n)) \in Nat
    BY <2>2, FS_CardinalityType
  <2> QED
    BY <1>1, <2>2, <2>3
<1>5. ASSUME NEW m \in D, NEW n \in D, Goes(s, m, n)
      PROVE  card[m] < card[n]
  <2>1. Prior(s, m) \in SUBSET Prior(s, n) /\ m \in Prior(s, n) /\ m \notin Prior(s, m)
    BY <1>2, <1>5 DEF Prior, D
  <2>2. /\ Cardinality(Prior(s, m)) <= Cardinality(Prior(s, n))
        /\ Cardinality(Prior(s, m)) # Cardinality(Prior(s, n))
    BY <1>4, <2>1, FS_Subset
  <2>3. Cardinality(Prior(s, m)) \in Nat /\ Cardinality(Prior(s, n)) \in Nat
    BY <1>4, FS_CardinalityType
  <2> QED
    BY <2>2, <2>3
<1>6. card \in [D -> 0 .. (N - 1)]
  BY <1>4
<1> HIDE DEF card
<1>7. ASSUME NEW m \in D, NEW n \in D, card[m] = card[n] PROVE m = n
  <2>1. card[m] \in Int /\ card[n] \in Int
    BY <1>1, <1>6
  <2>2. ~ (card[m] < card[n]) /\ ~ (card[n] < card[m])
    BY <2>1, <1>7
  <2> QED
    BY <1>2, <1>5, <2>2
<1>8. ASSUME NEW c \in 0 .. (N - 1) PROVE \E n \in D : card[n] = c
  <2> SUFFICES ASSUME \A n \in D : card[n] # c PROVE FALSE
    OBVIOUS
  <2> DEFINE T == 0 .. (N - 1)
  <2>1. card \in [D -> T \ {c}]
    BY <1>6
  <2>2. 0 \in Int /\ N - 1 \in Int
    BY <1>1
  <2>3. IsFiniteSet(T) /\ Cardinality(T) = IF 0 > N - 1 THEN 0 ELSE (N - 1) - 0 + 1
    BY <2>2, FS_Interval
  <2>4. c \in T
    OBVIOUS
  <2>5. Cardinality(T) = N /\ 0 < N
    BY <1>1, <2>3
  <2> HIDE DEF T
  <2>6. IsFiniteSet(T \ {c}) /\ Cardinality(T \ {c}) = N - 1
    BY <2>3, <2>4, <2>5, FS_RemoveElement
  <2>7. N - 1 < N
    BY <1>1
  <2>8. \E m, n \in D : m # n /\ card[m] = card[n]
    BY <1>3, <2>1, <2>6, <2>7, FS_PigeonHole
  <2> QED
    BY <1>7, <2>8
<1> DEFINE p == [i \in D |-> CHOOSE n \in D : Cardinality(Prior(s, n)) = i - 1]
<1>9. \A n \in D : card[n] = Cardinality(Prior(s, n))
  BY DEF card
<1>10. ASSUME NEW i \in D PROVE p[i] \in D /\ card[p[i]] = i - 1
  <2>1. i - 1 \in 0 .. (N - 1)
    BY <1>1
  <2>2. \E n \in D : Cardinality(Prior(s, n)) = i - 1
    BY <1>8, <1>9, <2>1
  <2>3. p[i] \in D /\ Cardinality(Prior(s, p[i])) = i - 1
    BY <2>2
  <2> QED
    BY <1>9, <2>3
<1>11. ParamMap(s) = [i \in D |-> s[p[i]]]
  <2>1. ParamMap(s) = [i \in D |-> s[CHOOSE n \in D : Cardinality(Prior(s, n)) = i - 1]]
    BY Zenon DEF ParamMap, Prior, Goes, Rank, D
  <2>2. \A i \in D : p[i] = CHOOSE n \in D : Cardinality(Prior(s, n)) = i - 1
    OBVIOUS
  <2> HIDE DEF p
  <2> QED
    BY <2>1, <2>2
<1>12. p \in [D -> D]
  <2>1. p = [i \in D |-> p[i]]
    OBVIOUS
  <2> HIDE DEF p
  <2> QED
    BY <1>10, <2>1
<1> HIDE DEF p
<1>13. ASSUME NEW m \in D, NEW n \in D, m < n PROVE Goes(s, p[m], p[n])
  <2>1. p[m] \in D /\ p[n] \in D /\ card[p[m]] = m - 1 /\ card[p[n]] = n - 1
    BY <1>10
  <2>2. m \in Nat /\ n \in Nat
    BY <1>1
  <2>3. p[m] # p[n] /\ ~ (card[p[n]] < card[p[m]])
    BY <1>13, <2>1, <2>2
  <2>4. ~ Goes(s, p[n], p[m])
    BY <1>5, <2>1, <2>3
  <2> QED
    BY <1>2, <2>1, <2>3, <2>4
<1>14. ASSUME NEW n \in D PROVE \E i \in D : p[i] = n
  <2>1. card[n] \in 0 .. (N - 1)
    BY <1>6
  <2>2. card[n] + 1 \in D /\ (card[n] + 1) - 1 = card[n]
    BY <1>1, <2>1
  <2>3. p[card[n] + 1] = n
    BY <1>7, <1>10, <2>2
  <2> QED
    BY <2>2, <2>3
<1>15. Sorts(p, s)
  BY <1>11, <1>12, <1>13, <1>14 DEF Sorts, D
<1> QED
  BY <1>15

(* Sorting sorts: a parameter map is in the order of its names. *)
LEMMA ParamMapSorts ==
  ASSUME NEW s, Named(s)
  PROVE  SortedByName(ParamMap(s)) /\ DOMAIN ParamMap(s) = DOMAIN s
<1>1. PICK p : Sorts(p, s)
  BY SomeOrderSorts
<1> DEFINE r == ParamMap(s)
<1>2. Len(s) \in Nat /\ DOMAIN s = 1 .. Len(s)
  BY GoesIsTotal
<1>3. p \in [DOMAIN s -> DOMAIN s] /\ r = [i \in DOMAIN s |-> s[p[i]]]
  BY <1>1 DEF Sorts
<1> HIDE DEF r
<1>4. DOMAIN r = DOMAIN s /\ \A i \in DOMAIN s : p[i] \in DOMAIN s /\ r[i] = s[p[i]]
  BY <1>3
<1>5. IsList(r)
  <2>1. \A i \in 1 .. Len(s) : r[i] \in ToSet(r)
    BY <1>2, <1>4 DEF ToSet
  <2>2. r \in [1 .. Len(s) -> ToSet(r)]
    BY <1>2, <1>3, <2>1
  <2> QED
    BY <1>2, <2>2, SeqDef DEF IsList
<1>6. Named(r)
  BY <1>4, <1>5 DEF Named
<1>7. ASSUME NEW m \in DOMAIN r, NEW n \in DOMAIN r, m < n
      PROVE  Rank(r[m].k) <= Rank(r[n].k)
  <2>1. Goes(s, p[m], p[n])
    BY <1>1, <1>4, <1>7 DEF Sorts
  <2>2. Rank(r[m].k) \in Nat /\ Rank(r[n].k) \in Nat
    BY <1>6, NamesRanked
  <2>3. r[m] = s[p[m]] /\ r[n] = s[p[n]]
    BY <1>4
  <2> QED
    BY <2>1, <2>2, <2>3 DEF Goes
<1> QED
  BY <1>4, <1>6, <1>7 DEF SortedByName, r

(* No entries are sorted. *)
LEMMA NoEntriesSorted == SortedByName(<<>>)
<1>1. Len(<<>>) = 0 /\ DOMAIN <<>> = {} /\ <<>> \in Seq({})
  OBVIOUS
<1>2. IsList(<<>>)
  BY <1>1, ListIn
<1> QED
  BY <1>1, <1>2 DEF SortedByName, Named

-----------------------------------------------------------------------------
(* Sorted entries are those of a set: their order says nothing.            *)

\* No name twice.
NamesDiffer(s) == \A m, n \in DOMAIN s : s[m].k = s[n].k => m = n

\* The entries of S with names before the one of rank r.
Below(S, r) == {e \in S : Rank(e.k) < r}

(* The place of an entry is given by the set of all.                       *)
LEMMA PlaceOfEntry ==
  ASSUME NEW s, SortedByName(s), NamesDiffer(s), NEW n \in DOMAIN s
  PROVE  Cardinality(Below(ToSet(s), Rank(s[n].k))) = n - 1
<1> DEFINE B == Below(ToSet(s), Rank(s[n].k))
           f == [m \in 1 .. (n - 1) |-> s[m]]
<1>1. Named(s) /\ Len(s) \in Nat /\ DOMAIN s = 1 .. Len(s) /\ n \in Nat /\ n - 1 \in Nat
  BY GoesIsTotal DEF SortedByName
<1>2. ASSUME NEW l \in DOMAIN s, NEW m \in DOMAIN s, l < m
      PROVE  Rank(s[l].k) < Rank(s[m].k)
  <2>1. Rank(s[l].k) <= Rank(s[m].k)
    BY <1>2 DEF SortedByName
  <2>2. /\ Rank(s[l].k) \in Nat /\ Rank(s[m].k) \in Nat
        /\ NameOrder[Rank(s[l].k)] = s[l].k /\ NameOrder[Rank(s[m].k)] = s[m].k
    BY <1>1, NamesRanked
  <2>3. s[l].k # s[m].k
    BY <1>1, <1>2 DEF NamesDiffer
  <2>4. Rank(s[l].k) # Rank(s[m].k)
    BY <2>2, <2>3
  <2> QED
    BY <2>1, <2>2, <2>4
<1>3. \A m \in DOMAIN s : Rank(s[m].k) \in Nat
  BY <1>1, NamesRanked
<1>4. ASSUME NEW m \in 1 .. (n - 1) PROVE m \in DOMAIN s /\ m < n /\ s[m] \in B
  <2>1. m \in DOMAIN s /\ m < n
    BY <1>1
  <2> QED
    BY <1>2, <2>1 DEF Below, ToSet
<1>5. ASSUME NEW e \in B PROVE \E m \in 1 .. (n - 1) : s[m] = e
  <2>1. PICK m \in DOMAIN s : s[m] = e
    BY DEF Below, ToSet
  <2>2. Rank(s[m].k) < Rank(s[n].k)
    BY <2>1 DEF Below
  <2>3. ~ (n < m) /\ n # m
    BY <1>2, <1>3, <2>2
  <2>4. m \in 1 .. (n - 1)
    BY <1>1, <2>3
  <2> QED
    BY <2>1, <2>4
<1>6. ASSUME NEW l \in 1 .. (n - 1), NEW m \in 1 .. (n - 1), s[l] = s[m] PROVE l = m
  BY <1>4, <1>6 DEF NamesDiffer
<1>7. f \in [1 .. (n - 1) -> B]
  BY <1>4
<1>8. f \in Bijection(1 .. (n - 1), B)
  <2>1. DOMAIN f = 1 .. (n - 1) /\ \A m \in 1 .. (n - 1) : f[m] = s[m]
    OBVIOUS
  <2> HIDE DEF f, B
  <2>2. IsInjective(f)
    BY <1>6, <2>1 DEF IsInjective
  <2> QED
    BY <1>5, <1>7, <2>1, <2>2 DEF Bijection, Injection, Surjection
<1>9. ExistsBijection(1 .. (n - 1), B)
  BY <1>8 DEF ExistsBijection
<1> QED
  BY <1>1, <1>9, FS_CountingElements

(* Sorted lists of the same entries are equal.                             *)
LEMMA SortedIsUnique ==
  ASSUME NEW s, SortedByName(s), NamesDiffer(s),
         NEW t, SortedByName(t), NamesDiffer(t), ToSet(s) = ToSet(t)
  PROVE  s = t
<1>1. /\ IsList(s) /\ Len(s) \in Nat /\ DOMAIN s = 1 .. Len(s)
      /\ IsList(t) /\ Len(t) \in Nat /\ DOMAIN t = 1 .. Len(t)
  BY ListIs DEF SortedByName, Named
<1>2. ASSUME NEW m \in DOMAIN s, NEW n \in DOMAIN t, s[m] = t[n] PROVE m = n
  <2>1. /\ Cardinality(Below(ToSet(s), Rank(s[m].k))) = m - 1
        /\ Cardinality(Below(ToSet(t), Rank(t[n].k))) = n - 1
    BY PlaceOfEntry
  <2>2. m - 1 = n - 1
    BY <1>2, <2>1
  <2> QED
    BY <1>1, <2>2
<1>3. \A n \in DOMAIN s : n \in DOMAIN t /\ t[n] = s[n]
  <2> SUFFICES ASSUME NEW n \in DOMAIN s PROVE n \in DOMAIN t /\ t[n] = s[n]
    OBVIOUS
  <2>1. PICK m \in DOMAIN t : t[m] = s[n]
    BY DEF ToSet
  <2> QED
    BY <1>2, <2>1
<1>4. \A n \in DOMAIN t : n \in DOMAIN s
  <2> SUFFICES ASSUME NEW n \in DOMAIN t PROVE n \in DOMAIN s
    OBVIOUS
  <2>1. PICK m \in DOMAIN s : s[m] = t[n]
    BY DEF ToSet
  <2> QED
    BY <1>2, <2>1
<1>5. Len(s) = Len(t)
  <2>1. Len(s) \in Nat /\ Len(t) \in Nat
    BY <1>1
  <2>2. \A n \in 1 .. Len(s) : n \in 1 .. Len(t)
    BY <1>1, <1>3
  <2>3. \A n \in 1 .. Len(t) : n \in 1 .. Len(s)
    BY <1>1, <1>4
  <2>4. Len(s) <= Len(t)
    BY <2>1, <2>2
  <2>5. Len(t) <= Len(s)
    BY <2>1, <2>3
  <2> QED
    BY <2>1, <2>4, <2>5
<1> QED
  BY <1>1, <1>3, <1>5, SameLists

(* Sorting keeps the entries.                                              *)
LEMMA ParamMapKeeps ==
  ASSUME NEW s, Named(s)
  PROVE  ToSet(ParamMap(s)) = ToSet(s) /\ (NamesDiffer(s) => NamesDiffer(ParamMap(s)))
<1> DEFINE r == ParamMap(s)
<1>1. PICK p : Sorts(p, s)
  BY SomeOrderSorts
<1>2. p \in [DOMAIN s -> DOMAIN s] /\ r = [i \in DOMAIN s |-> s[p[i]]]
  BY <1>1 DEF Sorts
<1>3. /\ \A n \in DOMAIN s : \E i \in DOMAIN s : p[i] = n
      /\ \A m, n \in DOMAIN s : m < n => Goes(s, p[m], p[n])
  BY <1>1 DEF Sorts
<1> HIDE DEF r
<1>4. DOMAIN r = DOMAIN s /\ \A i \in DOMAIN s : p[i] \in DOMAIN s /\ r[i] = s[p[i]]
  BY <1>2
<1>5. ToSet(r) = ToSet(s)
  <2>1. \A e \in ToSet(r) : e \in ToSet(s)
    BY <1>4 DEF ToSet
  <2>2. ASSUME NEW e \in ToSet(s) PROVE e \in ToSet(r)
    <3>1. PICK n \in DOMAIN s : s[n] = e
      BY DEF ToSet
    <3>2. PICK i \in DOMAIN s : p[i] = n
      BY <1>3
    <3> QED
      BY <1>4, <3>1, <3>2 DEF ToSet
  <2> QED
    BY <2>1, <2>2
<1>6. Len(s) \in Nat /\ DOMAIN s = 1 .. Len(s) /\ \A n \in DOMAIN s : ~ Goes(s, n, n)
  BY GoesIsTotal
<1>7. ASSUME NamesDiffer(s), NEW m \in DOMAIN r, NEW n \in DOMAIN r, r[m].k = r[n].k
      PROVE  m = n
  <2>1. p[m] \in DOMAIN s /\ p[n] \in DOMAIN s /\ p[m] = p[n]
    BY <1>4, <1>7 DEF NamesDiffer
  <2>2. ~ (m < n) /\ ~ (n < m)
    BY <1>3, <1>4, <1>6, <2>1
  <2> QED
    BY <1>4, <1>6, <2>2
<1>8. NamesDiffer(s) => NamesDiffer(r)
  BY <1>7 DEF NamesDiffer
<1> QED
  BY <1>5, <1>8 DEF r

-----------------------------------------------------------------------------
(* Numbers. *)

(* A set of numbers that is not empty has a least one. *)
LEMMA LeastNumber ==
  ASSUME NEW S, S \subseteq Nat, S # {}
  PROVE  \E n \in S : \A m \in S : n <= m
<1> DEFINE R == OpToRel(<, Nat)
<1>1. IsWellFoundedOn(R, Nat)
  BY NatLessThanWellFounded
<1>2. R = {pair \in Nat \X Nat : pair[1] < pair[2]}
  BY DEF OpToRel
<1> HIDE DEF R
<1>3. PICK n \in S : \A m \in S : ~ (<<m, n>> \in R)
  BY <1>1, WFMin, Zenon
<1>4. \A m \in S : ~ (m < n)
  BY <1>2, <1>3
<1> QED
  BY <1>4

-----------------------------------------------------------------------------
(* Functions that run through a list, and may skip some of it.             *)

\* What stands at n, then what r has further on; nothing beyond L.
Visit(r, L, step, nxt, n) == IF n > L THEN <<>> ELSE step[n] \o r[nxt[n]]

\* r is defined so from k on.
RunsFrom(r, k, L, M, step, nxt) == r = [n \in k .. M |-> Visit(r, L, step, nxt, n)]

\* Every step goes on, within M.
GoesOn(L, M, nxt) ==
  /\ L \in Nat /\ M \in Nat
  /\ \A n \in 1 .. L : nxt[n] \in Nat /\ n < nxt[n] /\ nxt[n] <= M

(* There is such a function. *)
LEMMA SomeRun ==
  ASSUME NEW L, NEW M, NEW step, NEW nxt, GoesOn(L, M, nxt)
  PROVE  \E r : RunsFrom(r, 1, L, M, step, nxt)
<1> DEFINE Has(j) == \E r : RunsFrom(r, M + 1 - j, L, M, step, nxt)
           Bad == {j \in Nat : j <= M /\ ~ Has(j)}
<1>1. L \in Nat /\ M \in Nat
  BY DEF GoesOn
<1>2. Bad = {}
  <2> SUFFICES ASSUME Bad # {} PROVE FALSE
    OBVIOUS
  <2>1. Bad \subseteq Nat
    OBVIOUS
  <2> HIDE DEF Bad
  <2>2. PICK j \in Bad : \A i \in Bad : j <= i
    BY <2>1, LeastNumber
  <2>3. j \in Nat /\ j <= M /\ ~ Has(j)
    BY DEF Bad
  <2>4. CASE j = 0
    <3> DEFINE r == [n \in (M + 1 - j) .. M |-> <<>>]
    <3>1. (M + 1 - j) .. M = {}
      BY <1>1, <2>4
    <3>2. RunsFrom(r, M + 1 - j, L, M, step, nxt)
      BY <3>1 DEF RunsFrom
    <3> QED
      BY <2>3, <3>2
  <2>5. CASE j # 0
    <3> DEFINE k == M + 1 - j
    <3>1. j - 1 \in Nat /\ j - 1 <= M /\ ~ (j <= j - 1)
      BY <1>1, <2>3, <2>5
    <3>2. Has(j - 1)
      BY <2>2, <3>1 DEF Bad
    <3>3. M + 1 - (j - 1) = k + 1
      BY <1>1, <2>3
    <3>4. PICK r : RunsFrom(r, k + 1, L, M, step, nxt)
      BY <3>2, <3>3
    <3>5. k \in Nat /\ k >= 1 /\ k <= M
      BY <1>1, <2>3, <2>5
    <3>6. ~ \E q : RunsFrom(q, k, L, M, step, nxt)
      BY <2>3
    <3> HIDE DEF k
    <3> DEFINE first == Visit(r, L, step, nxt, k)
               q == [n \in k .. M |-> IF n = k THEN first ELSE r[n]]
    <3>7. \A n \in (k + 1) .. M : n \in k .. M /\ n # k /\ q[n] = r[n]
      BY <1>1, <3>5
    <3>8. \A n \in (k + 1) .. M : r[n] = Visit(r, L, step, nxt, n)
      BY <3>4, Zenon DEF RunsFrom
    <3>9. ASSUME NEW n \in k .. M
          PROVE  Visit(q, L, step, nxt, n) = Visit(r, L, step, nxt, n)
      <4>1. CASE n > L
        BY <4>1 DEF Visit
      <4>2. CASE ~ (n > L)
        <5>1. n \in 1 .. L
          BY <1>1, <3>5, <4>2
        <5>2. nxt[n] \in Nat /\ n < nxt[n] /\ nxt[n] <= M
          BY <5>1 DEF GoesOn
        <5>3. nxt[n] \in (k + 1) .. M
          BY <1>1, <3>5, <5>2
        <5>4. q[nxt[n]] = r[nxt[n]]
          BY <3>7, <5>3
        <5> HIDE DEF q
        <5> QED
          BY <5>4 DEF Visit
      <4> QED
        BY <4>1, <4>2
    <3>10. ASSUME NEW n \in k .. M PROVE q[n] = Visit(r, L, step, nxt, n)
      <4>1. CASE n = k
        BY <4>1
      <4>2. CASE n # k
        <5>1. n \in (k + 1) .. M
          BY <1>1, <3>5, <4>2
        <5> QED
          BY <3>7, <3>8, <5>1
      <4> QED
        BY <4>1, <4>2
    <3>11. q = [n \in k .. M |-> q[n]]
      OBVIOUS
    <3> HIDE DEF q
    <3>12. RunsFrom(q, k, L, M, step, nxt)
      BY <3>9, <3>10, <3>11 DEF RunsFrom
    <3> QED
      BY <3>6, <3>12
  <2> QED
    BY <2>4, <2>5
<1>3. Has(M)
  BY <1>1, <1>2
<1>4. M + 1 - M = 1
  BY <1>1
<1> QED
  BY <1>3, <1>4

\* The same steps, k further on.
Shifted(step2, nxt2, step, nxt, k, L) ==
  \A n \in 1 .. (L - k) : step2[n] = step[n + k] /\ nxt2[n] = nxt[n + k] - k

(* One that starts further on agrees. *)
LEMMA RunsAgree ==
  ASSUME NEW L, NEW M, NEW step, NEW nxt, GoesOn(L, M, nxt), L < M,
         NEW r, RunsFrom(r, 1, L, M, step, nxt),
         NEW k \in 0 .. L, NEW q, NEW L2, NEW M2, NEW step2, NEW nxt2,
         RunsFrom(q, 1, L2, M2, step2, nxt2), L2 = L - k, M2 = M - k,
         Shifted(step2, nxt2, step, nxt, k, L)
  PROVE  \A n \in 1 .. M2 : q[n] = r[n + k]
<1> DEFINE N == M - k
           Agree(j) == q[M - k + 1 - j] = r[M + 1 - j]
           Bad == {j \in Nat : 1 <= j /\ j <= N /\ ~ Agree(j)}
<1>1. L \in Nat /\ M \in Nat /\ k \in Nat /\ k <= L /\ N \in Nat
  BY DEF GoesOn
<1>2. Bad = {}
  <2> SUFFICES ASSUME Bad # {} PROVE FALSE
    OBVIOUS
  <2>1. Bad \subseteq Nat
    OBVIOUS
  <2> HIDE DEF Bad
  <2>2. PICK j \in Bad : \A i \in Bad : j <= i
    BY <2>1, LeastNumber
  <2>3. j \in Nat /\ 1 <= j /\ j <= M - k /\ ~ Agree(j)
    BY DEF Bad
  <2> DEFINE n == M - k + 1 - j
  <2>4. n \in 1 .. (M - k) /\ n + k = M + 1 - j /\ n + k \in 1 .. M /\ n \in Nat
    BY <1>1, <2>3
  <2>5. q[n] # r[n + k]
    BY <2>3, <2>4
  <2>6. /\ q[n] = Visit(q, L - k, step2, nxt2, n)
        /\ r[n + k] = Visit(r, L, step, nxt, n + k)
    <3>1. RunsFrom(q, 1, L - k, M - k, step2, nxt2)
      OBVIOUS
    <3> QED
      BY <2>4, <3>1, Zenon DEF RunsFrom
  <2>7. ASSUME NEW m \in Nat, n < m, m <= M - k PROVE q[m] = r[m + k]
    <3> DEFINE i == M - k + 1 - m
    <3>1. i \in Nat /\ 1 <= i /\ i <= M - k /\ ~ (j <= i)
      BY <1>1, <2>3, <2>4, <2>7
    <3>2. M - k + 1 - i = m /\ M + 1 - i = m + k
      BY <1>1, <2>7
    <3>3. Agree(i)
      BY <2>2, <3>1 DEF Bad
    <3> QED
      BY <3>2, <3>3
  <2> HIDE DEF n, N
  <2>8. n > L - k <=> n + k > L
    BY <1>1, <2>4
  <2>9. CASE n > L - k
    BY <2>5, <2>6, <2>8, <2>9 DEF Visit
  <2>10. CASE ~ (n > L - k)
    <3>1. n \in 1 .. (L - k) /\ n + k \in 1 .. L
      BY <1>1, <2>4, <2>10
    <3>2. step2[n] = step[n + k] /\ nxt2[n] = nxt[n + k] - k
      BY <3>1 DEF Shifted
    <3>3. nxt[n + k] \in Nat /\ n + k < nxt[n + k] /\ nxt[n + k] <= M
      BY <3>1 DEF GoesOn
    <3>4. nxt2[n] \in Nat /\ n < nxt2[n] /\ nxt2[n] <= M - k /\ nxt2[n] + k = nxt[n + k]
      BY <1>1, <2>4, <3>2, <3>3
    <3>5. q[nxt2[n]] = r[nxt[n + k]]
      BY <2>7, <3>4
    <3> QED
      BY <2>5, <2>6, <2>8, <2>10, <3>2, <3>5 DEF Visit
  <2> QED
    BY <2>9, <2>10
<1>3. ASSUME NEW n \in 1 .. (M - k) PROVE q[n] = r[n + k]
  <2> DEFINE j == M - k + 1 - n
  <2>1. j \in Nat /\ 1 <= j /\ j <= N /\ M - k + 1 - j = n /\ M + 1 - j = n + k
    BY <1>1
  <2>2. Agree(j)
    BY <1>2, <2>1
  <2> QED
    BY <2>1, <2>2
<1> QED
  BY <1>3
-----------------------------------------------------------------------------
(* Replacing. *)

\* What replacing puts at n, and where it goes on.
StepOf(text, from, to) ==
  [n \in 1 .. Len(text) |->
     IF IsPrefix(from, SubSeq(text, n, Len(text))) THEN to ELSE <<text[n]>>]
NextOf(text, from) ==
  [n \in 1 .. Len(text) |->
     IF IsPrefix(from, SubSeq(text, n, Len(text))) THEN n + Len(from) ELSE n + 1]

\* r is the function Replace is defined by.
Replaces(r, text, from, to) ==
  RunsFrom(r, 1, Len(text), Len(text) + Len(from), StepOf(text, from, to),
           NextOf(text, from))

(* The end of a text. *)
LEMMA EndOfText ==
  ASSUME NEW C, NEW text \in Seq(C), NEW k \in 0 .. Len(text)
  PROVE  /\ SubSeq(text, k + 1, Len(text)) \in Seq(C)
         /\ Len(SubSeq(text, k + 1, Len(text))) = Len(text) - k
         /\ \A n \in 1 .. (Len(text) - k) :
              /\ SubSeq(text, k + 1, Len(text))[n] = text[n + k]
              /\ SubSeq(SubSeq(text, k + 1, Len(text)), n, Len(text) - k)
                 = SubSeq(text, n + k, Len(text))
<1> DEFINE L == Len(text)
           u == SubSeq(text, k + 1, L)
<1>1. L \in Nat /\ DOMAIN text = 1 .. L /\ k \in Int /\ k >= 0 /\ k <= L
  OBVIOUS
<1>2. \A i \in (k + 1) .. L : text[i] \in C
  BY <1>1
<1> HIDE DEF L
<1>3. k + 1 \in Int /\ L \in Int
  BY <1>1
<1>4. /\ u \in Seq(C) /\ Len(u) = IF k + 1 <= L THEN L - (k + 1) + 1 ELSE 0
      /\ \A i \in 1 .. (L - (k + 1) + 1) : u[i] = text[(k + 1) + i - 1]
  BY <1>2, <1>3, SubSeqProperties
<1>5. Len(u) = L - k
  BY <1>1, <1>4
<1>6. ASSUME NEW n \in 1 .. (L - k)
      PROVE  u[n] = text[n + k] /\ SubSeq(u, n, L - k) = SubSeq(text, n + k, L)
  <2>1. n \in 1 .. (L - (k + 1) + 1) /\ (k + 1) + n - 1 = n + k
    BY <1>1
  <2>2. u[n] = text[n + k]
    BY <1>4, <2>1
  <2>3. /\ k + 1 \in 1 .. L /\ L \in 1 .. L /\ n \in 1 .. (L - (k + 1) + 1)
        /\ L - k \in 1 .. (L - (k + 1) + 1)
        /\ (k + 1) + n - 1 = n + k /\ (k + 1) + (L - k) - 1 = L
    BY <1>1
  <2>4. SubSeq(SubSeq(text, k + 1, L), n, L - k)
        = SubSeq(text, (k + 1) + n - 1, (k + 1) + (L - k) - 1)
    BY <2>3, SubSeqOfSubSeq DEF L
  <2> QED
    BY <2>2, <2>3, <2>4
<1> QED
  BY <1>4, <1>5, <1>6 DEF L

(* The step and the next place of a replacement. *)
LEMMA ReplaceGoesOn ==
  ASSUME NEW C, NEW text \in Seq(C), NEW from \in Seq(C), Len(from) >= 1
  PROVE  /\ GoesOn(Len(text), Len(text) + Len(from), NextOf(text, from))
         /\ Len(text) \in Nat /\ Len(text) + Len(from) \in Nat
         /\ Len(text) < Len(text) + Len(from)
<1>1. Len(text) \in Nat /\ Len(from) \in Nat
  OBVIOUS
<1>2. ASSUME NEW n \in 1 .. Len(text)
      PROVE  /\ NextOf(text, from)[n] \in Nat /\ n < NextOf(text, from)[n]
             /\ NextOf(text, from)[n] <= Len(text) + Len(from)
  <2>1. NextOf(text, from)[n] \in {n + Len(from), n + 1}
    BY DEF NextOf
  <2> QED
    BY <1>1, <2>1
<1> QED
  BY <1>1, <1>2 DEF GoesOn

(* The function Replace is defined by. *)
LEMMA ReplaceIs ==
  ASSUME NEW C, NEW text \in Seq(C), NEW from \in Seq(C), Len(from) >= 1, NEW to
  PROVE  \E r : Replaces(r, text, from, to) /\ Replace(text, from, to) = r[1]
<1> DEFINE L == Len(text)
           M == Len(text) + Len(from)
           Body(r, n) == IF n > Len(text) THEN <<>>
                         ELSE IF IsPrefix(from, SubSeq(text, n, Len(text)))
                         THEN to \o r[n + Len(from)]
                         ELSE <<text[n]>> \o r[n + 1]
           Good(r) == r = [n \in 1 .. (Len(text) + Len(from)) |-> Body(r, n)]
<1>1. Replace(text, from, to) = (CHOOSE r : Good(r))[1]
  BY DEF Replace
<1>2. L \in Nat /\ M \in Nat
  BY ReplaceGoesOn
<1>3. ASSUME NEW r, NEW n \in 1 .. M
      PROVE  Body(r, n) = Visit(r, L, StepOf(text, from, to), NextOf(text, from), n)
  <2>1. CASE n > L
    BY <2>1 DEF Visit
  <2>2. CASE ~ (n > L)
    <3>1. n \in 1 .. L
      BY <1>2, <2>2
    <3>2. CASE IsPrefix(from, SubSeq(text, n, Len(text)))
      <4>1. StepOf(text, from, to)[n] = to /\ NextOf(text, from)[n] = n + Len(from)
        BY <3>1, <3>2 DEF StepOf, NextOf
      <4> QED
        BY <2>2, <3>2, <4>1 DEF Visit
    <3>3. CASE ~ IsPrefix(from, SubSeq(text, n, Len(text)))
      <4>1. StepOf(text, from, to)[n] = <<text[n]>> /\ NextOf(text, from)[n] = n + 1
        BY <3>1, <3>3 DEF StepOf, NextOf
      <4> QED
        BY <2>2, <3>3, <4>1 DEF Visit
    <3> QED
      BY <3>2, <3>3
  <2> QED
    BY <2>1, <2>2
<1> HIDE DEF Body
<1>4. ASSUME NEW r PROVE Good(r) <=> Replaces(r, text, from, to)
  <2>1. [n \in 1 .. M |-> Body(r, n)]
        = [n \in 1 .. M |-> Visit(r, L, StepOf(text, from, to), NextOf(text, from), n)]
    BY <1>3, Zenon
  <2> QED
    BY <2>1, Zenon DEF Replaces, RunsFrom
<1>5. \E r : Replaces(r, text, from, to)
  BY ReplaceGoesOn, SomeRun DEF Replaces
<1> HIDE DEF Good
<1>6. Good(CHOOSE r : Good(r))
  BY <1>4, <1>5
<1> QED
  BY <1>1, <1>4, <1>6

(* What the function has from k + 1 on is the rest of the text, replaced.  *)
LEMMA ReplacesRest ==
  ASSUME NEW C, NEW text \in Seq(C), NEW from \in Seq(C), Len(from) >= 1, NEW to,
         NEW r, Replaces(r, text, from, to), NEW k \in 0 .. Len(text)
  PROVE  r[k + 1] = Replace(SubSeq(text, k + 1, Len(text)), from, to)
<1> DEFINE L == Len(text)
           M == Len(text) + Len(from)
           u == SubSeq(text, k + 1, Len(text))
           step == StepOf(text, from, to)
           nxt == NextOf(text, from)
           step2 == StepOf(u, from, to)
           nxt2 == NextOf(u, from)
<1>1. /\ u \in Seq(C) /\ Len(u) = L - k
      /\ \A n \in 1 .. (L - k) : /\ u[n] = text[n + k]
                                 /\ SubSeq(u, n, L - k) = SubSeq(text, n + k, L)
  BY EndOfText
<1>2. GoesOn(L, M, nxt) /\ L \in Nat /\ M \in Nat /\ L < M
  BY ReplaceGoesOn
<1>3. Len(from) \in Nat /\ k \in Nat /\ k <= L /\ k \in 0 .. L
  OBVIOUS
<1> HIDE DEF u, L
<1>4. PICK q : Replaces(q, u, from, to) /\ Replace(u, from, to) = q[1]
  BY <1>1, ReplaceIs
<1>5. Len(u) + Len(from) = M - k
  BY <1>1, <1>2, <1>3 DEF L
<1>6. RunsFrom(q, 1, Len(u), Len(u) + Len(from), step2, nxt2)
  BY <1>4 DEF Replaces
<1>7. RunsFrom(r, 1, L, M, step, nxt)
  BY DEF Replaces, L
<1>8. ASSUME NEW n \in 1 .. (L - k)
      PROVE  step2[n] = step[n + k] /\ nxt2[n] = nxt[n + k] - k
  <2>1. n + k \in 1 .. L /\ n \in 1 .. Len(u)
    BY <1>1, <1>2, <1>3
  <2>2. step2[n] = IF IsPrefix(from, SubSeq(text, n + k, L)) THEN to ELSE <<text[n + k]>>
    BY <1>1, <2>1 DEF StepOf
  <2>3. step[n + k] = IF IsPrefix(from, SubSeq(text, n + k, L)) THEN to ELSE <<text[n + k]>>
    BY <2>1 DEF StepOf, L
  <2>4. nxt2[n] = IF IsPrefix(from, SubSeq(text, n + k, L)) THEN n + Len(from) ELSE n + 1
    BY <1>1, <2>1 DEF NextOf
  <2>5. nxt[n + k] = IF IsPrefix(from, SubSeq(text, n + k, L))
                     THEN (n + k) + Len(from) ELSE (n + k) + 1
    BY <2>1 DEF NextOf, L
  <2>6. /\ n + Len(from) = ((n + k) + Len(from)) - k
        /\ n + 1 = ((n + k) + 1) - k
    BY <1>3
  <2> QED
    BY <2>2, <2>3, <2>4, <2>5, <2>6
<1> HIDE DEF step, nxt, step2, nxt2, M
<1>9. Shifted(step2, nxt2, step, nxt, k, L)
  BY <1>8 DEF Shifted
<1>10. \A n \in 1 .. (Len(u) + Len(from)) : q[n] = r[n + k]
  <2> DEFINE L2 == Len(u)
             M2 == Len(u) + Len(from)
  <2>1. L2 = L - k /\ M2 = M - k
    BY <1>1, <1>5
  <2>2. RunsFrom(q, 1, L2, M2, step2, nxt2)
    BY <1>6
  <2>3. GoesOn(L, M, nxt) /\ L < M
    BY <1>2
  <2>4. k \in 0 .. L
    BY <1>3
  <2> HIDE DEF L2, M2
  <2>5. \A n \in 1 .. M2 : q[n] = r[n + k]
    BY <1>7, <1>9, <2>1, <2>2, <2>3, <2>4, RunsAgree
  <2> QED
    BY <2>5 DEF M2
<1>11. 1 \in 1 .. (Len(u) + Len(from)) /\ 1 + k = k + 1
  BY <1>2, <1>3, <1>5
<1>12. q[1] = r[k + 1]
  BY <1>10, <1>11
<1> QED
  BY <1>4, <1>12 DEF u

(* Replacing in a text that is not empty. *)
LEMMA ReplaceFirst ==
  ASSUME NEW C, NEW text \in Seq(C), NEW from \in Seq(C), Len(from) >= 1, NEW to,
         text # <<>>
  PROVE  /\ IsPrefix(from, text) =>
              Replace(text, from, to)
              = to \o Replace(SubSeq(text, Len(from) + 1, Len(text)), from, to)
         /\ ~ IsPrefix(from, text) =>
              Replace(text, from, to) = <<text[1]>> \o Replace(Tail(text), from, to)
<1>1. PICK r : Replaces(r, text, from, to) /\ Replace(text, from, to) = r[1]
  BY ReplaceIs
<1>2. Len(text) \in Nat /\ Len(text) >= 1 /\ Len(from) \in Nat
  OBVIOUS
<1>3. SubSeq(text, 1, Len(text)) = text
  BY SubSeqFull
<1>4. 1 \in 1 .. Len(text) /\ 1 \in 1 .. (Len(text) + Len(from)) /\ ~ (1 > Len(text))
  BY <1>2
<1>5. r[1] = StepOf(text, from, to)[1] \o r[NextOf(text, from)[1]]
  BY <1>1, <1>4 DEF Replaces, RunsFrom, Visit
<1>6. ASSUME IsPrefix(from, text)
      PROVE  r[1] = to \o Replace(SubSeq(text, Len(from) + 1, Len(text)), from, to)
  <2>1. StepOf(text, from, to)[1] = to /\ NextOf(text, from)[1] = 1 + Len(from)
    BY <1>3, <1>4, <1>6 DEF StepOf, NextOf
  <2>2. Len(from) <= Len(text)
    BY <1>6 DEF IsPrefix
  <2>3. Len(from) \in 0 .. Len(text) /\ 1 + Len(from) = Len(from) + 1
    BY <1>2, <2>2
  <2>4. r[Len(from) + 1] = Replace(SubSeq(text, Len(from) + 1, Len(text)), from, to)
    BY <1>1, <2>3, ReplacesRest
  <2> QED
    BY <1>5, <2>1, <2>3, <2>4
<1>7. ASSUME ~ IsPrefix(from, text)
      PROVE  r[1] = <<text[1]>> \o Replace(Tail(text), from, to)
  <2>1. StepOf(text, from, to)[1] = <<text[1]>> /\ NextOf(text, from)[1] = 1 + 1
    BY <1>3, <1>4, <1>7 DEF StepOf, NextOf
  <2>2. r[1 + 1] = Replace(SubSeq(text, 1 + 1, Len(text)), from, to)
    <3>1. 1 \in 0 .. Len(text)
      BY <1>2
    <3> QED
      BY <1>1, <3>1, ReplacesRest
  <2>3. Tail(text) = SubSeq(text, 1 + 1, Len(text))
    <3>1. Tail(text) = SubSeq(text, 2, Len(text))
      BY TailIsSubSeq
    <3>2. 2 = 1 + 1
      OBVIOUS
    <3> QED
      BY <3>1, <3>2
  <2> QED
    BY <1>5, <2>1, <2>2, <2>3
<1> QED
  BY <1>1, <1>6, <1>7

(* Nothing is replaced in no text. *)
LEMMA ReplaceNothing ==
  ASSUME NEW C, NEW from \in Seq(C), Len(from) >= 1, NEW to
  PROVE  Replace(<<>>, from, to) = <<>>
<1>1. <<>> \in Seq(C) /\ Len(<<>>) = 0
  OBVIOUS
<1>2. PICK r : Replaces(r, <<>>, from, to) /\ Replace(<<>>, from, to) = r[1]
  BY <1>1, ReplaceIs
<1>3. 1 \in 1 .. (Len(<<>>) + Len(from)) /\ 1 > Len(<<>>)
  BY <1>1
<1>4. r[1] = Visit(r, Len(<<>>), StepOf(<<>>, from, to), NextOf(<<>>, from), 1)
  BY <1>2, <1>3, Zenon DEF Replaces, RunsFrom
<1> QED
  BY <1>2, <1>3, <1>4 DEF Visit
-----------------------------------------------------------------------------
(* Texts, one character after the other. *)

(* A character in front of a text. *)
LEMMA ConsText ==
  ASSUME NEW C, NEW c \in C, NEW t \in Seq(C)
  PROVE  /\ <<c>> \o t \in Seq(C) /\ <<c>> \o t # <<>> /\ (<<c>> \o t)[1] = c
         /\ Tail(<<c>> \o t) = t /\ Len(<<c>> \o t) = Len(t) + 1
         /\ \A i \in 1 .. Len(t) : (<<c>> \o t)[i + 1] = t[i]
<1> DEFINE s == <<c>> \o t
<1>1. <<c>> \in Seq(C) /\ Len(<<c>>) = 1 /\ <<c>>[1] = c
  OBVIOUS
<1>2. /\ s \in Seq(C) /\ Len(s) = 1 + Len(t)
      /\ \A i \in 1 .. 1 + Len(t) : s[i] = IF i <= 1 THEN <<c>>[i] ELSE t[i - 1]
  BY <1>1, ConcatProperties
<1>3. Len(t) \in Nat
  OBVIOUS
<1> HIDE DEF s
<1>4. Len(s) = Len(t) + 1
  BY <1>2, <1>3
<1>5. s # <<>>
  BY <1>3, <1>4
<1>6. 1 \in 1 .. 1 + Len(t) /\ 1 <= 1
  BY <1>3
<1>7. s[1] = c
  BY <1>1, <1>2, <1>6
<1>8. /\ Tail(s) \in Seq(C) /\ Len(Tail(s)) = Len(s) - 1
      /\ \A i \in 1 .. Len(Tail(s)) : Tail(s)[i] = s[i + 1]
  BY <1>2, <1>5, HeadTailProperties
<1>9. Len(Tail(s)) = Len(t)
  BY <1>3, <1>4, <1>8
<1>10. ASSUME NEW i \in 1 .. Len(t) PROVE s[i + 1] = t[i]
  <2>1. i + 1 \in 1 .. 1 + Len(t) /\ ~ (i + 1 <= 1) /\ (i + 1) - 1 = i
    BY <1>3
  <2> QED
    BY <1>2, <2>1
<1>11. Tail(s) = t
  <2>1. IsList(Tail(s)) /\ IsList(t)
    BY <1>8, ListIn
  <2> QED
    BY <1>8, <1>9, <1>10, <2>1, SameLists
<1> QED
  BY <1>2, <1>4, <1>5, <1>7, <1>10, <1>11 DEF s

(* Every other text starts with one. *)
LEMMA TextIsCons ==
  ASSUME NEW C, NEW s \in Seq(C), s # <<>>
  PROVE  /\ s[1] \in C /\ Tail(s) \in Seq(C) /\ s = <<s[1]>> \o Tail(s)
         /\ Len(s) \in Nat /\ Len(Tail(s)) \in Nat /\ Len(s) = Len(Tail(s)) + 1
<1>1. /\ Head(s) \in C /\ Tail(s) \in Seq(C) /\ Len(Tail(s)) = Len(s) - 1
      /\ \A i \in 1 .. Len(Tail(s)) : Tail(s)[i] = s[i + 1]
  BY HeadTailProperties
<1>2. Len(s) \in Nat /\ Len(s) >= 1 /\ Head(s) = s[1]
  OBVIOUS
<1> DEFINE r == <<s[1]>> \o Tail(s)
<1>3. s[1] \in C
  BY <1>1, <1>2
<1>4. /\ r \in Seq(C) /\ r[1] = s[1] /\ Len(r) = Len(Tail(s)) + 1
      /\ \A i \in 1 .. Len(Tail(s)) : r[i + 1] = Tail(s)[i]
  BY <1>1, <1>3, ConsText
<1> HIDE DEF r
<1>5. Len(r) = Len(s)
  BY <1>1, <1>2, <1>4
<1>6. ASSUME NEW i \in 1 .. Len(s) PROVE s[i] = r[i]
  <2>1. CASE i = 1
    BY <1>4, <2>1
  <2>2. CASE i # 1
    <3>1. i - 1 \in 1 .. Len(Tail(s)) /\ (i - 1) + 1 = i
      BY <1>1, <1>2, <2>2
    <3> QED
      BY <1>1, <1>4, <3>1
  <2> QED
    BY <2>1, <2>2
<1>7. s = r
  BY <1>4, <1>5, <1>6, ListIn, SameLists
<1>8. Len(Tail(s)) \in Nat /\ Len(s) = Len(Tail(s)) + 1
  BY <1>1, <1>2
<1> QED
  BY <1>1, <1>2, <1>3, <1>7, <1>8 DEF r

(* What holds of no text and of each text with one more in front holds of *)
(* all.                                                                   *)
LEMMA AllTexts ==
  ASSUME NEW C, NEW T, <<>> \in T,
         \A t \in Seq(C) : \A c \in C : t \in T => <<c>> \o t \in T
  PROVE  \A t \in Seq(C) : t \in T
<1> DEFINE Bad == {n \in Nat : \E t \in Seq(C) : Len(t) = n /\ t \notin T}
<1>1. Bad = {}
  <2> SUFFICES ASSUME Bad # {} PROVE FALSE
    OBVIOUS
  <2>1. Bad \subseteq Nat
    OBVIOUS
  <2> HIDE DEF Bad
  <2>2. PICK n \in Bad : \A m \in Bad : n <= m
    BY <2>1, LeastNumber
  <2>3. PICK t \in Seq(C) : Len(t) = n /\ t \notin T
    BY DEF Bad
  <2>4. t # <<>>
    BY <2>3
  <2>5. /\ t[1] \in C /\ Tail(t) \in Seq(C) /\ t = <<t[1]>> \o Tail(t)
        /\ Len(Tail(t)) \in Nat /\ n = Len(Tail(t)) + 1
    BY <2>3, <2>4, TextIsCons
  <2>6. Tail(t) \in T
    <3> SUFFICES ASSUME Tail(t) \notin T PROVE FALSE
      OBVIOUS
    <3>1. Len(Tail(t)) \in Bad
      BY <2>5 DEF Bad
    <3> QED
      BY <2>2, <2>5, <3>1
  <2> QED
    BY <2>3, <2>5, <2>6
<1>2. \A t \in Seq(C) : Len(t) \in Nat
  OBVIOUS
<1> QED
  BY <1>1, <1>2

(* What a prefix is made of. *)
LEMMA PrefixStarts ==
  ASSUME NEW C, NEW from \in Seq(C), NEW s \in Seq(C), IsPrefix(from, s)
  PROVE  \A i \in 1 .. Len(from) : s[i] = from[i]
<1>1. Len(from) \in Nat /\ Len(s) \in Nat /\ Len(from) <= Len(s)
  BY DEF IsPrefix
<1>2. SubSeq(from, 1, Len(from)) = SubSeq(s, 1, Len(from))
  BY DEF IsPrefix
<1>3. Len(from) \in 0 .. Len(from) /\ Len(from) \in 0 .. Len(s)
  BY <1>1
<1>4. \A i \in 1 .. Len(from) : SubSeq(from, 1, Len(from))[i] = from[i]
  BY <1>3, ListIn, StartOfList
<1>5. \A i \in 1 .. Len(from) : SubSeq(s, 1, Len(from))[i] = s[i]
  BY <1>3, ListIn, StartOfList
<1> QED
  BY <1>2, <1>4, <1>5

(* A text that does not start with the pattern keeps its first character. *)
LEMMA ReplaceSkips ==
  ASSUME NEW C, NEW from \in Seq(C), Len(from) >= 1, NEW to,
         NEW s \in Seq(C), s # <<>>, ~ IsPrefix(from, s)
  PROVE  Replace(s, from, to) = <<s[1]>> \o Replace(Tail(s), from, to)
BY ReplaceFirst

(* The same, of a character put in front of a text. *)
LEMMA ReplaceKeeps ==
  ASSUME NEW C, NEW from \in Seq(C), Len(from) >= 1, NEW to,
         NEW c \in C, NEW t \in Seq(C), NEW s, s = <<c>> \o t, ~ IsPrefix(from, s)
  PROVE  Replace(s, from, to) = <<c>> \o Replace(t, from, to)
<1>1. s \in Seq(C) /\ s # <<>> /\ s[1] = c /\ Tail(s) = t
  BY ConsText
<1>2. Replace(s, from, to) = <<s[1]>> \o Replace(Tail(s), from, to)
  BY <1>1, ReplaceSkips
<1> QED
  BY <1>1, <1>2

(* What comes after the first of two texts is the second. *)
LEMMA RestOfConcat ==
  ASSUME NEW C, NEW from \in Seq(C), NEW t \in Seq(C)
  PROVE  /\ Len(from) \in Nat /\ Len(from \o t) = Len(from) + Len(t)
         /\ SubSeq(from \o t, Len(from) + 1, Len(from \o t)) = t
<1> DEFINE s == from \o t
<1>1. s \in Seq(C) /\ Len(s) = Len(from) + Len(t)
  BY ConcatProperties
<1>2. Len(from) \in Nat /\ Len(t) \in Nat
  OBVIOUS
<1>5. SubSeq(s, Len(from) + 1, Len(s)) = t
  <2>1. CASE t = <<>>
    <3>1. Len(t) = 0
      BY <2>1
    <3>2. Len(from) + 1 \in Int /\ Len(s) \in Int /\ Len(s) < Len(from) + 1
      BY <1>1, <1>2, <3>1
    <3> HIDE DEF s
    <3> QED
      BY <2>1, <3>2, SubSeqEmpty
  <2>2. CASE t # <<>>
    <3>1. Len(t) >= 1
      BY <1>2, <2>2
    <3>2. /\ Len(from) + 1 \in Len(from) + 1 .. Len(from) + Len(t)
          /\ Len(from) + Len(t) \in Len(from) + 1 .. Len(from) + Len(t)
          /\ (Len(from) + 1) - Len(from) = 1
          /\ (Len(from) + Len(t)) - Len(from) = Len(t)
      BY <1>2, <3>1
    <3>3. SubSeq(s, Len(from) + 1, Len(from) + Len(t))
          = SubSeq(t, (Len(from) + 1) - Len(from), (Len(from) + Len(t)) - Len(from))
      BY <3>2, SubSeqOfConcat2
    <3>4. SubSeq(t, 1, Len(t)) = t
      BY SubSeqFull
    <3> HIDE DEF s
    <3> QED
      BY <1>1, <3>2, <3>3, <3>4
  <2> QED
    BY <2>1, <2>2
<1> QED
  BY <1>1, <1>2, <1>5

(* What is found is replaced. *)
LEMMA ReplaceFound ==
  ASSUME NEW C, NEW from \in Seq(C), Len(from) >= 1, NEW to, NEW t \in Seq(C)
  PROVE  Replace(from \o t, from, to) = to \o Replace(t, from, to)
<1> DEFINE s == from \o t
<1>1. s \in Seq(C) /\ Len(s) = Len(from) + Len(t)
  BY ConcatProperties
<1>2. Len(from) \in Nat /\ Len(t) \in Nat /\ Len(from) >= 1
  OBVIOUS
<1>3. 1 \in 1 .. Len(from) /\ Len(from) \in 1 .. Len(from)
  BY <1>2
<1>4. SubSeq(s, 1, Len(from)) = SubSeq(from, 1, Len(from))
  BY <1>3, SubSeqOfConcat1
<1>5. SubSeq(s, Len(from) + 1, Len(s)) = t
  BY RestOfConcat
<1> HIDE DEF s
<1>6. Len(from) <= Len(s) /\ Len(s) # 0
  BY <1>1, <1>2
<1>7. IsPrefix(from, s) /\ s # <<>>
  BY <1>4, <1>6 DEF IsPrefix
<1>8. Replace(s, from, to)
      = to \o Replace(SubSeq(s, Len(from) + 1, Len(s)), from, to)
  BY <1>1, <1>7, ReplaceFirst
<1> QED
  BY <1>5, <1>8 DEF s
-----------------------------------------------------------------------------
(* Escaping. *)

\* An alphabet with the separators and what their codes are made of.
Alphabet(C) == {"%", ";", "=", "|", "2", "3", "5", "7", "B", "C", "D"} \subseteq C

\* A text after the first k passes of escaping, and what becomes of a character.
Part(t, k) ==
  CASE k = 0 -> t
    [] k = 1 -> EscapeOne(t, 1)
    [] k = 2 -> EscapeOne(EscapeOne(t, 1), 2)
    [] k = 3 -> EscapeOne(EscapeOne(EscapeOne(t, 1), 2), 3)
    [] k = 4 -> EscapeOne(EscapeOne(EscapeOne(EscapeOne(t, 1), 2), 3), 4)

Image(c, k) ==
  IF c = "%" /\ k >= 1 THEN Codes[1]
  ELSE IF c = ";" /\ k >= 2 THEN Codes[2]
  ELSE IF c = "=" /\ k >= 3 THEN Codes[3]
  ELSE IF c = "|" /\ k >= 4 THEN Codes[4]
  ELSE <<c>>

PartGoesOver(C, c, t) ==
  \A n \in 0 .. 4 : /\ Part(t, n) \in Seq(C)
                    /\ Part(<<c>> \o t, n) = Image(c, n) \o Part(t, n)

(* Separators and codes. *)
LEMMA CodesAre ==
  /\ Separators[1] = "%" /\ Separators[2] = ";" /\ Separators[3] = "="
  /\ Separators[4] = "|"
  /\ \A k \in 1 .. 4 : Len(Codes[k]) = 3 /\ Codes[k][1] = "%"
  /\ Codes[1][2] = "2" /\ Codes[1][3] = "5"
  /\ Codes[2][2] = "3" /\ Codes[2][3] = "B"
  /\ Codes[3][2] = "3" /\ Codes[3][3] = "D"
  /\ Codes[4][2] = "7" /\ Codes[4][3] = "C"
<1>1. /\ Codes[1] = <<"%", "2", "5">> /\ Codes[2] = <<"%", "3", "B">>
      /\ Codes[3] = <<"%", "3", "D">> /\ Codes[4] = <<"%", "7", "C">>
  BY DEF Codes
<1>2. ASSUME NEW k \in 1 .. 4 PROVE Len(Codes[k]) = 3 /\ Codes[k][1] = "%"
  <2>1. k = 1 \/ k = 2 \/ k = 3 \/ k = 4
    OBVIOUS
  <2> QED
    BY <1>1, <2>1
<1> QED
  BY <1>1, <1>2 DEF Separators

(* A text with a character is not empty. *)
LEMMA NotEmpty ==
  ASSUME NEW C, NEW w \in Seq(C), Len(w) >= 1
  PROVE  w # <<>>
OBVIOUS

(* Three characters are a text. *)
LEMMA ThreeIn ==
  ASSUME NEW C, NEW a \in C, NEW b \in C, NEW c \in C
  PROVE  <<a, b, c>> \in Seq(C) /\ Len(<<a, b, c>>) = 3
OBVIOUS

(* One character is a text. *)
LEMMA OneIn ==
  ASSUME NEW C, NEW a \in C
  PROVE  <<a>> \in Seq(C) /\ Len(<<a>>) = 1 /\ <<a>>[1] = a
OBVIOUS

(* They are of the alphabet. *)
LEMMA CodesIn ==
  ASSUME NEW C, Alphabet(C), NEW k \in 1 .. 4
  PROVE  Separators[k] \in C /\ Codes[k] \in Seq(C) /\ Len(Codes[k]) >= 1
<1>1. k = 1 \/ k = 2 \/ k = 3 \/ k = 4
  OBVIOUS
<1>2. /\ "%" \in C /\ ";" \in C /\ "=" \in C /\ "|" \in C /\ "2" \in C /\ "3" \in C
      /\ "5" \in C /\ "7" \in C /\ "B" \in C /\ "C" \in C /\ "D" \in C
  BY DEF Alphabet
<1>3. Separators[k] \in C
  BY <1>1, <1>2, CodesAre
<1>4. <<"%", "2", "5">> \in Seq(C)
  BY <1>2, ThreeIn
<1>5. <<"%", "3", "B">> \in Seq(C)
  BY <1>2, ThreeIn
<1>6. <<"%", "3", "D">> \in Seq(C)
  BY <1>2, ThreeIn
<1>7. <<"%", "7", "C">> \in Seq(C)
  BY <1>2, ThreeIn
<1>9. /\ Codes[1] = <<"%", "2", "5">> /\ Codes[2] = <<"%", "3", "B">>
      /\ Codes[3] = <<"%", "3", "D">> /\ Codes[4] = <<"%", "7", "C">>
  BY DEF Codes
<1>10. Codes[k] \in Seq(C)
  BY <1>1, <1>4, <1>5, <1>6, <1>7, <1>9
<1>8. Len(Codes[k]) = 3
  BY CodesAre
<1> QED
  BY <1>3, <1>8, <1>10

(* Three characters in front of a text. *)
LEMMA ThreeInFront ==
  ASSUME NEW C, NEW w \in Seq(C), Len(w) = 3, NEW t \in Seq(C)
  PROVE  /\ w[1] \in C /\ w[2] \in C /\ w[3] \in C
         /\ w \o t = <<w[1]>> \o (<<w[2]>> \o (<<w[3]>> \o t))
<1> DEFINE v == Tail(w)
           u == Tail(v)
<1>0. Len(w) >= 1
  OBVIOUS
<1>1. w # <<>>
  BY <1>0, NotEmpty
<1>20. /\ w[1] \in C /\ Tail(w) \in Seq(C) /\ w = <<w[1]>> \o Tail(w)
       /\ Len(w) \in Nat /\ Len(Tail(w)) \in Nat /\ Len(w) = Len(Tail(w)) + 1
  BY <1>1, TextIsCons
<1>2. /\ w[1] \in C /\ v \in Seq(C) /\ w = <<w[1]>> \o v /\ Len(v) = 2
  <2> QED
    BY <1>20
<1>3. v[1] = w[2] /\ v[2] = w[3]
  <2>1. /\ v \in Seq(C) /\ Len(v) = Len(w) - 1
        /\ \A i \in 1 .. Len(v) : v[i] = w[i + 1]
    BY <1>1, HeadTailProperties
  <2>2. 1 \in 1 .. Len(v) /\ 2 \in 1 .. Len(v) /\ 1 + 1 = 2 /\ 2 + 1 = 3
    BY <1>2
  <2> HIDE DEF v
  <2> QED
    BY <2>1, <2>2
<1> HIDE DEF v
<1>30. Len(v) >= 1
  BY <1>2
<1>4. v # <<>>
  BY <1>2, <1>30, NotEmpty
<1>50. /\ v[1] \in C /\ Tail(v) \in Seq(C) /\ v = <<v[1]>> \o Tail(v)
       /\ Len(v) \in Nat /\ Len(Tail(v)) \in Nat /\ Len(v) = Len(Tail(v)) + 1
  BY <1>2, <1>4, TextIsCons
<1>5. v[1] \in C /\ u \in Seq(C) /\ v = <<v[1]>> \o u /\ Len(u) = 1
  BY <1>2, <1>50
<1>6. u[1] = v[2]
  <2>1. \A i \in 1 .. Len(u) : u[i] = v[i + 1]
    BY <1>2, <1>4, HeadTailProperties
  <2>2. 1 \in 1 .. Len(u) /\ 1 + 1 = 2
    BY <1>5
  <2> HIDE DEF u
  <2> QED
    BY <2>1, <2>2
<1> HIDE DEF u
<1>7. u = <<u[1]>> /\ u[1] \in C
  BY <1>5
<1>8. <<w[1]>> \in Seq(C) /\ <<v[1]>> \in Seq(C)
  BY <1>2, <1>5
<1>9. (<<w[1]>> \o v) \o t = <<w[1]>> \o (v \o t)
  BY <1>2, <1>8, ConcatAssociative
<1>10. (<<v[1]>> \o u) \o t = <<v[1]>> \o (u \o t)
  BY <1>5, <1>8, ConcatAssociative
<1>11. w \o t = <<w[1]>> \o (<<v[1]>> \o (u \o t))
  BY <1>2, <1>5, <1>9, <1>10
<1>12. w \o t = <<w[1]>> \o (<<v[1]>> \o (<<u[1]>> \o t))
  BY <1>7, <1>11
<1> QED
  BY <1>2, <1>3, <1>5, <1>6, <1>7, <1>12

(* One pass over one character. *)
LEMMA EscapeChar ==
  ASSUME NEW C, Alphabet(C), NEW k \in 1 .. 4, NEW c \in C, NEW t \in Seq(C)
  PROVE  EscapeOne(<<c>> \o t, k)
         = (IF c = Separators[k] THEN Codes[k] ELSE <<c>>) \o EscapeOne(t, k)
<1> DEFINE sep == Separators[k]
           from == <<Separators[k]>>
           to == Codes[k]
<1>1. sep \in C
  BY CodesIn
<1>2. from \in Seq(C) /\ Len(from) = 1 /\ from[1] = sep /\ Len(from) >= 1
  BY <1>1
<1>3. CASE c = sep
  <2>1. from \o t = <<c>> \o t
    BY <1>3
  <2>2. from \in Seq(C) /\ Len(from) >= 1
    BY <1>2
  <2> HIDE DEF from, to
  <2>3. Replace(from \o t, from, to) = to \o Replace(t, from, to)
    BY <2>2, ReplaceFound
  <2> QED
    BY <1>3, <2>1, <2>3 DEF EscapeOne, from, to
<1>4. CASE c # sep
  <2>1. <<c>> \o t \in Seq(C) /\ (<<c>> \o t)[1] = c
    BY ConsText
  <2>2. ~ IsPrefix(from, <<c>> \o t)
    <3> SUFFICES ASSUME IsPrefix(from, <<c>> \o t) PROVE FALSE
      OBVIOUS
    <3> HIDE DEF from, sep
    <3>1. \A i \in 1 .. Len(from) : (<<c>> \o t)[i] = from[i]
      BY <1>2, <2>1, PrefixStarts
    <3>2. 1 \in 1 .. Len(from)
      BY <1>2
    <3> QED
      BY <1>2, <1>4, <2>1, <3>1, <3>2
  <2>3. from \in Seq(C) /\ Len(from) >= 1
    BY <1>2
  <2> DEFINE s == <<c>> \o t
  <2> HIDE DEF from, to, s
  <2>4. Replace(s, from, to) = <<c>> \o Replace(t, from, to)
    <3>1. s = <<c>> \o t
      BY DEF s
    <3>2. ~ IsPrefix(from, s)
      BY <2>2 DEF s
    <3> QED
      BY <2>3, <3>1, <3>2, ReplaceKeeps
  <2> QED
    BY <1>4, <2>4 DEF EscapeOne, from, to, s
<1> QED
  BY <1>3, <1>4

(* The result is a text. *)
LEMMA EscapeText ==
  ASSUME NEW C, Alphabet(C), NEW k \in 1 .. 4
  PROVE  /\ EscapeOne(<<>>, k) = <<>>
         /\ \A t \in Seq(C) : EscapeOne(t, k) \in Seq(C)
<1> DEFINE T == {t \in Seq(C) : EscapeOne(t, k) \in Seq(C)}
<1>1. Separators[k] \in C /\ Codes[k] \in Seq(C)
  BY CodesIn
<1>2. EscapeOne(<<>>, k) = <<>>
  <2>1. <<Separators[k]>> \in Seq(C) /\ Len(<<Separators[k]>>) >= 1
    BY <1>1
  <2> QED
    BY <2>1, ReplaceNothing DEF EscapeOne
<1>3. <<>> \in T
  <2>1. <<>> \in Seq(C)
    OBVIOUS
  <2> QED
    BY <1>2, <2>1
<1>4. ASSUME NEW t \in Seq(C), NEW c \in C, t \in T
      PROVE  <<c>> \o t \in T
  <2>1. <<c>> \o t \in Seq(C)
    BY ConsText
  <2>2. EscapeOne(<<c>> \o t, k)
        = (IF c = Separators[k] THEN Codes[k] ELSE <<c>>) \o EscapeOne(t, k)
    BY EscapeChar
  <2>3. (IF c = Separators[k] THEN Codes[k] ELSE <<c>>) \in Seq(C)
    BY <1>1
  <2>4. EscapeOne(t, k) \in Seq(C)
    BY <1>4
  <2>5. EscapeOne(<<c>> \o t, k) \in Seq(C)
    BY <2>2, <2>3, <2>4, ConcatProperties
  <2> QED
    BY <2>1, <2>5
<1> HIDE DEF T
<1>5. \A t \in Seq(C) : t \in T
  BY <1>3, <1>4, AllTexts
<1> QED
  BY <1>2, <1>5 DEF T

(* Over three that are no separators. *)
LEMMA EscapeThree ==
  ASSUME NEW C, Alphabet(C), NEW k \in 1 .. 4, NEW t \in Seq(C),
         NEW w \in Seq(C), Len(w) = 3,
         w[1] # Separators[k], w[2] # Separators[k], w[3] # Separators[k]
  PROVE  EscapeOne(w \o t, k) = w \o EscapeOne(t, k)
<1>1. /\ w[1] \in C /\ w[2] \in C /\ w[3] \in C
      /\ w \o t = <<w[1]>> \o (<<w[2]>> \o (<<w[3]>> \o t))
  BY ThreeInFront
<1>2. <<w[3]>> \o t \in Seq(C) /\ <<w[2]>> \o (<<w[3]>> \o t) \in Seq(C)
  BY <1>1, ConsText
<1>3. EscapeOne(<<w[3]>> \o t, k) = <<w[3]>> \o EscapeOne(t, k)
  BY <1>1, EscapeChar
<1>4. EscapeOne(<<w[2]>> \o (<<w[3]>> \o t), k) = <<w[2]>> \o EscapeOne(<<w[3]>> \o t, k)
  BY <1>1, <1>2, EscapeChar
<1>5. EscapeOne(<<w[1]>> \o (<<w[2]>> \o (<<w[3]>> \o t)), k)
      = <<w[1]>> \o EscapeOne(<<w[2]>> \o (<<w[3]>> \o t), k)
  BY <1>1, <1>2, EscapeChar
<1>6. EscapeOne(t, k) \in Seq(C)
  BY EscapeText
<1>7. w \o EscapeOne(t, k) = <<w[1]>> \o (<<w[2]>> \o (<<w[3]>> \o EscapeOne(t, k)))
  BY <1>6, ThreeInFront
<1> QED
  BY <1>1, <1>3, <1>4, <1>5, <1>7

(* What the passes make of a character. *)
LEMMA Images ==
  ASSUME NEW c
  PROVE  /\ Image(c, 0) = <<c>>
         /\ Image(c, 1) = IF c = "%" THEN Codes[1] ELSE <<c>>
         /\ Image(c, 2) = IF c = "%" THEN Codes[1] ELSE IF c = ";" THEN Codes[2] ELSE <<c>>
         /\ Image(c, 3) = IF c = "%" THEN Codes[1] ELSE IF c = ";" THEN Codes[2]
                          ELSE IF c = "=" THEN Codes[3] ELSE <<c>>
         /\ Image(c, 4) = IF c = "%" THEN Codes[1] ELSE IF c = ";" THEN Codes[2]
                          ELSE IF c = "=" THEN Codes[3]
                          ELSE IF c = "|" THEN Codes[4] ELSE <<c>>
BY DEF Image

(* A character is either still itself, and this pass turns it into its code *)
(* when it is the separator of the pass, or it has become a code already.   *)
LEMMA ImageCases ==
  ASSUME NEW c, NEW k \in 1 .. 4
  PROVE  \/ /\ Image(c, k - 1) = <<c>>
            /\ Image(c, k) = IF c = Separators[k] THEN Codes[k] ELSE <<c>>
            /\ c = Separators[k] \/ c # "%"
         \/ \E j \in 1 .. 3 : /\ j < k /\ Image(c, k - 1) = Codes[j]
                              /\ Image(c, k) = Codes[j] /\ c = Separators[j]
<1> DEFINE Same(n, m) == /\ Image(c, m) = <<c>>
                         /\ Image(c, n) = IF c = Separators[n] THEN Codes[n] ELSE <<c>>
                         /\ c = Separators[n] \/ c # "%"
           Done(n, m, j) == /\ Image(c, m) = Codes[j]
                            /\ Image(c, n) = Codes[j] /\ c = Separators[j]
<1>1. /\ Separators[1] = "%" /\ Separators[2] = ";" /\ Separators[3] = "="
      /\ Separators[4] = "|"
  BY CodesAre
<1>2. Same(1, 0)
  BY <1>1, Images
<1>3. Same(2, 1) \/ Done(2, 1, 1)
  BY <1>1, Images
<1>4. Same(3, 2) \/ Done(3, 2, 1) \/ Done(3, 2, 2)
  BY <1>1, Images
<1>5. Same(4, 3) \/ Done(4, 3, 1) \/ Done(4, 3, 2) \/ Done(4, 3, 3)
  BY <1>1, Images
<1> HIDE DEF Same, Done
<1>6. \/ k = 1 /\ k - 1 = 0
      \/ k = 2 /\ k - 1 = 1
      \/ k = 3 /\ k - 1 = 2
      \/ k = 4 /\ k - 1 = 3
  OBVIOUS
<1>7. \/ Same(k, k - 1)
      \/ 1 < k /\ Done(k, k - 1, 1)
      \/ 2 < k /\ Done(k, k - 1, 2)
      \/ 3 < k /\ Done(k, k - 1, 3)
  BY <1>2, <1>3, <1>4, <1>5, <1>6
<1>8. Same(k, k - 1) \/ \E j \in 1 .. 3 : j < k /\ Done(k, k - 1, j)
  <2>1. 1 \in 1 .. 3 /\ 2 \in 1 .. 3 /\ 3 \in 1 .. 3
    OBVIOUS
  <2> QED
    BY <1>7, <2>1
<1> QED
  BY <1>8, Zenon DEF Same, Done

(* The later characters of a code. *)
LEMMA CodeChars ==
  ASSUME NEW j \in 1 .. 4
  PROVE  /\ Codes[j][1] = "%" /\ Codes[j][2] \in {"2", "3", "7"}
         /\ Codes[j][3] \in {"5", "B", "C", "D"}
<1>1. j = 1 \/ j = 2 \/ j = 3 \/ j = 4
  OBVIOUS
<1>2. CASE j = 1
  BY <1>2 DEF Codes
<1>3. CASE j = 2
  BY <1>3 DEF Codes
<1>4. CASE j = 3
  BY <1>4 DEF Codes
<1>5. CASE j = 4
  BY <1>5 DEF Codes
<1> QED
  BY <1>1, <1>2, <1>3, <1>4, <1>5

(* One pass over what the earlier ones made of a character. *)
LEMMA EscapeImage ==
  ASSUME NEW C, Alphabet(C), NEW k \in 1 .. 4, NEW c \in C, NEW t \in Seq(C)
  PROVE  EscapeOne(Image(c, k - 1) \o t, k) = Image(c, k) \o EscapeOne(t, k)
<1>1. CASE /\ Image(c, k - 1) = <<c>>
           /\ Image(c, k) = IF c = Separators[k] THEN Codes[k] ELSE <<c>>
  <2>1. EscapeOne(<<c>> \o t, k)
        = (IF c = Separators[k] THEN Codes[k] ELSE <<c>>) \o EscapeOne(t, k)
    BY EscapeChar
  <2> QED
    BY <1>1, <2>1
<1>2. ASSUME NEW j \in 1 .. 3, j < k,
             Image(c, k - 1) = Codes[j], Image(c, k) = Codes[j]
      PROVE  EscapeOne(Image(c, k - 1) \o t, k) = Image(c, k) \o EscapeOne(t, k)
  <2>1. j \in 1 .. 4 /\ (k = 2 \/ k = 3 \/ k = 4)
    BY <1>2
  <2> DEFINE w == Codes[j]
  <2>2. w \in Seq(C) /\ Len(w) = 3
    BY <2>1, CodesIn, CodesAre
  <2>3. Separators[k] \in {";", "=", "|"}
    BY <2>1, CodesAre
  <2>4. w[1] = "%" /\ w[2] \in {"2", "3", "7"} /\ w[3] \in {"5", "B", "C", "D"}
    BY <2>1, CodeChars
  <2> HIDE DEF w
  <2>5. w[1] # Separators[k] /\ w[2] # Separators[k] /\ w[3] # Separators[k]
    BY <2>3, <2>4
  <2>6. EscapeOne(w \o t, k) = w \o EscapeOne(t, k)
    BY <2>2, <2>5, EscapeThree
  <2> QED
    BY <1>2, <2>6 DEF w
<1> QED
  BY <1>1, <1>2, ImageCases

(* Each pass goes over what the one before has left. *)
LEMMA PartStep ==
  ASSUME NEW t, NEW k \in 1 .. 4
  PROVE  Part(t, k) = EscapeOne(Part(t, k - 1), k)
<1>1. /\ Part(t, 0) = t /\ Part(t, 1) = EscapeOne(t, 1)
      /\ Part(t, 2) = EscapeOne(EscapeOne(t, 1), 2)
      /\ Part(t, 3) = EscapeOne(EscapeOne(EscapeOne(t, 1), 2), 3)
      /\ Part(t, 4) = EscapeOne(EscapeOne(EscapeOne(EscapeOne(t, 1), 2), 3), 4)
  BY DEF Part
<1>2. k = 1 \/ k = 2 \/ k = 3 \/ k = 4
  OBVIOUS
<1>3. 1 - 1 = 0 /\ 2 - 1 = 1 /\ 3 - 1 = 2 /\ 4 - 1 = 3
  OBVIOUS
<1> QED
  BY <1>1, <1>2, <1>3

(* Escaping goes character by character. *)
LEMMA PartCons ==
  ASSUME NEW C, Alphabet(C), NEW c \in C, NEW t \in Seq(C)
  PROVE  PartGoesOver(C, c, t)
<1> DEFINE Goal(k) == /\ Part(t, k) \in Seq(C)
                      /\ Part(<<c>> \o t, k) = Image(c, k) \o Part(t, k)
<1>1. Goal(0)
  BY DEF Part, Image
<1>2. ASSUME NEW k \in 1 .. 4, Goal(k - 1) PROVE Goal(k)
  <2>1. Part(t, k) = EscapeOne(Part(t, k - 1), k)
    BY PartStep
  <2>2. Part(<<c>> \o t, k) = EscapeOne(Part(<<c>> \o t, k - 1), k)
    BY PartStep
  <2>3. EscapeOne(Part(t, k - 1), k) \in Seq(C)
    BY <1>2, EscapeText
  <2>4. EscapeOne(Image(c, k - 1) \o Part(t, k - 1), k)
        = Image(c, k) \o EscapeOne(Part(t, k - 1), k)
    BY <1>2, EscapeImage
  <2> QED
    BY <1>2, <2>1, <2>2, <2>3, <2>4
<1> HIDE DEF Goal
<1>3. 1 - 1 = 0 /\ 2 - 1 = 1 /\ 3 - 1 = 2 /\ 4 - 1 = 3
  OBVIOUS
<1>4. Goal(1)
  BY <1>1, <1>2, <1>3
<1>5. Goal(2)
  BY <1>2, <1>3, <1>4
<1>6. Goal(3)
  BY <1>2, <1>3, <1>5
<1>7. Goal(4)
  BY <1>2, <1>3, <1>6
<1>8. ASSUME NEW k \in 0 .. 4 PROVE Goal(k)
  <2>1. k = 0 \/ k = 1 \/ k = 2 \/ k = 3 \/ k = 4
    OBVIOUS
  <2> QED
    BY <1>1, <1>4, <1>5, <1>6, <1>7, <2>1
<1> QED
  BY <1>8 DEF Goal, PartGoesOver

(* Codes of two separators differ after the escape character. *)
LEMMA CodesDiffer ==
  ASSUME NEW j \in 1 .. 4, NEW k \in 1 .. 4, j # k
  PROVE  Codes[j][2] # Codes[k][2] \/ Codes[j][3] # Codes[k][3]
<1>1. /\ Codes[1] = <<"%", "2", "5">> /\ Codes[2] = <<"%", "3", "B">>
      /\ Codes[3] = <<"%", "3", "D">> /\ Codes[4] = <<"%", "7", "C">>
  BY DEF Codes
<1>2. /\ Codes[1][2] = "2" /\ Codes[2][2] = "3" /\ Codes[3][2] = "3" /\ Codes[4][2] = "7"
      /\ Codes[1][3] = "5" /\ Codes[2][3] = "B" /\ Codes[3][3] = "D" /\ Codes[4][3] = "C"
  BY <1>1
<1>3. (j = 1 \/ j = 2 \/ j = 3 \/ j = 4) /\ (k = 1 \/ k = 2 \/ k = 3 \/ k = 4)
  OBVIOUS
<1> QED
  BY <1>2, <1>3

(* A code at the start of a text. *)
LEMMA CodeStarts ==
  ASSUME NEW C, Alphabet(C), NEW k \in 1 .. 4, NEW s \in Seq(C), IsPrefix(Codes[k], s)
  PROVE  s[1] = "%" /\ s[2] = Codes[k][2] /\ s[3] = Codes[k][3]
<1> DEFINE w == Codes[k]
<1>1. w \in Seq(C) /\ Len(w) = 3 /\ w[1] = "%"
  BY CodesIn, CodesAre
<1>2. IsPrefix(w, s)
  OBVIOUS
<1> HIDE DEF w
<1>3. \A i \in 1 .. Len(w) : s[i] = w[i]
  BY <1>1, <1>2, PrefixStarts
<1>4. 1 \in 1 .. Len(w) /\ 2 \in 1 .. Len(w) /\ 3 \in 1 .. Len(w)
  BY <1>1
<1> QED
  BY <1>1, <1>3, <1>4 DEF w

(* Unescaping over a character that starts no code. *)
LEMMA UnescapeChar ==
  ASSUME NEW C, Alphabet(C), NEW k \in 1 .. 4, NEW c \in C, NEW t \in Seq(C),
         NEW s, s = <<c>> \o t, ~ IsPrefix(Codes[k], s)
  PROVE  UnescapeOne(s, k) = <<c>> \o UnescapeOne(t, k)
<1> DEFINE from == Codes[k]
           to == <<Separators[k]>>
<1>1. from \in Seq(C) /\ Len(from) >= 1
  BY CodesIn
<1>2. ~ IsPrefix(from, s)
  OBVIOUS
<1> HIDE DEF from, to
<1>3. Replace(s, from, to) = <<c>> \o Replace(t, from, to)
  BY <1>1, <1>2, ReplaceKeeps
<1> QED
  BY <1>3 DEF UnescapeOne, from, to

(* Over one that is not the escape character. *)
LEMMA UnescapePlain ==
  ASSUME NEW C, Alphabet(C), NEW k \in 1 .. 4, NEW c \in C, NEW t \in Seq(C), c # "%"
  PROVE  UnescapeOne(<<c>> \o t, k) = <<c>> \o UnescapeOne(t, k)
<1> DEFINE s == <<c>> \o t
<1>1. s \in Seq(C) /\ s[1] = c
  BY ConsText
<1>2. s = <<c>> \o t
  OBVIOUS
<1> HIDE DEF s
<1>3. ~ IsPrefix(Codes[k], s)
  BY <1>1, CodeStarts
<1>4. UnescapeOne(s, k) = <<c>> \o UnescapeOne(t, k)
  BY <1>2, <1>3, UnescapeChar
<1> QED
  BY <1>4 DEF s

(* Over the code of another separator. *)
LEMMA UnescapeOther ==
  ASSUME NEW C, Alphabet(C), NEW k \in 1 .. 4, NEW j \in 1 .. 4, j # k,
         NEW t \in Seq(C), UnescapeOne(t, k) \in Seq(C)
  PROVE  UnescapeOne(Codes[j] \o t, k) = Codes[j] \o UnescapeOne(t, k)
<1> DEFINE w == Codes[j]
           t3 == <<w[3]>> \o t
           t2 == <<w[2]>> \o t3
           t1 == <<w[1]>> \o t2
           u == UnescapeOne(t, k)
<1>1. w \in Seq(C) /\ Len(w) = 3
  BY CodesIn, CodesAre
<1>2. w[1] = "%" /\ w[2] # "%" /\ w[3] # "%"
  <2>1. w[1] = "%" /\ w[2] \in {"2", "3", "7"} /\ w[3] \in {"5", "B", "C", "D"}
    BY CodeChars
  <2> HIDE DEF w
  <2> QED
    BY <2>1
<1>3. w[2] # Codes[k][2] \/ w[3] # Codes[k][3]
  BY CodesDiffer
<1>4. UnescapeOne(t, k) \in Seq(C)
  OBVIOUS
<1> HIDE DEF w, u
<1>5. /\ w[1] \in C /\ w[2] \in C /\ w[3] \in C
      /\ w \o t = <<w[1]>> \o (<<w[2]>> \o (<<w[3]>> \o t))
  BY <1>1, ThreeInFront
<1>6. w \o u = <<w[1]>> \o (<<w[2]>> \o (<<w[3]>> \o u))
  <2>1. u \in Seq(C)
    BY <1>4 DEF u
  <2> QED
    BY <1>1, <2>1, ThreeInFront
<1>7. t3 \in Seq(C) /\ t3[1] = w[3]
  BY <1>5, ConsText
<1>8. /\ t2 \in Seq(C) /\ t2[1] = w[2] /\ \A i \in 1 .. Len(t3) : t2[i + 1] = t3[i]
      /\ Len(t3) = Len(t) + 1
  BY <1>5, <1>7, ConsText
<1>9. /\ t1 \in Seq(C) /\ \A i \in 1 .. Len(t2) : t1[i + 1] = t2[i]
      /\ Len(t2) = Len(t3) + 1
  <2> HIDE DEF t3
  <2>1. t2 \in Seq(C)
    BY <1>8
  <2>2. Len(t2) = Len(t3) + 1
    BY <1>5, <1>7, ConsText
  <2> HIDE DEF t2
  <2>3. t1 \in Seq(C) /\ \A i \in 1 .. Len(t2) : t1[i + 1] = t2[i]
    BY <1>5, <2>1, ConsText
  <2> QED
    BY <2>2, <2>3
<1>10. UnescapeOne(t3, k) = <<w[3]>> \o u
  BY <1>2, <1>5, UnescapePlain DEF u
<1>11. UnescapeOne(t2, k) = <<w[2]>> \o UnescapeOne(t3, k)
  <2> HIDE DEF t3
  <2> QED
    BY <1>2, <1>5, <1>7, UnescapePlain
<1>12. UnescapeOne(t1, k) = <<w[1]>> \o UnescapeOne(t2, k)
  <2>1. t1 = <<w[1]>> \o t2
    OBVIOUS
  <2> HIDE DEF t1, t2, t3
  <2>2. t1[2] = w[2] /\ t1[3] = w[3]
    <3>1. 1 \in 1 .. Len(t2) /\ 2 \in 1 .. Len(t2) /\ 1 \in 1 .. Len(t3)
      BY <1>8, <1>9
    <3>2. t1[1 + 1] = t2[1] /\ t1[2 + 1] = t2[2] /\ t2[1 + 1] = t3[1]
      BY <1>8, <1>9, <3>1
    <3>3. 1 + 1 = 2 /\ 2 + 1 = 3
      OBVIOUS
    <3> QED
      BY <1>7, <1>8, <3>2, <3>3
  <2>3. ~ IsPrefix(Codes[k], t1)
    BY <1>3, <1>9, <2>2, CodeStarts
  <2> QED
    BY <1>5, <1>8, <2>1, <2>3, UnescapeChar
<1> QED
  BY <1>5, <1>6, <1>10, <1>11, <1>12 DEF w, u

(* One pass back over what became of a character. *)
LEMMA UnescapeImage ==
  ASSUME NEW C, Alphabet(C), NEW k \in 1 .. 4, NEW c \in C, NEW t \in Seq(C),
         UnescapeOne(t, k) \in Seq(C)
  PROVE  UnescapeOne(Image(c, k) \o t, k) = Image(c, k - 1) \o UnescapeOne(t, k)
<1>1. CASE /\ Image(c, k - 1) = <<c>> /\ Image(c, k) = Codes[k] /\ c = Separators[k]
  <2> DEFINE from == Codes[k]
             to == <<Separators[k]>>
  <2>1. from \in Seq(C) /\ Len(from) >= 1
    BY CodesIn
  <2> HIDE DEF from, to
  <2>2. Replace(from \o t, from, to) = to \o Replace(t, from, to)
    BY <2>1, ReplaceFound
  <2> QED
    BY <1>1, <2>2 DEF from, to, UnescapeOne
<1>2. CASE Image(c, k - 1) = <<c>> /\ Image(c, k) = <<c>> /\ c # "%"
  <2>1. UnescapeOne(<<c>> \o t, k) = <<c>> \o UnescapeOne(t, k)
    BY <1>2, UnescapePlain
  <2> QED
    BY <1>2, <2>1
<1>3. ASSUME NEW j \in 1 .. 3, j < k, Image(c, k - 1) = Codes[j], Image(c, k) = Codes[j]
      PROVE  UnescapeOne(Image(c, k) \o t, k) = Image(c, k - 1) \o UnescapeOne(t, k)
  <2>1. j \in 1 .. 4 /\ j # k
    BY <1>3
  <2>2. UnescapeOne(Codes[j] \o t, k) = Codes[j] \o UnescapeOne(t, k)
    BY <2>1, UnescapeOther
  <2> QED
    BY <1>3, <2>2
<1> QED
  BY <1>1, <1>2, <1>3, ImageCases

(* Each pass of unescaping takes back its pass of escaping. *)
LEMMA UnescapePart ==
  ASSUME NEW C, Alphabet(C), NEW k \in 1 .. 4
  PROVE  \A t \in Seq(C) : UnescapeOne(Part(t, k), k) = Part(t, k - 1)
<1> DEFINE T == {t \in Seq(C) : UnescapeOne(Part(t, k), k) = Part(t, k - 1)}
<1>1. <<>> \in T
  <2>1. /\ EscapeOne(<<>>, 1) = <<>> /\ EscapeOne(<<>>, 2) = <<>>
        /\ EscapeOne(<<>>, 3) = <<>> /\ EscapeOne(<<>>, 4) = <<>>
    BY EscapeText
  <2>2. k - 1 \in 0 .. 4 /\ k \in 0 .. 4
    OBVIOUS
  <2>3. ASSUME NEW n \in 0 .. 4 PROVE Part(<<>>, n) = <<>>
    <3>1. n = 0 \/ n = 1 \/ n = 2 \/ n = 3 \/ n = 4
      OBVIOUS
    <3> QED
      BY <2>1, <3>1 DEF Part
  <2>4. UnescapeOne(<<>>, k) = <<>>
    <3>1. Codes[k] \in Seq(C) /\ Len(Codes[k]) >= 1
      BY CodesIn
    <3> QED
      BY <3>1, ReplaceNothing DEF UnescapeOne
  <2>5. <<>> \in Seq(C)
    OBVIOUS
  <2> QED
    BY <2>2, <2>3, <2>4, <2>5
<1>2. ASSUME NEW t \in Seq(C), NEW c \in C, t \in T
      PROVE  <<c>> \o t \in T
  <2>1. k \in 0 .. 4 /\ k - 1 \in 0 .. 4
    OBVIOUS
  <2>00. PartGoesOver(C, c, t)
    BY PartCons
  <2>0. \A n \in 0 .. 4 : /\ Part(t, n) \in Seq(C)
                          /\ Part(<<c>> \o t, n) = Image(c, n) \o Part(t, n)
    BY <2>00 DEF PartGoesOver
  <2>2. /\ Part(t, k) \in Seq(C) /\ Part(<<c>> \o t, k) = Image(c, k) \o Part(t, k)
    BY <2>0, <2>1
  <2>3. /\ Part(t, k - 1) \in Seq(C)
        /\ Part(<<c>> \o t, k - 1) = Image(c, k - 1) \o Part(t, k - 1)
    BY <2>0, <2>1
  <2>4. UnescapeOne(Part(t, k), k) = Part(t, k - 1)
    BY <1>2
  <2>5. UnescapeOne(Part(t, k), k) \in Seq(C)
    BY <2>3, <2>4
  <2>6. UnescapeOne(Image(c, k) \o Part(t, k), k)
        = Image(c, k - 1) \o UnescapeOne(Part(t, k), k)
    BY <2>2, <2>5, UnescapeImage
  <2>7. <<c>> \o t \in Seq(C)
    BY ConsText
  <2> QED
    BY <2>2, <2>3, <2>4, <2>6, <2>7
<1> HIDE DEF T
<1>3. \A t \in Seq(C) : t \in T
  BY <1>1, <1>2, AllTexts
<1> QED
  BY <1>3 DEF T

(* Unescaping takes escaping back, for every text, the separators, their codes *)
(* and what looks like one among it.                                           *)
THEOREM UnescapeEscape ==
  ASSUME NEW C, Alphabet(C), NEW t \in Seq(C)
  PROVE  Unescape(Escape(t)) = t
<1>1. 1 - 1 = 0 /\ 2 - 1 = 1 /\ 3 - 1 = 2 /\ 4 - 1 = 3
  OBVIOUS
<1>2. 1 \in 1 .. 4 /\ 2 \in 1 .. 4 /\ 3 \in 1 .. 4 /\ 4 \in 1 .. 4
  OBVIOUS
<1>3. UnescapeOne(Part(t, 4), 4) = Part(t, 4 - 1)
  BY <1>2, UnescapePart
<1>4. UnescapeOne(Part(t, 3), 3) = Part(t, 3 - 1)
  BY <1>2, UnescapePart
<1>5. UnescapeOne(Part(t, 2), 2) = Part(t, 2 - 1)
  BY <1>2, UnescapePart
<1>6. UnescapeOne(Part(t, 1), 1) = Part(t, 1 - 1)
  BY <1>2, UnescapePart
<1>7. Part(t, 0) = t /\ Escape(t) = Part(t, 4)
  BY DEF Part, Escape
<1> QED
  BY <1>1, <1>3, <1>4, <1>5, <1>6, <1>7 DEF Unescape

(* What is escaped has none of the separators that the tokens are cut at. *)
LEMMA EscapeFree ==
  ASSUME NEW C, Alphabet(C)
  PROVE  \A t \in Seq(C) : Escape(t) \in Seq(C \ {";", "=", "|"})
<1> DEFINE D == C \ {";", "=", "|"}
           T == {t \in Seq(C) : Part(t, 4) \in Seq(D)}
<1>1. <<>> \in T
  <2>1. /\ EscapeOne(<<>>, 1) = <<>> /\ EscapeOne(<<>>, 2) = <<>>
        /\ EscapeOne(<<>>, 3) = <<>> /\ EscapeOne(<<>>, 4) = <<>>
    BY EscapeText
  <2>2. Part(<<>>, 4) = <<>>
    BY <2>1 DEF Part
  <2>3. <<>> \in Seq(C) /\ <<>> \in Seq(D)
    OBVIOUS
  <2> QED
    BY <2>2, <2>3
<1>2. ASSUME NEW c \in C PROVE Image(c, 4) \in Seq(D)
  <2>1. /\ "%" \in D /\ "2" \in D /\ "3" \in D
        /\ "5" \in D /\ "7" \in D /\ "B" \in D /\ "C" \in D /\ "D" \in D
    BY DEF Alphabet
  <2>2. Image(c, 4) = IF c = "%" THEN Codes[1] ELSE IF c = ";" THEN Codes[2]
                      ELSE IF c = "=" THEN Codes[3]
                      ELSE IF c = "|" THEN Codes[4] ELSE <<c>>
    BY Images
  <2>3. /\ Codes[1] = <<"%", "2", "5">> /\ Codes[2] = <<"%", "3", "B">>
        /\ Codes[3] = <<"%", "3", "D">> /\ Codes[4] = <<"%", "7", "C">>
    BY DEF Codes
  <2>4. c \notin {";", "=", "|"} => <<c>> \in Seq(D)
    <3> SUFFICES ASSUME c \notin {";", "=", "|"} PROVE <<c>> \in Seq(D)
      OBVIOUS
    <3>1. c \in D
      OBVIOUS
    <3> QED
      BY <3>1, OneIn
  <2> HIDE DEF D
  <2>5. <<"%", "2", "5">> \in Seq(D)
    BY <2>1, ThreeIn
  <2>6. <<"%", "3", "B">> \in Seq(D)
    BY <2>1, ThreeIn
  <2>7. <<"%", "3", "D">> \in Seq(D)
    BY <2>1, ThreeIn
  <2>8. <<"%", "7", "C">> \in Seq(D)
    BY <2>1, ThreeIn
  <2> QED
    BY <2>2, <2>3, <2>4, <2>5, <2>6, <2>7, <2>8
<1>3. ASSUME NEW t \in Seq(C), NEW c \in C, t \in T
      PROVE  <<c>> \o t \in T
  <2>1. 4 \in 0 .. 4
    OBVIOUS
  <2>00. PartGoesOver(C, c, t)
    BY PartCons
  <2>0. \A n \in 0 .. 4 : /\ Part(t, n) \in Seq(C)
                          /\ Part(<<c>> \o t, n) = Image(c, n) \o Part(t, n)
    BY <2>00 DEF PartGoesOver
  <2>2. Part(<<c>> \o t, 4) = Image(c, 4) \o Part(t, 4)
    BY <2>0, <2>1
  <2>3. Image(c, 4) \in Seq(D) /\ Part(t, 4) \in Seq(D)
    BY <1>2, <1>3
  <2>4. Image(c, 4) \o Part(t, 4) \in Seq(D)
    BY <2>3, ConcatProperties
  <2>5. <<c>> \o t \in Seq(C)
    BY ConsText
  <2> QED
    BY <2>2, <2>4, <2>5
<1> HIDE DEF T
<1>4. \A t \in Seq(C) : t \in T
  BY <1>1, <1>3, AllTexts
<1>5. ASSUME NEW t \in Seq(C) PROVE Escape(t) = Part(t, 4)
  BY DEF Part, Escape
<1> QED
  BY <1>4, <1>5 DEF T
-----------------------------------------------------------------------------
(* Cutting at a separator. *)

\* The pieces of the first characters, one by one.
CutTo(r, m, text, sep) ==
  r = [n \in 0 .. m |-> IF n = 0 THEN << <<>> >> ELSE WithChar(r[n - 1], text[n], sep)]

IsCut(r, m, text, sep) ==
  /\ r[0] = << <<>> >>
  /\ \A n \in 1 .. m : r[n] = WithChar(r[n - 1], text[n], sep)

(* What there is of it so far. *)
LEMMA CutAt ==
  ASSUME NEW r, NEW m \in Nat, NEW text, NEW sep, CutTo(r, m, text, sep)
  PROVE  IsCut(r, m, text, sep)
<1>1. 0 \in 0 .. m
  OBVIOUS
<1>2. \A n \in 0 .. m : r[n] = IF n = 0 THEN << <<>> >> ELSE WithChar(r[n - 1], text[n], sep)
  <2> DEFINE e(n) == IF n = 0 THEN << <<>> >> ELSE WithChar(r[n - 1], text[n], sep)
  <2>1. r = [n \in 0 .. m |-> e(n)]
    BY DEF CutTo
  <2> HIDE DEF e
  <2>2. \A n \in 0 .. m : r[n] = e(n)
    BY <2>1
  <2> QED
    BY <2>2 DEF e
<1>3. ASSUME NEW n \in 1 .. m PROVE r[n] = WithChar(r[n - 1], text[n], sep)
  <2>1. n \in 0 .. m /\ n # 0
    OBVIOUS
  <2> QED
    BY <1>2, <2>1
<1> QED
  BY <1>1, <1>2, <1>3 DEF IsCut

(* It can be carried on. *)
LEMMA CutExists ==
  ASSUME NEW text, NEW sep
  PROVE  \A m \in Nat : \E r : CutTo(r, m, text, sep)
<1> DEFINE Bad == {m \in Nat : ~ \E r : CutTo(r, m, text, sep)}
<1>1. Bad = {}
  <2> SUFFICES ASSUME Bad # {} PROVE FALSE
    OBVIOUS
  <2>1. Bad \subseteq Nat
    OBVIOUS
  <2> HIDE DEF Bad
  <2>2. PICK m \in Bad : \A j \in Bad : m <= j
    BY <2>1, LeastNumber
  <2>3. m \in Nat /\ ~ \E r : CutTo(r, m, text, sep)
    BY <2>2 DEF Bad
  <2>4. CASE m = 0
    <3> DEFINE r == [n \in 0 .. 0 |-> << <<>> >>]
    <3>1. r = [n \in 0 .. 0 |-> IF n = 0 THEN << <<>> >> ELSE WithChar(r[n - 1], text[n], sep)]
      <4>1. \A n \in 0 .. 0 : n = 0
        OBVIOUS
      <4> QED
        BY <4>1
    <3>2. CutTo(r, 0, text, sep)
      BY <3>1 DEF CutTo
    <3> QED
      BY <2>3, <2>4, <3>2
  <2>5. CASE m # 0
    <3>1. m - 1 \in Nat /\ ~ (m <= m - 1)
      BY <2>3, <2>5
    <3>2. m - 1 \notin Bad
      BY <2>2, <3>1
    <3>3. PICK r : CutTo(r, m - 1, text, sep)
      BY <3>1, <3>2 DEF Bad
    <3> DEFINE q == [n \in 0 .. m |-> IF n = m THEN WithChar(r[m - 1], text[m], sep) ELSE r[n]]
               e(n) == IF n = 0 THEN << <<>> >> ELSE WithChar(q[n - 1], text[n], sep)
    <3>4. /\ r[0] = << <<>> >>
          /\ \A n \in 1 .. m - 1 : r[n] = WithChar(r[n - 1], text[n], sep)
      <4>1. IsCut(r, m - 1, text, sep)
        BY <3>1, <3>3, CutAt
      <4> QED
        BY <4>1 DEF IsCut
    <3>5. ASSUME NEW n \in 0 .. m - 1 PROVE q[n] = r[n]
      <4>1. n \in 0 .. m /\ n # m
        BY <2>3
      <4> QED
        BY <4>1
    <3>6. q[m] = WithChar(r[m - 1], text[m], sep)
      <4>1. m \in 0 .. m
        BY <2>3
      <4> QED
        BY <4>1
    <3>7. q = [n \in 0 .. m |-> q[n]]
      OBVIOUS
    <3> HIDE DEF q
    <3>8. ASSUME NEW n \in 0 .. m PROVE q[n] = e(n)
      <4>1. CASE n = 0
        <5>1. 0 \in 0 .. m - 1
          BY <3>1
        <5> QED
          BY <3>4, <3>5, <4>1, <5>1
      <4>2. CASE n # 0 /\ n # m
        <5>1. n \in 1 .. m - 1 /\ n \in 0 .. m - 1 /\ n - 1 \in 0 .. m - 1
          BY <2>3, <4>2
        <5> QED
          BY <3>4, <3>5, <4>2, <5>1
      <4>3. CASE n = m
        <5>1. m - 1 \in 0 .. m - 1
          BY <3>1
        <5>2. q[m - 1] = r[m - 1]
          BY <3>5, <5>1
        <5> QED
          BY <2>5, <3>6, <4>3, <5>2
      <4> QED
        BY <4>1, <4>2, <4>3
    <3> HIDE DEF e
    <3>9. q = [n \in 0 .. m |-> e(n)]
      BY <3>7, <3>8
    <3>10. CutTo(q, m, text, sep)
      BY <3>9 DEF CutTo, e
    <3> QED
      BY <2>3, <3>10
  <2> QED
    BY <2>4, <2>5
<1> QED
  BY <1>1

(* Two texts with the same start are cut the same there. *)
LEMMA CutsAgree ==
  ASSUME NEW k \in Nat, NEW m \in Nat, NEW t, NEW u, NEW sep, NEW r, NEW q,
         CutTo(r, k, t, sep), CutTo(q, m, u, sep), k <= m,
         \A i \in 1 .. k : t[i] = u[i]
  PROVE  r[k] = q[k]
<1> DEFINE Bad == {n \in 0 .. k : r[n] # q[n]}
<1>1. /\ r[0] = << <<>> >>
      /\ \A n \in 1 .. k : r[n] = WithChar(r[n - 1], t[n], sep)
  <2>1. IsCut(r, k, t, sep)
    BY CutAt
  <2> QED
    BY <2>1 DEF IsCut
<1>2. /\ q[0] = << <<>> >>
      /\ \A n \in 1 .. m : q[n] = WithChar(q[n - 1], u[n], sep)
  <2>1. IsCut(q, m, u, sep)
    BY CutAt
  <2> QED
    BY <2>1 DEF IsCut
<1>3. Bad = {}
  <2> SUFFICES ASSUME Bad # {} PROVE FALSE
    OBVIOUS
  <2>1. Bad \subseteq Nat
    OBVIOUS
  <2> HIDE DEF Bad
  <2>2. PICK n \in Bad : \A j \in Bad : n <= j
    BY <2>1, LeastNumber
  <2>3. n \in 0 .. k /\ r[n] # q[n]
    BY <2>2 DEF Bad
  <2>4. n # 0
    BY <1>1, <1>2, <2>3
  <2>5. n \in 1 .. k /\ n \in 1 .. m /\ n - 1 \in 0 .. k /\ ~ (n <= n - 1)
    BY <2>3, <2>4
  <2>6. n - 1 \notin Bad
    BY <2>2, <2>5
  <2>7. r[n - 1] = q[n - 1]
    BY <2>5, <2>6 DEF Bad
  <2>8. t[n] = u[n]
    BY <2>5
  <2>9. r[n] = WithChar(r[n - 1], t[n], sep) /\ q[n] = WithChar(q[n - 1], u[n], sep)
    BY <1>1, <1>2, <2>5
  <2> QED
    BY <2>3, <2>7, <2>8, <2>9
<1>4. k \in 0 .. k
  OBVIOUS
<1> QED
  BY <1>3, <1>4

(* split goes by it. *)
LEMMA PiecesIs ==
  ASSUME NEW text, NEW sep, Len(text) \in Nat
  PROVE  \E r : CutTo(r, Len(text), text, sep) /\ Pieces(text, sep) = r[Len(text)]
<1> DEFINE f == CHOOSE r : CutTo(r, Len(text), text, sep)
<1>1. \E r : CutTo(r, Len(text), text, sep)
  BY CutExists
<1>2. CutTo(f, Len(text), text, sep)
  BY <1>1, Zenon
<1>3. Pieces(text, sep) = f[Len(text)]
  BY DEF Pieces, CutTo
<1> QED
  BY <1>2, <1>3

(* Of a text that grows at its end. *)
LEMMA PiecesMore ==
  ASSUME NEW C, NEW t \in Seq(C), NEW c \in C, NEW sep
  PROVE  Pieces(Append(t, c), sep) = WithChar(Pieces(t, sep), c, sep)
<1> DEFINE u == Append(t, c)
           k == Len(t)
           m == Len(u)
<1>1. /\ k \in Nat /\ m \in Nat /\ m = k + 1 /\ u[m] = c
      /\ \A i \in 1 .. k : t[i] = u[i]
  OBVIOUS
<1> HIDE DEF u
<1>2. PICK r : CutTo(r, k, t, sep) /\ Pieces(t, sep) = r[k]
  BY <1>1, PiecesIs
<1>3. PICK q : CutTo(q, m, u, sep) /\ Pieces(u, sep) = q[m]
  BY <1>1, PiecesIs
<1> HIDE DEF k, m
<1>4. k <= m
  BY <1>1
<1>5. r[k] = q[k]
  BY <1>1, <1>2, <1>3, <1>4, CutsAgree
<1>6. \A n \in 1 .. m : q[n] = WithChar(q[n - 1], u[n], sep)
  <2>1. IsCut(q, m, u, sep)
    BY <1>1, <1>3, CutAt
  <2> QED
    BY <2>1 DEF IsCut
<1>7. m \in 1 .. m /\ m - 1 = k
  BY <1>1
<1>8. q[m] = WithChar(q[k], u[m], sep)
  BY <1>6, <1>7
<1> QED
  BY <1>1, <1>2, <1>3, <1>5, <1>8 DEF u

(* The empty text is one empty piece. *)
LEMMA PiecesOfNone ==
  ASSUME NEW sep
  PROVE  Pieces(<<>>, sep) = << <<>> >>
<1> DEFINE t == <<>>
<1>1. Len(t) = 0 /\ Len(t) \in Nat
  OBVIOUS
<1> HIDE DEF t
<1>2. PICK r : CutTo(r, Len(t), t, sep) /\ Pieces(t, sep) = r[Len(t)]
  BY <1>1, PiecesIs
<1>3. r[0] = << <<>> >>
  <2>1. IsCut(r, Len(t), t, sep)
    BY <1>1, <1>2, CutAt
  <2> QED
    BY <2>1 DEF IsCut
<1> QED
  BY <1>1, <1>2, <1>3 DEF t

(* A text ends with its last character. *)
LEMMA TextIsSnoc ==
  ASSUME NEW C, NEW t \in Seq(C), t # <<>>
  PROVE  \E u \in Seq(C), c \in C : t = Append(u, c) /\ Len(t) = Len(u) + 1
<1> DEFINE m == Len(t)
           u == SubSeq(t, 1, m - 1)
           c == t[m]
<1>1. m \in Nat /\ m >= 1
  OBVIOUS
<1>2. c \in C
  <2>1. m \in 1 .. Len(t)
    BY <1>1
  <2> QED
    BY <2>1
<1>3. u \in Seq(C) /\ Len(u) = m - 1 /\ \A i \in 1 .. m - 1 : u[i] = t[i]
  <2>1. m - 1 \in 0 .. Len(t)
    BY <1>1
  <2> DEFINE p == m - 1
  <2>2. p \in 0 .. Len(t)
    BY <2>1
  <2> HIDE DEF p
  <2>3. /\ SubSeq(t, 1, p) \in Seq(C) /\ Len(SubSeq(t, 1, p)) = p
        /\ \A i \in 1 .. p : SubSeq(t, 1, p)[i] = t[i]
    BY <2>2
  <2> QED
    BY <2>3 DEF p
<1> HIDE DEF u
<1>4. Append(u, c) \in Seq(C) /\ Len(Append(u, c)) = m
  BY <1>1, <1>2, <1>3
<1>5. ASSUME NEW i \in 1 .. m PROVE Append(u, c)[i] = t[i]
  <2>1. CASE i = m
    BY <1>1, <1>3, <2>1
  <2>2. CASE i # m
    <3>1. i \in 1 .. m - 1 /\ i \in 1 .. Len(u)
      BY <1>1, <1>3, <2>2
    <3>2. Append(u, c)[i] = u[i]
      BY <1>3, <3>1
    <3> QED
      BY <1>3, <3>1, <3>2
  <2> QED
    BY <2>1, <2>2
<1> DEFINE v == Append(u, c)
<1>6. v \in Seq(C) /\ Len(v) = Len(t) /\ \A i \in 1 .. Len(t) : v[i] = t[i]
  BY <1>4, <1>5
<1> HIDE DEF v
<1>7. v = t
  BY <1>6, SeqEqual
<1>8. Len(t) = Len(u) + 1
  BY <1>1, <1>3
<1> HIDE DEF c
<1> QED
  BY <1>2, <1>3, <1>7, <1>8 DEF v

(* What holds of no text and of one more character holds of every text. *)
LEMMA AllTextsBack ==
  ASSUME NEW C, NEW T, <<>> \in T,
         \A t \in Seq(C) : \A c \in C : t \in T => Append(t, c) \in T
  PROVE  \A t \in Seq(C) : t \in T
<1> DEFINE Bad == {n \in Nat : \E t \in Seq(C) : Len(t) = n /\ t \notin T}
<1>1. Bad = {}
  <2> SUFFICES ASSUME Bad # {} PROVE FALSE
    OBVIOUS
  <2>1. Bad \subseteq Nat
    OBVIOUS
  <2> HIDE DEF Bad
  <2>2. PICK n \in Bad : \A m \in Bad : n <= m
    BY <2>1, LeastNumber
  <2>3. PICK t \in Seq(C) : Len(t) = n /\ t \notin T
    BY DEF Bad
  <2>4. t # <<>>
    BY <2>3
  <2>5. PICK u \in Seq(C), c \in C : t = Append(u, c) /\ Len(t) = Len(u) + 1
    BY <2>4, TextIsSnoc
  <2>6. u \in T
    <3> SUFFICES ASSUME u \notin T PROVE FALSE
      OBVIOUS
    <3>0. Len(u) \in Nat
      OBVIOUS
    <3>1. Len(u) \in Bad
      BY <3>0 DEF Bad
    <3> QED
      BY <2>2, <2>3, <2>5, <3>0, <3>1
  <2> QED
    BY <2>3, <2>5, <2>6
<1>2. \A t \in Seq(C) : Len(t) \in Nat
  OBVIOUS
<1> QED
  BY <1>1, <1>2

(* One more character keeps pieces pieces. *)
LEMMA WithCharIn ==
  ASSUME NEW C, NEW ps \in Seq(Seq(C)), ps # <<>>, NEW c \in C, NEW sep
  PROVE  WithChar(ps, c, sep) \in Seq(Seq(C)) /\ WithChar(ps, c, sep) # <<>>
<1> DEFINE V == Seq(C)
           e == <<>>
           n == Len(ps)
           w == Append(ps[n], c)
<1>1. n \in 1 .. Len(ps)
  OBVIOUS
<1>2. ps[n] \in V
  BY <1>1
<1>3. w \in V /\ e \in V
  BY <1>2
<1> HIDE DEF V, e, w
<1>4. ps \in Seq(V)
  BY DEF V
<1>5. Append(ps, e) \in Seq(V) /\ Append(ps, e) # <<>>
  BY <1>3, <1>4
<1>6. [ps EXCEPT ![n] = w] \in Seq(V) /\ [ps EXCEPT ![n] = w] # <<>>
  BY <1>1, <1>3, <1>4
<1>7. WithChar(ps, c, sep) = IF c = sep THEN Append(ps, e) ELSE [ps EXCEPT ![n] = w]
  BY DEF WithChar, e, w
<1> QED
  BY <1>5, <1>6, <1>7 DEF V

(* split gives texts, one at least. *)
LEMMA PiecesAreTexts ==
  ASSUME NEW C, NEW sep
  PROVE  \A t \in Seq(C) : Pieces(t, sep) \in Seq(Seq(C)) /\ Pieces(t, sep) # <<>>
<1> DEFINE T == {t \in Seq(C) : Pieces(t, sep) \in Seq(Seq(C)) /\ Pieces(t, sep) # <<>>}
<1>1. <<>> \in T
  <2>1. Pieces(<<>>, sep) = << <<>> >>
    BY PiecesOfNone
  <2>2. <<>> \in Seq(C)
    OBVIOUS
  <2>3. << <<>> >> \in Seq(Seq(C)) /\ << <<>> >> # <<>>
    BY <2>2
  <2> QED
    BY <2>1, <2>2, <2>3
<1>2. ASSUME NEW t \in Seq(C), NEW c \in C, t \in T PROVE Append(t, c) \in T
  <2>1. Pieces(Append(t, c), sep) = WithChar(Pieces(t, sep), c, sep)
    BY PiecesMore
  <2>2. Append(t, c) \in Seq(C)
    OBVIOUS
  <2>3. Pieces(t, sep) \in Seq(Seq(C)) /\ Pieces(t, sep) # <<>>
    BY <1>2
  <2>4. /\ WithChar(Pieces(t, sep), c, sep) \in Seq(Seq(C))
        /\ WithChar(Pieces(t, sep), c, sep) # <<>>
    BY <2>3, WithCharIn
  <2> QED
    BY <2>1, <2>2, <2>4
<1> HIDE DEF T
<1>3. \A t \in Seq(C) : t \in T
  BY <1>1, <1>2, AllTextsBack
<1> QED
  BY <1>3 DEF T

(* A text without the separator is one piece. *)
LEMMA PiecesUncut ==
  ASSUME NEW D, NEW sep, sep \notin D
  PROVE  \A t \in Seq(D) : Pieces(t, sep) = <<t>>
<1> DEFINE T == {t \in Seq(D) : Pieces(t, sep) = <<t>>}
<1>1. <<>> \in T
  <2>1. <<>> \in Seq(D)
    OBVIOUS
  <2> QED
    BY <2>1, PiecesOfNone
<1>2. ASSUME NEW t \in Seq(D), NEW c \in D, t \in T PROVE Append(t, c) \in T
  <2>1. Pieces(Append(t, c), sep) = WithChar(Pieces(t, sep), c, sep)
    BY PiecesMore
  <2>2. Append(t, c) \in Seq(D)
    OBVIOUS
  <2>3. Pieces(t, sep) = <<t>>
    BY <1>2
  <2>4. c # sep
    OBVIOUS
  <2>5. WithChar(<<t>>, c, sep) = <<Append(t, c)>>
    BY <2>4 DEF WithChar
  <2> QED
    BY <2>1, <2>2, <2>3, <2>5
<1> HIDE DEF T
<1>3. \A t \in Seq(D) : t \in T
  BY <1>1, <1>2, AllTextsBack
<1> QED
  BY <1>3 DEF T

(* The last of a list in place of another. *)
LEMMA LastReplaced ==
  ASSUME NEW V, NEW ps \in Seq(V), NEW u \in V, NEW w \in V
  PROVE  [Append(ps, u) EXCEPT ![Len(Append(ps, u))] = w] = Append(ps, w)
<1> DEFINE q == Append(ps, u)
           n == Len(ps) + 1
           y == [q EXCEPT ![n] = w]
           x == Append(ps, w)
<1>1. /\ Len(ps) \in Nat /\ q \in Seq(V) /\ Len(q) = n /\ n \in 1 .. Len(q)
      /\ \A i \in 1 .. Len(ps) : q[i] = ps[i]
  OBVIOUS
<1>2. /\ x \in Seq(V) /\ Len(x) = n /\ x[n] = w
      /\ \A i \in 1 .. Len(ps) : x[i] = ps[i]
  OBVIOUS
<1> HIDE DEF q, x
<1>3. /\ y \in Seq(V) /\ Len(y) = Len(q) /\ y[n] = w
      /\ \A i \in 1 .. Len(q) : i # n => y[i] = q[i]
  <2> HIDE DEF n
  <2> QED
    BY <1>1
<1> HIDE DEF y
<1>4. ASSUME NEW i \in 1 .. Len(y) PROVE y[i] = x[i]
  <2>1. CASE i = n
    BY <1>2, <1>3, <2>1
  <2>2. CASE i # n
    <3>1. i \in 1 .. Len(ps) /\ i \in 1 .. Len(q)
      BY <1>1, <1>3, <2>2
    <3> QED
      BY <1>1, <1>2, <1>3, <2>2, <3>1
  <2> QED
    BY <2>1, <2>2
<1>5. y = x
  <2>1. Len(y) = Len(x)
    BY <1>1, <1>2, <1>3
  <2> QED
    BY <1>2, <1>3, <1>4, <2>1, SeqEqual
<1> QED
  BY <1>1, <1>5 DEF q, x, y

AddsPiece(t, sep, D) ==
  \A u \in Seq(D) : Pieces(Append(t, sep) \o u, sep) = Append(Pieces(t, sep), u)

(* What follows a separator is one more piece. *)
LEMMA PiecesAfter ==
  ASSUME NEW C, NEW t \in Seq(C), NEW sep \in C, NEW D, D \subseteq C, sep \notin D
  PROVE  AddsPiece(t, sep, D)
<1> DEFINE s == Append(t, sep)
           ps == Pieces(t, sep)
           T == {u \in Seq(D) : Pieces(s \o u, sep) = Append(ps, u)}
<1>0. ps \in Seq(Seq(C))
  BY PiecesAreTexts
<1>1. s \in Seq(C)
  OBVIOUS
<1>2. Pieces(s, sep) = Append(ps, <<>>)
  <2>1. Pieces(s, sep) = WithChar(Pieces(t, sep), sep, sep)
    BY PiecesMore
  <2> HIDE DEF ps
  <2>2. WithChar(ps, sep, sep) = Append(ps, <<>>)
    BY DEF WithChar
  <2> QED
    BY <2>1, <2>2 DEF ps
<1> HIDE DEF ps, s
<1>3. <<>> \in T
  <2>1. <<>> \in Seq(D)
    OBVIOUS
  <2>2. s \o <<>> = s
    BY <1>1, ConcatEmptySeq
  <2> QED
    BY <1>2, <2>1, <2>2
<1>4. ASSUME NEW u \in Seq(D), NEW c \in D, u \in T PROVE Append(u, c) \in T
  <2>1. s \o Append(u, c) = Append(s \o u, c)
    <3>1. u \in Seq(C) /\ c \in C
      OBVIOUS
    <3> QED
      BY <1>1, <3>1
  <2>2. s \o u \in Seq(C) /\ c \in C
    <3>1. u \in Seq(C) /\ c \in C
      OBVIOUS
    <3> QED
      BY <1>1, <3>1, ConcatProperties
  <2>3. Pieces(Append(s \o u, c), sep) = WithChar(Pieces(s \o u, sep), c, sep)
    BY <2>2, PiecesMore
  <2>4. Pieces(s \o u, sep) = Append(ps, u)
    BY <1>4
  <2>5. c # sep
    OBVIOUS
  <2>6. WithChar(Append(ps, u), c, sep) = Append(ps, Append(u, c))
    <3> DEFINE V == Seq(C)
               w == Append(u, c)
               q == Append(ps, u)
               x == Append(ps, w)
               y == [q EXCEPT ![Len(q)] = w]
    <3>1. u \in V /\ w \in V
      OBVIOUS
    <3>2. WithChar(q, c, sep) = [q EXCEPT ![Len(q)] = Append(q[Len(q)], c)]
      BY <2>5 DEF WithChar
    <3> HIDE DEF V, w
    <3>3. ps \in Seq(V)
      BY <1>0 DEF V
    <3>4. q \in Seq(V) /\ Len(q) = Len(ps) + 1 /\ q[Len(q)] = u /\ Len(ps) \in Nat
      BY <3>1, <3>3
    <3>5. y = x
      <4>1. [Append(ps, u) EXCEPT ![Len(Append(ps, u))] = w] = Append(ps, w)
        BY <3>1, <3>3, LastReplaced
      <4> QED
        BY <4>1
    <3> HIDE DEF q
    <3>6. WithChar(q, c, sep) = y
      BY <3>2, <3>4 DEF w
    <3> QED
      BY <3>5, <3>6 DEF q, w
  <2>7. Append(u, c) \in Seq(D)
    OBVIOUS
  <2> QED
    BY <2>1, <2>3, <2>4, <2>6, <2>7
<1> HIDE DEF T
<1>5. \A u \in Seq(D) : u \in T
  BY <1>3, <1>4, AllTextsBack
<1> QED
  BY <1>5 DEF T, s, ps, AddsPiece
-----------------------------------------------------------------------------
(* Tokens. *)

\* An alphabet with everything the tokens are made of.
TokenAlphabet(C) ==
  /\ Alphabet(C)
  /\ {"i", "f", "b", "s", "true", "false", "op", "red"} \subseteq C
  /\ Ints \subseteq C /\ Floats \subseteq C

Unseparated(C) == C \ {";", "=", "|"}

\* The values a recorded parameter may have, with the texts among them over C.
IsParam(v, C) ==
  \/ \E n \in Ints : v = ParamValue("i", <<n>>)
  \/ \E bits \in Floats : v = ParamValue("f", <<bits>>)
  \/ \E b \in {"true", "false"} : v = ParamValue("b", <<b>>)
  \/ \E t \in Seq(C) : v = ParamValue("s", t)

(* Numbers are no separators. *)
LEMMA NumbersUnseparated ==
  ASSUME NEW C, TokenAlphabet(C), NEW n, n \in Ints \/ n \in Floats
  PROVE  n \in Unseparated(C)
<1>1. ";" \in ToSet(Separators) /\ "=" \in ToSet(Separators) /\ "|" \in ToSet(Separators)
  <2>1. DOMAIN Separators = 1 .. 4
    BY DEF Separators
  <2>2. Separators[2] = ";" /\ Separators[3] = "=" /\ Separators[4] = "|"
    BY CodesAre
  <2>3. 2 \in DOMAIN Separators /\ 3 \in DOMAIN Separators /\ 4 \in DOMAIN Separators
    BY <2>1
  <2> QED
    BY <2>2, <2>3 DEF ToSet
<1> QED
  BY <1>1, NumbersAreDigits DEF TokenAlphabet, Unseparated

(* A token of one number, boolean or text. *)
LEMMA TaggedIs ==
  ASSUME NEW C, NEW tag \in C, NEW t \in Seq(C)
  PROVE  /\ <<tag>> \o t \in Seq(C) /\ <<tag>> \o t # <<>>
         /\ (<<tag>> \o t)[1] = tag /\ Tail(<<tag>> \o t) = t
BY ConsText

(* What is printed of a value is read back as its canonical form. *)
LEMMA ValueReadBack ==
  ASSUME NEW C, TokenAlphabet(C), NEW v, IsParam(v, C)
  PROVE  /\ ValueToken(v) \in Seq(Unseparated(C))
         /\ ValueFromToken(ValueToken(v)) = Some(Canonical(v))
<1> DEFINE D == Unseparated(C)
<1>1. /\ "i" \in D /\ "f" \in D /\ "b" \in D /\ "s" \in D /\ "true" \in D /\ "false" \in D
  BY DEF TokenAlphabet, Unseparated
<1>2. \A n : n \in Ints \/ n \in Floats => n \in D
  BY NumbersUnseparated
<1> HIDE DEF D
<1>3. ASSUME NEW n \in Ints, v = ParamValue("i", <<n>>)
      PROVE  /\ ValueToken(v) \in Seq(D) /\ ValueFromToken(ValueToken(v)) = Some(Canonical(v))
  <2> DEFINE r == <<n>>
             tok == <<"i">> \o r
  <2>1. r \in Seq(D) /\ Len(r) = 1 /\ r[1] \in Ints
    <3>1. n \in D
      BY <1>2
    <3> QED
      BY <3>1
  <2>2. v.tag = "i" /\ v.val = r /\ v = ParamValue("i", r) /\ Canonical(v) = v
    BY <1>3 DEF ParamValue, Canonical
  <2> HIDE DEF r
  <2>3. tok \in Seq(D) /\ tok # <<>> /\ tok[1] = "i" /\ Tail(tok) = r
    <3>1. "i" \in D /\ r \in Seq(D)
      BY <1>1, <2>1
    <3> QED
      BY <3>1, TaggedIs
  <2>4. ValueToken(v) = tok
    BY <2>2 DEF ValueToken
  <2> HIDE DEF tok
  <2>5. ValueFromToken(tok) = Some(ParamValue("i", r))
    BY <2>1, <2>3 DEF ValueFromToken
  <2> QED
    BY <2>2, <2>3, <2>4, <2>5
<1>4. ASSUME NEW n \in Floats, v = ParamValue("f", <<n>>)
      PROVE  /\ ValueToken(v) \in Seq(D) /\ ValueFromToken(ValueToken(v)) = Some(Canonical(v))
  <2> DEFINE bits == FloatKey(n)
             r == <<bits>>
             tok == <<"f">> \o r
  <2>0. bits \in Floats
    BY FloatsClosed DEF FloatKey
  <2>1. r \in Seq(D) /\ Len(r) = 1 /\ r[1] \in Floats
    <3>1. bits \in D
      BY <1>2, <2>0
    <3> HIDE DEF bits
    <3> QED
      BY <2>0, <3>1
  <2>2. v.tag = "f" /\ Canonical(v) = ParamValue("f", r) /\ Canonical(v).val = r
    BY <1>4 DEF ParamValue, Canonical
  <2> HIDE DEF r
  <2>3. tok \in Seq(D) /\ tok # <<>> /\ tok[1] = "f" /\ Tail(tok) = r
    <3>1. "f" \in D /\ r \in Seq(D)
      BY <1>1, <2>1
    <3> QED
      BY <3>1, TaggedIs
  <2>4. ValueToken(v) = tok
    BY <2>2 DEF ValueToken
  <2> HIDE DEF tok
  <2>5. ValueFromToken(tok) = Some(ParamValue("f", r))
    BY <2>1, <2>3 DEF ValueFromToken
  <2> QED
    BY <2>2, <2>3, <2>4, <2>5
<1>5. ASSUME NEW b \in {"true", "false"}, v = ParamValue("b", <<b>>)
      PROVE  /\ ValueToken(v) \in Seq(D) /\ ValueFromToken(ValueToken(v)) = Some(Canonical(v))
  <2> DEFINE r == <<b>>
             tok == <<"b">> \o r
  <2>1. r \in Seq(D) /\ r \in {<<"true">>, <<"false">>}
    <3>1. b \in D
      BY <1>1
    <3> QED
      BY <3>1
  <2>2. v.tag = "b" /\ v.val = r /\ v = ParamValue("b", r) /\ Canonical(v) = v
    BY <1>5 DEF ParamValue, Canonical
  <2> HIDE DEF r
  <2>3. tok \in Seq(D) /\ tok # <<>> /\ tok[1] = "b" /\ Tail(tok) = r
    <3>1. "b" \in D /\ r \in Seq(D)
      BY <1>1, <2>1
    <3> QED
      BY <3>1, TaggedIs
  <2>4. ValueToken(v) = tok
    BY <2>2 DEF ValueToken
  <2> HIDE DEF tok
  <2>5. ValueFromToken(tok) = Some(ParamValue("b", r))
    BY <2>1, <2>3 DEF ValueFromToken
  <2> QED
    BY <2>2, <2>3, <2>4, <2>5
<1>6. ASSUME NEW t \in Seq(C), v = ParamValue("s", t)
      PROVE  /\ ValueToken(v) \in Seq(D) /\ ValueFromToken(ValueToken(v)) = Some(Canonical(v))
  <2> DEFINE r == Escape(t)
             tok == <<"s">> \o r
  <2>0. Alphabet(C)
    BY DEF TokenAlphabet
  <2>1. r \in Seq(D) /\ Unescape(r) = t
    BY <2>0, EscapeFree, UnescapeEscape DEF D, Unseparated
  <2>2. v.tag = "s" /\ v.val = t /\ Canonical(v) = v
    BY <1>6 DEF ParamValue, Canonical
  <2>3. ValueToken(v) = tok
    BY <2>2 DEF ValueToken
  <2> HIDE DEF r
  <2>4. tok \in Seq(D) /\ tok # <<>> /\ tok[1] = "s" /\ Tail(tok) = r
    BY <1>1, <2>1, TaggedIs
  <2> HIDE DEF tok
  <2>5. ValueFromToken(tok) = Some(ParamValue("s", t))
    BY <2>1, <2>4 DEF ValueFromToken
  <2> QED
    BY <1>6, <2>2, <2>3, <2>4, <2>5
<1> QED
  BY <1>3, <1>4, <1>5, <1>6 DEF IsParam, D

(* A text with one separator is cut in two there. *)
LEMMA CutInTwo ==
  ASSUME NEW D, NEW sep, sep \notin D, NEW a \in Seq(D), NEW b \in Seq(D),
         NEW s, s = (a \o <<sep>>) \o b
  PROVE  /\ {i \in 1 .. Len(s) : s[i] = sep} = {Len(a) + 1}
         /\ SubSeq(s, 1, Len(a)) = a
         /\ SubSeq(s, Len(a) + 2, Len(s)) = b
         /\ Len(a) \in Nat
<1> DEFINE E == D \union {sep}
           n == Len(a)
           m == Len(b)
<1>1. /\ a \in Seq(E) /\ b \in Seq(E) /\ <<sep>> \in Seq(E) /\ Len(<<sep>>) = 1
      /\ <<sep>>[1] = sep /\ n \in Nat /\ m \in Nat
  OBVIOUS
<1> HIDE DEF E, n, m
<1>2. /\ a \o <<sep>> \in Seq(E) /\ Len(a \o <<sep>>) = n + 1
      /\ \A i \in 1 .. n + 1 : (a \o <<sep>>)[i] = IF i <= n THEN a[i] ELSE <<sep>>[i - n]
  BY <1>1, ConcatProperties DEF n
<1> DEFINE w == a \o <<sep>>
<1>3. /\ w \in Seq(E) /\ Len(w) = n + 1 /\ w[n + 1] = sep /\ \A i \in 1 .. n : w[i] = a[i]
  BY <1>1, <1>2
<1> HIDE DEF w
<1>4. s = w \o b
  BY DEF w
<1>5. /\ s \in Seq(E) /\ Len(s) = (n + 1) + m
      /\ \A i \in 1 .. (n + 1) + m : s[i] = IF i <= n + 1 THEN w[i] ELSE b[i - (n + 1)]
  <2>1. b \in Seq(E) /\ w \in Seq(E)
    BY <1>1, <1>3
  <2>2. /\ w \o b \in Seq(E) /\ Len(w \o b) = Len(w) + Len(b)
        /\ \A i \in 1 .. Len(w) + Len(b) :
             (w \o b)[i] = IF i <= Len(w) THEN w[i] ELSE b[i - Len(w)]
    BY <2>1, ConcatProperties
  <2>3. Len(w) = n + 1 /\ Len(b) = m
    BY <1>3 DEF m
  <2> QED
    BY <1>4, <2>2, <2>3
<1>6. s[n + 1] = sep /\ n + 1 \in 1 .. Len(s)
  BY <1>1, <1>3, <1>5
<1>7. ASSUME NEW i \in 1 .. n PROVE s[i] = a[i] /\ s[i] \in D
  <2>1. i \in 1 .. (n + 1) + m /\ i <= n + 1
    BY <1>1
  <2>2. a[i] \in D
    BY DEF n
  <2> QED
    BY <1>3, <1>5, <2>1, <2>2
<1>8. ASSUME NEW i \in 1 .. m PROVE s[i + (n + 1)] = b[i] /\ s[i + (n + 1)] \in D
  <2>1. i + (n + 1) \in 1 .. (n + 1) + m /\ ~ (i + (n + 1) <= n + 1)
        /\ (i + (n + 1)) - (n + 1) = i
    BY <1>1
  <2>2. b[i] \in D
    BY DEF m
  <2> QED
    BY <1>5, <2>1, <2>2
<1>9. {i \in 1 .. Len(s) : s[i] = sep} = {n + 1}
  <2>1. ASSUME NEW i \in 1 .. Len(s), s[i] = sep PROVE i = n + 1
    <3>1. CASE i \in 1 .. n
      BY <1>7, <2>1, <3>1
    <3>2. CASE i > n + 1
      <4>1. i - (n + 1) \in 1 .. m /\ (i - (n + 1)) + (n + 1) = i
        BY <1>1, <1>5, <3>2
      <4>2. s[(i - (n + 1)) + (n + 1)] \in D
        BY <1>8, <4>1
      <4> QED
        BY <2>1, <4>1, <4>2
    <3> QED
      BY <1>1, <3>1, <3>2
  <2> QED
    BY <1>6, <2>1
<1>10. SubSeq(s, 1, n) = a
  <2>1. n \in 0 .. Len(s)
    BY <1>1, <1>5
  <2>2. /\ SubSeq(s, 1, n) \in Seq(E) /\ Len(SubSeq(s, 1, n)) = n
        /\ \A i \in 1 .. n : SubSeq(s, 1, n)[i] = s[i]
    BY <1>5, <2>1
  <2> DEFINE q == SubSeq(s, 1, n)
  <2>3. q \in Seq(E) /\ Len(q) = Len(a) /\ \A i \in 1 .. Len(q) : q[i] = a[i]
    BY <1>7, <2>2 DEF n
  <2> HIDE DEF q
  <2>4. q = a
    BY <1>1, <2>3, SeqEqual
  <2> QED
    BY <2>4 DEF q
<1>11. SubSeq(s, n + 2, Len(s)) = b
  <2> DEFINE k == n + 2
             l == Len(s)
             q == SubSeq(s, k, l)
  <2>1. k \in Nat /\ l \in Nat /\ k >= 1 /\ l <= Len(s) /\ (l - k) + 1 = m /\ k - 1 = n + 1
    BY <1>1, <1>5
  <2>2. /\ q \in Seq(E) /\ Len(q) = m
    <3>1. /\ SubSeq(s, k, l) \in Seq(E)
          /\ Len(SubSeq(s, k, l)) = IF k <= l THEN (l - k) + 1 ELSE 0
      <4> HIDE DEF k, l
      <4> QED
        BY <1>5, <2>1
    <3> HIDE DEF k, l
    <3> QED
      BY <1>1, <2>1, <3>1
  <2>3. ASSUME NEW i \in 1 .. m PROVE q[i] = b[i]
    <3>1. i \in 1 .. (l - k) + 1 /\ (k + i) - 1 = i + (n + 1)
      BY <2>1, <1>1
    <3>2. q[i] = s[(k + i) - 1]
      <4> HIDE DEF k, l
      <4> QED
        BY <1>5, <2>1, <3>1
    <3> QED
      BY <1>8, <3>1, <3>2
  <2> HIDE DEF q
  <2>4. q = b
    <3>1. Len(q) = Len(b)
      BY <2>2 DEF m
    <3>2. \A i \in 1 .. Len(q) : q[i] = b[i]
      BY <2>2, <2>3
    <3> QED
      BY <1>1, <2>2, <3>1, <3>2, SeqEqual
  <2> QED
    BY <2>4 DEF q
<1> QED
  BY <1>1, <1>9, <1>10, <1>11 DEF n

\* An entry as recording leaves it, with texts over C.
IsEntry(e, C) == e = Entry(e.k, e.v) /\ e.k \in Seq(C) /\ IsParam(e.v, C)

\* Without the separators that keys and maps are cut at.
Uncut(C) == C \ {";", "|"}

(* What is printed of an entry is read back with its value canonical. *)
LEMMA EntryReadBack ==
  ASSUME NEW C, TokenAlphabet(C), NEW e, IsEntry(e, C)
  PROVE  /\ EntryToken(e) \in Seq(Uncut(C)) /\ EntryToken(e) # <<>>
         /\ EntryFromToken(EntryToken(e)) = Some(Entry(e.k, Canonical(e.v)))
<1> DEFINE D == Unseparated(C)
           E == Uncut(C)
           a == Escape(e.k)
           b == ValueToken(e.v)
           s == (a \o <<"=">>) \o b
<1>1. Alphabet(C) /\ e.k \in Seq(C) /\ IsParam(e.v, C)
  BY DEF TokenAlphabet, IsEntry
<1>2. a \in Seq(D)
  BY <1>1, EscapeFree DEF Unseparated
<1>3. Unescape(a) = e.k
  BY <1>1, UnescapeEscape
<1>4. b \in Seq(D) /\ ValueFromToken(b) = Some(Canonical(e.v))
  BY <1>1, ValueReadBack
<1>5. "=" \notin D /\ D \subseteq E /\ "=" \in E
  BY <1>1 DEF Unseparated, Uncut, Alphabet
<1>6. EntryToken(e) = s
  BY DEF EntryToken
<1> HIDE DEF D, E, a, b
<1>7. a \in Seq(E) /\ b \in Seq(E) /\ <<"=">> \in Seq(E)
  BY <1>2, <1>4, <1>5
<1>8. a \o <<"=">> \in Seq(E)
  BY <1>7, ConcatProperties
<1>9. s \in Seq(E)
  BY <1>7, <1>8, ConcatProperties
<1>10. s = (a \o <<"=">>) \o b
  OBVIOUS
<1> HIDE DEF s
<1>11. /\ {i \in 1 .. Len(s) : s[i] = "="} = {Len(a) + 1}
       /\ SubSeq(s, 1, Len(a)) = a
       /\ SubSeq(s, Len(a) + 2, Len(s)) = b
       /\ Len(a) \in Nat
  BY <1>2, <1>4, <1>5, <1>10, CutInTwo
<1> DEFINE eq == Len(a) + 1
<1>12. eq # 0 /\ eq + 1 = Len(a) + 2 /\ eq - 1 = Len(a) /\ eq \in Nat
  BY <1>11
<1>13. SelectInSeq(s, LAMBDA c : c = "=") = eq
  <2>1. {i \in 1 .. Len(s) : s[i] = "="} = {eq}
    BY <1>11
  <2> HIDE DEF eq
  <2>2. SelectInSeq(s, LAMBDA c : c = "=")
        = LET I == {i \in 1 .. Len(s) : s[i] = "="} IN IF I # {} THEN Min(I) ELSE 0
    BY DEF SelectInSeq
  <2>3. Min({eq}) = eq
    BY <1>12 DEF Min
  <2> QED
    BY <2>1, <2>2, <2>3
<1>14. ValueFromToken(b) # None /\ ValueFromToken(b)[1] = Canonical(e.v)
  BY <1>4 DEF Some, None
<1>15. EntryFromToken(s) = Some(Entry(e.k, Canonical(e.v)))
  <2>1. SubSeq(s, eq + 1, Len(s)) = b
    BY <1>11, <1>12
  <2>2. SubSeq(s, 1, eq - 1) = a
    BY <1>11, <1>12
  <2> HIDE DEF eq
  <2>3. EntryFromToken(s)
        = IF eq = 0 THEN None
          ELSE IF ValueFromToken(SubSeq(s, eq + 1, Len(s))) = None THEN None
          ELSE Some(Entry(Unescape(SubSeq(s, 1, eq - 1)),
                          ValueFromToken(SubSeq(s, eq + 1, Len(s)))[1]))
    BY <1>13 DEF EntryFromToken, Mapped
  <2> QED
    BY <1>3, <1>12, <1>14, <2>1, <2>2, <2>3
<1>16. s # <<>>
  <2>1. Len(a) + 1 \in {i \in 1 .. Len(s) : s[i] = "="}
    BY <1>11
  <2>2. Len(<<>>) = 0 /\ 1 .. 0 = {}
    OBVIOUS
  <2> QED
    BY <2>1, <2>2
<1> QED
  BY <1>6, <1>9, <1>15, <1>16 DEF E
-----------------------------------------------------------------------------
(* The tokens of the entries, one after the other. *)

JoinTo(r, m, params) ==
  r = [n \in 1 .. m |-> IF n = 1 THEN EntryToken(params[1])
                        ELSE (r[n - 1] \o <<";">>) \o EntryToken(params[n])]

Joins(r, m, params) ==
  /\ r[1] = EntryToken(params[1])
  /\ \A n \in 2 .. m : r[n] = (r[n - 1] \o <<";">>) \o EntryToken(params[n])

(* Such a function has the values of the joining. *)
LEMMA JoinAt ==
  ASSUME NEW r, NEW m \in Nat, m >= 1, NEW params, JoinTo(r, m, params)
  PROVE  Joins(r, m, params)
<1> DEFINE e(n) == IF n = 1 THEN EntryToken(params[1])
                   ELSE (r[n - 1] \o <<";">>) \o EntryToken(params[n])
<1>1. r = [n \in 1 .. m |-> e(n)]
  BY DEF JoinTo
<1> HIDE DEF e
<1>2. \A n \in 1 .. m : r[n] = e(n)
  BY <1>1
<1>3. 1 \in 1 .. m
  OBVIOUS
<1>4. r[1] = EntryToken(params[1])
  BY <1>2, <1>3 DEF e
<1>5. ASSUME NEW n \in 2 .. m
      PROVE  r[n] = (r[n - 1] \o <<";">>) \o EntryToken(params[n])
  <2>1. n \in 1 .. m /\ n # 1
    OBVIOUS
  <2> QED
    BY <1>2, <2>1 DEF e
<1> QED
  BY <1>4, <1>5 DEF Joins

(* There is one. *)
LEMMA JoinExists ==
  ASSUME NEW params
  PROVE  \A m \in Nat : \E r : JoinTo(r, m, params)
<1> DEFINE Bad == {m \in Nat : ~ \E r : JoinTo(r, m, params)}
<1>1. Bad = {}
  <2> SUFFICES ASSUME Bad # {} PROVE FALSE
    OBVIOUS
  <2>1. Bad \subseteq Nat
    OBVIOUS
  <2> HIDE DEF Bad
  <2>2. PICK m \in Bad : \A j \in Bad : m <= j
    BY <2>1, LeastNumber
  <2>3. m \in Nat /\ ~ \E r : JoinTo(r, m, params)
    BY <2>2 DEF Bad
  <2>4. CASE m = 0
    <3> DEFINE e(r, n) == IF n = 1 THEN EntryToken(params[1])
                          ELSE (r[n - 1] \o <<";">>) \o EntryToken(params[n])
               r == [n \in 1 .. 0 |-> 0]
    <3>1. 1 .. 0 = {}
      OBVIOUS
    <3> HIDE DEF e
    <3>2. r = [n \in 1 .. 0 |-> e(r, n)]
      BY <3>1
    <3> HIDE DEF r
    <3>3. JoinTo(r, 0, params)
      BY <3>2 DEF JoinTo, e
    <3> QED
      BY <2>3, <2>4, <3>3
  <2>5. CASE m # 0
    <3>1. m - 1 \in Nat /\ ~ (m <= m - 1)
      BY <2>3, <2>5
    <3>2. m - 1 \notin Bad
      BY <2>2, <3>1
    <3>3. PICK r : JoinTo(r, m - 1, params)
      BY <3>1, <3>2 DEF Bad
    <3> DEFINE last == IF m = 1 THEN EntryToken(params[1])
                       ELSE (r[m - 1] \o <<";">>) \o EntryToken(params[m])
               q == [n \in 1 .. m |-> IF n = m THEN last ELSE r[n]]
               e(f, n) == IF n = 1 THEN EntryToken(params[1])
                          ELSE (f[n - 1] \o <<";">>) \o EntryToken(params[n])
    <3>4. \A n \in 1 .. m - 1 : r[n] = e(r, n)
      <4>1. r = [n \in 1 .. m - 1 |-> e(r, n)]
        BY <3>3 DEF JoinTo
      <4> HIDE DEF e
      <4> QED
        BY <4>1
    <3>5. ASSUME NEW n \in 1 .. m - 1 PROVE q[n] = r[n]
      <4>1. n \in 1 .. m /\ n # m
        BY <2>3
      <4> HIDE DEF last
      <4> QED
        BY <4>1
    <3>6. q[m] = last
      <4>1. m \in 1 .. m
        BY <2>3, <2>5
      <4> HIDE DEF last
      <4> QED
        BY <4>1
    <3>7. q = [n \in 1 .. m |-> q[n]]
      OBVIOUS
    <3> HIDE DEF q
    <3>8. ASSUME NEW n \in 1 .. m PROVE q[n] = e(q, n)
      <4>1. CASE n # m
        <5>1. n \in 1 .. m - 1 /\ (n # 1 => n - 1 \in 1 .. m - 1)
          BY <2>3, <4>1
        <5>2. q[n] = e(r, n)
          BY <3>4, <3>5, <5>1
        <5>3. n # 1 => q[n - 1] = r[n - 1]
          BY <3>5, <5>1
        <5> QED
          BY <5>2, <5>3
      <4>2. CASE n = m /\ n = 1
        BY <3>6, <4>2
      <4>3. CASE n = m /\ n # 1
        <5>1. m - 1 \in 1 .. m - 1
          BY <2>3, <2>5, <4>3
        <5>2. q[m - 1] = r[m - 1]
          BY <3>5, <5>1
        <5>3. q[m] = (r[m - 1] \o <<";">>) \o EntryToken(params[m])
          BY <3>6, <4>3
        <5> QED
          BY <4>3, <5>2, <5>3
      <4> QED
        BY <4>1, <4>2, <4>3
    <3> HIDE DEF e
    <3>9. q = [n \in 1 .. m |-> e(q, n)]
      BY <3>7, <3>8
    <3>10. JoinTo(q, m, params)
      BY <3>9 DEF JoinTo, e
    <3> QED
      BY <2>3, <3>10
  <2> QED
    BY <2>4, <2>5
<1> QED
  BY <1>1

(* The token of a map is the last of its values. *)
LEMMA MapTokenIs ==
  ASSUME NEW params, Len(params) \in Nat, Len(params) >= 1
  PROVE  \E r : Joins(r, Len(params), params) /\ MapToken(params) = r[Len(params)]
<1> DEFINE f == CHOOSE r : JoinTo(r, Len(params), params)
<1>1. \E r : JoinTo(r, Len(params), params)
  BY JoinExists
<1>2. JoinTo(f, Len(params), params)
  BY <1>1, Zenon
<1>3. MapToken(params) = f[Len(params)]
  BY DEF MapToken, JoinTo
<1> HIDE DEF f
<1>4. Joins(f, Len(params), params)
  BY <1>2, JoinAt
<1> QED
  BY <1>3, <1>4

(* A text over an alphabet is one over any that holds it. *)
LEMMA TextOver ==
  ASSUME NEW E, NEW D, D \subseteq E, NEW u \in Seq(D)
  PROVE  u \in Seq(E)
OBVIOUS

(* A text with one more character is a text. *)
LEMMA TextMore ==
  ASSUME NEW E, NEW x \in Seq(E), NEW c \in E
  PROVE  x \o <<c>> = Append(x, c) /\ Append(x, c) \in Seq(E) /\ Append(x, c) # <<>>
OBVIOUS

(* The tokens of the entries are the pieces again. *)
LEMMA MapTokenPieces ==
  ASSUME NEW C, TokenAlphabet(C), NEW params, IsList(params), Len(params) >= 1,
         \A n \in DOMAIN params : IsEntry(params[n], C)
  PROVE  /\ MapToken(params) \in Seq(C \ {"|"}) /\ MapToken(params) # <<>>
         /\ Pieces(MapToken(params), ";") = [n \in DOMAIN params |-> EntryToken(params[n])]
<1> DEFINE E == C \ {"|"}
           D == Uncut(C)
           N == Len(params)
           tok == [n \in 1 .. N |-> EntryToken(params[n])]
           Goal(x, n) == /\ x \in Seq(E) /\ x # <<>>
                         /\ Pieces(x, ";") = [i \in 1 .. n |-> tok[i]]
<1>1. N \in Nat /\ N >= 1 /\ DOMAIN params = 1 .. N
  BY ListIs
<1>2. ASSUME NEW n \in 1 .. N
      PROVE  tok[n] = EntryToken(params[n]) /\ tok[n] \in Seq(D) /\ tok[n] # <<>>
  <2>1. IsEntry(params[n], C)
    BY <1>1
  <2>2. EntryToken(params[n]) \in Seq(D) /\ EntryToken(params[n]) # <<>>
    BY <2>1, EntryReadBack
  <2> QED
    BY <2>2
<1>3. ";" \notin D /\ ";" \in E /\ D \subseteq E
  BY DEF Uncut, TokenAlphabet, Alphabet
<1>4. PICK r : Joins(r, N, params) /\ MapToken(params) = r[N]
  BY <1>1, MapTokenIs
<1>5. /\ r[1] = EntryToken(params[1])
      /\ \A n \in 2 .. N : r[n] = (r[n - 1] \o <<";">>) \o EntryToken(params[n])
  BY <1>4 DEF Joins
<1>6. tok = [n \in DOMAIN params |-> EntryToken(params[n])]
  BY <1>1
<1> HIDE DEF E, D, N, tok
<1>7. Goal(r[1], 1)
  <2>1. 1 \in 1 .. N
    BY <1>1
  <2>2. r[1] = tok[1] /\ tok[1] \in Seq(D) /\ tok[1] # <<>>
    BY <1>2, <1>5, <2>1
  <2>3. Pieces(tok[1], ";") = <<tok[1]>>
    BY <1>3, <2>2, PiecesUncut
  <2>4. <<tok[1]>> = [i \in 1 .. 1 |-> tok[i]]
    OBVIOUS
  <2>5. tok[1] \in Seq(E)
    BY <1>3, <2>2, TextOver
  <2> QED
    BY <2>2, <2>3, <2>4, <2>5
<1>8. ASSUME NEW n \in 2 .. N, Goal(r[n - 1], n - 1) PROVE Goal(r[n], n)
  <2> DEFINE x == r[n - 1]
             u == tok[n]
             y == Append(x, ";")
  <2>1. n \in 1 .. N /\ n - 1 \in Nat /\ n >= 2 /\ n - 1 >= 1 /\ (n - 1) + 1 = n
    BY <1>1
  <2>2. u \in Seq(D) /\ r[n] = (x \o <<";">>) \o u
    BY <1>2, <1>5, <2>1
  <2>3. x \in Seq(E) /\ x # <<>> /\ Pieces(x, ";") = [i \in 1 .. (n - 1) |-> tok[i]]
    BY <1>8
  <2> HIDE DEF x, u
  <2>4. x \o <<";">> = y
    BY <1>3, <2>3, TextMore
  <2>5. Pieces(Append(x, ";") \o u, ";") = Append(Pieces(x, ";"), u)
    <3>1. /\ x \in Seq(E) /\ ";" \in E /\ D \subseteq E /\ ";" \notin D
      BY <1>3, <2>3
    <3>2. AddsPiece(x, ";", D)
      BY <3>1, PiecesAfter
    <3> QED
      BY <2>2, <3>2 DEF AddsPiece
  <2>6. y \in Seq(E) /\ y # <<>>
    BY <1>3, <2>3, TextMore
  <2>7. u \in Seq(E)
    BY <1>3, <2>2, TextOver
  <2>8. y \o u \in Seq(E) /\ y \o u # <<>>
    <3> HIDE DEF y
    <3>1. y \o u \in Seq(E) /\ Len(y \o u) = Len(y) + Len(u)
      BY <2>6, <2>7, ConcatProperties
    <3>2. Len(y) \in Nat /\ Len(y) >= 1 /\ Len(u) \in Nat
      BY <2>6, <2>7
    <3>3. Len(y \o u) >= 1
      BY <3>1, <3>2
    <3> QED
      BY <3>1, <3>3, NotEmpty
  <2>9. Append([i \in 1 .. (n - 1) |-> tok[i]], tok[n]) = [i \in 1 .. n |-> tok[i]]
    <3> DEFINE a == [i \in 1 .. (n - 1) |-> tok[i]]
               b == [i \in 1 .. n |-> tok[i]]
    <3>1. IsList(a) /\ Len(a) = n - 1
      BY <2>1, ListOf
    <3>2. IsList(b) /\ Len(b) = n
      BY <2>1, ListOf
    <3>3. \A i \in 1 .. (n - 1) : a[i] = tok[i]
      OBVIOUS
    <3>4. \A i \in 1 .. n : b[i] = tok[i]
      OBVIOUS
    <3> HIDE DEF a, b
    <3>5. /\ IsList(Append(a, tok[n])) /\ DOMAIN a = 1 .. Len(a)
          /\ Len(Append(a, tok[n])) = Len(a) + 1
          /\ \A i \in DOMAIN a : Append(a, tok[n])[i] = a[i]
          /\ Append(a, tok[n])[Len(a) + 1] = tok[n]
      BY <3>1, AppendList
    <3> DEFINE c == Append(a, tok[n])
    <3>6. IsList(c) /\ Len(c) = n /\ c[n] = tok[n] /\ \A i \in 1 .. (n - 1) : c[i] = a[i]
      BY <2>1, <3>1, <3>5
    <3> HIDE DEF c
    <3>7. ASSUME NEW i \in 1 .. n PROVE c[i] = b[i]
      <4>1. i = n \/ i \in 1 .. (n - 1)
        BY <2>1
      <4> QED
        BY <3>3, <3>4, <3>6, <4>1
    <3>8. c = b
      BY <3>2, <3>6, <3>7, SameLists
    <3> QED
      BY <3>8 DEF a, b, c
  <2> QED
    BY <2>2, <2>3, <2>4, <2>5, <2>8, <2>9 DEF u
<1> HIDE DEF Goal
<1> DEFINE Bad == {n \in 1 .. N : ~ Goal(r[n], n)}
<1>9. Bad = {}
  <2> SUFFICES ASSUME Bad # {} PROVE FALSE
    OBVIOUS
  <2>1. Bad \subseteq Nat
    OBVIOUS
  <2> HIDE DEF Bad
  <2>2. PICK n \in Bad : \A j \in Bad : n <= j
    BY <2>1, LeastNumber
  <2>3. n \in 1 .. N /\ ~ Goal(r[n], n)
    BY <2>2 DEF Bad
  <2>4. n # 1
    BY <1>7, <2>3
  <2>5. n \in 2 .. N /\ n - 1 \in 1 .. N /\ ~ (n <= n - 1)
    BY <1>1, <2>3, <2>4
  <2>6. n - 1 \notin Bad
    BY <2>2, <2>5
  <2>7. Goal(r[n - 1], n - 1)
    BY <2>5, <2>6 DEF Bad
  <2> QED
    BY <1>8, <2>3, <2>5, <2>7
<1>10. Goal(r[N], N)
  <2>1. N \in 1 .. N
    BY <1>1
  <2> QED
    BY <1>9, <2>1
<1>11. [i \in 1 .. N |-> tok[i]] = tok
  BY DEF tok
<1> QED
  BY <1>4, <1>6, <1>10, <1>11 DEF Goal, E

(* A map is read back from its token with its values canonical. *)
LEMMA MapReadBack ==
  ASSUME NEW C, TokenAlphabet(C), NEW params, SortedByName(params), params # <<>>,
         \A n \in DOMAIN params : IsEntry(params[n], C)
  PROVE  ParamsFromToken(MapToken(params)) = Some(CanonicalMap(params))
<1> DEFINE t == MapToken(params)
           ps == Pieces(t, ";")
           D == DOMAIN params
           es == [n \in D |-> EntryFromToken(EntryToken(params[n]))]
           cs == CanonicalMap(params)
<1>1. /\ IsList(params) /\ Len(params) \in Nat /\ Len(params) >= 1
      /\ DOMAIN params = 1 .. Len(params)
  <2>1. IsList(params)
    BY DEF SortedByName, Named
  <2>2. Len(params) \in Nat /\ DOMAIN params = 1 .. Len(params)
    BY <2>1, ListIs
  <2>3. Len(params) >= 1
    BY <2>1, TailOfList
  <2> QED
    BY <2>1, <2>2, <2>3
<1>2. t # <<>> /\ ps = [n \in D |-> EntryToken(params[n])]
  BY <1>1, MapTokenPieces
<1> HIDE DEF t, ps
<1>3. ASSUME NEW n \in D
      PROVE  EntryFromToken(EntryToken(params[n]))
             = Some(Entry(params[n].k, Canonical(params[n].v)))
  <2>1. IsEntry(params[n], C)
    OBVIOUS
  <2> QED
    BY <2>1, EntryReadBack
<1>4. [n \in DOMAIN ps |-> EntryFromToken(ps[n])] = es
  BY <1>2
<1>5. \A n \in D : es[n] = Some(cs[n])
  BY <1>3 DEF CanonicalMap
<1>6. DOMAIN es = D /\ cs = [n \in D |-> cs[n]]
  BY DEF CanonicalMap
<1> HIDE DEF es
<1>7. AllOrNone(es) = Some(cs)
  <2>1. \A n \in D : es[n] # None /\ es[n][1] = cs[n]
    BY <1>5 DEF Some, None
  <2>2. [n \in DOMAIN es |-> es[n][1]] = cs
    <3> HIDE DEF cs
    <3> QED
      BY <1>6, <2>1
  <2> QED
    BY <1>6, <2>1, <2>2 DEF AllOrNone
<1>8. ParamMap(cs) = cs
  <2>1. SortedByName(cs)
    <3>1. /\ Named(params)
          /\ \A m, n \in DOMAIN params : m < n => Rank(params[m].k) <= Rank(params[n].k)
      BY DEF SortedByName
    <3>2. DOMAIN cs = D /\ \A n \in D : cs[n].k = params[n].k
      BY DEF CanonicalMap, Entry
    <3>3. IsList(cs)
      BY <1>1, <1>6, ListOf DEF CanonicalMap
    <3>4. Named(cs)
      BY <3>1, <3>2, <3>3 DEF Named
    <3> QED
      BY <3>1, <3>2, <3>4 DEF SortedByName
  <2> QED
    BY <2>1, SortedStays
<1>9. ParamsFromToken(t) = Mapped(AllOrNone(es), ParamMap)
  <2>1. ParamsFromToken(t)
        = Mapped(AllOrNone([n \in DOMAIN ps |-> EntryFromToken(ps[n])]), ParamMap)
    BY <1>2 DEF ParamsFromToken, ps
  <2> QED
    BY <1>4, <2>1
<1>10. Some(cs) # None /\ Some(cs)[1] = cs
  BY DEF Some, None
<1>11. Mapped(Some(cs), ParamMap) = Some(ParamMap(cs))
  BY <1>10 DEF Mapped
<1> QED
  BY <1>7, <1>8, <1>9, <1>11 DEF t
-----------------------------------------------------------------------------
(* The tokens of ops, read back. *)

(* Tuples, one element longer. *)
LEMMA AppendTuples ==
  ASSUME NEW x, NEW y, NEW z
  PROVE  Append(<<x>>, y) = <<x, y>> /\ Append(<<x, y>>, z) = <<x, y, z>>
<1> DEFINE V == {x, y, z}
           p == <<x>>
           q == <<x, y>>
           r == <<x, y, z>>
<1>1. /\ p \in Seq(V) /\ Len(p) = 1 /\ p[1] = x
      /\ q \in Seq(V) /\ Len(q) = 2 /\ q[1] = x /\ q[2] = y
      /\ r \in Seq(V) /\ Len(r) = 3 /\ r[1] = x /\ r[2] = y /\ r[3] = z
      /\ y \in V /\ z \in V
  OBVIOUS
<1> HIDE DEF V, p, q, r
<1>2. /\ Append(p, y) \in Seq(V) /\ Len(Append(p, y)) = 2
      /\ Append(p, y)[1] = x /\ Append(p, y)[2] = y
  <2>1. p \in Seq(V) /\ y \in V
    BY <1>1
  <2>2. /\ Append(p, y) \in Seq(V) /\ Len(Append(p, y)) = Len(p) + 1
        /\ \A i \in 1 .. Len(p) : Append(p, y)[i] = p[i]
        /\ Append(p, y)[Len(p) + 1] = y
    BY <2>1, AppendProperties
  <2>3. Len(p) = 1 /\ p[1] = x /\ 1 \in 1 .. 1 /\ 1 + 1 = 2
    BY <1>1
  <2> QED
    BY <2>2, <2>3
<1>3. /\ Append(q, z) \in Seq(V) /\ Len(Append(q, z)) = 3
      /\ Append(q, z)[1] = x /\ Append(q, z)[2] = y /\ Append(q, z)[3] = z
  <2>1. q \in Seq(V) /\ z \in V
    BY <1>1
  <2>2. /\ Append(q, z) \in Seq(V) /\ Len(Append(q, z)) = Len(q) + 1
        /\ \A i \in 1 .. Len(q) : Append(q, z)[i] = q[i]
        /\ Append(q, z)[Len(q) + 1] = z
    BY <2>1, AppendProperties
  <2>3. Len(q) = 2 /\ q[1] = x /\ q[2] = y /\ 1 \in 1 .. 2 /\ 2 \in 1 .. 2 /\ 2 + 1 = 3
    BY <1>1
  <2> QED
    BY <2>2, <2>3
<1>4. Append(p, y) = q
  <2>1. \A i \in 1 .. 2 : i = 1 \/ i = 2
    OBVIOUS
  <2>2. \A i \in 1 .. 2 : Append(p, y)[i] = q[i]
    BY <1>1, <1>2, <2>1
  <2> QED
    BY <1>1, <1>2, <2>2, SeqEqual
<1>5. Append(q, z) = r
  <2>1. \A i \in 1 .. 3 : i = 1 \/ i = 2 \/ i = 3
    OBVIOUS
  <2>2. \A i \in 1 .. 3 : Append(q, z)[i] = r[i]
    BY <1>1, <1>3, <2>1
  <2> QED
    BY <1>1, <1>3, <2>2, SeqEqual
<1> QED
  BY <1>4, <1>5 DEF p, q, r

(* The token of an op is read back, for any name and sorted parameters,   *)
(* with separators anywhere in them: the name and the parameters as they  *)
(* were, but for NaNs, of which there is one.                             *)
THEOREM OpReadBack ==
  ASSUME NEW C, TokenAlphabet(C), NEW name \in Seq(C),
         NEW params, SortedByName(params),
         \A n \in DOMAIN params : IsEntry(params[n], C)
  PROVE  ParseOpToken(OpToken("op", name, params))
         = Some([kind |-> "op", name |-> name, params |-> CanonicalMap(params)])
<1> DEFINE E == C
           D == C \ {"|"}
           a == Escape(name)
           h == <<"op">>
           x == Append(h, "|") \o a
<1>1. "|" \notin D /\ "|" \in E /\ "op" \in D /\ D \subseteq E /\ Unseparated(C) \subseteq D
  BY DEF TokenAlphabet, Alphabet, Unseparated
<1>2. a \in Seq(D) /\ Unescape(a) = name
  <2>1. Alphabet(C)
    BY DEF TokenAlphabet
  <2>2. a \in Seq(Unseparated(C)) /\ Unescape(a) = name
    BY <2>1, EscapeFree, UnescapeEscape DEF Unseparated
  <2> HIDE DEF a, D
  <2> QED
    BY <1>1, <2>2, TextOver
<1> HIDE DEF a, D, E
<1>3. h \in Seq(D) /\ Len(h) = 1 /\ h[1] = "op"
  BY <1>1, OneIn
<1>4. h \in Seq(E) /\ a \in Seq(E)
  BY <1>1, <1>2, <1>3, TextOver
<1>5. /\ h \o <<"|">> = Append(h, "|") /\ Append(h, "|") \in Seq(E)
      /\ <<"op", "|">> = Append(h, "|") /\ Len(Append(h, "|")) = 2
  <2>1. h \o <<"|">> = Append(h, "|") /\ Append(h, "|") \in Seq(E)
    <3> HIDE DEF h
    <3> QED
      BY <1>1, <1>4, TextMore
  <2>2. <<"op", "|">> = Append(h, "|") /\ Len(Append(h, "|")) = 2
    OBVIOUS
  <2> QED
    BY <2>1, <2>2
<1>6. Pieces(h, "|") = <<h>>
  <2> HIDE DEF h
  <2> QED
    BY <1>1, <1>3, PiecesUncut
<1>7. Pieces(x, "|") = <<h, a>>
  <2>1. AddsPiece(h, "|", D)
    <3> HIDE DEF h
    <3> QED
      BY <1>1, <1>4, PiecesAfter
  <2>2. Pieces(Append(h, "|") \o a, "|") = Append(Pieces(h, "|"), a)
    BY <1>2, <2>1 DEF AddsPiece
  <2> HIDE DEF h
  <2>3. Append(<<h>>, a) = <<h, a>>
    BY AppendTuples
  <2> QED
    BY <1>6, <2>2, <2>3
<1>8. x \in Seq(E) /\ Len(x) = 2 + Len(a) /\ Len(a) \in Nat
  <2> DEFINE g == Append(h, "|")
  <2>1. g \in Seq(E) /\ Len(g) = 2
    BY <1>5
  <2> HIDE DEF g
  <2>2. g \o a \in Seq(E) /\ Len(g \o a) = Len(g) + Len(a)
    BY <1>4, <2>1, ConcatProperties
  <2>3. Len(a) \in Nat
    BY <1>4
  <2> QED
    BY <2>1, <2>2, <2>3 DEF g
<1>9. OpToken("op", name, params)
      = x \o (IF params = <<>> THEN <<>> ELSE <<"|">> \o MapToken(params))
  BY <1>5 DEF OpToken, a
<1>10. h \in {<<"op">>, <<"red">>} /\ h[1] = "op" /\ Len(h) = 1
  OBVIOUS
<1>11. CASE params = <<>>
  <2>1. OpToken("op", name, params) = x
    BY <1>8, <1>9, <1>11, ConcatEmptySeq
  <2> HIDE DEF x
  <2> DEFINE ps == <<h, a>>
  <2>2. Len(ps) = 2 /\ ps[1] = h /\ ps[2] = a
    OBVIOUS
  <2>3. CanonicalMap(params) = <<>>
    BY <1>11 DEF CanonicalMap
  <2>4. ParseOpToken(x) = ParsePieces(x, ps)
    BY <1>7 DEF ParseOpToken
  <2> HIDE DEF ps, h
  <2>5. Some(<<>>) # None /\ Some(<<>>)[1] = <<>>
    BY DEF Some, None
  <2>6. ParsePieces(x, ps) = Some([kind |-> "op", name |-> name, params |-> <<>>])
    BY <1>2, <1>10, <2>2, <2>5 DEF ParsePieces, Mapped
  <2> QED
    BY <2>1, <2>3, <2>4, <2>6
<1>12. CASE params # <<>>
  <2> DEFINE m == MapToken(params)
             y == Append(x, "|")
             s == y \o m
             ps == <<h, a, m>>
  <2>1. m \in Seq(D) /\ ParamsFromToken(m) = Some(CanonicalMap(params))
    <3>1. IsList(params) /\ Len(params) >= 1
      <4>1. IsList(params)
        BY DEF SortedByName, Named
      <4> QED
        BY <1>12, <4>1, TailOfList
    <3>2. m \in Seq(D)
      BY <3>1, MapTokenPieces DEF D
    <3>3. ParamsFromToken(m) = Some(CanonicalMap(params))
      BY <1>12, MapReadBack
    <3> QED
      BY <3>2, <3>3
  <2> HIDE DEF x, h, m
  <2>2. /\ x \o <<"|">> = y /\ y \in Seq(E) /\ Len(y) = 3 + Len(a)
        /\ m \in Seq(E) /\ <<"|">> \in Seq(E)
    <3>1. x \o <<"|">> = Append(x, "|") /\ Append(x, "|") \in Seq(E)
      BY <1>1, <1>8, TextMore
    <3>2. Len(Append(x, "|")) = Len(x) + 1
      BY <1>1, <1>8, AppendProperties
    <3>3. m \in Seq(E)
      BY <1>1, <2>1, TextOver
    <3>4. <<"|">> \in Seq(E)
      BY <1>1, OneIn
    <3>5. Len(y) = 3 + Len(a)
      BY <1>8, <3>2
    <3> QED
      BY <3>1, <3>3, <3>4, <3>5
  <2>3. OpToken("op", name, params) = s
    <3>1. (x \o <<"|">>) \o m = x \o (<<"|">> \o m)
      BY <1>8, <2>2, ConcatAssociative
    <3> QED
      BY <1>9, <1>12, <2>2, <3>1 DEF m
  <2>4. Pieces(s, "|") = ps
    <3>1. AddsPiece(x, "|", D)
      BY <1>1, <1>8, PiecesAfter
    <3>2. Pieces(Append(x, "|") \o m, "|") = Append(Pieces(x, "|"), m)
      BY <2>1, <3>1 DEF AddsPiece
    <3>3. Append(<<h, a>>, m) = <<h, a, m>>
      BY AppendTuples
    <3> QED
      BY <1>7, <3>2, <3>3
  <2>5. SubSeq(s, Len(h) + Len(a) + 3, Len(s)) = m
    <3> HIDE DEF y
    <3>1. SubSeq(y \o m, Len(y) + 1, Len(y \o m)) = m
      BY <2>2, RestOfConcat
    <3>2. Len(y) + 1 = Len(h) + Len(a) + 3
      BY <1>8, <1>10, <2>2
    <3> QED
      BY <3>1, <3>2
  <2> HIDE DEF s
  <2>6. Len(ps) = 3 /\ ps[1] = h /\ ps[2] = a
    OBVIOUS
  <2>7. ParseOpToken(s) = ParsePieces(s, ps)
    BY <2>4 DEF ParseOpToken
  <2> HIDE DEF ps
  <2> DEFINE cs == CanonicalMap(params)
  <2>8. Some(cs) # None /\ Some(cs)[1] = cs
    BY DEF Some, None
  <2>9. ParsePieces(s, ps)
        = IF Len(ps) < 2 \/ ps[1] \notin {<<"op">>, <<"red">>} THEN None
          ELSE Mapped(IF Len(ps) = 2 THEN Some(<<>>)
                      ELSE ParamsFromToken(SubSeq(s, Len(ps[1]) + Len(ps[2]) + 3, Len(s))),
                      LAMBDA q : [kind |-> ps[1][1], name |-> Unescape(ps[2]), params |-> q])
    BY DEF ParsePieces
  <2>10. ParamsFromToken(SubSeq(s, Len(ps[1]) + Len(ps[2]) + 3, Len(s))) = Some(cs)
    BY <2>1, <2>5, <2>6
  <2> HIDE DEF cs
  <2>11. ParsePieces(s, ps) = Some([kind |-> ps[1][1], name |-> Unescape(ps[2]), params |-> cs])
    <3>1. ~ (Len(ps) < 2) /\ Len(ps) # 2 /\ ps[1] \in {<<"op">>, <<"red">>}
      BY <1>10, <2>6
    <3> QED
      BY <2>8, <2>9, <2>10, <3>1 DEF Mapped
  <2>12. ps[1][1] = "op" /\ Unescape(ps[2]) = name
    BY <1>2, <1>10, <2>6
  <2> QED
    BY <2>3, <2>7, <2>11, <2>12 DEF cs
<1> QED
  BY <1>11, <1>12
=============================================================================
