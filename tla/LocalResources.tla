--------------------------- MODULE LocalResources ---------------------------
(***************************************************************************)
(* The bounded cache of open handles a worker keeps (execution.py).  A     *)
(* handle is [uri, id], where id counts the opens; the cache is the        *)
(* sequence of its handles from the least to the most recently used, as    *)
(* the OrderedDict has them.                                               *)
(***************************************************************************)
EXTENDS Naturals, Sequences, FiniteSets, SequencesExt

CONSTANTS Uris,     \* the uris chunks are read from
          MaxOpen   \* max_open

ASSUME MaxOpenIsANumber == MaxOpen \in Nat

VARIABLES handles,  \* the cached handles
          opened,   \* every handle the opener made, open_count of them
          closed    \* the handles in the order they were closed

resources == <<handles, opened, closed>>

NoResources == handles = <<>> /\ opened = <<>> /\ closed = <<>>

UriCached(uri) == \E n \in DOMAIN handles : handles[n].uri = uri

\* Mutant: a hit does not move the handle.
OpenCachedInPlace(uri) == UriCached(uri) /\ UNCHANGED <<handles, opened, closed>>

\* A cached uri: its handle moves to the most recently used end.
OpenCached(uri) ==
  \E n \in DOMAIN handles :
    /\ handles[n].uri = uri
    /\ handles' = Append(RemoveAt(handles, n), handles[n])
    /\ UNCHANGED <<opened, closed>>

\* Another uri is opened and cached; the least recently used handles are
\* closed until the bound holds again.
OpenNew(uri) ==
  LET handle == [uri |-> uri, id |-> Len(opened) + 1]
      cached == Append(handles, handle)
      excess == IF Len(cached) > MaxOpen THEN Len(cached) - MaxOpen ELSE 0
  IN /\ ~ UriCached(uri)
     /\ opened' = Append(opened, handle)
     /\ handles' = SubSeq(cached, excess + 1, Len(cached))
     /\ closed' = closed \o SubSeq(cached, 1, excess)

\* close: every cached handle is closed and dropped.
CloseAll ==
  /\ closed' = closed \o handles
  /\ handles' = <<>>
  /\ UNCHANGED opened

-----------------------------------------------------------------------------
\* No handle leaks and none is closed twice: each handle ever opened is
\* either cached and open or was closed once.
OpenedIsCachedOrClosed ==
  /\ ToSet(opened) = ToSet(handles) \union ToSet(closed)
  /\ Len(opened) = Len(handles) + Len(closed)

\* The cache never holds more than it may, nor a uri twice.
CacheBounded ==
  /\ Len(handles) <= MaxOpen
  /\ \A m, n \in DOMAIN handles : handles[m].uri = handles[n].uri => m = n
=============================================================================
