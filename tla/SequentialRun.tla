--------------------------- MODULE SequentialRun ---------------------------
(***************************************************************************)
(* One run of the reference executor (SequentialRunner.run): it submits    *)
(* every task, then processes and combines them in key order, and releases *)
(* its handles however the run ends.  process, combine and empty are the   *)
(* caller's and may raise; process opens what it reads through open_once.  *)
(* A monitor that raises is silenced where an event is emitted, so what it *)
(* does is no part of the state: emitted holds the events offered to it.   *)
(***************************************************************************)
EXTENDS LocalResources, Integers

CONSTANTS TaskKeys,      \* keys of tasks
          MaxTasks,      \* bound on the tasks of a plan
          MaxUses,       \* bound on the open_once calls of a run
          MayInterrupt   \* may what is no Exception strike in process

ASSUME KeysAreIntegers == TaskKeys \subseteq Int
ASSUME InterruptsOrNot == MayInterrupt \in BOOLEAN

VARIABLES tasks,    \* the tasks of the plan, each [key, place]
          pc,       \* where the run is
          n,        \* the tasks that are finished
          value,    \* the folded partials, each the task it came from
          partial,  \* the partial process returned, in a sequence
          emitted,  \* the events of the run
          used      \* the uris open_once was called with

run == <<tasks, pc, n, value, partial, emitted>>
vars == <<run, used, resources>>

PlansOf(keys) ==
  {[m \in DOMAIN ks |-> [key |-> ks[m], place |-> m]] : ks \in SeqOf(keys, MaxTasks)}

\* sorted by key; Python's sort keeps the order of equal keys.
Before(a, b) == a.key < b.key \/ (a.key = b.key /\ a.place < b.place)
\* Mutant: tasks run in the order the plan lists them.
as_listed == tasks

ordered ==
  CHOOSE order \in [DOMAIN tasks -> ToSet(tasks)] :
    \A k, m \in DOMAIN tasks : k < m => Before(order[k], order[m])

Event(phase, task) == [phase |-> phase, task |-> task]
Emit(phase, task) == emitted' = Append(emitted, Event(phase, task))

Init ==
  /\ tasks \in PlansOf(TaskKeys)
  /\ pc = "empty" /\ n = 0
  /\ value = <<>> /\ partial = <<>> /\ emitted = <<>> /\ used = <<>>
  /\ NoResources

Current == ordered[n + 1]

Empty ==
  /\ pc = "empty" /\ pc' = "submit"
  /\ UNCHANGED <<tasks, n, value, partial, emitted, used, resources>>

\* Every task is submitted before any starts.
Submit ==
  /\ pc = "submit"
  /\ Len(emitted) < Len(tasks)
  /\ Emit("submitted", ordered[Len(emitted) + 1])
  /\ UNCHANGED <<tasks, pc, n, value, partial, used, resources>>

Start ==
  /\ pc = "submit" /\ Len(emitted) >= Len(tasks)
  /\ n < Len(tasks)
  /\ Emit("started", Current)
  /\ pc' = "process"
  /\ UNCHANGED <<tasks, n, value, partial, used, resources>>

\* process reads a uri.
Use(uri) ==
  /\ pc = "process"
  /\ Len(used) < MaxUses
  /\ OpenCached(uri) \/ OpenNew(uri)
  /\ used' = Append(used, uri)
  /\ UNCHANGED run

ProcessReturns ==
  /\ pc = "process" /\ pc' = "combine"
  /\ partial' = <<Current>>
  /\ UNCHANGED <<tasks, n, value, emitted, used, resources>>

\* Mutant: a failed task goes on to combine.
ProcessRaisesOn ==
  /\ pc = "process" /\ pc' = "combine"
  /\ Emit("errored", Current)
  /\ partial' = <<Current>>
  /\ UNCHANGED <<tasks, n, value, used, resources>>

\* process, or the opener in it, raises an Exception.
ProcessRaises ==
  /\ pc = "process" /\ pc' = "raise"
  /\ Emit("errored", Current)
  /\ UNCHANGED <<tasks, n, value, partial, used, resources>>

\* Mutant: combine gets its arguments the other way round.
CombineSwapped ==
  /\ pc = "combine" /\ pc' = "finish"
  /\ value' = partial \o value
  /\ partial' = <<>>
  /\ UNCHANGED <<tasks, n, emitted, used, resources>>

\* combine is called for every partial, the first one with empty's value.
Combine ==
  /\ pc = "combine" /\ pc' = "finish"
  /\ value' = value \o partial
  /\ partial' = <<>>
  /\ UNCHANGED <<tasks, n, emitted, used, resources>>

Finish ==
  /\ pc = "finish" /\ pc' = "submit"
  /\ Emit("finished", Current)
  /\ n' = n + 1
  /\ UNCHANGED <<tasks, value, partial, used, resources>>

\* What no handler catches: empty or combine raises, or process is left by
\* what is no Exception, as an interrupt of the user.
EmptyRaises ==
  /\ pc = "empty" /\ pc' = "raise"
  /\ UNCHANGED <<tasks, n, value, partial, emitted, used, resources>>

CombineRaises ==
  /\ pc = "combine" /\ pc' = "raise"
  /\ UNCHANGED <<tasks, n, value, partial, emitted, used, resources>>

Interrupted ==
  /\ MayInterrupt
  /\ pc = "process" /\ pc' = "raise"
  /\ UNCHANGED <<tasks, n, value, partial, emitted, used, resources>>

\* The finally clause, on the way out of both ends.
Return ==
  /\ pc = "submit" /\ n = Len(tasks) /\ Len(emitted) >= Len(tasks)
  /\ pc' = "returned"
  /\ CloseAll
  /\ UNCHANGED <<tasks, n, value, partial, emitted, used>>

\* Mutant: only a run that returns releases its handles.
RaiseLeaking ==
  /\ pc = "raise" /\ pc' = "raised"
  /\ UNCHANGED <<tasks, n, value, partial, emitted, used, resources>>

Raise ==
  /\ pc = "raise" /\ pc' = "raised"
  /\ CloseAll
  /\ UNCHANGED <<tasks, n, value, partial, emitted, used>>

Next ==
  \/ Empty \/ Submit \/ Start
  \/ \E uri \in Uris : Use(uri)
  \/ ProcessReturns \/ ProcessRaises \/ Combine \/ Finish
  \/ EmptyRaises \/ CombineRaises \/ Interrupted
  \/ Return \/ Raise

Spec == Init /\ [][Next]_vars

-----------------------------------------------------------------------------
Over == pc \in {"returned", "raised"}

\* What has happened to a task before the m-th event is emitted for it.
Earlier(m) ==
  {emitted[k].phase : k \in {k \in 1 .. (m - 1) : emitted[k].task = emitted[m].task}}

\* A task is submitted, started and ended once each, in this order: what
\* happened to it before an event is exactly what comes before that event.
EventsInOrder ==
  \A m \in DOMAIN emitted :
    Earlier(m) = CASE emitted[m].phase = "submitted" -> {}
                   [] emitted[m].phase = "started" -> {"submitted"}
                   [] emitted[m].phase \in {"finished", "errored"} -> {"submitted", "started"}

\* Tasks run one at a time in key order: one starts only after all those
\* before it finished, and nothing is started once one has failed.
StartsInKeyOrder ==
  \A m \in DOMAIN emitted :
    emitted[m].phase = "started" =>
      \A k \in DOMAIN tasks :
        Before(tasks[k], emitted[m].task) =>
          \E l \in 1 .. (m - 1) :
            emitted[l] = Event("finished", tasks[k])

\* What the run returns is the fold of all partials in key order, whatever
\* order the plan lists its tasks in.
FoldsInKeyOrder ==
  pc = "returned" =>
    /\ ToSet(value) = ToSet(tasks) /\ n = Len(tasks) /\ Len(value) = n
    /\ \A k, m \in DOMAIN value : k < m => value[k].key <= value[m].key

\* A run leaves no handle open, however it ends.
HandlesReleased ==
  OpenedIsCachedOrClosed /\ (Over => ToSet(closed) = ToSet(opened))

\* The uses of the run that are their uri's last.
LastUses == {m \in DOMAIN used : \A k \in (m + 1) .. Len(used) : used[k] # used[m]}

\* The cache holds the uris used last, in the order of their last uses, and
\* leaves one out only when it is full: of two uris, when the one whose last
\* use is earlier is cached, the other is cached after it.
CacheIsMostRecent ==
  ~ Over =>
    /\ \A c \in DOMAIN handles : \E m \in LastUses : handles[c].uri = used[m]
    /\ Len(handles) < MaxOpen =>
         \A m \in LastUses : \E c \in DOMAIN handles : handles[c].uri = used[m]
    /\ \A m, k \in LastUses : \A c \in DOMAIN handles :
         m < k /\ handles[c].uri = used[m] =>
           \E d \in (c + 1) .. Len(handles) : handles[d].uri = used[k]

\* The contract TaskEvent states, of every task that was started: exactly
\* one of finished and errored follows.
StartedTasksEnd ==
  Over =>
    \A m \in DOMAIN tasks :
      Event("started", tasks[m]) \in ToSet(emitted) =>
        \E last \in {"finished", "errored"} : Event(last, tasks[m]) \in ToSet(emitted)
=============================================================================
