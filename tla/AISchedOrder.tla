---------------------------- MODULE AISchedOrder ----------------------------
(***************************************************************************)
(* The order in which concurrent dispatches serve the queues.  A dispatch  *)
(* searches five queues with five calls, and tasks arrive between them, so *)
(* what it promises is about the tasks that were waiting all along: a      *)
(* history variable remembers them.                                        *)
(***************************************************************************)
EXTENDS AISched

VARIABLE waiting  (* per CPU in dispatch: the tasks it could have taken from
                     the start of the dispatch until now *)

Takeable(c, t) == c \in Allowed[t] /\ \E q \in Dsqs : place[t] = InDsq(q)

OrderInit == Init /\ waiting = [c \in Cpus |-> {}]

\* Remember at the start of a dispatch, forget who moves, drop at its end.
Remember(c) ==
    IF pc'[c] # "dispatch" THEN {}
    ELSE IF pc[c] # "dispatch" THEN {t \in Tasks : Takeable(c, t)'}
    ELSE {t \in waiting[c] : place'[t] = place[t]}

OrderNext == Next /\ waiting' = [c \in Cpus |-> Remember(c)]

OrderSpec == OrderInit /\ [][OrderNext]_<<vars, waiting>>

\* The history variable restricts nothing, so fairness is that of AISched.
FairOrderSpec == OrderSpec /\ Fairness
-----------------------------------------------------------------------------
\* What the ordering rests on: a dispatch has passed no queue that held a task
\* it could have taken when it started.
NothingPassed ==
    \A c \in Cpus, t \in Tasks, q \in Dsqs :
        t \in waiting[c] /\ place[t] = InDsq(q) => q >= dq[c]

\* Strict priority: a dispatch takes a task only if no task of a queue that is
\* searched earlier, and none in front of it in its own queue, was there to
\* take when the dispatch began.  A higher task that arrives during the search
\* may be passed over.
InFront(q, u, t) ==
    \E i, j \in 1..Len(dsq[q]) : i < j /\ dsq[q][i] = u /\ dsq[q][j] = t

StrictPriority ==
    [][\A c \in Cpus, t, u \in Tasks, q, r \in Dsqs :
          /\ place[t] = InDsq(q) /\ place'[t] = InLocal(c)
          /\ u \in waiting[c] /\ place[u] = InDsq(r)
          => r > q \/ (r = q /\ ~InFront(q, u, t))]_<<vars, waiting>>

\* Work conservation: a dispatch that returns empty-handed, so that the CPU
\* idles or enqueues the task it was running, leaves behind no task it could
\* have taken all along.
WorkConserving ==
    [][\A c \in Cpus :
          pc[c] = "dispatch" /\ pc'[c] # "dispatch" /\ local'[c] = <<>>
              => waiting[c] = {}]_<<vars, waiting>>
=============================================================================
