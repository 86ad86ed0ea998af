------------------------- MODULE AISchedRefinement -------------------------
(***************************************************************************)
(* AISched implements TaskLifecycle: a task in an enqueue, in a dispatch   *)
(* queue or in a local queue is ready.                                     *)
(***************************************************************************)
EXTENDS AISched

StatusOf(t) ==
    IF \E c \in Cpus : running[c] = t THEN OnCpu(CHOOSE c \in Cpus : running[c] = t)
    ELSE IF place[t] = Asleep THEN Asleep
    ELSE <<"ready">>

Lifecycle == INSTANCE TaskLifecycle WITH status <- [t \in Tasks |-> StatusOf(t)]

\* Through every interleaving of wakeups, expired slices, dispatches and map
\* writes, each task goes through the life a scheduler owes it.
ImplementsLifecycle == Lifecycle!Spec
=============================================================================
