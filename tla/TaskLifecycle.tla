--------------------------- MODULE TaskLifecycle ---------------------------
(***************************************************************************)
(* What a scheduler owes its tasks, whatever its queues look like: a task  *)
(* is asleep, ready, or on one CPU that it is allowed on; a CPU executes   *)
(* one task at a time; only the task on the CPU blocks or is preempted.    *)
(***************************************************************************)
CONSTANTS Cpus, Tasks, Allowed

VARIABLE status

SleepingS == <<"asleep">>
ReadyS    == <<"ready">>
On(c)     == <<"cpu", c>>

Init == status = [t \in Tasks |-> SleepingS]

Become(t, s) == status' = [status EXCEPT ![t] = s]

WakeUp(t) == status[t] = SleepingS /\ Become(t, ReadyS)

Run(t, c) ==
    /\ status[t] = ReadyS
    /\ c \in Allowed[t]
    /\ \A u \in Tasks : status[u] # On(c)
    /\ Become(t, On(c))

Preempt(t) == (\E c \in Cpus : status[t] = On(c)) /\ Become(t, ReadyS)

Block(t) == (\E c \in Cpus : status[t] = On(c)) /\ Become(t, SleepingS)

Next ==
    \E t \in Tasks :
        WakeUp(t) \/ Preempt(t) \/ Block(t) \/ \E c \in Cpus : Run(t, c)

Spec == Init /\ [][Next]_status
=============================================================================
