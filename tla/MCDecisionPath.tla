--------------------------- MODULE MCDecisionPath ---------------------------
(***************************************************************************)
(* Small instances of DecisionPath for TLC.                                *)
(***************************************************************************)
EXTENDS DecisionPath

CONSTANTS p1, p2

OneProc  == {p1}
TwoProcs == {p1, p2}

\* The values on both sides of every threshold of classify_heuristic.
Boundary ==
    [sched_class : {0, 1, 5}, nice_value : {ToU32(n) : n \in {-20, -10, -9, -1, 0, 19}},
     cpu_util_recent : {19, 20, 39, 40}, memory_rss_mb : {99, 100},
     num_threads : {1, 2}]

\* One sample for each class the heuristic knows.
FourKinds ==
    {[sched_class |-> 0, nice_value |-> 0, cpu_util_recent |-> 50,
      memory_rss_mb |-> 50, num_threads |-> 1],
     [sched_class |-> 1, nice_value |-> ToU32(-15), cpu_util_recent |-> 50,
      memory_rss_mb |-> 50, num_threads |-> 1],
     [sched_class |-> 1, nice_value |-> 5, cpu_util_recent |-> 30,
      memory_rss_mb |-> 500, num_threads |-> 1],
     [sched_class |-> 1, nice_value |-> 5, cpu_util_recent |-> 30,
      memory_rss_mb |-> 50, num_threads |-> 1]}

\* The energy modes, and a number that is none.
AnyEnergy == EnergyModes \cup {7}
OneEnergy == {AI_ENERGY_BALANCED}

Both == {"GPU", "NPU"}
Neither == {}
=============================================================================
