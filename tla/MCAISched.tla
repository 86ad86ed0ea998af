----------------------------- MODULE MCAISched -----------------------------
(***************************************************************************)
(* Small instances of AISched for TLC.                                     *)
(***************************************************************************)
EXTENDS AISchedRefinement

CONSTANTS c1, c2, t1, t2, t3, none

Profiled(m, th, pr) == [system |-> FALSE, threads |-> th, memory_mb |-> m,
                        runnable |-> TRUE, prio |-> pr]

TwoCpus    == {c1, c2}
ThreeTasks == {t1, t2, t3}
TwoTasks   == {t1, t2}

\* Threads of one process, which share their decision.
OneProc == [t \in Tasks |-> 1]
OnePid  == {1}

\* t1 is a plain thread, t2 looks like batch work.
PlainAndBatch == [t \in Tasks |->
    IF t = t1 THEN Profiled(10, 1, 120) ELSE Profiled(100, 8, 120)]

\* Without a decision t1 goes to DSQ_FALLBACK, t2 to DSQ_EFF, t3 to DSQ_PERF.
ThreeLevels == [t \in Tasks |->
    CASE t = t1 -> Profiled(10, 3, 120)
      [] t = t2 -> Profiled(10, 3, 139)
      [] t = t3 -> Profiled(10, 3, 50)]

Pinned   == [t \in Tasks |-> IF t = t2 THEN {c1} ELSE Cpus]

Decide(k, d, us) == [task_class |-> k, preferred_device |-> d, time_slice_us |-> us]

\* A decision that names the NPU, which no classifier of the repository makes
\* but any writer of the map may.
NpuDecision == Decide(AI_TASK_CLASS_BATCH_AI, AI_DEVICE_NPU, 20000)

NoDecisions == {}
JustNpu     == {NpuDecision}

Balanced    == {}
EnergyFlips == {AI_ENERGY_BALANCED, AI_ENERGY_POWER_SAVER}
NoSlices    == {}
OneSlice    == {5}
OneFailure  == {DSQ_NPU}
=============================================================================
