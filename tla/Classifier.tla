----------------------------- MODULE Classifier -----------------------------
(***************************************************************************)
(* The pure part of the daemon: Classifier (ai/classifier.cpp), which      *)
(* turns a telemetry sample into a decision, and DeviceManager             *)
(* (ai/backends/device_manager.cpp), which picks the backend that handles  *)
(* it.                                                                     *)
(***************************************************************************)
EXTENDS AISchedTypes, Integers

CONSTANT U32  (* unsigned ints wrap at U32 (2^32 in the code) *)

ASSUME U32Assumption == U32 \in Nat /\ U32 > 64

\* An int stored in a __u32, or compared with one.
ToU32(n) == n % U32

\* The nice values of Linux.
Nice == -20..19

\* The fields classify_heuristic reads.  nice_value is the nice value as the
\* __u32 of struct ai_task_telemetry holds it.
Telemetry == [sched_class : Nat, nice_value : 0..(U32 - 1),
              cpu_util_recent : Nat, memory_rss_mb : Nat, num_threads : Nat]

\* "nice_value <= -10" with an unsigned left operand: -10 is converted.
NiceAtMost(t, n) == t.nice_value <= ToU32(n)

\* classify_heuristic(): the first pattern that matches decides.
ClassifyHeuristic(t) ==
    IF t.sched_class \in {0, 5}
    THEN AI_TASK_CLASS_BACKGROUND
    ELSE IF NiceAtMost(t, -10) /\ t.cpu_util_recent >= 40
    THEN AI_TASK_CLASS_REALTIME_AI
    ELSE IF t.memory_rss_mb >= 100 \/ t.num_threads >= 2
    THEN AI_TASK_CLASS_BATCH_AI
    ELSE IF t.cpu_util_recent >= 20
    THEN AI_TASK_CLASS_INTERACTIVE_AI
    ELSE AI_TASK_CLASS_BACKGROUND

\* select_device()
SelectDevice(task_class) ==
    IF task_class = AI_TASK_CLASS_REALTIME_AI     THEN AI_DEVICE_PERF_CORE
    ELSE IF task_class = AI_TASK_CLASS_BACKGROUND THEN AI_DEVICE_EFF_CORE
    ELSE AI_DEVICE_AUTO

\* estimate_time_slice(), in nanoseconds.
EstimateTimeSliceShortBatch(task_class) ==
    CASE task_class = AI_TASK_CLASS_REALTIME_AI    -> 1000000
      [] task_class = AI_TASK_CLASS_INTERACTIVE_AI -> 2000000
      [] task_class = AI_TASK_CLASS_BATCH_AI       -> 200000
      [] task_class = AI_TASK_CLASS_BACKGROUND     -> 50000000
      [] OTHER                                     -> 5000000
EstimateTimeSlice(task_class) ==
    IF task_class = AI_TASK_CLASS_REALTIME_AI         THEN 1000000
    ELSE IF task_class = AI_TASK_CLASS_INTERACTIVE_AI THEN 2000000
    ELSE IF task_class = AI_TASK_CLASS_BATCH_AI       THEN 20000000
    ELSE IF task_class = AI_TASK_CLASS_BACKGROUND     THEN 50000000
    ELSE 5000000

\* Classifier::classify() and OnnxClassifier::classify() once the class is
\* known: device and slice are looked up in the same two tables.
DecisionFor(task_class) ==
    [task_class       |-> task_class,
     preferred_device |-> SelectDevice(task_class),
     time_slice_us    |-> EstimateTimeSlice(task_class) \div 1000]
-----------------------------------------------------------------------------
\* DeviceManager::select_backend(), a switch that falls through from NPU to
\* GPU to CPU; "present" are the accelerators init() detected.
SelectBackend(device, present) ==
    IF device = AI_DEVICE_NPU /\ "NPU" \in present THEN "NPU"
    ELSE IF device \in {AI_DEVICE_NPU, AI_DEVICE_GPU} /\ "GPU" \in present THEN "GPU"
    ELSE "CPU"
=============================================================================
