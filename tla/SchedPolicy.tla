---------------------------- MODULE SchedPolicy ----------------------------
(***************************************************************************)
(* The pure part of kernel/ai_sched.bpf.c: how one enqueue classifies a    *)
(* task, which time slice and which dispatch queue it chooses, and which   *)
(* statistic it bumps.                                                     *)
(***************************************************************************)
EXTENDS AISchedTypes

\* What classify_task_fallback reads of a task_struct.  "system" stands for
\* the two flag bits it tests, "threads" and "memory_mb" are 1 and 0 for a
\* task without a signal or mm struct, "runnable" is __state == 0.
Profiles == [system : BOOLEAN, threads : Nat, memory_mb : Nat,
             runnable : BOOLEAN, prio : Nat]

\* classify_task_fallback(): the first rule that applies decides.
ClassifyTaskFallback(p) ==
    IF p.system                               THEN AI_TASK_CLASS_BACKGROUND
    ELSE IF p.runnable /\ p.prio < 100        THEN AI_TASK_CLASS_REALTIME_AI
    ELSE IF p.threads > 4 /\ p.memory_mb > 50 THEN AI_TASK_CLASS_BATCH_AI
    ELSE IF p.memory_mb > 200                 THEN AI_TASK_CLASS_INTERACTIVE_AI
    ELSE IF p.prio > 130                      THEN AI_TASK_CLASS_BACKGROUND
    ELSE AI_TASK_CLASS_UNKNOWN

\* The switch at the end of get_time_slice_ns(), in nanoseconds.
DefaultSlice(task_class) ==
    CASE task_class = AI_TASK_CLASS_REALTIME_AI    -> 1000000
      [] task_class = AI_TASK_CLASS_INTERACTIVE_AI -> 2000000
      [] task_class = AI_TASK_CLASS_BATCH_AI       -> 10000000
      [] task_class = AI_TASK_CLASS_BACKGROUND     -> 20000000
      [] OTHER                                     -> 5000000

\* get_time_slice_ns(): time_slices is a BPF array of 5 entries, so a lookup
\* with a key below 5 always finds one; entries nobody wrote are 0.
GetTimeSliceNs(task_class, time_slices) ==
    LET key == task_class % 5
    IN  IF key \in DOMAIN time_slices THEN time_slices[key]
        ELSE DefaultSlice(task_class)

\* select_dsq() when the decision names no device.
DsqOfClassFlexible(task_class, energy) ==
    CASE task_class = AI_TASK_CLASS_REALTIME_AI -> DSQ_PERF
      [] task_class \in {AI_TASK_CLASS_INTERACTIVE_AI,
                         AI_TASK_CLASS_BATCH_AI} ->
            IF energy \in {AI_ENERGY_EFFICIENT, AI_ENERGY_POWER_SAVER}
            THEN DSQ_EFF ELSE DSQ_PERF
      [] task_class = AI_TASK_CLASS_BACKGROUND -> DSQ_EFF
      [] OTHER -> DSQ_FALLBACK
DsqOfClass(task_class, energy) ==
    IF task_class \in {AI_TASK_CLASS_REALTIME_AI, AI_TASK_CLASS_INTERACTIVE_AI}
    THEN DSQ_PERF
    ELSE IF task_class = AI_TASK_CLASS_BATCH_AI
    THEN IF energy \in {AI_ENERGY_EFFICIENT, AI_ENERGY_POWER_SAVER}
         THEN DSQ_EFF ELSE DSQ_PERF
    ELSE IF task_class = AI_TASK_CLASS_BACKGROUND THEN DSQ_EFF
    ELSE DSQ_FALLBACK

\* The queue select_dsq() uses for a device the decision names.
DsqOfDevice == [d \in {AI_DEVICE_PERF_CORE, AI_DEVICE_EFF_CORE,
                       AI_DEVICE_GPU, AI_DEVICE_NPU} |->
                   IF d = AI_DEVICE_PERF_CORE     THEN DSQ_PERF
                   ELSE IF d = AI_DEVICE_EFF_CORE THEN DSQ_EFF
                   ELSE IF d = AI_DEVICE_GPU      THEN DSQ_GPU
                   ELSE DSQ_NPU]

\* select_dsq(): a device it knows wins over the class; AUTO and values
\* outside the enumeration leave the choice to class and energy mode.
SelectDsq(task_class, device, energy) ==
    IF device \in DOMAIN DsqOfDevice THEN DsqOfDevice[device]
    ELSE DsqOfClass(task_class, energy)

\* update_stats(): the routing counters one enqueue bumps besides
\* tasks_enqueued, at most one of them.
RoutedCounters(task_class, dsq) ==
    IF dsq = DSQ_PERF /\ task_class < AI_TASK_CLASS_BACKGROUND
    THEN {"tasks_ai_routed_cpu"}
    ELSE IF dsq = DSQ_NPU THEN {"tasks_ai_routed_npu"}
    ELSE IF dsq = DSQ_EFF THEN {"tasks_bg_routed_eff"}
    ELSE {}
=============================================================================
