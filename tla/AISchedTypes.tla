---------------------------- MODULE AISchedTypes ----------------------------
(***************************************************************************)
(* The enumerations kernel/include/ai_sched.h shares between the eBPF      *)
(* scheduler and the userspace daemon, and the dispatch queue ids of       *)
(* kernel/ai_sched.bpf.c.  They stay numbers: the code compares classes    *)
(* with <, reduces them modulo 5 and uses queue ids as a search order.     *)
(***************************************************************************)
EXTENDS Naturals

\* enum ai_task_class
AI_TASK_CLASS_REALTIME_AI    == 0
AI_TASK_CLASS_INTERACTIVE_AI == 1
AI_TASK_CLASS_BATCH_AI       == 2
AI_TASK_CLASS_BACKGROUND     == 3
AI_TASK_CLASS_UNKNOWN        == 4

TaskClasses == 0..4

\* enum ai_compute_device
AI_DEVICE_PERF_CORE == 0
AI_DEVICE_EFF_CORE  == 1
AI_DEVICE_GPU       == 2
AI_DEVICE_NPU       == 3
AI_DEVICE_AUTO      == 4

Devices == 0..4

\* enum ai_energy_mode
AI_ENERGY_PERFORMANCE == 0
AI_ENERGY_BALANCED    == 1
AI_ENERGY_EFFICIENT   == 2
AI_ENERGY_POWER_SAVER == 3

EnergyModes == 0..3

\* Dispatch queues, in the order ai_sched_dispatch searches them.
DSQ_PERF     == 0
DSQ_EFF      == 1
DSQ_GPU      == 2
DSQ_NPU      == 3
DSQ_FALLBACK == 4

Dsqs == 0..4
=============================================================================
