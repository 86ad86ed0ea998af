---------------------------- MODULE DecisionPath ----------------------------
(***************************************************************************)
(* What the decisions of the daemon mean to the scheduler: a sample of a   *)
(* process is classified (AieDaemon::classify_pending_tasks), and when the *)
(* decision is in sched_decisions the next enqueue of the process routes   *)
(* it (ai_sched_enqueue, select_dsq) under whatever energy mode is set by  *)
(* then.  DecisionWriter::write_decisions stores nothing so far, so this   *)
(* is the contract between the two ends of the map, not the daemon's run:  *)
(* AieDaemon models that.                                                  *)
(***************************************************************************)
EXTENDS Classifier, SchedPolicy

CONSTANTS
    Procs,         (* processes                                            *)
    Inputs,        (* the samples that are read                            *)
    Onnx,          (* TRUE when a model is loaded                          *)
    Present,       (* the accelerators DeviceManager::init detected        *)
    EnergyChoices, (* values userspace stores in energy_mode               *)
    NoDecision,    (* "no entry in sched_decisions"                        *)
    NotRouted      (* "not enqueued yet"                                   *)

\* The decisions of the daemon, slices between one and fifty milliseconds.
SlicesUs == {s \in Nat : 1000 <= s /\ s <= 50000}
DecisionType == [task_class : TaskClasses, preferred_device : Devices,
                 time_slice_us : SlicesUs]

ASSUME DecisionPathAssumption ==
    /\ Inputs \subseteq Telemetry
    /\ Onnx \in BOOLEAN
    /\ Present \subseteq {"GPU", "NPU"}
    /\ EnergyChoices \subseteq Nat
    /\ NoDecision \notin DecisionType
    /\ NotRouted \notin [decision : DecisionType, dsq : Dsqs]

VARIABLES
    energy_mode,     (* BPF array, one entry: any number userspace wrote   *)
    sample,          (* the sample last classified for a process           *)
    sched_decisions, (* BPF hash, process -> decision                      *)
    backend,         (* the backend that handled the decision              *)
    routed           (* the decision and the queue of the last enqueue     *)

vars == <<energy_mode, sample, sched_decisions, backend, routed>>

NoSample == <<>>

Init ==
    /\ energy_mode = AI_ENERGY_BALANCED
    /\ sample = [p \in Procs |-> NoSample]
    /\ sched_decisions = [p \in Procs |-> NoDecision]
    /\ backend = [p \in Procs |-> "CPU"]
    /\ routed = [p \in Procs |-> NotRouted]

\* One turn of the loop in classify_pending_tasks: sample t is given class k.
Decide(p, t, k) ==
    LET d == DecisionFor(k)
    IN  /\ sample' = [sample EXCEPT ![p] = t]
        /\ sched_decisions' = [sched_decisions EXCEPT ![p] = d]
        /\ backend' = [backend EXCEPT ![p] = SelectBackend(d.preferred_device, Present)]
        /\ UNCHANGED <<energy_mode, routed>>

\* The heuristic classifier, and the ONNX one while it has no model or when
\* inference throws.
DecideHeuristic(p) == \E t \in Inputs : Decide(p, t, ClassifyHeuristic(t))

\* The ONNX classifier: the index of the largest of the model's five outputs,
\* which nothing constrains.
DecideOnnx(p) == Onnx /\ \E t \in Inputs, k \in TaskClasses : Decide(p, t, k)

\* ai_sched_enqueue finds the decision and selects the queue.
Enqueue(p) ==
    /\ sched_decisions[p] # NoDecision
    /\ LET d == sched_decisions[p]
       IN  routed' = [routed EXCEPT ![p] =
               [decision |-> d,
                dsq |-> SelectDsq(d.task_class, d.preferred_device, energy_mode)]]
    /\ UNCHANGED <<energy_mode, sample, sched_decisions, backend>>

SetEnergyMode(m) ==
    /\ energy_mode' = m
    /\ UNCHANGED <<sample, sched_decisions, backend, routed>>

Next ==
    \/ \E p \in Procs : DecideHeuristic(p) \/ DecideOnnx(p) \/ Enqueue(p)
    \/ \E m \in EnergyChoices : SetEnergyMode(m)

Spec == Init /\ [][Next]_vars
-----------------------------------------------------------------------------
\* The type invariant.  Whatever is classified, and whatever the energy mode,
\* device, slice and queue stay in their ranges.
TypeOK ==
    /\ energy_mode \in Nat
    /\ sample \in [Procs -> Inputs \cup {NoSample}]
    /\ sched_decisions \in [Procs -> DecisionType \cup {NoDecision}]
    /\ backend \in [Procs -> {"CPU", "GPU", "NPU"}]
    /\ routed \in [Procs -> [decision : DecisionType, dsq : Dsqs] \cup {NotRouted}]

\* The processes whose last enqueue followed a decision of a known class.
Routed(p) == routed[p] # NotRouted /\ routed[p].decision.task_class # AI_TASK_CLASS_UNKNOWN

\* The daemon and the scheduler agree on what is urgent, though each has its
\* own table: of two processes the one of the more latency-sensitive class is
\* never put in a queue that dispatch searches later, and gets the shorter
\* slice, even if the energy mode changed between their enqueues.
UrgentFirst ==
    \A p, q \in Procs :
        /\ Routed(p) /\ Routed(q)
        /\ routed[p].decision.task_class < routed[q].decision.task_class
        => /\ routed[p].dsq <= routed[q].dsq
           /\ routed[p].decision.time_slice_us < routed[q].decision.time_slice_us

\* The energy mode moves batch work and nothing else: a process that is
\* enqueued in another queue than before, without a new decision, is batch.
EnergyMovesOnlyBatch ==
    [][\A p \in Procs :
          /\ routed[p] # NotRouted /\ routed'[p] # routed[p]
          /\ routed'[p].decision = routed[p].decision
          => routed[p].decision.task_class = AI_TASK_CLASS_BATCH_AI]_vars
-----------------------------------------------------------------------------
(* What a comment and the README say and the code does not do.             *)

\* The nice value a sample stands for.
NiceOf(t) == CHOOSE n \in Nice : ToU32(n) = t.nice_value

\* classifier.cpp:91: "High priority (nice <= -10) AND high CPU usage".  The
\* comparison is unsigned: nice values from 0 up satisfy it too.
RealtimeIsHighPriority ==
    \A p \in Procs :
        /\ sample[p] # NoSample /\ ~Onnx
        /\ sched_decisions[p].task_class = AI_TASK_CLASS_REALTIME_AI
        => NiceOf(sample[p]) <= -10

\* README.md:337: "Routes BATCH_AI and INTERACTIVE_AI tasks to NPU when
\* available".  select_device() leaves both classes to the scheduler, which puts
\* neither in DSQ_NPU.
NpuWhenAvailable ==
    \A p \in Procs :
        /\ "NPU" \in Present /\ routed[p] # NotRouted
        /\ routed[p].decision.task_class
              \in {AI_TASK_CLASS_INTERACTIVE_AI, AI_TASK_CLASS_BATCH_AI}
        => routed[p].dsq = DSQ_NPU
=============================================================================
