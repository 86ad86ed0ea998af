------------------------ MODULE DecisionPathProofs ------------------------
(***************************************************************************)
(* Proofs about DecisionPath, for any processes and samples, any           *)
(* accelerators and any sequence of energy modes.                          *)
(***************************************************************************)
EXTENDS DecisionPath, TLAPS

-----------------------------------------------------------------------------
(* Lemmas about the two tables.                                            *)

\* classify_heuristic answers with one of the classes.
LEMMA HeuristicType ==
    ASSUME NEW t
    PROVE  ClassifyHeuristic(t) \in TaskClasses
  BY DEF ClassifyHeuristic, TaskClasses, AI_TASK_CLASS_BACKGROUND,
         AI_TASK_CLASS_REALTIME_AI, AI_TASK_CLASS_BATCH_AI,
         AI_TASK_CLASS_INTERACTIVE_AI

\* The slice of a decision, per class, in microseconds.
LEMMA SliceOf ==
    ASSUME NEW k \in TaskClasses
    PROVE  /\ DecisionFor(k).task_class = k
           /\ DecisionFor(k).time_slice_us =
                 IF k = 0 THEN 1000 ELSE IF k = 1 THEN 2000
                 ELSE IF k = 2 THEN 20000 ELSE IF k = 3 THEN 50000 ELSE 5000
<1>1. EstimateTimeSlice(k) =
         IF k = 0 THEN 1000000 ELSE IF k = 1 THEN 2000000
         ELSE IF k = 2 THEN 20000000 ELSE IF k = 3 THEN 50000000 ELSE 5000000
  BY DEF EstimateTimeSlice, TaskClasses, AI_TASK_CLASS_REALTIME_AI,
         AI_TASK_CLASS_INTERACTIVE_AI, AI_TASK_CLASS_BATCH_AI,
         AI_TASK_CLASS_BACKGROUND
<1> QED BY <1>1 DEF DecisionFor

\* The device of a decision: a kind of core, or the scheduler's choice.
LEMMA DeviceOf ==
    ASSUME NEW k \in TaskClasses
    PROVE  DecisionFor(k).preferred_device =
              IF k = 0 THEN AI_DEVICE_PERF_CORE
              ELSE IF k = 3 THEN AI_DEVICE_EFF_CORE ELSE AI_DEVICE_AUTO
  BY DEF DecisionFor, SelectDevice, TaskClasses, AI_TASK_CLASS_REALTIME_AI,
         AI_TASK_CLASS_BACKGROUND

\* A decision is of the declared type.
LEMMA DecisionForType ==
    ASSUME NEW k \in TaskClasses
    PROVE  DecisionFor(k) \in DecisionType
<1>1. DecisionFor(k).time_slice_us \in SlicesUs
  BY SliceOf DEF SlicesUs
<1>2. DecisionFor(k).preferred_device \in Devices
  BY DeviceOf DEF Devices, AI_DEVICE_PERF_CORE, AI_DEVICE_EFF_CORE,
                  AI_DEVICE_AUTO
<1>3. DecisionFor(k) = [task_class       |-> k,
                        preferred_device |-> DecisionFor(k).preferred_device,
                        time_slice_us    |-> DecisionFor(k).time_slice_us]
  BY DEF DecisionFor
<1> QED BY <1>1, <1>2, <1>3 DEF DecisionType

\* Where select_dsq puts a decision of the daemon.
QueueOf(d, e) == SelectDsq(d.task_class, d.preferred_device, e)

LEMMA QueueOfDecision ==
    ASSUME NEW k \in TaskClasses, NEW e
    PROVE  /\ k \in {0, 1} => QueueOf(DecisionFor(k), e) = DSQ_PERF
           /\ k = 2 => QueueOf(DecisionFor(k), e) \in {DSQ_PERF, DSQ_EFF}
           /\ k = 3 => QueueOf(DecisionFor(k), e) = DSQ_EFF
           /\ k = 4 => QueueOf(DecisionFor(k), e) = DSQ_FALLBACK
<1>1. /\ DecisionFor(k).task_class = k
      /\ DecisionFor(k).preferred_device =
            IF k = 0 THEN AI_DEVICE_PERF_CORE
            ELSE IF k = 3 THEN AI_DEVICE_EFF_CORE ELSE AI_DEVICE_AUTO
  BY SliceOf, DeviceOf
<1>2. /\ DOMAIN DsqOfDevice = {0, 1, 2, 3}
      /\ DsqOfDevice[AI_DEVICE_PERF_CORE] = DSQ_PERF
      /\ DsqOfDevice[AI_DEVICE_EFF_CORE] = DSQ_EFF
  BY DEF DsqOfDevice, AI_DEVICE_PERF_CORE, AI_DEVICE_EFF_CORE, AI_DEVICE_GPU,
         AI_DEVICE_NPU
<1>3. /\ k = 1 => DsqOfClass(k, e) = DSQ_PERF
      /\ k = 2 => DsqOfClass(k, e) \in {DSQ_PERF, DSQ_EFF}
      /\ k = 4 => DsqOfClass(k, e) = DSQ_FALLBACK
  BY DEF DsqOfClass, AI_TASK_CLASS_REALTIME_AI, AI_TASK_CLASS_INTERACTIVE_AI,
         AI_TASK_CLASS_BATCH_AI, AI_TASK_CLASS_BACKGROUND
<1> QED BY <1>1, <1>2, <1>3 DEF QueueOf, SelectDsq, AI_DEVICE_PERF_CORE,
           AI_DEVICE_EFF_CORE, AI_DEVICE_AUTO, TaskClasses

\* A decision of the daemon never reaches an accelerator.
LEMMA BackendOfDecision ==
    ASSUME NEW k \in TaskClasses
    PROVE  SelectBackend(DecisionFor(k).preferred_device, Present) = "CPU"
  BY DeviceOf DEF SelectBackend, AI_DEVICE_PERF_CORE, AI_DEVICE_EFF_CORE,
                  AI_DEVICE_AUTO, AI_DEVICE_NPU, AI_DEVICE_GPU
-----------------------------------------------------------------------------
(* The inductive invariant: every decision comes out of the daemon's       *)
(* tables, and every queue out of select_dsq for such a decision.          *)

Decided(d) == \E k \in TaskClasses : d = DecisionFor(k)

RoutedBy(r) == Decided(r.decision) /\ \E e \in Nat : r.dsq = QueueOf(r.decision, e)

IInv ==
    /\ energy_mode \in Nat
    /\ sample \in [Procs -> Inputs \cup {NoSample}]
    /\ DOMAIN sched_decisions = Procs
    /\ DOMAIN routed = Procs
    /\ sched_decisions = [p \in Procs |-> sched_decisions[p]]
    /\ routed = [p \in Procs |-> routed[p]]
    /\ backend = [p \in Procs |-> "CPU"]
    /\ \A p \in Procs :
          sched_decisions[p] # NoDecision => Decided(sched_decisions[p])
    /\ \A p \in Procs : routed[p] # NotRouted =>
          /\ routed[p] = [decision |-> routed[p].decision, dsq |-> routed[p].dsq]
          /\ RoutedBy(routed[p])

LEMMA InitIInv == Init => IInv
  BY DEF Init, IInv, AI_ENERGY_BALANCED

LEMMA DecideKeeps ==
    ASSUME IInv, NEW p \in Procs, NEW t \in Inputs, NEW k \in TaskClasses,
           Decide(p, t, k)
    PROVE  IInv'
<1>1. Decided(DecisionFor(k))
  BY DEF Decided
<1>2. /\ sched_decisions' = [sched_decisions EXCEPT ![p] = DecisionFor(k)]
      /\ backend' = [backend EXCEPT ![p] = "CPU"]
      /\ sample' = [sample EXCEPT ![p] = t]
      /\ UNCHANGED <<energy_mode, routed>>
  BY BackendOfDecision DEF Decide
<1>3. backend' = [q \in Procs |-> "CPU"]
  BY <1>2 DEF IInv
<1>4. \A q \in Procs : sched_decisions'[q] # NoDecision => Decided(sched_decisions'[q])
  BY <1>1, <1>2 DEF IInv
<1>5. sample' \in [Procs -> Inputs \cup {NoSample}]
  BY <1>2 DEF IInv
<1>6. /\ DOMAIN sched_decisions' = Procs
      /\ sched_decisions' = [q \in Procs |-> sched_decisions'[q]]
  BY <1>2 DEF IInv
<1> QED BY <1>2, <1>3, <1>4, <1>5, <1>6 DEF IInv

LEMMA EnqueueKeeps ==
    ASSUME IInv, NEW p \in Procs, Enqueue(p)
    PROVE  IInv'
<1> DEFINE d == sched_decisions[p]
           r == [decision |-> d, dsq |-> QueueOf(d, energy_mode)]
<1>1. Decided(d) /\ energy_mode \in Nat
  BY DEF Enqueue, IInv
<1>2. RoutedBy(r)
  BY <1>1 DEF RoutedBy
<1>3. /\ routed' = [routed EXCEPT ![p] = r]
      /\ UNCHANGED <<energy_mode, sample, sched_decisions, backend>>
  BY DEF Enqueue, QueueOf
<1>4. r = [decision |-> r.decision, dsq |-> r.dsq]
  OBVIOUS
<1> HIDE DEF r
<1>5. DOMAIN routed' = Procs /\ routed' = [q \in Procs |-> routed'[q]]
  BY <1>3 DEF IInv
<1>6. \A q \in Procs : routed'[q] # NotRouted =>
         /\ routed'[q] = [decision |-> routed'[q].decision, dsq |-> routed'[q].dsq]
         /\ RoutedBy(routed'[q])
  BY <1>2, <1>3, <1>4 DEF IInv
<1> QED BY <1>3, <1>5, <1>6 DEF IInv

LEMMA NextIInv == IInv /\ [Next]_vars => IInv'
<1> SUFFICES ASSUME IInv, [Next]_vars PROVE IInv'
  OBVIOUS
<1> USE DecisionPathAssumption DEF DecisionPathAssumption
<1>1. ASSUME NEW p \in Procs, DecideHeuristic(p) PROVE IInv'
  BY <1>1, DecideKeeps, HeuristicType DEF DecideHeuristic
<1>2. ASSUME NEW p \in Procs, DecideOnnx(p) PROVE IInv'
  BY <1>2, DecideKeeps DEF DecideOnnx
<1>3. ASSUME NEW p \in Procs, Enqueue(p) PROVE IInv'
  BY <1>3, EnqueueKeeps
<1>4. ASSUME NEW m \in EnergyChoices, SetEnergyMode(m) PROVE IInv'
  BY <1>4 DEF SetEnergyMode, IInv
<1>5. CASE UNCHANGED vars
  BY <1>5 DEF vars, IInv
<1> QED BY <1>1, <1>2, <1>3, <1>4, <1>5 DEF Next

LEMMA Invariant == Spec => []IInv
  BY InitIInv, NextIInv, PTL DEF Spec
-----------------------------------------------------------------------------
\* Whatever is classified, and whatever the energy mode, every decision,
\* backend and queue is in its range.
THEOREM TypeCorrect == Spec => []TypeOK
<1>1. IInv => TypeOK
  <2> SUFFICES ASSUME IInv PROVE TypeOK
    OBVIOUS
  <2>1. \A d : Decided(d) => d \in DecisionType
    BY DecisionForType DEF Decided
  <2>2. \A d, e : Decided(d) => QueueOf(d, e) \in Dsqs
    BY QueueOfDecision DEF Decided, TaskClasses, Dsqs, DSQ_PERF, DSQ_EFF, DSQ_FALLBACK
  <2>3. sched_decisions \in [Procs -> DecisionType \cup {NoDecision}]
    BY <2>1 DEF IInv
  <2>4. \A p \in Procs : routed[p] # NotRouted =>
           routed[p] \in [decision : DecisionType, dsq : Dsqs]
    BY <2>1, <2>2 DEF IInv, RoutedBy
  <2>5. routed \in [Procs -> [decision : DecisionType, dsq : Dsqs] \cup {NotRouted}]
    BY <2>4 DEF IInv
  <2> QED BY <2>3, <2>5 DEF IInv, TypeOK
<1> QED BY <1>1, Invariant, PTL

\* The daemon's tables and the scheduler's agree on what is urgent: the more
\* latency-sensitive of two processes is never behind, and has the shorter
\* slice, even if the energy mode changed between their enqueues.
THEOREM UrgentNeverBehind == Spec => []UrgentFirst
<1>1. IInv => UrgentFirst
  <2> SUFFICES ASSUME IInv, NEW p \in Procs, NEW q \in Procs, Routed(p), Routed(q),
                      routed[p].decision.task_class < routed[q].decision.task_class
               PROVE  /\ routed[p].dsq <= routed[q].dsq
                      /\ routed[p].decision.time_slice_us
                            < routed[q].decision.time_slice_us
    BY DEF UrgentFirst
  <2>1. PICK j \in TaskClasses, e \in Nat :
           /\ routed[p].decision = DecisionFor(j)
           /\ routed[p].dsq = QueueOf(DecisionFor(j), e)
    BY DEF IInv, Routed, RoutedBy, Decided
  <2>2. PICK k \in TaskClasses, f \in Nat :
           /\ routed[q].decision = DecisionFor(k)
           /\ routed[q].dsq = QueueOf(DecisionFor(k), f)
    BY DEF IInv, Routed, RoutedBy, Decided
  <2>3. j < k /\ k # 4 /\ j \in 0..4 /\ k \in 0..4
    BY <2>1, <2>2, SliceOf DEF Routed, AI_TASK_CLASS_UNKNOWN, TaskClasses
  <2>4. routed[p].dsq <= routed[q].dsq
    BY <2>1, <2>2, <2>3, QueueOfDecision DEF DSQ_PERF, DSQ_EFF
  <2>5. DecisionFor(j).time_slice_us < DecisionFor(k).time_slice_us
    BY <2>3, SliceOf
  <2> QED BY <2>1, <2>2, <2>4, <2>5
<1> QED BY <1>1, Invariant, PTL

\* Whatever hardware was detected, no decision of the daemon reaches the queue
\* or the backend of an accelerator: the README's routing to the NPU
\* (NpuWhenAvailable) fails for every sample, model and energy mode.
CpuOnly ==
    \A p \in Procs :
        /\ routed[p] # NotRouted => routed[p].dsq \notin {DSQ_GPU, DSQ_NPU}
        /\ backend[p] = "CPU"

THEOREM AcceleratorsIdle == Spec => []CpuOnly
<1>1. IInv => CpuOnly
  BY QueueOfDecision DEF IInv, CpuOnly, RoutedBy, Decided, TaskClasses,
     DSQ_PERF, DSQ_EFF, DSQ_GPU, DSQ_NPU, DSQ_FALLBACK
<1> QED BY <1>1, Invariant, PTL

\* The energy mode moves batch work and nothing else: select_dsq reads it for
\* that one class only.
THEOREM OnlyBatchMoves == Spec => EnergyMovesOnlyBatch
<1> DEFINE Moved(p) == /\ routed[p] # NotRouted /\ routed'[p] # routed[p]
                       /\ routed'[p].decision = routed[p].decision
           Batch(p) == routed[p].decision.task_class = AI_TASK_CLASS_BATCH_AI
<1>1. IInv /\ [Next]_vars => [\A p \in Procs : Moved(p) => Batch(p)]_vars
  <2> SUFFICES ASSUME IInv, [Next]_vars, NEW p \in Procs, Moved(p)
               PROVE  Batch(p)
    OBVIOUS
  <2>1. PICK q \in Procs : Enqueue(q)
    BY DEF Next, vars, DecideHeuristic, DecideOnnx, Decide, SetEnergyMode
  <2>2. /\ routed'[p].dsq = QueueOf(routed'[p].decision, energy_mode)
        /\ routed'[p] = [decision |-> routed'[p].decision, dsq |-> routed'[p].dsq]
    BY <2>1 DEF Enqueue, IInv, QueueOf
  <2>3. PICK k \in TaskClasses, e \in Nat :
           /\ routed[p].decision = DecisionFor(k)
           /\ routed[p].dsq = QueueOf(DecisionFor(k), e)
    BY DEF IInv, RoutedBy, Decided
  <2>4. routed[p] = [decision |-> routed[p].decision, dsq |-> routed[p].dsq]
    BY DEF IInv
  <2>5. routed'[p].dsq # routed[p].dsq
    BY <2>2, <2>4
  <2>6. QueueOf(DecisionFor(k), energy_mode) # QueueOf(DecisionFor(k), e)
    BY <2>2, <2>3, <2>5
  <2>7. k = 2
    BY <2>6, QueueOfDecision DEF TaskClasses
  <2> QED BY <2>3, <2>7, SliceOf DEF AI_TASK_CLASS_BATCH_AI
<1> QED BY <1>1, Invariant, PTL DEF Spec, EnergyMovesOnlyBatch
=============================================================================
