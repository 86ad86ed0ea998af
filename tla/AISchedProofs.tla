--------------------------- MODULE AISchedProofs ---------------------------
(***************************************************************************)
(* Proofs about AISched, for any number of CPUs, tasks and processes.      *)
(***************************************************************************)
EXTENDS AISched, SequenceTheorems, FiniteSetTheorems, TLAPS

-----------------------------------------------------------------------------
(* Lemmas about the policy operators.                                      *)

\* select_dsq returns one of the five queues whatever class, device and energy
\* mode it is given, values outside the enumerations included.
LEMMA SelectDsqType ==
    ASSUME NEW k \in Nat, NEW d \in Nat, NEW e \in Nat
    PROVE  SelectDsq(k, d, e) \in Dsqs
<1>1. DsqOfClass(k, e) \in Dsqs
  BY DEF DsqOfClass, Dsqs, DSQ_PERF, DSQ_EFF, DSQ_FALLBACK,
         AI_TASK_CLASS_REALTIME_AI, AI_TASK_CLASS_INTERACTIVE_AI,
         AI_TASK_CLASS_BATCH_AI, AI_TASK_CLASS_BACKGROUND,
         AI_ENERGY_EFFICIENT, AI_ENERGY_POWER_SAVER
<1>2. DsqOfDevice \in [{0, 1, 2, 3} -> Dsqs]
  BY DEF DsqOfDevice, Dsqs, DSQ_PERF, DSQ_EFF, DSQ_GPU, DSQ_NPU,
         AI_DEVICE_PERF_CORE, AI_DEVICE_EFF_CORE, AI_DEVICE_GPU, AI_DEVICE_NPU
<1> QED BY <1>1, <1>2 DEF SelectDsq

\* The fallback classifies every task into the enumeration.
LEMMA FallbackType ==
    ASSUME NEW p
    PROVE  ClassifyTaskFallback(p) \in TaskClasses
  BY DEF ClassifyTaskFallback, TaskClasses, AI_TASK_CLASS_BACKGROUND,
         AI_TASK_CLASS_REALTIME_AI, AI_TASK_CLASS_BATCH_AI,
         AI_TASK_CLASS_INTERACTIVE_AI, AI_TASK_CLASS_UNKNOWN

\* get_time_slice_ns always finds an entry of the array.
LEMMA SliceType ==
    ASSUME NEW k \in Nat, NEW s \in [TaskClasses -> Nat]
    PROVE  /\ GetTimeSliceNs(k, s) = s[k % 5]
           /\ GetTimeSliceNs(k, s) \in Nat
  BY DEF GetTimeSliceNs, TaskClasses

\* Removing one element of a sequence leaves the others, in their order.
LEMMA RemoveAtProperties ==
    ASSUME NEW S, NEW s \in Seq(S), NEW i \in 1..Len(s)
    PROVE  /\ RemoveAt(s, i) \in Seq(S)
           /\ Len(RemoveAt(s, i)) = Len(s) - 1
           /\ \A j \in 1..(Len(s) - 1) :
                 RemoveAt(s, i)[j] = IF j < i THEN s[j] ELSE s[j + 1]
<1> DEFINE a == SubSeq(s, 1, i - 1)
           b == SubSeq(s, i + 1, Len(s))
<1>1. Len(s) \in Nat /\ \A j \in 1..Len(s) : s[j] \in S
  BY ElementOfSeq, LenProperties
<1>2. /\ a \in Seq(S) /\ Len(a) = i - 1
      /\ \A j \in 1..(i - 1) : a[j] = s[j]
  BY <1>1, SubSeqProperties
<1>3. /\ b \in Seq(S) /\ Len(b) = Len(s) - i
      /\ \A j \in 1..(Len(s) - i) : b[j] = s[i + j]
  BY <1>1, SubSeqProperties
<1>a. RemoveAt(s, i) = a \o b
  BY DEF RemoveAt
<1> HIDE DEF a, b
<1>b. /\ a \o b \in Seq(S)
      /\ Len(a \o b) = Len(a) + Len(b)
      /\ \A j \in 1..(Len(a) + Len(b)) :
            (a \o b)[j] = IF j <= Len(a) THEN a[j] ELSE b[j - Len(a)]
  BY <1>2, <1>3, ConcatProperties
<1>c. Len(a) + Len(b) = Len(s) - 1
  BY <1>1, <1>2, <1>3
<1>4. /\ a \o b \in Seq(S)
      /\ Len(a \o b) = Len(s) - 1
      /\ \A j \in 1..(Len(s) - 1) :
            (a \o b)[j] = IF j <= i - 1 THEN a[j] ELSE b[j - (i - 1)]
  BY <1>b, <1>c, <1>2
<1>5. \A j \in 1..(Len(s) - 1) :
         (a \o b)[j] = IF j < i THEN s[j] ELSE s[j + 1]
  <2> TAKE j \in 1..(Len(s) - 1)
  <2>1. CASE j < i
    BY <2>1, <1>2, <1>4
  <2>2. CASE ~(j < i)
    <3>1. j - (i - 1) \in 1..(Len(s) - i) /\ i + (j - (i - 1)) = j + 1
      BY <2>2, <1>1
    <3> QED BY <2>2, <3>1, <1>3, <1>4
  <2> QED BY <2>1, <2>2
<1> QED BY <1>a, <1>4, <1>5
-----------------------------------------------------------------------------
(* Type correctness.                                                       *)

\* Every frame a step builds is a frame.
LEMMA NoFrameType ==
    /\ NoFrame \in Frames /\ NoFrame.task = NoTask
    /\ \A t \in Tasks : /\ [NoFrame EXCEPT !.task = t] \in Frames
                        /\ [NoFrame EXCEPT !.task = t].task = t
  BY DEF NoFrame, Frames, Dsqs, DSQ_PERF, AI_TASK_CLASS_UNKNOWN, AI_DEVICE_AUTO

LEMMA ClassifiedType ==
    ASSUME NEW t \in Tasks, NEW k \in Nat, NEW d \in Nat, NEW n \in Nat
    PROVE  /\ Classified(t, k, d, n) \in Frames
           /\ Classified(t, k, d, n).task = t
  BY DEF Classified, Frames, Dsqs, DSQ_PERF

LEMMA PlacesType ==
    /\ Asleep \in Places
    /\ \A c \in Cpus : {InHandler(c), InLocal(c), OnCpu(c)} \subseteq Places
    /\ \A q \in Dsqs : InDsq(q) \in Places
  BY DEF Places

LEMMA InitTypeOK == Init => TypeOK
<1> SUFFICES ASSUME Init PROVE TypeOK
  OBVIOUS
<1>1. 0 \in EnergyModes /\ DSQ_PERF \in Dsqs /\ 0 \in 0..(U64 - 1)
  BY ConstantsAssumption DEF EnergyModes, Dsqs, DSQ_PERF
<1>2. <<>> \in Seq(Samples) /\ Len(<<>>) = 0 /\ <<>> \in Seq(Tasks) /\ 0 <= RingCap
  BY EmptySeq, ConstantsAssumption
<1>3. frame \in [Cpus -> Frames] /\ \A c \in Cpus : frame[c].task = NoTask
  BY NoFrameType DEF Init
<1>4. pc \in [Cpus -> {"cpu", "dispatch", "pick"} \cup Enqueuing]
      /\ \A c \in Cpus : pc[c] \notin Enqueuing
  BY DEF Init, Enqueuing
<1>5. place \in [Tasks -> Places]
  BY PlacesType DEF Init
<1> QED BY <1>1, <1>2, <1>3, <1>4, <1>5 DEF Init, TypeOK

\* EndRound leaves a step and a frame that belong together.
LEMMA EndRoundType ==
    ASSUME TypeOK, NEW c \in Cpus, pc[c] \notin Enqueuing, EndRound(c)
    PROVE  /\ pc' \in [Cpus -> {"cpu", "dispatch", "pick"} \cup Enqueuing]
           /\ frame' \in [Cpus -> Frames]
           /\ \A e \in Cpus : frame'[e].task = NoTask <=> pc'[e] \notin Enqueuing
<1>1. CASE running[c] = NoTask
  BY <1>1 DEF TypeOK, EndRound, Enqueuing
<1>2. CASE running[c] # NoTask
  <2>1. running[c] \in Tasks /\ NoTask \notin Tasks
    BY <1>2, ConstantsAssumption DEF TypeOK
  <2> QED BY ZenonT(60), <1>2, <2>1, NoFrameType DEF TypeOK, EndRound, Enqueuing
<1> QED BY <1>1, <1>2

LEMMA StartRoundType ==
    ASSUME TypeOK, NEW c \in Cpus, pc[c] \notin Enqueuing, StartRound(c)
    PROVE  /\ pc' \in [Cpus -> {"cpu", "dispatch", "pick"} \cup Enqueuing]
           /\ frame' \in [Cpus -> Frames]
           /\ \A e \in Cpus : frame'[e].task = NoTask <=> pc'[e] \notin Enqueuing
           /\ dq' \in [Cpus -> Dsqs]
<1>1. CASE local[c] # <<>> /\ EndRound(c) /\ UNCHANGED dq
  BY <1>1, EndRoundType DEF TypeOK
<1>2. CASE /\ local[c] = <<>>
           /\ pc' = [pc EXCEPT ![c] = "dispatch"]
           /\ dq' = [dq EXCEPT ![c] = FirstDsq]
           /\ UNCHANGED frame
  BY <1>2 DEF TypeOK, Enqueuing, FirstDsq, Dsqs, DSQ_PERF
<1> QED BY <1>1, <1>2 DEF StartRound

\* The induction step of type correctness, one step per action.
LEMMA NextTypeOK == TypeOK /\ [Next]_vars => TypeOK'
<1> SUFFICES ASSUME TypeOK, [Next]_vars PROVE TypeOK'
  OBVIOUS
<1> USE ConstantsAssumption
<1>1. CASE AiSchedInit
  BY <1>1 DEF AiSchedInit, CreatedDsqs, TypeOK, core, EnergyModes, AI_ENERGY_BALANCED
<1>2. ASSUME NEW c \in Cpus, NEW t \in Tasks, Wake(c, t) PROVE TypeOK'
  BY <1>2, NoFrameType, PlacesType DEF Wake, TypeOK, maps, Enqueuing
<1>3. ASSUME NEW c \in Cpus, NEW t \in Tasks, WakeToIdle(c, t) PROVE TypeOK'
  <2>1. Append(local[c], t) \in Seq(Tasks)
    BY AppendProperties DEF TypeOK
  <2> QED BY <1>3, <2>1, PlacesType DEF WakeToIdle, TypeOK, maps
<1>4. ASSUME NEW c \in Cpus, Lookup(c) PROVE TypeOK'
  <2>1. pc[c] \in Enqueuing /\ frame[c] \in Frames /\ frame[c].task \in Tasks
    BY <1>4 DEF Lookup, TypeOK, Enqueuing, Frames
  <2>2. frame' \in [Cpus -> Frames] /\ \A e \in Cpus : frame'[e].task = frame[e].task
    <3> DEFINE d == sched_decisions[Tgid[frame[c].task]]
               k == ClassifyTaskFallback(Profile[frame[c].task])
    <3>1. CASE d # NoDecision
      <4>1. d \in DecisionType
        BY <2>1, <3>1 DEF TypeOK
      <4>2. /\ d.task_class \in Nat /\ d.preferred_device \in Nat
            /\ d.time_slice_us * 1000 \in Nat
        BY <4>1 DEF DecisionType
      <4>5. PICK m \in Nat, v \in Nat, n \in Nat :
               m = d.task_class /\ v = d.preferred_device /\ n = d.time_slice_us * 1000
        BY <4>2
      <4> DEFINE f == Classified(frame[c].task, m, v, n)
      <4>3. f \in Frames /\ f.task = frame[c].task
        <5>1. frame[c].task \in Tasks
          BY <2>1
        <5> QED BY <5>1, ClassifiedType
      <4>4. frame' = [frame EXCEPT ![c] = f]
        BY <1>4, <3>1, <4>5 DEF Lookup
      <4> HIDE DEF f
      <4> QED BY <4>3, <4>4 DEF TypeOK
    <3>2. CASE d = NoDecision
      <4>1. k \in Nat
        BY FallbackType DEF TaskClasses
      <4>2. GetTimeSliceNs(k, time_slices) \in Nat /\ AI_DEVICE_AUTO \in Nat
        BY <4>1, SliceType DEF TypeOK, AI_DEVICE_AUTO
      <4> DEFINE f == Classified(frame[c].task, k, AI_DEVICE_AUTO,
                                 GetTimeSliceNs(k, time_slices))
      <4>3. f \in Frames /\ f.task = frame[c].task
        <5>1. frame[c].task \in Tasks
          BY <2>1
        <5> QED BY <5>1, <4>1, <4>2, ClassifiedType
      <4>4. frame' = [frame EXCEPT ![c] = f]
        BY <1>4, <3>2 DEF Lookup
      <4> HIDE DEF f
      <4> QED BY <4>3, <4>4 DEF TypeOK
    <3> QED BY <3>1, <3>2
  <2>3. pc' \in [Cpus -> {"cpu", "dispatch", "pick"} \cup Enqueuing]
        /\ \A e \in Cpus : pc'[e] \in Enqueuing <=> pc[e] \in Enqueuing
    BY <1>4 DEF Lookup, TypeOK, Enqueuing
  <2> QED BY <1>4, <2>2, <2>3 DEF Lookup, TypeOK, maps, core
<1>5. ASSUME NEW c \in Cpus, Select(c) PROVE TypeOK'
  <2>1. pc[c] \in Enqueuing /\ frame[c] \in Frames /\ frame[c].task \in Tasks
    BY <1>5 DEF Select, TypeOK, Enqueuing, Frames
  <2>2. SelectDsq(frame[c].task_class, frame[c].device, energy_mode) \in Dsqs
    <3>1. /\ frame[c].task_class \in Nat /\ frame[c].device \in Nat
          /\ energy_mode \in Nat
      BY <2>1 DEF TypeOK, Frames, EnergyModes
    <3> QED BY <3>1, SelectDsqType
  <2>3. frame' \in [Cpus -> Frames] /\ \A e \in Cpus : frame'[e].task = frame[e].task
    BY <1>5, <2>1, <2>2 DEF Select, TypeOK, Frames
  <2>4. [pid |-> CurrentPid(c), task |-> frame[c].task] \in Samples
    BY <2>1 DEF TypeOK, CurrentPid, Samples
  <2>5. ring' \in Seq(Samples) /\ Len(ring') <= RingCap
    <3>1. CASE Len(ring) < RingCap
      BY <1>5, <2>4, <3>1, AppendProperties, LenProperties DEF Select, Submit, TypeOK
    <3>2. CASE ~(Len(ring) < RingCap)
      BY <1>5, <3>2 DEF Select, Submit, TypeOK
    <3> QED BY <3>1, <3>2
  <2>6. pc' \in [Cpus -> {"cpu", "dispatch", "pick"} \cup Enqueuing]
        /\ \A e \in Cpus : pc'[e] \in Enqueuing <=> pc[e] \in Enqueuing
    BY <1>5 DEF Select, TypeOK, Enqueuing
  <2> QED BY <1>5, <2>3, <2>5, <2>6 DEF Select, TypeOK, maps, core
<1>6. ASSUME NEW c \in Cpus, Count(c) PROVE TypeOK'
  <2>1. (sched_stats["tasks_enqueued"] + 1) % U64 \in 0..(U64 - 1)
    BY DEF TypeOK, Counters
  <2>2. sched_stats' \in [Counters -> 0..(U64 - 1)]
    BY <1>6, <2>1 DEF Count, TypeOK
  <2>3. pc' \in [Cpus -> {"cpu", "dispatch", "pick"} \cup Enqueuing]
        /\ \A e \in Cpus : pc'[e] \in Enqueuing <=> pc[e] \in Enqueuing
    BY <1>6 DEF Count, TypeOK, Enqueuing
  <2> QED BY <1>6, <2>2, <2>3 DEF Count, TypeOK, maps, core
<1>7. ASSUME NEW c \in Cpus, Route(c) PROVE TypeOK'
  <2>1. \A k \in Counters : (sched_stats[k] + 1) % U64 \in 0..(U64 - 1)
    BY DEF TypeOK
  <2>2. sched_stats' \in [Counters -> 0..(U64 - 1)]
    BY <1>7, <2>1 DEF Route, TypeOK
  <2>3. pc' \in [Cpus -> {"cpu", "dispatch", "pick"} \cup Enqueuing]
        /\ \A e \in Cpus : pc'[e] \in Enqueuing <=> pc[e] \in Enqueuing
    BY <1>7 DEF Route, TypeOK, Enqueuing
  <2> QED BY <1>7, <2>2, <2>3 DEF Route, TypeOK, maps, core
<1>8. ASSUME NEW c \in Cpus, Insert(c) PROVE TypeOK'
  <2>1. pc[c] \in Enqueuing /\ frame[c] \in Frames /\ frame[c].task \in Tasks
    BY <1>8 DEF Insert, TypeOK, Enqueuing, Frames
  <2>2. CASE sched' = "ejected" /\ UNCHANGED <<core, pc, frame>>
    BY <1>8, <2>2 DEF Insert, TypeOK, maps, core
  <2>3. CASE frame[c].dsq \in created /\ UNCHANGED <<sched, local>> /\ sched' # "ejected"
    <3>1. frame[c].dsq \in Dsqs /\ Append(dsq[frame[c].dsq], frame[c].task) \in Seq(Tasks)
      BY <2>1, AppendProperties DEF TypeOK, Frames
    <3>2. dsq' \in [Dsqs -> Seq(Tasks)]
      BY <1>8, <2>3, <3>1 DEF Insert, DsqInsert, TypeOK
    <3>3. place' \in [Tasks -> Places]
      <4>1. /\ place' = [place EXCEPT ![frame[c].task] = InDsq(frame[c].dsq)]
            /\ InDsq(frame[c].dsq) \in Places
        BY <1>8, <2>3, <3>1, PlacesType DEF Insert
      <4> QED BY <2>1, <4>1 DEF TypeOK
    <3>6. running' \in [Cpus -> Tasks \cup {NoTask}]
      BY <1>8, <2>3 DEF Insert, TypeOK
    <3>4. /\ frame' = [frame EXCEPT ![c] = NoFrame]
          /\ pc' = [pc EXCEPT ![c] = IF running[c] = frame[c].task THEN "pick" ELSE "cpu"]
      BY <1>8, <2>3 DEF Insert
    <3>5. /\ pc' \in [Cpus -> {"cpu", "dispatch", "pick"} \cup Enqueuing]
          /\ frame' \in [Cpus -> Frames]
          /\ \A e \in Cpus : frame'[e].task = NoTask <=> pc'[e] \notin Enqueuing
      BY <3>4, NoFrameType DEF TypeOK, Enqueuing
    <3> QED BY <1>8, <2>3, <3>2, <3>3, <3>5, <3>6 DEF Insert, TypeOK, maps
  <2> QED BY <1>8, <2>2, <2>3 DEF Insert, core
<1>9. ASSUME NEW c \in Cpus, Tick(c) PROVE TypeOK'
  BY <1>9, StartRoundType DEF Tick, TypeOK, maps, core, Enqueuing
<1>10. ASSUME NEW c \in Cpus, Resched(c) PROVE TypeOK'
  BY <1>10, StartRoundType DEF Resched, TypeOK, maps, core, Enqueuing
<1>11. ASSUME NEW c \in Cpus, Sleep(c) PROVE TypeOK'
  BY SMTT(30), <1>11, PlacesType
     DEF Sleep, TypeOK, maps, Enqueuing, FirstDsq, Dsqs, DSQ_PERF
<1>12. ASSUME NEW c \in Cpus, MoveToLocal(c) PROVE TypeOK'
  <2> DEFINE q == dq[c]
  <2>1. PICK i \in 1..Len(dsq[q]) :
           /\ dsq' = [dsq EXCEPT ![q] = RemoveAt(@, i)]
           /\ local' = [local EXCEPT ![c] = Append(@, dsq[q][i])]
           /\ place' = [place EXCEPT ![dsq[q][i]] = InLocal(c)]
    BY <1>12 DEF MoveToLocal
  <2>2. q \in Dsqs /\ dsq[q] \in Seq(Tasks) /\ dsq[q][i] \in Tasks
    BY ElementOfSeq DEF TypeOK
  <2>3. dsq' \in [Dsqs -> Seq(Tasks)]
    BY <2>1, <2>2, RemoveAtProperties DEF TypeOK
  <2>4. local' \in [Cpus -> Seq(Tasks)] /\ place' \in [Tasks -> Places]
    BY <2>1, <2>2, AppendProperties, PlacesType DEF TypeOK
  <2>5. EndRound(c) /\ pc[c] \notin Enqueuing /\ dq' = [dq EXCEPT ![c] = DSQ_PERF]
    BY <1>12 DEF MoveToLocal, AfterMove, Return, Enqueuing
  <2>6. dq' \in [Cpus -> Dsqs]
    BY <2>5 DEF TypeOK, Dsqs, DSQ_PERF
  <2> QED BY <1>12, <2>3, <2>4, <2>5, <2>6, EndRoundType DEF MoveToLocal, TypeOK, maps
<1>13. ASSUME NEW c \in Cpus, TryNextQueue(c) PROVE TypeOK'
  <2>1. pc[c] \notin Enqueuing
    BY <1>13 DEF TryNextQueue, Enqueuing
  <2>2. CASE /\ dq[c] # DSQ_FALLBACK
             /\ dq' = [dq EXCEPT ![c] = NextDsq(@)]
             /\ UNCHANGED <<pc, frame>>
    <3>1. dq' \in [Cpus -> Dsqs]
      <4>1. dq[c] \in 0..4 /\ dq[c] # 4
        BY <2>2 DEF TypeOK, Dsqs, DSQ_FALLBACK
      <4>2. dq[c] + 1 \in Dsqs
        BY <4>1 DEF Dsqs
      <4> QED BY <2>2, <4>2 DEF TypeOK, NextDsq
    <3> QED BY <1>13, <2>2, <3>1 DEF TryNextQueue, TypeOK, maps, core
  <2>3. CASE dq[c] = DSQ_FALLBACK /\ Return(c)
    <3>1. dq' \in [Cpus -> Dsqs]
      BY <2>3 DEF Return, TypeOK, Dsqs, DSQ_PERF
    <3> QED BY <1>13, <2>1, <2>3, <3>1, EndRoundType
            DEF TryNextQueue, Return, TypeOK, maps, core
  <2> QED BY <1>13, <2>2, <2>3 DEF TryNextQueue
<1>14. ASSUME NEW c \in Cpus, TryMissingQueue(c) PROVE TypeOK'
  BY <1>14 DEF TryMissingQueue, TypeOK, maps, core
<1>15. ASSUME NEW c \in Cpus, Pick(c) PROVE TypeOK'
  <2>1. pc' \in [Cpus -> {"cpu", "dispatch", "pick"} \cup Enqueuing]
        /\ \A e \in Cpus : pc'[e] \in Enqueuing <=> pc[e] \in Enqueuing
    BY <1>15 DEF Pick, TypeOK, Enqueuing
  <2>2. CASE local[c] = <<>>
    BY <1>15, <2>1, <2>2 DEF Pick, TypeOK, maps, core
  <2>3. CASE local[c] # <<>>
    <3>1. Head(local[c]) \in Tasks /\ Tail(local[c]) \in Seq(Tasks)
      BY <2>3, HeadTailProperties DEF TypeOK
    <3>2. /\ running' = [running EXCEPT ![c] = Head(local[c])]
          /\ local' = [local EXCEPT ![c] = Tail(local[c])]
          /\ place' = [place EXCEPT ![Head(local[c])] = OnCpu(c)]
      BY <1>15, <2>3 DEF Pick
    <3>3. OnCpu(c) \in Places
      BY PlacesType
    <3>4. /\ running' \in [Cpus -> Tasks \cup {NoTask}]
          /\ local' \in [Cpus -> Seq(Tasks)]
          /\ place' \in [Tasks -> Places]
      BY <3>1, <3>2, <3>3 DEF TypeOK
    <3> QED BY <1>15, <2>1, <3>4 DEF Pick, TypeOK, maps
  <2> QED BY <2>2, <2>3
<1>16. ASSUME NEW p \in Pids, NEW d \in Decisions, WriteDecision(p, d) PROVE TypeOK'
  BY <1>16 DEF WriteDecision, TypeOK, core
<1>17. ASSUME NEW m \in EnergyChoices, WriteEnergyMode(m) PROVE TypeOK'
  BY <1>17 DEF WriteEnergyMode, TypeOK, core
<1>18. ASSUME NEW k \in TaskClasses, NEW x \in SliceChoices, WriteTimeSlice(k, x)
       PROVE TypeOK'
  BY <1>18 DEF WriteTimeSlice, TypeOK, core
<1>19. CASE UNCHANGED vars
  BY <1>19 DEF vars, maps, core, TypeOK
<1> QED BY <1>1, <1>2, <1>3, <1>4, <1>5, <1>6, <1>7, <1>8, <1>9, <1>10, <1>11,
           <1>12, <1>13, <1>14, <1>15, <1>16, <1>17, <1>18, <1>19
        DEF Next, CpuStep, Userspace

\* Every variable of the scheduler keeps its type: no counter leaves its word,
\* the ring never holds more than it can, every queue id is one of the five.
THEOREM TypeCorrect == Spec => []TypeOK
  BY InitTypeOK, NextTypeOK, PTL DEF Spec
-----------------------------------------------------------------------------
(* One place per task.                                                     *)

\* The five kinds of places, and the places of one kind, are different.
LEMMA PlacesDiffer ==
    /\ \A c, e \in Cpus :
          /\ InHandler(c) = InHandler(e) => c = e
          /\ InLocal(c) = InLocal(e) => c = e
          /\ OnCpu(c) = OnCpu(e) => c = e
          /\ InHandler(c) # InLocal(e) /\ InHandler(c) # OnCpu(e)
          /\ InLocal(c) # OnCpu(e)
          /\ Asleep # InHandler(c) /\ Asleep # InLocal(c) /\ Asleep # OnCpu(c)
    /\ \A q, r \in Dsqs : InDsq(q) = InDsq(r) => q = r
    /\ \A q \in Dsqs : Asleep # InDsq(q)
    /\ \A q \in Dsqs, c \in Cpus :
          InDsq(q) # InHandler(c) /\ InDsq(q) # InLocal(c) /\ InDsq(q) # OnCpu(c)
  BY DEF InHandler, InLocal, OnCpu, InDsq, Asleep

\* A queue stays as it is when a task that was not in it moves elsewhere.
LEMMA HoldsOther ==
    ASSUME NEW pl, NEW s, NEW w, NEW v, NEW t \in Tasks, pl \in [Tasks -> Places],
           s \in Seq(Tasks), Holds(pl, s, w), pl[t] # w, v # w
    PROVE  Holds([pl EXCEPT ![t] = v], s, w)
<1>1. \A i \in 1..Len(s) : s[i] \in Tasks
  BY ElementOfSeq
<1> QED BY <1>1 DEF Holds

\* A task moves to the tail of a queue.
LEMMA HoldsAppend ==
    ASSUME NEW pl, NEW s, NEW w, NEW t \in Tasks, pl \in [Tasks -> Places],
           s \in Seq(Tasks), Holds(pl, s, w), pl[t] # w
    PROVE  Holds([pl EXCEPT ![t] = w], Append(s, t), w)
<1> DEFINE n == [pl EXCEPT ![t] = w]
           a == Append(s, t)
<1>1. /\ Len(s) \in Nat /\ Len(a) = Len(s) + 1 /\ a[Len(s) + 1] = t
      /\ \A i \in 1..Len(s) : a[i] = s[i] /\ s[i] \in Tasks
  BY AppendProperties, LenProperties, ElementOfSeq
<1>2. \A i \in 1..Len(s) : s[i] # t
  BY <1>1 DEF Holds
<1>3. \A u \in Tasks : n[u] = IF u = t THEN w ELSE pl[u]
  OBVIOUS
<1> HIDE DEF n, a
<1>4. \A i \in 1..Len(a) : n[a[i]] = w
  BY <1>1, <1>2, <1>3 DEF Holds
<1>5. \A i, j \in 1..Len(a) : a[i] = a[j] => i = j
  BY <1>1, <1>2 DEF Holds
<1>6. \A u \in Tasks : n[u] = w => \E i \in 1..Len(a) : a[i] = u
  <2> SUFFICES ASSUME NEW u \in Tasks, n[u] = w
               PROVE  \E i \in 1..Len(a) : a[i] = u
    OBVIOUS
  <2>1. CASE u = t
    BY <1>1, <2>1
  <2>2. CASE u # t
    <3>1. PICK i \in 1..Len(s) : s[i] = u
      BY <1>3, <2>2 DEF Holds
    <3> QED BY <1>1, <3>1
  <2> QED BY <2>1, <2>2
<1> QED BY <1>4, <1>5, <1>6 DEF Holds, n, a

\* The task at some position of a queue moves elsewhere.
LEMMA HoldsRemove ==
    ASSUME NEW pl, NEW s, NEW w, NEW v, pl \in [Tasks -> Places],
           s \in Seq(Tasks), NEW k \in 1..Len(s), Holds(pl, s, w), v # w
    PROVE  Holds([pl EXCEPT ![s[k]] = v], RemoveAt(s, k), w)
<1> DEFINE n == [pl EXCEPT ![s[k]] = v]
           a == RemoveAt(s, k)
<1>1. /\ Len(s) \in Nat /\ Len(a) = Len(s) - 1
      /\ \A i \in 1..(Len(s) - 1) : a[i] = IF i < k THEN s[i] ELSE s[i + 1]
      /\ \A i \in 1..Len(s) : s[i] \in Tasks
  BY RemoveAtProperties, LenProperties, ElementOfSeq
<1>2. \A u \in Tasks : n[u] = IF u = s[k] THEN v ELSE pl[u]
  BY <1>1
<1> HIDE DEF n, a
<1>3. \A i \in 1..Len(a) : \E j \in 1..Len(s) : j # k /\ a[i] = s[j]
  BY <1>1
<1>4. \A i \in 1..Len(a) : n[a[i]] = w
  <2> SUFFICES ASSUME NEW i \in 1..Len(a) PROVE n[a[i]] = w
    OBVIOUS
  <2>1. PICK j \in 1..Len(s) : j # k /\ a[i] = s[j]
    BY <1>3
  <2>2. s[j] # s[k] /\ pl[s[j]] = w
    BY <2>1 DEF Holds
  <2> QED BY <1>1, <1>2, <2>1, <2>2
<1>5. \A i, j \in 1..Len(a) : a[i] = a[j] => i = j
  <2> SUFFICES ASSUME NEW i \in 1..Len(a), NEW j \in 1..Len(a), a[i] = a[j]
               PROVE  i = j
    OBVIOUS
  <2> DEFINE x == IF i < k THEN i ELSE i + 1
             y == IF j < k THEN j ELSE j + 1
  <2>1. x \in 1..Len(s) /\ y \in 1..Len(s) /\ a[i] = s[x] /\ a[j] = s[y]
    BY <1>1
  <2>2. x = y
    BY <2>1 DEF Holds
  <2> QED BY <1>1, <2>2
<1>6. \A u \in Tasks : n[u] = w => \E i \in 1..Len(a) : a[i] = u
  <2> SUFFICES ASSUME NEW u \in Tasks, n[u] = w
               PROVE  \E i \in 1..Len(a) : a[i] = u
    OBVIOUS
  <2>1. u # s[k] /\ pl[u] = w
    BY <1>1, <1>2
  <2>2. PICK j \in 1..Len(s) : s[j] = u
    BY <2>1 DEF Holds
  <2>3. j # k
    BY <2>1, <2>2
  <2>4. CASE j < k
    BY <1>1, <2>2, <2>4
  <2>5. CASE j > k
    <3>1. j - 1 \in 1..Len(a) /\ ~(j - 1 < k)
      BY <1>1, <2>5
    <3>2. a[j - 1] = s[j]
      BY <1>1, <3>1
    <3> QED BY <2>2, <3>1, <3>2
  <2> QED BY <1>1, <2>3, <2>4, <2>5
<1> QED BY <1>4, <1>5, <1>6 DEF Holds, n, a

\* The inductive invariant: where each task is, and what a CPU may have in its
\* local queue at each step.  Neither is inductive alone: a CPU may pick only
\* because nothing is left on it, and a round may move a task to the local
\* queue only because that queue is empty.
IInv == TypeOK /\ OnePlace /\ LocalAtMostOne

LEMMA InitIInv == Init => IInv
<1> SUFFICES ASSUME Init PROVE IInv
  OBVIOUS
<1>1. TypeOK
  BY InitTypeOK
<1>2. \A w : (\A t \in Tasks : place[t] # w) => Holds(place, <<>>, w)
  BY EmptySeq DEF Holds
<1>3. /\ \A t \in Tasks : place[t] = Asleep
      /\ \A q \in Dsqs : dsq[q] = <<>>
      /\ \A c \in Cpus : local[c] = <<>> /\ running[c] = NoTask
      /\ \A c \in Cpus : frame[c].task = NoTask /\ pc[c] = "cpu"
  BY NoFrameType DEF Init
<1>4. DsqsOK /\ LocalsOK
  BY <1>2, <1>3, PlacesDiffer DEF DsqsOK, LocalsOK
<1>5. RunningOK /\ HandlerOK
  BY <1>3, PlacesDiffer, ConstantsAssumption DEF RunningOK, HandlerOK
<1>6. LocalAtMostOne
  BY <1>3, EmptySeq DEF LocalAtMostOne
<1> QED BY <1>1, <1>4, <1>5, <1>6 DEF IInv, OnePlace

\* Steps that move no task keep the queues and the CPUs.
LEMMA CoreKept ==
    ASSUME IInv, UNCHANGED core
    PROVE  DsqsOK' /\ LocalsOK' /\ RunningOK'
  BY DEF IInv, OnePlace, core, DsqsOK, LocalsOK, RunningOK, Holds

\* Steps inside an enqueue or a search keep the frames' tasks.
LEMMA FrameKept ==
    ASSUME IInv, UNCHANGED core, \A e \in Cpus : frame'[e].task = frame[e].task
    PROVE  OnePlace'
<1>1. HandlerOK'
  BY DEF IInv, OnePlace, HandlerOK, core
<1> QED BY <1>1, CoreKept DEF OnePlace

\* The task a CPU enqueues at the end of a round is the one it was running.
LEMMA EndRoundTask ==
    ASSUME TypeOK, NEW c \in Cpus, pc[c] \notin Enqueuing, EndRound(c)
    PROVE  /\ frame[c].task = NoTask
           /\ frame'[c].task = running[c]
           /\ pc'[c] = "pick" => running[c] = NoTask
           /\ pc'[c] # "dispatch" /\ pc'[c] # "cpu"
           /\ \A e \in Cpus \ {c} : frame'[e] = frame[e] /\ pc'[e] = pc[e]
<1>1. frame[c].task = NoTask
  BY DEF TypeOK
<1>2. CASE running[c] = NoTask
  BY <1>1, <1>2 DEF TypeOK, EndRound
<1>3. CASE running[c] # NoTask
  <2>1. running[c] \in Tasks
    BY <1>3 DEF TypeOK
  <2> QED BY <1>1, <1>3, <2>1, NoFrameType DEF TypeOK, EndRound
<1> QED BY <1>2, <1>3

\* A round that ends without moving a task.
LEMMA EndRoundKeeps ==
    ASSUME IInv, NEW c \in Cpus, pc[c] \notin Enqueuing, EndRound(c), UNCHANGED core
    PROVE  OnePlace' /\ LocalAtMostOne'
<1> USE DEF IInv
<1>1. HandlerOK'
  <2> SUFFICES ASSUME NEW e \in Cpus, NEW t \in Tasks
               PROVE  /\ place[t] = InHandler(e) => frame'[e].task = t
                      /\ frame'[e].task = t => place[t] \in {InHandler(e), OnCpu(e)}
    BY DEF HandlerOK, core
  <2>1. CASE e = c
    BY <2>1, EndRoundTask, ConstantsAssumption DEF OnePlace, HandlerOK, RunningOK
  <2>2. CASE e # c
    BY <2>2, EndRoundTask DEF OnePlace, HandlerOK
  <2> QED BY <2>1, <2>2
<1>2. LocalAtMostOne'
  BY EndRoundTask DEF LocalAtMostOne, core
<1> QED BY <1>1, <1>2, CoreKept DEF OnePlace

LEMMA StartRoundKeeps ==
    ASSUME IInv, NEW c \in Cpus, pc[c] \notin Enqueuing, StartRound(c), UNCHANGED core
    PROVE  OnePlace' /\ LocalAtMostOne'
<1>1. CASE local[c] # <<>> /\ EndRound(c)
  BY <1>1, EndRoundKeeps
<1>2. CASE local[c] = <<>> /\ pc' = [pc EXCEPT ![c] = "dispatch"] /\ UNCHANGED frame
  <2>1. OnePlace'
    BY <1>2, FrameKept
  <2>2. LocalAtMostOne'
    BY <1>2 DEF IInv, TypeOK, LocalAtMostOne, core
  <2> QED BY <2>1, <2>2
<1> QED BY <1>1, <1>2 DEF StartRound

\* The primed invariants, one queue at a time.
LEMMA QueuesOKNext ==
    /\ (\A q \in Dsqs : Holds(place', dsq'[q], InDsq(q))) => DsqsOK'
    /\ (\A c \in Cpus : Holds(place', local'[c], InLocal(c))) => LocalsOK'
  BY DEF DsqsOK, LocalsOK, Holds, InDsq, InLocal

\* The queue a step changes, and the others.
LEMMA DsqsOKNext ==
    ASSUME NEW q \in Dsqs, Holds(place', dsq'[q], InDsq(q)),
           \A r \in Dsqs : r # q => Holds(place', dsq'[r], InDsq(r))
    PROVE  DsqsOK'
<1>1. \A r \in Dsqs : r = q \/ r # q
  OBVIOUS
<1>2. \A r \in Dsqs : Holds(place', dsq'[r], InDsq(r))
  BY <1>1, Zenon
<1> QED BY <1>2, QueuesOKNext

LEMMA LocalsOKNext ==
    ASSUME NEW c \in Cpus, Holds(place', local'[c], InLocal(c)),
           \A e \in Cpus : e # c => Holds(place', local'[e], InLocal(e))
    PROVE  LocalsOK'
<1>1. \A e \in Cpus : e = c \/ e # c
  OBVIOUS
<1>2. \A e \in Cpus : Holds(place', local'[e], InLocal(e))
  BY <1>1, Zenon
<1> QED BY <1>2, QueuesOKNext

\* One task t changes its place to v.  The queues of the places it neither
\* leaves nor enters are kept.
LEMMA QueuesKept ==
    ASSUME IInv, NEW t \in Tasks, NEW v, place' = [place EXCEPT ![t] = v]
    PROVE  /\ \A q \in Dsqs : /\ dsq'[q] = dsq[q]
                              /\ place[t] # InDsq(q) /\ v # InDsq(q)
                              => Holds(place', dsq'[q], InDsq(q))
           /\ \A c \in Cpus : /\ local'[c] = local[c]
                              /\ place[t] # InLocal(c) /\ v # InLocal(c)
                              => Holds(place', local'[c], InLocal(c))
<1>1. \A s, w : /\ s \in Seq(Tasks) /\ Holds(place, s, w) /\ place[t] # w /\ v # w
                => Holds(place', s, w)
  BY HoldsOther DEF IInv, TypeOK
<1>2. \A q \in Dsqs : dsq[q] \in Seq(Tasks) /\ Holds(place, dsq[q], InDsq(q))
  BY DEF IInv, TypeOK, OnePlace, DsqsOK
<1>3. \A c \in Cpus : local[c] \in Seq(Tasks) /\ Holds(place, local[c], InLocal(c))
  BY DEF IInv, TypeOK, OnePlace, LocalsOK
<1> QED BY <1>1, <1>2, <1>3

LEMMA WakeKeeps ==
    ASSUME IInv, NEW c \in Cpus, NEW t \in Tasks, Wake(c, t)
    PROVE  OnePlace' /\ LocalAtMostOne'
<1>1. /\ place[t] = Asleep /\ place' = [place EXCEPT ![t] = InHandler(c)]
      /\ pc' = [pc EXCEPT ![c] = "lookup"] /\ pc[c] = "cpu"
      /\ frame' = [frame EXCEPT ![c] = [NoFrame EXCEPT !.task = t]]
      /\ UNCHANGED <<dsq, local, running>>
  BY DEF Wake
<1>2. frame[c].task = NoTask /\ frame'[c].task = t
      /\ \A e \in Cpus \ {c} : frame'[e] = frame[e] /\ pc'[e] = pc[e]
  BY <1>1, NoFrameType DEF IInv, TypeOK, Enqueuing
<1>3. DsqsOK' /\ LocalsOK'
  BY <1>1, QueuesKept, QueuesOKNext, PlacesDiffer
<1>4. RunningOK'
  BY <1>1, PlacesDiffer DEF IInv, TypeOK, OnePlace, RunningOK
<1>5. HandlerOK'
  <2> SUFFICES ASSUME NEW e \in Cpus, NEW u \in Tasks
               PROVE  /\ place'[u] = InHandler(e) => frame'[e].task = u
                      /\ frame'[e].task = u => place'[u] \in {InHandler(e), OnCpu(e)}
    BY DEF HandlerOK
  <2>1. place'[u] = IF u = t THEN InHandler(c) ELSE place[u]
    BY <1>1 DEF IInv, TypeOK
  <2>2. /\ place[u] = InHandler(e) => frame[e].task = u
        /\ frame[e].task = u => place[u] \in {InHandler(e), OnCpu(e)}
    BY DEF IInv, OnePlace, HandlerOK
  <2>3. CASE e = c
    BY <2>1, <2>2, <2>3, <1>2, ConstantsAssumption
  <2>4. CASE e # c
    BY <2>1, <2>2, <2>4, <1>1, <1>2, PlacesDiffer
  <2> QED BY <2>3, <2>4
<1>6. LocalAtMostOne'
  BY <1>1, <1>2 DEF IInv, TypeOK, LocalAtMostOne
<1> QED BY <1>3, <1>4, <1>5, <1>6 DEF OnePlace

LEMMA WakeToIdleKeeps ==
    ASSUME IInv, NEW c \in Cpus, NEW t \in Tasks, WakeToIdle(c, t)
    PROVE  OnePlace' /\ LocalAtMostOne'
<1>1. /\ place[t] = Asleep /\ place' = [place EXCEPT ![t] = InLocal(c)]
      /\ local[c] = <<>> /\ local' = [local EXCEPT ![c] = Append(@, t)]
      /\ pc[c] = "cpu" /\ running[c] = NoTask
      /\ UNCHANGED <<dsq, running, pc, frame>>
  BY DEF WakeToIdle
<1>2. /\ local'[c] = Append(local[c], t)
      /\ \A e \in Cpus \ {c} : local'[e] = local[e]
  BY <1>1 DEF IInv, TypeOK
<1>3. DsqsOK'
  BY <1>1, QueuesKept, QueuesOKNext, PlacesDiffer
<1>4. LocalsOK'
  <2>1. /\ place \in [Tasks -> Places] /\ local[c] \in Seq(Tasks)
        /\ Holds(place, local[c], InLocal(c)) /\ place[t] # InLocal(c)
    BY <1>1, PlacesDiffer DEF IInv, TypeOK, OnePlace, LocalsOK
  <2>2. Holds([place EXCEPT ![t] = InLocal(c)], Append(local[c], t), InLocal(c))
    BY <2>1, HoldsAppend
  <2>3. Holds(place', local'[c], InLocal(c))
    BY <2>2, <1>1, <1>2
  <2>4. ASSUME NEW e \in Cpus, e # c PROVE Holds(place', local'[e], InLocal(e))
    BY <2>4, <1>1, <1>2, QueuesKept, PlacesDiffer
  <2> QED BY <2>3, <2>4, LocalsOKNext
<1>5. RunningOK' /\ HandlerOK'
  BY <1>1, PlacesDiffer DEF IInv, TypeOK, OnePlace, RunningOK, HandlerOK
<1>6. LocalAtMostOne'
  <2>1. Len(local'[c]) = 1
    BY <1>1, <1>2, EmptySeq, AppendProperties
  <2> QED BY <1>1, <1>2, <2>1 DEF IInv, TypeOK, LocalAtMostOne
<1> QED BY <1>3, <1>4, <1>5, <1>6 DEF OnePlace

LEMMA InsertKeeps ==
    ASSUME IInv, NEW c \in Cpus, Insert(c)
    PROVE  OnePlace' /\ LocalAtMostOne'
<1> DEFINE t == frame[c].task
           q == frame[c].dsq
<1>1. CASE UNCHANGED <<core, pc, frame>>
  BY <1>1, FrameKept DEF IInv, LocalAtMostOne, core
<1>2. CASE q \in created /\ ~UNCHANGED <<core, pc, frame>>
  <2>1. /\ dsq' = [dsq EXCEPT ![q] = Append(@, t)]
        /\ place' = [place EXCEPT ![t] = InDsq(q)]
        /\ running' = [running EXCEPT ![c] = IF @ = t THEN NoTask ELSE @]
        /\ pc' = [pc EXCEPT ![c] = IF running[c] = t THEN "pick" ELSE "cpu"]
        /\ frame' = [frame EXCEPT ![c] = NoFrame]
        /\ UNCHANGED local /\ pc[c] \in Enqueuing
    BY <1>2 DEF Insert, DsqInsert, Enqueuing
  <2>2. t \in Tasks /\ q \in Dsqs /\ place[t] \in {InHandler(c), OnCpu(c)}
    BY <2>1 DEF IInv, TypeOK, Frames, OnePlace, HandlerOK
  <2>3. /\ dsq'[q] = Append(dsq[q], t)
        /\ \A r \in Dsqs \ {q} : dsq'[r] = dsq[r]
        /\ \A e \in Cpus \ {c} : /\ running'[e] = running[e] /\ pc'[e] = pc[e]
                                 /\ frame'[e] = frame[e]
        /\ frame'[c].task = NoTask
        /\ running'[c] = IF running[c] = t THEN NoTask ELSE running[c]
        /\ pc'[c] = IF running[c] = t THEN "pick" ELSE "cpu"
    BY <2>1, <2>2, NoFrameType DEF IInv, TypeOK
  <2>4. \A u \in Tasks : place'[u] = IF u = t THEN InDsq(q) ELSE place[u]
    BY <2>1, <2>2 DEF IInv, TypeOK
  <2>5. DsqsOK'
    <3>1. /\ place \in [Tasks -> Places] /\ dsq[q] \in Seq(Tasks)
          /\ Holds(place, dsq[q], InDsq(q)) /\ place[t] # InDsq(q)
      BY <2>2, PlacesDiffer DEF IInv, TypeOK, OnePlace, DsqsOK
    <3>2. Holds([place EXCEPT ![t] = InDsq(q)], Append(dsq[q], t), InDsq(q))
      BY <2>2, <3>1, HoldsAppend
    <3>3. Holds(place', dsq'[q], InDsq(q))
      BY <3>2, <2>1, <2>3
    <3>4. ASSUME NEW r \in Dsqs, r # q PROVE Holds(place', dsq'[r], InDsq(r))
      <4>1. dsq'[r] = dsq[r] /\ place[t] # InDsq(r) /\ InDsq(q) # InDsq(r)
        BY <3>4, <2>2, <2>3, PlacesDiffer
      <4>2. dsq'[r] = dsq[r] /\ place[t] # InDsq(r) /\ InDsq(q) # InDsq(r)
             => Holds(place', dsq'[r], InDsq(r))
        BY <2>1, <2>2, <2>3, QueuesKept
      <4> QED BY <4>1, <4>2
    <3> QED BY <2>2, <3>3, <3>4, DsqsOKNext
  <2>6. LocalsOK'
    BY <2>1, <2>2, QueuesKept, QueuesOKNext, PlacesDiffer
  <2>7. RunningOK'
    <3> SUFFICES ASSUME NEW e \in Cpus, NEW u \in Tasks
                 PROVE  running'[e] = u <=> place'[u] = OnCpu(e)
      BY DEF RunningOK
    <3>1. /\ running[e] = u <=> place[u] = OnCpu(e)
          /\ running[c] = u <=> place[u] = OnCpu(c)
          /\ running[e] = t <=> place[t] = OnCpu(e)
      BY <2>2 DEF IInv, OnePlace, RunningOK
    <3>2. u # NoTask
      BY ConstantsAssumption
    <3>3. CASE e = c
      BY <3>1, <3>2, <3>3, <2>2, <2>3, <2>4, PlacesDiffer
    <3>4. CASE e # c
      BY <3>1, <3>4, <2>2, <2>3, <2>4, PlacesDiffer
    <3> QED BY <3>3, <3>4
  <2>8. HandlerOK'
    <3> SUFFICES ASSUME NEW e \in Cpus, NEW u \in Tasks
                 PROVE  /\ place'[u] = InHandler(e) => frame'[e].task = u
                        /\ frame'[e].task = u => place'[u] \in {InHandler(e), OnCpu(e)}
      BY DEF HandlerOK
    <3>1. /\ place[u] = InHandler(e) => frame[e].task = u
          /\ frame[e].task = u => place[u] \in {InHandler(e), OnCpu(e)}
          /\ u # NoTask
      BY ConstantsAssumption DEF IInv, OnePlace, HandlerOK
    <3>2. CASE e = c
      BY <3>1, <3>2, <2>2, <2>3, <2>4, PlacesDiffer
    <3>3. CASE e # c
      BY <3>1, <3>3, <2>2, <2>3, <2>4, PlacesDiffer
    <3> QED BY <3>2, <3>3
  <2>9. LocalAtMostOne'
    <3> SUFFICES ASSUME NEW e \in Cpus
                 PROVE  /\ Len(local[e]) <= 1
                        /\ pc'[e] = "pick" => running'[e] = NoTask
                        /\ local[e] # <<>> => /\ pc'[e] # "dispatch"
                                              /\ running'[e] \in {NoTask, frame'[e].task}
      BY <2>1 DEF LocalAtMostOne
    <3>1. CASE e = c
      BY <3>1, <2>3 DEF IInv, LocalAtMostOne
    <3>2. CASE e # c
      BY <3>2, <2>3 DEF IInv, LocalAtMostOne
    <3> QED BY <3>1, <3>2
  <2> QED BY <2>5, <2>6, <2>7, <2>8, <2>9 DEF OnePlace
<1> QED BY <1>1, <1>2 DEF Insert

LEMMA SleepKeeps ==
    ASSUME IInv, NEW c \in Cpus, Sleep(c)
    PROVE  OnePlace' /\ LocalAtMostOne'
<1> DEFINE t == running[c]
<1>1. /\ place' = [place EXCEPT ![t] = Asleep]
      /\ running' = [running EXCEPT ![c] = NoTask]
      /\ pc' = [pc EXCEPT ![c] = "dispatch"] /\ pc[c] = "cpu"
      /\ UNCHANGED <<dsq, local, frame>> /\ t # NoTask
  BY DEF Sleep
<1>2. t \in Tasks /\ place[t] = OnCpu(c) /\ frame[c].task = NoTask
  BY <1>1 DEF IInv, TypeOK, OnePlace, RunningOK, Enqueuing
<1>3. \A u \in Tasks : place'[u] = IF u = t THEN Asleep ELSE place[u]
  BY <1>1, <1>2 DEF IInv, TypeOK
<1>4. /\ running'[c] = NoTask /\ pc'[c] = "dispatch"
      /\ \A e \in Cpus \ {c} : running'[e] = running[e] /\ pc'[e] = pc[e]
  BY <1>1 DEF IInv, TypeOK
<1>5. DsqsOK' /\ LocalsOK'
  BY <1>1, <1>2, QueuesKept, QueuesOKNext, PlacesDiffer
<1>6. RunningOK'
  <2> SUFFICES ASSUME NEW e \in Cpus, NEW u \in Tasks
               PROVE  running'[e] = u <=> place'[u] = OnCpu(e)
    BY DEF RunningOK
  <2>1. /\ running[e] = u <=> place[u] = OnCpu(e)
        /\ u # NoTask
    BY ConstantsAssumption DEF IInv, OnePlace, RunningOK
  <2>2. CASE e = c
    BY <2>1, <2>2, <1>2, <1>3, <1>4, PlacesDiffer
  <2>3. CASE e # c
    BY <2>1, <2>3, <1>2, <1>3, <1>4, PlacesDiffer
  <2> QED BY <2>2, <2>3
<1>7. HandlerOK'
  <2> SUFFICES ASSUME NEW e \in Cpus, NEW u \in Tasks
               PROVE  /\ place'[u] = InHandler(e) => frame[e].task = u
                      /\ frame[e].task = u => place'[u] \in {InHandler(e), OnCpu(e)}
    BY <1>1 DEF HandlerOK
  <2>1. /\ place[u] = InHandler(e) => frame[e].task = u
        /\ frame[e].task = u => place[u] \in {InHandler(e), OnCpu(e)}
        /\ u # NoTask
    BY ConstantsAssumption DEF IInv, OnePlace, HandlerOK
  <2> QED BY <2>1, <1>2, <1>3, PlacesDiffer
<1>8. LocalAtMostOne'
  BY <1>1, <1>2, <1>4 DEF IInv, LocalAtMostOne
<1> QED BY <1>5, <1>6, <1>7, <1>8 DEF OnePlace

LEMMA MoveToLocalKeeps ==
    ASSUME IInv, NEW c \in Cpus, MoveToLocal(c)
    PROVE  OnePlace' /\ LocalAtMostOne'
<1> DEFINE q == dq[c]
<1>1. PICK i \in 1..Len(dsq[q]) :
         /\ dsq' = [dsq EXCEPT ![q] = RemoveAt(@, i)]
         /\ local' = [local EXCEPT ![c] = Append(@, dsq[q][i])]
         /\ place' = [place EXCEPT ![dsq[q][i]] = InLocal(c)]
  BY DEF MoveToLocal
<1> DEFINE t == dsq[q][i]
<1>2. /\ pc[c] = "dispatch" /\ pc[c] \notin Enqueuing /\ EndRound(c)
      /\ UNCHANGED running
  BY DEF MoveToLocal, AfterMove, Return, Enqueuing
<1>3. /\ q \in Dsqs /\ dsq[q] \in Seq(Tasks) /\ t \in Tasks /\ place[t] = InDsq(q)
      /\ Holds(place, dsq[q], InDsq(q)) /\ place \in [Tasks -> Places]
  BY ElementOfSeq DEF IInv, TypeOK, OnePlace, DsqsOK, Holds
<1>4. /\ dsq'[q] = RemoveAt(dsq[q], i)
      /\ \A r \in Dsqs \ {q} : dsq'[r] = dsq[r]
      /\ local'[c] = Append(local[c], t)
      /\ \A e \in Cpus \ {c} : local'[e] = local[e]
  BY <1>1, <1>3 DEF IInv, TypeOK
<1>5. \A u \in Tasks : place'[u] = IF u = t THEN InLocal(c) ELSE place[u]
  BY <1>1, <1>3
<1>6. local[c] = <<>>
  BY <1>2 DEF IInv, LocalAtMostOne
<1>7. DsqsOK'
  <2>1. Holds([place EXCEPT ![dsq[q][i]] = InLocal(c)], RemoveAt(dsq[q], i), InDsq(q))
    BY <1>3, HoldsRemove, PlacesDiffer
  <2>2. Holds(place', dsq'[q], InDsq(q))
    BY <2>1, <1>1, <1>4
  <2>3. ASSUME NEW r \in Dsqs, r # q PROVE Holds(place', dsq'[r], InDsq(r))
    <3>1. dsq'[r] = dsq[r] /\ place[t] # InDsq(r) /\ InLocal(c) # InDsq(r)
      BY <2>3, <1>3, <1>4, PlacesDiffer
    <3>2. dsq'[r] = dsq[r] /\ place[t] # InDsq(r) /\ InLocal(c) # InDsq(r)
           => Holds(place', dsq'[r], InDsq(r))
      BY <1>1, <1>3, <1>4, QueuesKept
    <3> QED BY <3>1, <3>2
  <2> QED BY <1>3, <2>2, <2>3, DsqsOKNext
<1>8. LocalsOK'
  <2>1. /\ local[c] \in Seq(Tasks) /\ Holds(place, local[c], InLocal(c))
        /\ place[t] # InLocal(c)
    BY <1>3, PlacesDiffer DEF IInv, TypeOK, OnePlace, LocalsOK
  <2>2. Holds([place EXCEPT ![t] = InLocal(c)], Append(local[c], t), InLocal(c))
    BY <2>1, <1>3, HoldsAppend
  <2>3. Holds(place', local'[c], InLocal(c))
    BY <2>2, <1>1, <1>4
  <2>4. ASSUME NEW e \in Cpus, e # c PROVE Holds(place', local'[e], InLocal(e))
    <3>1. local'[e] = local[e] /\ place[t] # InLocal(e) /\ InLocal(c) # InLocal(e)
      BY <2>4, <1>3, <1>4, PlacesDiffer
    <3>2. local'[e] = local[e] /\ place[t] # InLocal(e) /\ InLocal(c) # InLocal(e)
           => Holds(place', local'[e], InLocal(e))
      BY <1>1, <1>3, <1>4, QueuesKept
    <3> QED BY <3>1, <3>2
  <2> QED BY <2>3, <2>4, LocalsOKNext
<1>9. RunningOK'
  BY <1>2, <1>3, <1>5, PlacesDiffer DEF IInv, OnePlace, RunningOK
<1>10. HandlerOK'
  <2> SUFFICES ASSUME NEW e \in Cpus, NEW u \in Tasks
               PROVE  /\ place'[u] = InHandler(e) => frame'[e].task = u
                      /\ frame'[e].task = u => place'[u] \in {InHandler(e), OnCpu(e)}
    BY DEF HandlerOK
  <2>1. /\ place[u] = InHandler(e) => frame[e].task = u
        /\ frame[e].task = u => place[u] \in {InHandler(e), OnCpu(e)}
        /\ running[e] = u <=> place[u] = OnCpu(e)
        /\ u # NoTask
    BY ConstantsAssumption DEF IInv, OnePlace, HandlerOK, RunningOK
  <2>2. CASE e = c
    BY <2>1, <2>2, <1>2, <1>3, <1>5, EndRoundTask, PlacesDiffer DEF IInv
  <2>3. CASE e # c
    BY <2>1, <2>3, <1>2, <1>3, <1>5, EndRoundTask, PlacesDiffer DEF IInv
  <2> QED BY <2>2, <2>3
<1>11. LocalAtMostOne'
  <2> SUFFICES ASSUME NEW e \in Cpus
               PROVE  /\ Len(local'[e]) <= 1
                      /\ pc'[e] = "pick" => running[e] = NoTask
                      /\ local'[e] # <<>> => /\ pc'[e] # "dispatch"
                                             /\ running[e] \in {NoTask, frame'[e].task}
    BY <1>2 DEF LocalAtMostOne
  <2>1. CASE e = c
    <3>1. Len(local'[c]) = 1
      BY <1>3, <1>4, <1>6, EmptySeq, AppendProperties
    <3> QED BY <2>1, <3>1, <1>2, EndRoundTask DEF IInv
  <2>2. CASE e # c
    BY <2>2, <1>2, <1>4, EndRoundTask DEF IInv, LocalAtMostOne
  <2> QED BY <2>1, <2>2
<1> QED BY <1>7, <1>8, <1>9, <1>10, <1>11 DEF OnePlace

LEMMA PickKeeps ==
    ASSUME IInv, NEW c \in Cpus, Pick(c)
    PROVE  OnePlace' /\ LocalAtMostOne'
<1>1. /\ pc[c] = "pick" /\ pc' = [pc EXCEPT ![c] = "cpu"]
      /\ UNCHANGED <<dsq, frame>>
  BY DEF Pick
<1>2. /\ running[c] = NoTask /\ frame[c].task = NoTask
      /\ pc'[c] = "cpu" /\ \A e \in Cpus \ {c} : pc'[e] = pc[e]
  BY <1>1 DEF IInv, TypeOK, LocalAtMostOne, Enqueuing
<1>3. CASE local[c] = <<>>
  <2>1. UNCHANGED core
    BY <1>3 DEF Pick, core
  <2> QED BY <1>1, <1>2, <2>1, FrameKept DEF IInv, LocalAtMostOne, core
<1>4. CASE local[c] # <<>>
  <2> DEFINE t == Head(local[c])
  <2>1. /\ running' = [running EXCEPT ![c] = t]
        /\ local' = [local EXCEPT ![c] = Tail(@)]
        /\ place' = [place EXCEPT ![t] = OnCpu(c)]
    BY <1>4 DEF Pick
  <2>2. /\ local[c] \in Seq(Tasks) /\ Len(local[c]) = 1 /\ local[c][1] = t /\ t \in Tasks
        /\ Tail(local[c]) = <<>> /\ Holds(place, local[c], InLocal(c))
    <3>1. /\ local[c] \in Seq(Tasks) /\ Len(local[c]) <= 1
          /\ Holds(place, local[c], InLocal(c))
      BY DEF IInv, TypeOK, OnePlace, LocalsOK, LocalAtMostOne
    <3>2. /\ t \in Tasks /\ Tail(local[c]) \in Seq(Tasks)
          /\ Len(Tail(local[c])) = Len(local[c]) - 1
          /\ Len(local[c]) \in Nat \ {0}
      BY <1>4, <3>1, EmptySeq, HeadTailProperties
    <3>5. Len(local[c]) = 1 /\ Len(Tail(local[c])) = 0
      BY SMTT(30), <3>1, <3>2
    <3>3. local[c][1] = t
      BY <1>4, <3>1
    <3>4. Tail(local[c]) = <<>>
      BY <3>2, <3>5, EmptySeq
    <3> QED BY <3>1, <3>2, <3>3, <3>4, <3>5
  <2>3. place[t] = InLocal(c) /\ \A u \in Tasks : place[u] = InLocal(c) => u = t
    BY <2>2 DEF Holds
  <2>4. /\ running'[c] = t /\ local'[c] = <<>>
        /\ \A e \in Cpus \ {c} : running'[e] = running[e] /\ local'[e] = local[e]
        /\ \A u \in Tasks : place'[u] = IF u = t THEN OnCpu(c) ELSE place[u]
    BY <2>1, <2>2 DEF IInv, TypeOK
  <2>5. DsqsOK'
    BY <1>1, <2>1, <2>2, <2>3, QueuesKept, QueuesOKNext, PlacesDiffer
  <2>6. LocalsOK'
    <3>1. \A u \in Tasks : place'[u] # InLocal(c)
      BY <2>3, <2>4, PlacesDiffer
    <3>2. Holds(place', <<>>, InLocal(c))
      BY <3>1, EmptySeq DEF Holds
    <3>3. Holds(place', local'[c], InLocal(c))
      BY <3>2, <2>4
    <3>4. ASSUME NEW e \in Cpus, e # c PROVE Holds(place', local'[e], InLocal(e))
      <4>1. local'[e] = local[e] /\ place[t] # InLocal(e) /\ OnCpu(c) # InLocal(e)
        BY <3>4, <2>2, <2>3, <2>4, PlacesDiffer
      <4>2. local'[e] = local[e] /\ place[t] # InLocal(e) /\ OnCpu(c) # InLocal(e)
             => Holds(place', local'[e], InLocal(e))
        BY <2>1, <2>2, <2>3, <2>4, QueuesKept
      <4> QED BY <4>1, <4>2
    <3> QED BY <3>3, <3>4, LocalsOKNext
  <2>7. RunningOK'
    <3> SUFFICES ASSUME NEW e \in Cpus, NEW u \in Tasks
                 PROVE  running'[e] = u <=> place'[u] = OnCpu(e)
      BY DEF RunningOK
    <3>1. /\ running[e] = u <=> place[u] = OnCpu(e)
          /\ u # NoTask
      BY ConstantsAssumption DEF IInv, OnePlace, RunningOK
    <3>2. CASE e = c
      BY <3>1, <3>2, <1>2, <2>2, <2>3, <2>4, PlacesDiffer
    <3>3. CASE e # c
      BY <3>1, <3>3, <1>2, <2>2, <2>3, <2>4, PlacesDiffer
    <3> QED BY <3>2, <3>3
  <2>8. HandlerOK'
    BY <1>1, <2>2, <2>3, <2>4, PlacesDiffer DEF IInv, OnePlace, HandlerOK
  <2>9. LocalAtMostOne'
    BY <1>1, <1>2, <2>2, <2>4, EmptySeq DEF IInv, LocalAtMostOne
  <2> QED BY <2>5, <2>6, <2>7, <2>8, <2>9 DEF OnePlace
<1> QED BY <1>3, <1>4

\* The steps that move no task and keep the local queues: the callbacks' reads
\* and counters, and the steps outside the CPUs.
LEMMA StepInsideKeeps ==
    ASSUME IInv, UNCHANGED core, NEW c \in Cpus,
           frame'[c].task = frame[c].task,
           \A e \in Cpus \ {c} : frame'[e] = frame[e] /\ pc'[e] = pc[e],
           pc'[c] \notin {"pick", "dispatch"}
    PROVE  OnePlace' /\ LocalAtMostOne'
<1>1. OnePlace'
  BY FrameKept
<1>2. LocalAtMostOne'
  BY DEF IInv, LocalAtMostOne, core
<1> QED BY <1>1, <1>2

LEMMA LookupKeeps ==
    ASSUME IInv, NEW c \in Cpus, Lookup(c)
    PROVE  OnePlace' /\ LocalAtMostOne'
<1>1. \A t, k, d, n : Classified(t, k, d, n).task = t
  BY DEF Classified
<1>2. /\ UNCHANGED core /\ pc' = [pc EXCEPT ![c] = "select"]
      /\ \E k, d, n : frame' = [frame EXCEPT ![c] = Classified(frame[c].task, k, d, n)]
  BY DEF Lookup
<1>3. PICK k, d, n : frame' = [frame EXCEPT ![c] = Classified(frame[c].task, k, d, n)]
  BY <1>2
<1>4. /\ frame'[c].task = frame[c].task /\ pc'[c] = "select"
      /\ \A e \in Cpus \ {c} : frame'[e] = frame[e] /\ pc'[e] = pc[e]
  BY <1>1, <1>2, <1>3 DEF IInv, TypeOK
<1> QED BY <1>2, <1>4, StepInsideKeeps

LEMMA SelectKeeps ==
    ASSUME IInv, NEW c \in Cpus, Select(c)
    PROVE  OnePlace' /\ LocalAtMostOne'
<1> DEFINE q == SelectDsq(frame[c].task_class, frame[c].device, energy_mode)
<1>1. /\ UNCHANGED core /\ pc' = [pc EXCEPT ![c] = "count"]
      /\ frame' = [frame EXCEPT ![c].dsq = q]
  BY DEF Select
<1> HIDE DEF q
<1>2. frame[c] \in Frames
  BY DEF IInv, TypeOK
<1>3. frame'[c].task = frame[c].task
  BY <1>1, <1>2 DEF IInv, TypeOK, Frames
<1>4. /\ pc'[c] = "count"
      /\ \A e \in Cpus \ {c} : frame'[e] = frame[e] /\ pc'[e] = pc[e]
  BY <1>1 DEF IInv, TypeOK
<1> QED BY <1>1, <1>3, <1>4, StepInsideKeeps

\* The search tries the next queue, or gives up.
LEMMA TryNextQueueKeeps ==
    ASSUME IInv, NEW c \in Cpus, TryNextQueue(c)
    PROVE  OnePlace' /\ LocalAtMostOne'
<1>1. UNCHANGED core /\ pc[c] \notin Enqueuing
  BY DEF TryNextQueue, Enqueuing
<1>2. CASE UNCHANGED <<pc, frame>>
  BY <1>1, <1>2, FrameKept DEF IInv, LocalAtMostOne, core
<1>3. CASE Return(c)
  BY <1>1, <1>3, EndRoundKeeps DEF Return
<1> QED BY <1>2, <1>3 DEF TryNextQueue

\* The invariant is inductive.
LEMMA NextIInv ==
    ASSUME IInv, [Next]_vars
    PROVE  IInv'
<1>1. TypeOK'
  BY NextTypeOK DEF IInv
<1>2. OnePlace' /\ LocalAtMostOne'
  <2>1. CASE UNCHANGED <<core, pc, frame>>
    BY <2>1, FrameKept DEF IInv, LocalAtMostOne, core
  <2>2. ASSUME NEW c \in Cpus, NEW t \in Tasks, Wake(c, t) \/ WakeToIdle(c, t)
        PROVE  OnePlace' /\ LocalAtMostOne'
    BY <2>2, WakeKeeps, WakeToIdleKeeps
  <2>3. ASSUME NEW c \in Cpus, Tick(c) \/ Resched(c)
        PROVE  OnePlace' /\ LocalAtMostOne'
    <3>1. UNCHANGED core /\ pc[c] \notin Enqueuing /\ StartRound(c)
      BY <2>3 DEF Tick, Resched, Enqueuing
    <3> QED BY <3>1, StartRoundKeeps
  <2>4. ASSUME NEW c \in Cpus, Count(c) \/ Route(c)
        PROVE  OnePlace' /\ LocalAtMostOne'
    <3>1. /\ UNCHANGED core /\ UNCHANGED frame
          /\ pc'[c] \in {"route", "insert"}
          /\ \A e \in Cpus \ {c} : pc'[e] = pc[e]
      BY <2>4 DEF Count, Route, IInv, TypeOK
    <3> QED BY <3>1, StepInsideKeeps
  <2>5. ASSUME NEW c \in Cpus, CpuStep(c)
        PROVE  OnePlace' /\ LocalAtMostOne'
    <3>1. CASE Lookup(c)        BY <3>1, LookupKeeps
    <3>2. CASE Select(c)        BY <3>2, SelectKeeps
    <3>3. CASE Count(c)         BY <3>3, <2>4
    <3>4. CASE Route(c)         BY <3>4, <2>4
    <3>5. CASE Insert(c)        BY <3>5, InsertKeeps
    <3>6. CASE MoveToLocal(c)   BY <3>6, MoveToLocalKeeps
    <3>7. CASE TryNextQueue(c)  BY <3>7, TryNextQueueKeeps
    <3>8. CASE TryMissingQueue(c)
      BY <3>8, <2>1 DEF TryMissingQueue
    <3>9. CASE Pick(c)          BY <3>9, PickKeeps
    <3> QED BY <2>5, <3>1, <3>2, <3>3, <3>4, <3>5, <3>6, <3>7, <3>8, <3>9
            DEF CpuStep
  <2>6. ASSUME NEW c \in Cpus, Sleep(c)
        PROVE  OnePlace' /\ LocalAtMostOne'
    BY <2>6, SleepKeeps
  <2>7. CASE AiSchedInit \/ Userspace
    BY <2>1, <2>7 DEF AiSchedInit, Userspace, WriteDecision, WriteEnergyMode,
                      WriteTimeSlice
  <2>8. CASE UNCHANGED vars
    BY <2>1, <2>8 DEF vars
  <2> QED BY <2>2, <2>3, <2>5, <2>6, <2>7, <2>8 DEF Next
<1> QED BY <1>1, <1>2 DEF IInv

\* For any number of CPUs and tasks, and any affinities and decisions, no
\* interleaving of wakeups, expired slices and dispatches loses a task or puts
\* it in two places (ai_sched_enqueue, ai_sched_dispatch).
THEOREM TasksInOnePlace == Spec => []OnePlace
<1>1. Init => IInv
  BY InitIInv
<1>2. IInv /\ [Next]_vars => IInv'
  BY NextIInv
<1>3. IInv => OnePlace
  BY DEF IInv
<1> QED BY <1>1, <1>2, <1>3, PTL DEF Spec

\* Dispatch leaves at most one task in a local queue, and none behind a task
\* that keeps running (ai_sched_dispatch returns after its first success).
THEOREM DispatchLeavesOne == Spec => []LocalAtMostOne
<1>1. Init => IInv
  BY InitIInv
<1>2. IInv /\ [Next]_vars => IInv'
  BY NextIInv
<1>3. IInv => LocalAtMostOne
  BY DEF IInv
<1> QED BY <1>1, <1>2, <1>3, PTL DEF Spec

-----------------------------------------------------------------------------
(* The scheduler is lost only with a queue.                                *)

\* The queues that could be created were.
CreatedInv ==
    /\ TypeOK
    /\ sched # "unregistered" => \A q \in Dsqs : q \in created \/ q \in FailingCreates
    /\ EjectedOnlyByFailedCreate

LEMMA NextCreatedInv ==
    ASSUME CreatedInv, [Next]_vars
    PROVE  CreatedInv'
<1> USE DEF CreatedInv, EjectedOnlyByFailedCreate
<1>1. TypeOK'
  BY NextTypeOK
<1>2. CASE AiSchedInit
  BY <1>1, <1>2 DEF AiSchedInit, CreatedDsqs
<1>3. CASE UNCHANGED <<sched, created>>
  BY <1>1, <1>3
<1>4. ASSUME NEW c \in Cpus, Insert(c) PROVE CreatedInv'
  <2>1. frame[c].dsq \in Dsqs
    BY DEF TypeOK, Frames
  <2>2. CASE frame[c].dsq \notin created /\ sched' = "ejected"
    BY <1>1, <1>4, <2>1, <2>2 DEF Insert
  <2>3. CASE UNCHANGED sched
    BY <1>3, <1>4, <2>3 DEF Insert
  <2> QED BY <1>4, <2>2, <2>3 DEF Insert
<1>5. ASSUME NEW c \in Cpus, TryMissingQueue(c) PROVE CreatedInv'
  <2>1. dq[c] \in Dsqs
    BY DEF TypeOK
  <2> QED BY <1>1, <1>5, <2>1 DEF TryMissingQueue
<1>6. ASSUME NEW c \in Cpus, CpuStep(c) PROVE CreatedInv'
  BY <1>3, <1>4, <1>5, <1>6
     DEF CpuStep, Lookup, Select, Count, Route, MoveToLocal, TryNextQueue, Pick
<1>7. CASE \/ \E c \in Cpus, t \in Tasks : Wake(c, t) \/ WakeToIdle(c, t)
           \/ \E c \in Cpus : Tick(c) \/ Resched(c) \/ Sleep(c)
           \/ Userspace
           \/ UNCHANGED vars
  BY <1>3, <1>7 DEF Wake, WakeToIdle, Tick, Resched, Sleep, Userspace,
                    WriteDecision, WriteEnergyMode, WriteTimeSlice, vars
<1> QED BY <1>2, <1>6, <1>7 DEF Next

\* A failed scx_bpf_create_dsq is the only way to lose the scheduler: for any
\* decisions, whatever numbers they hold, select_dsq and ai_sched_dispatch name
\* only queues ai_sched_init asks for.
THEOREM EjectedOnlyByFailure == Spec => []EjectedOnlyByFailedCreate
<1>1. Init => CreatedInv
  BY InitTypeOK DEF Init, CreatedInv, EjectedOnlyByFailedCreate
<1>2. CreatedInv /\ [Next]_vars => CreatedInv'
  BY NextCreatedInv
<1>3. CreatedInv => EjectedOnlyByFailedCreate
  BY DEF CreatedInv
<1> QED BY <1>1, <1>2, <1>3, PTL DEF Spec
-----------------------------------------------------------------------------
(* The routing counters stay within the enqueues.                          *)

\* update_stats bumps at most one routing counter per enqueue.
LEMMA RoutedAtMostOne ==
    ASSUME NEW k, NEW q
    PROVE  RoutedCounters(k, q) \in {{}, {"tasks_ai_routed_cpu"},
                                     {"tasks_ai_routed_npu"}, {"tasks_bg_routed_eff"}}
  BY DEF RoutedCounters

\* While tasks_enqueued has not wrapped.
StatsInv ==
    /\ TypeOK
    /\ RoutedWithinEnqueued
    /\ sched_stats["tasks_enqueued"] <= MaxEnqueues
    /\ sched = "unregistered" => sched_stats["tasks_enqueued"] = 0

LEMMA BetweenAddsFinite ==
    ASSUME IsFiniteSet(Cpus)
    PROVE  IsFiniteSet(BetweenAdds) /\ Cardinality(BetweenAdds) \in Nat
  BY FS_Subset, FS_CardinalityType DEF BetweenAdds

LEMMA CountKeepsStats ==
    ASSUME IsFiniteSet(Cpus), MaxEnqueues < U64, StatsInv, NEW c \in Cpus, Count(c)
    PROVE  RoutedWithinEnqueued' /\ sched_stats'["tasks_enqueued"] <= MaxEnqueues
<1>1. BetweenAdds' = BetweenAdds \cup {c} /\ c \notin BetweenAdds
  BY DEF Count, BetweenAdds, StatsInv, TypeOK
<1>2. Cardinality(BetweenAdds') = Cardinality(BetweenAdds) + 1
  BY <1>1, BetweenAddsFinite, FS_AddElement
<1>3. /\ sched_stats \in [Counters -> 0..(U64 - 1)] /\ U64 \in Nat /\ MaxEnqueues \in Nat
      /\ sched_stats["tasks_enqueued"] \in Nat
      /\ sched_stats["tasks_enqueued"] < MaxEnqueues
      /\ sched_stats' = [sched_stats EXCEPT !["tasks_enqueued"] = (@ + 1) % U64]
  BY ConstantsAssumption DEF Count, StatsInv, TypeOK, Counters
<1>4. (sched_stats["tasks_enqueued"] + 1) % U64 = sched_stats["tasks_enqueued"] + 1
  BY <1>3
<1>5. /\ sched_stats'["tasks_enqueued"] = sched_stats["tasks_enqueued"] + 1
      /\ RoutedTotal' = RoutedTotal
  BY <1>3, <1>4 DEF Counters, RoutedTotal
<1>6. RoutedTotal \in Nat
  BY <1>3 DEF RoutedTotal, Counters
<1> QED BY <1>2, <1>3, <1>5, <1>6, BetweenAddsFinite DEF RoutedWithinEnqueued, StatsInv

LEMMA RouteKeepsStats ==
    ASSUME IsFiniteSet(Cpus), MaxEnqueues < U64, StatsInv, NEW c \in Cpus, Route(c)
    PROVE  RoutedWithinEnqueued'
           /\ sched_stats'["tasks_enqueued"] = sched_stats["tasks_enqueued"]
<1> DEFINE r == RoutedCounters(frame[c].task_class, frame[c].dsq)
           a == sched_stats["tasks_ai_routed_cpu"]
           n == sched_stats["tasks_ai_routed_npu"]
           b == sched_stats["tasks_bg_routed_eff"]
           e == sched_stats["tasks_enqueued"]
<1>1. BetweenAdds' = BetweenAdds \ {c} /\ c \in BetweenAdds
  BY DEF Route, BetweenAdds, StatsInv, TypeOK
<1>2. Cardinality(BetweenAdds') = Cardinality(BetweenAdds) - 1
  BY <1>1, BetweenAddsFinite, FS_RemoveElement
<1>3. a \in Nat /\ n \in Nat /\ b \in Nat /\ e \in Nat
      /\ MaxEnqueues \in Nat /\ U64 \in Nat
  BY ConstantsAssumption DEF StatsInv, TypeOK, Counters
<1>4. a + n + b + Cardinality(BetweenAdds) <= e /\ e <= MaxEnqueues
  BY DEF StatsInv, RoutedWithinEnqueued, RoutedTotal
<1>5. Cardinality(BetweenAdds) \in Nat /\ Cardinality(BetweenAdds) # 0
  BY <1>1, BetweenAddsFinite, FS_EmptySet
<1>6. (a + 1) % U64 = a + 1 /\ (n + 1) % U64 = n + 1 /\ (b + 1) % U64 = b + 1
  <2> HIDE DEF a, n, b, e
  <2> DEFINE m == Cardinality(BetweenAdds)
  <2>1. m \in Nat /\ m >= 1
    BY <1>5
  <2> HIDE DEF m
  <2>2. a + 1 <= MaxEnqueues /\ n + 1 <= MaxEnqueues /\ b + 1 <= MaxEnqueues
    BY <1>3, <1>4, <2>1 DEF m
  <2>3. \A x \in Nat : x < U64 => x % U64 = x
    BY <1>3
  <2> QED BY <1>3, <2>2, <2>3
<1>7. sched_stats' = [k \in Counters |->
         IF k \in r THEN (sched_stats[k] + 1) % U64 ELSE sched_stats[k]]
  BY DEF Route
<1>8. r \in {{}, {"tasks_ai_routed_cpu"}, {"tasks_ai_routed_npu"}, {"tasks_bg_routed_eff"}}
  BY RoutedAtMostOne
<1> HIDE DEF r
<1>9. /\ sched_stats'["tasks_enqueued"] = e
      /\ sched_stats'["tasks_ai_routed_cpu"] = IF "tasks_ai_routed_cpu" \in r THEN a + 1 ELSE a
      /\ sched_stats'["tasks_ai_routed_npu"] = IF "tasks_ai_routed_npu" \in r THEN n + 1 ELSE n
      /\ sched_stats'["tasks_bg_routed_eff"] = IF "tasks_bg_routed_eff" \in r THEN b + 1 ELSE b
  BY <1>6, <1>7, <1>8 DEF Counters
<1> HIDE DEF a, n, b, e
<1>10. RoutedTotal' <= a + n + b + 1 /\ RoutedTotal' \in Nat
  BY <1>3, <1>8, <1>9 DEF RoutedTotal
<1>11. RoutedTotal' + (Cardinality(BetweenAdds) - 1) <= e
  BY <1>3, <1>4, <1>5, <1>10
<1> QED BY <1>2, <1>9, <1>11 DEF RoutedWithinEnqueued, e

LEMMA NextStatsInv ==
    ASSUME IsFiniteSet(Cpus), MaxEnqueues < U64, StatsInv, [Next]_vars
    PROVE  StatsInv'
<1>1. TypeOK'
  BY NextTypeOK DEF StatsInv
<1>2. /\ "tasks_enqueued" \in Counters /\ "tasks_ai_routed_cpu" \in Counters
      /\ "tasks_ai_routed_npu" \in Counters /\ "tasks_bg_routed_eff" \in Counters
  BY DEF Counters
<1>3. CASE AiSchedInit
  <2>1. \A k \in Counters : sched_stats'[k] = 0 /\ sched_stats[k] \in Nat
    BY <1>3 DEF AiSchedInit, StatsInv, TypeOK
  <2>2. BetweenAdds' = BetweenAdds /\ sched' = "enabled" /\ sched_stats["tasks_enqueued"] = 0
    BY <1>3 DEF AiSchedInit, BetweenAdds, StatsInv
  <2>3. RoutedTotal + Cardinality(BetweenAdds) <= 0 /\ RoutedTotal \in Nat
    BY <1>2, <2>1, <2>2 DEF StatsInv, RoutedWithinEnqueued, RoutedTotal
  <2>4. Cardinality(BetweenAdds) <= 0
    BY <2>3, BetweenAddsFinite
  <2>5. RoutedTotal' = 0
    BY <1>2, <2>1 DEF RoutedTotal
  <2> QED BY <1>1, <1>2, <2>1, <2>2, <2>4, <2>5, BetweenAddsFinite, ConstantsAssumption
          DEF StatsInv, RoutedWithinEnqueued
<1>4. CASE UNCHANGED <<sched_stats, pc>> /\ (sched' = "unregistered" => sched = "unregistered")
  BY <1>1, <1>4 DEF StatsInv, RoutedWithinEnqueued, RoutedTotal, BetweenAdds
\* The other steps do not touch the counters, and enter and leave other steps
\* than "route".
<1>5. ASSUME UNCHANGED sched_stats, sched' # "unregistered", NEW c \in Cpus,
             pc[c] # "route", pc'[c] # "route", \A e \in Cpus \ {c} : pc'[e] = pc[e]
      PROVE  StatsInv'
  <2>1. BetweenAdds' = BetweenAdds
    BY <1>5 DEF BetweenAdds
  <2> QED BY <1>1, <1>5, <2>1 DEF StatsInv, RoutedWithinEnqueued, RoutedTotal
<1>6. ASSUME NEW c \in Cpus, CpuStep(c) PROVE StatsInv'
  <2>1. CASE Count(c)
    BY <1>1, <2>1, CountKeepsStats DEF StatsInv, Count
  <2>2. CASE Route(c)
    BY <1>1, <2>2, RouteKeepsStats DEF StatsInv, Route
  <2>3. CASE Lookup(c) \/ Select(c)
    BY <1>5, <2>3 DEF Lookup, Select, StatsInv, TypeOK
  <2>4. CASE Insert(c)
    <3>1. CASE UNCHANGED pc
      BY <1>4, <2>4, <3>1 DEF Insert
    <3>2. CASE ~UNCHANGED pc
      BY <1>5, <2>4, <3>2 DEF Insert, StatsInv, TypeOK
    <3> QED BY <3>1, <3>2
  <2>5. CASE MoveToLocal(c)
    BY <1>5, <2>5 DEF MoveToLocal, AfterMove, Return, EndRound, StatsInv, TypeOK
  <2>6. CASE TryNextQueue(c)
    <3>1. CASE UNCHANGED <<pc, frame>>
      BY <1>4, <2>6, <3>1 DEF TryNextQueue
    <3>2. CASE Return(c)
      BY <1>5, <2>6, <3>2 DEF TryNextQueue, Return, EndRound, StatsInv, TypeOK
    <3> QED BY <2>6, <3>1, <3>2 DEF TryNextQueue
  <2>7. CASE TryMissingQueue(c)
    BY <1>4, <2>7 DEF TryMissingQueue
  <2>8. CASE Pick(c)
    BY <1>5, <2>8 DEF Pick, StatsInv, TypeOK
  <2> QED BY <1>6, <2>1, <2>2, <2>3, <2>4, <2>5, <2>6, <2>7, <2>8 DEF CpuStep
<1>7. ASSUME NEW c \in Cpus, Tick(c) \/ Resched(c) \/ Sleep(c) PROVE StatsInv'
  BY <1>5, <1>7 DEF Tick, Resched, Sleep, StartRound, EndRound, StatsInv, TypeOK
<1>8. ASSUME NEW c \in Cpus, NEW t \in Tasks, Wake(c, t) \/ WakeToIdle(c, t)
      PROVE  StatsInv'
  BY <1>4, <1>5, <1>8 DEF Wake, WakeToIdle, StatsInv, TypeOK
<1>9. CASE Userspace \/ UNCHANGED vars
  BY <1>4, <1>9 DEF Userspace, WriteDecision, WriteEnergyMode, WriteTimeSlice, vars
<1> QED BY <1>3, <1>6, <1>7, <1>8, <1>9 DEF Next

\* On a finite number of CPUs, until tasks_enqueued wraps, the routing counters
\* and the enqueues between the two atomic adds never exceed it (update_stats).
THEOREM RoutedNeverExceedsEnqueued ==
    ASSUME IsFiniteSet(Cpus), MaxEnqueues < U64
    PROVE  Spec => []RoutedWithinEnqueued
<1>1. Init => StatsInv
  <2> SUFFICES ASSUME Init PROVE StatsInv
    OBVIOUS
  <2>1. TypeOK
    BY InitTypeOK
  <2>2. BetweenAdds = {}
    BY DEF Init, BetweenAdds
  <2>3. /\ sched_stats["tasks_enqueued"] = 0 /\ RoutedTotal = 0
    BY DEF Init, Counters, RoutedTotal
  <2> QED BY <2>1, <2>2, <2>3, FS_EmptySet, ConstantsAssumption
          DEF StatsInv, RoutedWithinEnqueued
<1>2. StatsInv /\ [Next]_vars => StatsInv'
  BY NextStatsInv
<1>3. StatsInv => RoutedWithinEnqueued
  BY DEF StatsInv
<1> QED BY <1>1, <1>2, <1>3, PTL DEF Spec
=============================================================================
