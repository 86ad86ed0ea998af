------------------------------ MODULE AISched ------------------------------
(***************************************************************************)
(* The sched_ext scheduler of kernel/ai_sched.bpf.c: several CPUs run its  *)
(* enqueue and dispatch callbacks concurrently on shared dispatch queues   *)
(* and BPF maps, while userspace rewrites the maps.                        *)
(*                                                                         *)
(* The callbacks are split where another CPU can interfere, at each access *)
(* to a map, a counter or a queue.  What the sched_ext core does around    *)
(* the callbacks (waking, ticking, picking from the CPU-local queue) is    *)
(* external to the repository and modelled from how the callbacks use it.  *)
(***************************************************************************)
EXTENDS SchedPolicy, Sequences, SequencesExt, FiniteSetsExt

CONSTANTS
    Cpus,           (* the CPUs                                            *)
    Tasks,          (* the schedulable threads                             *)
    NoTask,         (* "no task": an idle CPU                              *)
    Tgid,           (* [Tasks -> Pids], the process a thread belongs to    *)
    Pids,           (* process ids, all different from IdlePid             *)
    Profile,        (* [Tasks -> Profiles], what the fallback reads        *)
    Allowed,        (* [Tasks -> SUBSET Cpus], the affinity of a thread    *)
    Decisions,      (* the decision records userspace may store            *)
    NoDecision,     (* "no entry in sched_decisions"                       *)
    EnergyChoices,  (* the energy modes userspace may set                  *)
    SliceChoices,   (* the time slices userspace may set                   *)
    FailingCreates, (* the queues whose creation may fail                  *)
    RingCap,        (* samples that fit in telemetry_ringbuf               *)
    U64,            (* counters wrap at U64 (2^64 in the code)             *)
    MaxEnqueues     (* bound: enqueues counted in one behaviour            *)

IdlePid == 0

\* A decision as the scheduler reads it: the other fields are not used.
DecisionType == [task_class : Nat, preferred_device : Nat, time_slice_us : Nat]

ASSUME ConstantsAssumption ==
    /\ NoTask \notin Tasks
    /\ IdlePid \notin Pids
    /\ Tgid \in [Tasks -> Pids]
    /\ Profile \in [Tasks -> Profiles]
    /\ Allowed \in [Tasks -> SUBSET Cpus]
    /\ Decisions \subseteq DecisionType
    /\ NoDecision \notin DecisionType
    /\ EnergyChoices \subseteq EnergyModes
    /\ SliceChoices \subseteq Nat
    /\ FailingCreates \subseteq Dsqs
    /\ RingCap \in Nat
    /\ U64 \in Nat \ {0}
    /\ MaxEnqueues \in Nat

VARIABLES
    sched,           (* "unregistered", "enabled" or "ejected"             *)
    created,         (* the dispatch queues that exist                     *)
    energy_mode,     (* BPF array, one entry                               *)
    time_slices,     (* BPF array, one entry per task class                *)
    sched_decisions, (* BPF hash, process id -> decision                   *)
    sched_stats,     (* BPF array, one struct of counters                  *)
    ring,            (* samples in this object's telemetry_ringbuf         *)
    dsq,             (* the dispatch queues                                *)
    local,           (* the CPU-local queues of the sched_ext core         *)
    running,         (* the task each CPU executes                         *)
    place,           (* where the core accounts each task                  *)
    pc, frame, dq    (* per CPU: callback step, its locals, queue to try   *)

maps == <<energy_mode, time_slices, sched_decisions>>
core == <<dsq, local, running, place>>
vars == <<sched, created, maps, sched_stats, ring, core, pc, frame, dq>>

Counters == {"tasks_enqueued", "tasks_dispatched", "tasks_ai_routed_cpu",
             "tasks_ai_routed_npu", "tasks_bg_routed_eff"}

\* A sample: the process it is labelled with, the task it was measured on.
Samples == [pid : Pids \cup {IdlePid}, task : Tasks]

\* The steps of ai_sched_enqueue.
Enqueuing == {"lookup", "select", "count", "route", "insert"}

\* The locals of ai_sched_enqueue.
Frames == [task : Tasks \cup {NoTask}, task_class : Nat,
           device : Nat, slice : Nat, dsq : Dsqs]

NoFrame == [task |-> NoTask, task_class |-> AI_TASK_CLASS_UNKNOWN,
            device |-> AI_DEVICE_AUTO, slice |-> 0, dsq |-> DSQ_PERF]

Classified(t, k, d, n) ==
    [task |-> t, task_class |-> k, device |-> d, slice |-> n, dsq |-> DSQ_PERF]

\* Where the core accounts a task.  Off the CPU and not waking: Asleep.
Asleep      == <<"asleep">>
InHandler(c) == <<"handler", c>>
InDsq(q)    == <<"dsq", q>>
InLocal(c)  == <<"local", c>>
OnCpu(c)    == <<"cpu", c>>

Places == {Asleep} \cup {InHandler(c) : c \in Cpus} \cup {InDsq(q) : q \in Dsqs}
            \cup {InLocal(c) : c \in Cpus} \cup {OnCpu(c) : c \in Cpus}
-----------------------------------------------------------------------------
Init ==
    /\ sched = "unregistered"
    /\ created = {}
    /\ energy_mode = 0
    /\ time_slices = [k \in TaskClasses |-> 0]
    /\ sched_decisions = [p \in Pids |-> NoDecision]
    /\ sched_stats = [k \in Counters |-> 0]
    /\ ring = <<>>
    /\ dsq = [q \in Dsqs |-> <<>>]
    /\ local = [c \in Cpus |-> <<>>]
    /\ running = [c \in Cpus |-> NoTask]
    /\ place = [t \in Tasks |-> Asleep]
    /\ pc = [c \in Cpus |-> "cpu"]
    /\ frame = [c \in Cpus |-> NoFrame]
    /\ dq = [c \in Cpus |-> DSQ_PERF]

\* The five scx_bpf_create_dsq calls; their return values are ignored.
CreatedDsqsNoFallback(failed) == (Dsqs \ {DSQ_FALLBACK}) \ failed
CreatedDsqs(failed) == Dsqs \ failed

\* ai_sched_init: create the queues, then set the energy mode and clear the
\* counters.  time_slices is left alone.
AiSchedInit ==
    /\ sched = "unregistered"
    /\ \E failed \in SUBSET FailingCreates : created' = CreatedDsqs(failed)
    /\ energy_mode' = AI_ENERGY_BALANCED
    /\ sched_stats' = [k \in Counters |-> 0]
    /\ sched' = "enabled"
    /\ UNCHANGED <<time_slices, sched_decisions, ring, core, pc, frame, dq>>
-----------------------------------------------------------------------------
(* ai_sched_enqueue, from the wakeup or the expired slice that calls it.   *)

\* A task becomes runnable and CPU c, whatever it is executing, calls
\* ai_sched_enqueue for it.
Wake(c, t) ==
    /\ sched = "enabled"
    /\ pc[c] = "cpu"
    /\ place[t] = Asleep
    /\ place' = [place EXCEPT ![t] = InHandler(c)]
    /\ pc' = [pc EXCEPT ![c] = "lookup"]
    /\ frame' = [frame EXCEPT ![c] = [NoFrame EXCEPT !.task = t]]
    /\ UNCHANGED <<sched, created, maps, sched_stats, ring,
                   dsq, local, running, dq>>

\* The operations have no .select_cpu: when the core finds an idle CPU it
\* puts a waking task on that CPU's local queue and never calls enqueue.
WakeToIdle(c, t) ==
    /\ sched = "enabled"
    /\ pc[c] = "cpu" /\ running[c] = NoTask /\ local[c] = <<>>
    /\ place[t] = Asleep
    /\ c \in Allowed[t]
    /\ local' = [local EXCEPT ![c] = Append(@, t)]
    /\ place' = [place EXCEPT ![t] = InLocal(c)]
    /\ UNCHANGED <<sched, created, maps, sched_stats, ring,
                   dsq, running, pc, frame, dq>>

\* Look up the daemon's decision for the process; without one, classify by
\* heuristic and look up the time slice of the class.
Lookup(c) ==
    /\ sched = "enabled"
    /\ pc[c] = "lookup"
    /\ LET t == frame[c].task
           d == sched_decisions[Tgid[t]]
           k == ClassifyTaskFallback(Profile[t])
       IN  \/ /\ d # NoDecision
              /\ frame' = [frame EXCEPT ![c] =
                    Classified(t, d.task_class, d.preferred_device,
                               d.time_slice_us * 1000)]
           \/ /\ d = NoDecision
              /\ frame' = [frame EXCEPT ![c] =
                    Classified(t, k, AI_DEVICE_AUTO, GetTimeSliceNs(k, time_slices))]
    /\ pc' = [pc EXCEPT ![c] = "select"]
    /\ UNCHANGED <<sched, created, maps, sched_stats, ring, core, dq>>

\* emit_telemetry labels the sample with the process CPU c is executing; the
\* metrics are those of the task being enqueued.
CurrentPid(c) == IF running[c] = NoTask THEN IdlePid ELSE Tgid[running[c]]

\* emit_telemetry drops the sample when the ring is full.
SubmitUnchecked(s) == Append(ring, s)
Submit(s) == IF Len(ring) < RingCap THEN Append(ring, s) ELSE ring

\* emit_telemetry, then select_dsq reads the energy mode and picks the queue.
Select(c) ==
    /\ sched = "enabled"
    /\ pc[c] = "select"
    /\ ring' = Submit([pid |-> CurrentPid(c), task |-> frame[c].task])
    /\ frame' = [frame EXCEPT
          ![c].dsq = SelectDsq(frame[c].task_class, frame[c].device, energy_mode)]
    /\ pc' = [pc EXCEPT ![c] = "count"]
    /\ UNCHANGED <<sched, created, maps, sched_stats, core, dq>>

\* update_stats, first atomic add.
CountNotAtomic(c) ==
    /\ sched = "enabled"
    /\ pc[c] = "count"
    /\ sched_stats["tasks_enqueued"] < MaxEnqueues
    /\ \E lost \in {0} \cup {1 : d \in {d \in Cpus \ {c} : pc[d] = "count"}} :
          sched_stats' = [sched_stats EXCEPT
                            !["tasks_enqueued"] = (@ + 1 - lost) % U64]
    /\ pc' = [pc EXCEPT ![c] = "route"]
    /\ UNCHANGED <<sched, created, maps, ring, core, frame, dq>>
Count(c) ==
    /\ sched = "enabled"
    /\ pc[c] = "count"
    /\ sched_stats["tasks_enqueued"] < MaxEnqueues
    /\ sched_stats' = [sched_stats EXCEPT !["tasks_enqueued"] = (@ + 1) % U64]
    /\ pc' = [pc EXCEPT ![c] = "route"]
    /\ UNCHANGED <<sched, created, maps, ring, core, frame, dq>>

\* update_stats, second atomic add.
Route(c) ==
    /\ sched = "enabled"
    /\ pc[c] = "route"
    /\ LET routed == RoutedCounters(frame[c].task_class, frame[c].dsq)
       IN  sched_stats' = [k \in Counters |->
               IF k \in routed THEN (sched_stats[k] + 1) % U64
               ELSE sched_stats[k]]
    /\ pc' = [pc EXCEPT ![c] = "insert"]
    /\ UNCHANGED <<sched, created, maps, ring, core, frame, dq>>

\* scx_bpf_dsq_insert appends at the tail.
DsqInsertTwice(q, t) ==
    [dsq EXCEPT ![q] = Append(@, t), ![DSQ_FALLBACK] = Append(@, t)]
DsqInsert(q, t) == [dsq EXCEPT ![q] = Append(@, t)]

\* The end of ai_sched_enqueue: the insertion.  A task enqueued because its
\* slice ended leaves the CPU, which then picks its next task.  Naming a queue
\* that does not exist makes the core eject the scheduler.
Insert(c) ==
    /\ sched = "enabled"
    /\ pc[c] = "insert"
    /\ LET t == frame[c].task
           q == frame[c].dsq
       IN  \/ /\ q \notin created
              /\ sched' = "ejected"
              /\ UNCHANGED <<core, pc, frame>>
           \/ /\ q \in created
              /\ dsq' = DsqInsert(q, t)
              /\ place' = [place EXCEPT ![t] = InDsq(q)]
              /\ running' = [running EXCEPT ![c] = IF @ = t THEN NoTask ELSE @]
              /\ pc' = [pc EXCEPT ![c] = IF running[c] = t THEN "pick" ELSE "cpu"]
              /\ frame' = [frame EXCEPT ![c] = NoFrame]
              /\ UNCHANGED <<sched, local>>
    /\ UNCHANGED <<created, maps, sched_stats, ring, dq>>
-----------------------------------------------------------------------------
(* ai_sched_dispatch and the scheduling rounds of the core that call it.   *)

\* After a round found its next task (or none): a task still on the CPU has
\* used up its slice and is enqueued again, even when it is the only one
\* (SCX_OPS_ENQ_LAST); otherwise the CPU picks.
EndRound(c) ==
    IF running[c] = NoTask
    THEN /\ pc' = [pc EXCEPT ![c] = "pick"]
         /\ UNCHANGED frame
    ELSE /\ pc' = [pc EXCEPT ![c] = "lookup"]
         /\ frame' = [frame EXCEPT ![c] = [NoFrame EXCEPT !.task = running[c]]]

\* The order of the scx_bpf_dsq_move_to_local calls in ai_sched_dispatch.
FirstDsqSkipsPerf == DSQ_EFF
FirstDsq == DSQ_PERF
NextDsqSkipsNpu(q) == IF q = DSQ_GPU THEN DSQ_FALLBACK ELSE q + 1
NextDsq(q) == q + 1

\* ai_sched_dispatch returns as soon as one call succeeds.
Return(c) == EndRound(c) /\ dq' = [dq EXCEPT ![c] = DSQ_PERF]
AfterMoveGoesOn(c) == UNCHANGED <<pc, frame, dq>>
AfterMove(c) == Return(c)

\* The core calls ai_sched_dispatch only when the local queue is empty.
StartRound(c) ==
    \/ /\ local[c] # <<>>
       /\ EndRound(c)
       /\ UNCHANGED dq
    \/ /\ local[c] = <<>>
       /\ pc' = [pc EXCEPT ![c] = "dispatch"]
       /\ dq' = [dq EXCEPT ![c] = FirstDsq]
       /\ UNCHANGED frame

\* The slice of the running task ended.
Tick(c) ==
    /\ sched = "enabled"
    /\ pc[c] = "cpu" /\ running[c] # NoTask
    /\ StartRound(c)
    /\ UNCHANGED <<sched, created, maps, sched_stats, ring, core>>

\* The queues hold a task CPU c may run.
HasWork(c) == \E q \in Dsqs : \E i \in 1..Len(dsq[q]) : c \in Allowed[dsq[q][i]]

\* An idle CPU is rescheduled.
Resched(c) ==
    /\ sched = "enabled"
    /\ pc[c] = "cpu" /\ running[c] = NoTask
    /\ local[c] # <<>> \/ HasWork(c)
    /\ StartRound(c)
    /\ UNCHANGED <<sched, created, maps, sched_stats, ring, core>>

\* The running task blocks or exits.
Sleep(c) ==
    /\ sched = "enabled"
    /\ pc[c] = "cpu" /\ running[c] # NoTask
    /\ place' = [place EXCEPT ![running[c]] = Asleep]
    /\ running' = [running EXCEPT ![c] = NoTask]
    /\ pc' = [pc EXCEPT ![c] = "dispatch"]
    /\ dq' = [dq EXCEPT ![c] = FirstDsq]
    /\ UNCHANGED <<sched, created, maps, sched_stats, ring, dsq, local, frame>>

\* The first position of queue s whose task may run on CPU c.
IsFirstAllowed(s, i, c) ==
    /\ i \in 1..Len(s)
    /\ c \in Allowed[s[i]]
    /\ \A j \in 1..(i - 1) : c \notin Allowed[s[j]]

\* scx_bpf_dsq_move_to_local succeeds: one task moves and dispatch returns.
MoveToLocal(c) ==
    /\ sched = "enabled"
    /\ pc[c] = "dispatch" /\ dq[c] \in created
    /\ \E i \in 1..Len(dsq[dq[c]]) :
          LET t == dsq[dq[c]][i]
          IN  /\ IsFirstAllowed(dsq[dq[c]], i, c)
              /\ dsq' = [dsq EXCEPT ![dq[c]] = RemoveAt(@, i)]
              /\ local' = [local EXCEPT ![c] = Append(@, t)]
              /\ place' = [place EXCEPT ![t] = InLocal(c)]
    /\ AfterMove(c)
    /\ UNCHANGED <<sched, created, maps, sched_stats, ring, running>>

\* It finds nothing: try the next queue, or return empty-handed.
TryNextQueue(c) ==
    /\ sched = "enabled"
    /\ pc[c] = "dispatch" /\ dq[c] \in created
    /\ \A i \in 1..Len(dsq[dq[c]]) : c \notin Allowed[dsq[dq[c]][i]]
    /\ \/ /\ dq[c] # DSQ_FALLBACK
          /\ dq' = [dq EXCEPT ![c] = NextDsq(@)]
          /\ UNCHANGED <<pc, frame>>
       \/ /\ dq[c] = DSQ_FALLBACK
          /\ Return(c)
    /\ UNCHANGED <<sched, created, maps, sched_stats, ring, core>>

\* It names a queue that was never created: the core ejects the scheduler.
TryMissingQueue(c) ==
    /\ sched = "enabled"
    /\ pc[c] = "dispatch" /\ dq[c] \notin created
    /\ sched' = "ejected"
    /\ UNCHANGED <<created, maps, sched_stats, ring, core, pc, frame, dq>>

\* The core runs the task at the head of the local queue, or idles.
Pick(c) ==
    /\ sched = "enabled"
    /\ pc[c] = "pick"
    /\ \/ /\ local[c] = <<>>
          /\ UNCHANGED <<local, running, place>>
       \/ /\ local[c] # <<>>
          /\ running' = [running EXCEPT ![c] = Head(local[c])]
          /\ local' = [local EXCEPT ![c] = Tail(@)]
          /\ place' = [place EXCEPT ![Head(local[c])] = OnCpu(c)]
    /\ pc' = [pc EXCEPT ![c] = "cpu"]
    /\ UNCHANGED <<sched, created, maps, sched_stats, ring, dsq, frame, dq>>
-----------------------------------------------------------------------------
(* Userspace writes the maps through the bpf system call.                  *)

WriteDecision(p, d) ==
    /\ sched = "enabled"
    /\ sched_decisions' = [sched_decisions EXCEPT ![p] = d]
    /\ UNCHANGED <<sched, created, energy_mode, time_slices, sched_stats, ring,
                   core, pc, frame, dq>>

WriteEnergyMode(m) ==
    /\ sched = "enabled"
    /\ energy_mode' = m
    /\ UNCHANGED <<sched, created, time_slices, sched_decisions, sched_stats,
                   ring, core, pc, frame, dq>>

WriteTimeSlice(k, s) ==
    /\ sched = "enabled"
    /\ time_slices' = [time_slices EXCEPT ![k] = s]
    /\ UNCHANGED <<sched, created, energy_mode, sched_decisions, sched_stats,
                   ring, core, pc, frame, dq>>
-----------------------------------------------------------------------------
\* The steps CPU c takes inside a callback or a scheduling round.
CpuStep(c) ==
    \/ Lookup(c) \/ Select(c) \/ Count(c) \/ Route(c) \/ Insert(c)
    \/ MoveToLocal(c) \/ TryNextQueue(c) \/ TryMissingQueue(c) \/ Pick(c)

Userspace ==
    \/ \E p \in Pids, d \in Decisions : WriteDecision(p, d)
    \/ \E m \in EnergyChoices : WriteEnergyMode(m)
    \/ \E k \in TaskClasses, s \in SliceChoices : WriteTimeSlice(k, s)

Next ==
    \/ AiSchedInit
    \/ \E c \in Cpus, t \in Tasks : Wake(c, t) \/ WakeToIdle(c, t)
    \/ \E c \in Cpus : CpuStep(c) \/ Tick(c) \/ Resched(c) \/ Sleep(c)
    \/ Userspace

Spec == Init /\ [][Next]_vars
-----------------------------------------------------------------------------
(* Correctness.                                                            *)

\* The type invariant.  A full ring refuses samples (emit_telemetry), counters
\* are 64-bit words, and an enqueue in progress always has its task.
TypeOK ==
    /\ sched \in {"unregistered", "enabled", "ejected"}
    /\ created \subseteq Dsqs
    /\ energy_mode \in EnergyModes
    /\ time_slices \in [TaskClasses -> Nat]
    /\ sched_decisions \in [Pids -> Decisions \cup {NoDecision}]
    /\ sched_stats \in [Counters -> 0..(U64 - 1)]
    /\ ring \in Seq(Samples) /\ Len(ring) <= RingCap
    /\ dsq \in [Dsqs -> Seq(Tasks)]
    /\ local \in [Cpus -> Seq(Tasks)]
    /\ running \in [Cpus -> Tasks \cup {NoTask}]
    /\ place \in [Tasks -> Places]
    /\ pc \in [Cpus -> {"cpu", "dispatch", "pick"} \cup Enqueuing]
    /\ frame \in [Cpus -> Frames]
    /\ \A c \in Cpus : frame[c].task = NoTask <=> pc[c] \notin Enqueuing
    /\ dq \in [Cpus -> Dsqs]

\* Under the accounting pl, the tasks at w are exactly those in queue s, each
\* of them once.
Holds(pl, s, w) ==
    /\ \A i \in 1..Len(s) : pl[s[i]] = w
    /\ \A i, j \in 1..Len(s) : s[i] = s[j] => i = j
    /\ \A t \in Tasks : pl[t] = w => \E i \in 1..Len(s) : s[i] = t

DsqsOK    == \A q \in Dsqs : Holds(place, dsq[q], InDsq(q))
LocalsOK  == \A c \in Cpus : Holds(place, local[c], InLocal(c))
RunningOK == \A c \in Cpus, t \in Tasks : running[c] = t <=> place[t] = OnCpu(c)
HandlerOK == \A c \in Cpus, t \in Tasks :
                /\ place[t] = InHandler(c) => frame[c].task = t
                /\ frame[c].task = t => place[t] \in {InHandler(c), OnCpu(c)}

\* No interleaving of wakeups, expired slices and dispatches loses a task or
\* duplicates it: each one is asleep, in one enqueue, in one position of one
\* dispatch queue, in one local queue, or on one CPU.
OnePlace == DsqsOK /\ LocalsOK /\ RunningOK /\ HandlerOK

\* ai_sched_dispatch returns after its first success, so a round leaves at
\* most one task in the local queue, and never one behind a task that keeps
\* running: tasks wait in the shared queues, where every CPU looks, and a CPU
\* that picks its next task has given up the previous one.
LocalAtMostOne ==
    \A c \in Cpus :
        /\ Len(local[c]) <= 1
        /\ pc[c] = "pick" => running[c] = NoTask
        /\ local[c] # <<>> => /\ pc[c] # "dispatch"
                              /\ running[c] \in {NoTask, frame[c].task}

\* The counters of concurrent enqueues: until they wrap, the routing counters
\* and the enqueues between the two atomic adds never exceed tasks_enqueued,
\* because update_stats bumps the total first and one counter after it.
RoutedTotal ==
    sched_stats["tasks_ai_routed_cpu"] + sched_stats["tasks_ai_routed_npu"]
        + sched_stats["tasks_bg_routed_eff"]

BetweenAdds == {c \in Cpus : pc[c] = "route"}

RoutedWithinEnqueued ==
    RoutedTotal + Cardinality(BetweenAdds) <= sched_stats["tasks_enqueued"]

\* A failed scx_bpf_create_dsq, which ai_sched_init ignores, is the only way to
\* lose the scheduler: select_dsq and ai_sched_dispatch name no queue that
\* ai_sched_init does not ask for, whatever the decisions and the energy mode.
EjectedOnlyByFailedCreate ==
    sched = "ejected" => \E q \in FailingCreates : q \notin created
-----------------------------------------------------------------------------
(* Liveness.                                                               *)

\* What the code and the core guarantee of a CPU: callbacks terminate, the
\* task on it runs out of its slice or blocks, however often wakeups interrupt
\* it, and a CPU with a task in its local queue is rescheduled.  Nothing kicks
\* an idle CPU for a task in a shared queue.
Fairness ==
    /\ WF_vars(AiSchedInit)
    /\ \A c \in Cpus :
          /\ WF_vars(CpuStep(c))
          /\ SF_vars(Tick(c) \/ Sleep(c))
          /\ SF_vars(Resched(c) /\ local[c] # <<>>)

\* CPU c has nothing to run (it may be executing an enqueue).
Idle(c) == running[c] = NoTask /\ local[c] = <<>>

AllIdleFor(t) == \A c \in Allowed[t] : Idle(c)

Waiting(t) == sched = "enabled" /\ \E q \in Dsqs : place[t] = InDsq(q)

\* The task waits forever, although its CPUs do not all fall idle for good.
Starves(t) == <>[]Waiting(t) /\ []<>~AllIdleFor(t)

\* The task on a CPU is enqueued again only after dispatch has searched, so it
\* cannot compete with the queues: one task that computes without blocking
\* starves no other, in whatever queue that waits and on however many CPUs.
\* (One that blocks can, if it is awake again before the dispatch it caused has
\* searched its queue.)
OneOther(t) == \A u, v \in Tasks \ {t} : place[u] # Asleep /\ place[v] # Asleep => u = v

NoneBlocks == <>[][\A u \in Tasks : place'[u] = Asleep <=> place[u] = Asleep]_place

EveryQueueServed ==
    \A t \in Tasks : <>[]OneOther(t) /\ NoneBlocks => ~Starves(t)

\* However much is enqueued, a waiting task is served, in its turn, once the
\* queues that dispatch searches before its own stay empty; a task in DSQ_PERF,
\* the first one, never starves.
HigherEmpty(t) ==
    \E q \in Dsqs : place[t] = InDsq(q) /\ \A r \in Dsqs : r < q => dsq[r] = <<>>

ServedWhenHigherEmpty == \A t \in Tasks : <>[]HigherEmpty(t) => ~Starves(t)
=============================================================================
