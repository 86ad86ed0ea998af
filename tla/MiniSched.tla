----------------------------- MODULE MiniSched -----------------------------
(***************************************************************************)
(* The schedulers of minimal-scheduler-main: six policies on one dispatch  *)
(* queue that all CPUs share, of which start.sh registers one.  "fifo"     *)
(* stands for fifo.bpf.c and its default twin sched_ext.bpf.c.             *)
(*                                                                         *)
(* A callback is split where another CPU can interfere: each call that     *)
(* locks the queue is a step.  The lotteries walk the queue with an        *)
(* iterator and lock it anew for each task.  The length of slices is left  *)
(* out, except for what vtime.bpf.c charges for.                           *)
(***************************************************************************)
EXTENDS Integers, Sequences, FiniteSets, SequencesExt

CONSTANTS
    Kinds,      (* the policies that may be registered                     *)
    Cpus, Tasks,
    NoTask,     (* "no task": an idle CPU                                  *)
    Allowed,    (* [Tasks -> SUBSET Cpus], the affinity of a task          *)
    Weight,     (* [Tasks -> Nat], scx.weight                              *)
    NiceZero,   (* the weight of nice 0 (100 in the code)                  *)
    SLICE,      (* what vtime.bpf.c grants (SCX_SLICE_DFL in the code)     *)
    U32, U64,   (* unsigned integers wrap there (2^32, 2^64 in the code)   *)
    MaxVtime    (* bound: no task is charged beyond it, below U64          *)

Policies == {"fifo", "fcfs", "prio", "vtime", "lottery", "lottery_prio"}
Lotteries == {"lottery", "lottery_prio"}

ASSUME MiniAssumption ==
    /\ Kinds \subseteq Policies
    /\ NoTask \notin Tasks
    /\ Allowed \in [Tasks -> SUBSET Cpus]
    /\ Weight \in [Tasks -> Nat \ {0}]
    /\ NiceZero \in Nat /\ U32 \in Nat /\ NiceZero < U32
    /\ SLICE \in Nat \ {0} /\ U64 \in Nat
    /\ MaxVtime \in Nat /\ MaxVtime + SLICE < U64

VARIABLES
    kind,       (* the registered policy, "none" before                    *)
    state,      (* of each task: "absent", "asleep" or "runnable"          *)
    dsq,        (* the shared queue, in the order the core keeps it      *)
    local,      (* the CPU-local queues of the sched_ext core              *)
    running,    (* the task each CPU executes                              *)
    endless,    (* the tasks whose slice is infinite                       *)
    vtime,      (* p->scx.dsq_vtime, the key in the queue                  *)
    vtime_now,  (* the virtual clock of vtime.bpf.c                        *)
    pc,         (* per CPU: the callback or core step it is in             *)
    frame,      (* per CPU: the task it is about, and what the iterator of
                   a lottery has not visited yet                           *)
    lot         (* per CPU: the drawn number; and the length of the queue it
                   was drawn for, or the weights added up to draw it       *)

core  == <<state, local, running, endless>>
clock == <<vtime, vtime_now>>
vars  == <<kind, dsq, core, clock, pc, frame, lot>>

About(t) == [task |-> t, iter |-> {}]
NoFrame == About(NoTask)
NoLot == [random |-> 0, n |-> 0]

Init ==
    /\ kind = "none"
    /\ state = [t \in Tasks |-> "absent"]
    /\ dsq = <<>>
    /\ local = [c \in Cpus |-> <<>>]
    /\ running = [c \in Cpus |-> NoTask]
    /\ endless = {}
    /\ vtime = [t \in Tasks |-> 0]
    /\ vtime_now = 0
    /\ pc = [c \in Cpus |-> "cpu"]
    /\ frame = [c \in Cpus |-> NoFrame]
    /\ lot = [c \in Cpus |-> NoLot]

\* sched_init returns the result of scx_bpf_create_dsq: if that fails the
\* scheduler is not registered.
SchedInit ==
    /\ kind = "none"
    /\ kind' \in Kinds
    /\ UNCHANGED <<dsq, core, clock, pc, frame, lot>>

\* A task comes under the scheduler; vtime.bpf.c starts it at the clock.
SchedEnable(t) ==
    /\ kind # "none" /\ state[t] = "absent"
    /\ state' = [state EXCEPT ![t] = "asleep"]
    /\ vtime' = [vtime EXCEPT ![t] = IF kind = "vtime" THEN vtime_now ELSE 0]
    /\ UNCHANGED <<kind, dsq, local, running, endless, vtime_now, pc, frame,
                   lot>>

\* A task that exited leaves; its slot stands for the next task created.
Reap(t) ==
    /\ state[t] = "asleep"
    /\ state' = [state EXCEPT ![t] = "absent"]
    /\ vtime' = [vtime EXCEPT ![t] = 0]
    /\ UNCHANGED <<kind, dsq, local, running, endless, vtime_now, pc, frame,
                   lot>>
-----------------------------------------------------------------------------
(* Enqueue.                                                                *)

\* isSmaller of vtime.bpf.c: the difference of two unsigned numbers, compared
\* with 0.
IsSmaller(a, b) == (a - b) % U64 < 0

\* The key scx_bpf_dsq_insert_vtime stores; scx_bpf_dsq_insert needs none.  In
\* prio.bpf.c "100 - weight" is a subtraction of unsigned ints, so a weight
\* above that of nice 0 wraps to a large key.
PrioKeyReversed(t) == Weight[t]
PrioKeySigned(t) == NiceZero - Weight[t]
PrioKey(t) == (NiceZero - Weight[t]) % U32

VtimeKey(t) ==
    LET floor == (vtime_now - SLICE) % U64
    IN  IF IsSmaller(vtime[t], floor) THEN floor ELSE vtime[t]

KeyOf(t) == IF kind = "prio" THEN PrioKey(t)
            ELSE IF kind = "vtime" THEN VtimeKey(t) ELSE vtime[t]

\* The core inserts at the tail, or between the tasks whose key is not larger
\* and the tasks whose key is.
Between(k) ==
    {i \in 1..(Len(dsq) + 1) : /\ \A j \in 1..(i - 1) : vtime[dsq[j]] <= k
                               /\ \A j \in i..Len(dsq) : vtime[dsq[j]] > k}

InsertedAtTail(t, k) == {Append(dsq, t)}
InsertedAtHead(t, k) == {<<t>> \o dsq}
InsertedTwice(t, k) == {dsq \o <<t, t>>}
Inserted(t, k) == IF kind \in {"prio", "vtime"}
                  THEN {InsertAt(dsq, i, t) : i \in Between(k)}
                  ELSE {Append(dsq, t)}

\* A task becomes runnable: CPU c calls sched_enqueue for it.
Wake(c, t) ==
    /\ kind # "none" /\ pc[c] = "cpu"
    /\ state[t] = "asleep"
    /\ state' = [state EXCEPT ![t] = "runnable"]
    /\ pc' = [pc EXCEPT ![c] = "enqueue"]
    /\ frame' = [frame EXCEPT ![c] = About(t)]
    /\ UNCHANGED <<kind, dsq, local, running, endless, clock, lot>>

\* Or it goes straight to an idle CPU: the default of the core, and
\* sched_select_cpu of vtime.bpf.c.  The slice is then the core's default.
WakeToIdle(c, t) ==
    /\ kind # "none" /\ pc[c] = "cpu"
    /\ running[c] = NoTask /\ local[c] = <<>>
    /\ state[t] = "asleep" /\ c \in Allowed[t]
    /\ state' = [state EXCEPT ![t] = "runnable"]
    /\ local' = [local EXCEPT ![c] = <<t>>]
    /\ endless' = endless \ {t}
    /\ UNCHANGED <<kind, dsq, running, clock, pc, frame, lot>>

\* sched_enqueue; the slice of fcfs.bpf.c is infinite.
SchedEnqueue(c) ==
    /\ pc[c] = "enqueue"
    /\ LET t == frame[c].task
       IN  /\ vtime' = [vtime EXCEPT ![t] = KeyOf(t)]
           /\ dsq' \in Inserted(t, KeyOf(t))
           /\ endless' = IF kind = "fcfs" THEN endless \cup {t} ELSE endless \ {t}
           /\ running' = [running EXCEPT ![c] = IF @ = t THEN NoTask ELSE @]
           /\ pc' = [pc EXCEPT ![c] = IF running[c] = t THEN "pick" ELSE "cpu"]
    /\ frame' = [frame EXCEPT ![c] = NoFrame]
    /\ UNCHANGED <<kind, state, local, vtime_now, lot>>
-----------------------------------------------------------------------------
(* Rounds of the core: it calls sched_dispatch on an empty local queue,    *)
(* sched_stopping for the task that leaves and sched_running for the next. *)

\* sched_stopping of vtime.bpf.c for a task that used n of its slice.
Charge(t, n) == vtime[t] + (n * NiceZero) \div Weight[t]

Stopping(t, n) ==
    vtime' = IF kind = "vtime" THEN [vtime EXCEPT ![t] = Charge(t, n)] ELSE vtime

\* The bound on the virtual time of tasks.
WithinBound(t, n) == kind = "vtime" => Charge(t, n) <= MaxVtime

\* After dispatch: the task still on the CPU has used up its slice and is
\* enqueued again, even when it is the only one (SCX_OPS_ENQ_LAST).
EndRound(c) ==
    /\ lot' = [lot EXCEPT ![c] = NoLot]
    /\ IF running[c] = NoTask
       THEN /\ pc' = [pc EXCEPT ![c] = "pick"]
            /\ frame' = [frame EXCEPT ![c] = NoFrame]
            /\ UNCHANGED vtime
       ELSE /\ pc' = [pc EXCEPT ![c] = "enqueue"]
            /\ frame' = [frame EXCEPT ![c] = About(running[c])]
            /\ Stopping(running[c], SLICE)

\* The slice of the running task ends.
Tick(c) ==
    /\ pc[c] = "cpu" /\ running[c] # NoTask /\ running[c] \notin endless
    /\ WithinBound(running[c], SLICE)
    /\ IF local[c] = <<>>
       THEN pc' = [pc EXCEPT ![c] = "dispatch"] /\ UNCHANGED <<vtime, frame, lot>>
       ELSE EndRound(c)
    /\ UNCHANGED <<kind, dsq, core, vtime_now>>

\* An idle CPU is rescheduled.
Resched(c) ==
    /\ kind # "none" /\ pc[c] = "cpu" /\ running[c] = NoTask
    /\ local[c] # <<>> \/ \E i \in 1..Len(dsq) : c \in Allowed[dsq[i]]
    /\ pc' = [pc EXCEPT ![c] = IF local[c] = <<>> THEN "dispatch" ELSE "pick"]
    /\ UNCHANGED <<kind, dsq, core, clock, frame, lot>>

\* The running task blocks or exits, having used any part of its slice.
Sleep(c) ==
    /\ pc[c] = "cpu" /\ running[c] # NoTask
    /\ \E n \in 0..SLICE : WithinBound(running[c], n) /\ Stopping(running[c], n)
    /\ state' = [state EXCEPT ![running[c]] = "asleep"]
    /\ running' = [running EXCEPT ![c] = NoTask]
    /\ pc' = [pc EXCEPT ![c] = IF local[c] = <<>> THEN "dispatch" ELSE "pick"]
    /\ UNCHANGED <<kind, dsq, local, endless, vtime_now, frame, lot>>

\* The core runs the task at the head of the local queue, or idles.
\* sched_running of vtime.bpf.c moves the clock to the vtime of the task.
Pick(c) ==
    /\ pc[c] = "pick"
    /\ pc' = [pc EXCEPT ![c] = "cpu"]
    /\ \/ /\ local[c] = <<>>
          /\ UNCHANGED <<local, running, vtime_now>>
       \/ /\ local[c] # <<>>
          /\ running' = [running EXCEPT ![c] = Head(local[c])]
          /\ local' = [local EXCEPT ![c] = Tail(@)]
          /\ vtime_now' = IF kind = "vtime" /\ IsSmaller(vtime_now, vtime[Head(local[c])])
                          THEN vtime[Head(local[c])] ELSE vtime_now
    /\ UNCHANGED <<kind, state, dsq, endless, vtime, frame, lot>>
-----------------------------------------------------------------------------
(* Dispatch.                                                               *)

\* When a task leaves the queue, an iterator of another CPU will not come to
\* it, and a CPU that has just been given it will fail to move it.
Forget(t) ==
    [c \in Cpus |->
        [task |-> IF frame[c].task = t /\ pc[c] = "move" THEN NoTask ELSE frame[c].task,
         iter |-> frame[c].iter \ {t}]]

\* The round of CPU c takes the task at position i out of the queue and ends.
TakeAndReturn(c, i) ==
    /\ dsq' = RemoveAt(dsq, i)
    /\ local' = [local EXCEPT ![c] = Append(@, dsq[i])]
    /\ lot' = [lot EXCEPT ![c] = NoLot]
    /\ IF running[c] = NoTask
       THEN /\ pc' = [pc EXCEPT ![c] = "pick"]
            /\ frame' = [Forget(dsq[i]) EXCEPT ![c] = NoFrame]
            /\ UNCHANGED vtime
       ELSE /\ pc' = [pc EXCEPT ![c] = "enqueue"]
            /\ frame' = [Forget(dsq[i]) EXCEPT ![c] = About(running[c])]
            /\ Stopping(running[c], SLICE)
    /\ UNCHANGED <<kind, state, running, endless, vtime_now>>

\* The task at position i is the first that CPU c may run.
FirstAllowed(c, i) ==
    c \in Allowed[dsq[i]] /\ \A j \in 1..(i - 1) : c \notin Allowed[dsq[j]]

\* sched_dispatch of all but the lotteries: scx_bpf_dsq_move_to_local takes
\* the first task this CPU may run.
SchedDispatch(c) ==
    /\ pc[c] = "dispatch" /\ kind \notin Lotteries
    /\ \/ \E i \in 1..Len(dsq) : FirstAllowed(c, i) /\ TakeAndReturn(c, i)
       \/ /\ \A i \in 1..Len(dsq) : c \notin Allowed[dsq[i]]
          /\ EndRound(c)
          /\ UNCHANGED <<kind, dsq, core, vtime_now>>

\* What a task counts for in the draw.
Tickets(t) == IF kind = "lottery" THEN 1 ELSE Weight[t]

Queued == {dsq[i] : i \in 1..Len(dsq)}

\* The task at position i is the next the iterator comes to.
FirstUnvisited(c, i) ==
    dsq[i] \in frame[c].iter /\ \A j \in 1..(i - 1) : dsq[j] \notin frame[c].iter

\* lottery_prio.bpf.c adds up the weights with an iterator of its own, while
\* tasks come and go: it counts those queued when it started that are still
\* queued when it comes to them.
StartSum(c) ==
    /\ pc[c] = "dispatch" /\ kind = "lottery_prio"
    /\ frame' = [frame EXCEPT ![c] = [task |-> NoTask, iter |-> Queued]]
    /\ lot' = [lot EXCEPT ![c] = NoLot]
    /\ pc' = [pc EXCEPT ![c] = "sum"]
    /\ UNCHANGED <<kind, dsq, core, clock>>

AddWeight(c) ==
    /\ pc[c] = "sum"
    /\ \E i \in 1..Len(dsq) :
          /\ FirstUnvisited(c, i)
          /\ frame' = [frame EXCEPT ![c] = [task |-> NoTask, iter |-> @.iter \ {dsq[i]}]]
          /\ lot' = [lot EXCEPT ![c].n = @ + Weight[dsq[i]]]
    /\ UNCHANGED <<kind, dsq, core, clock, pc>>

\* The number is drawn below n, which lottery_prio.bpf.c (weight_sum) uses no
\* more.  Division by zero is defined in BPF: the remainder is the dividend, any
\* number; -1 and the largest s32 stand for the others, with which the first
\* task that may run wins, or none does.
DrawBelow(c, n) ==
    /\ \E r \in IF n = 0 THEN {-1, (U32 \div 2) - 1} ELSE 0..(n - 1) :
          lot' = [lot EXCEPT ![c] = [random |-> r,
                                     n |-> IF kind = "lottery" THEN n ELSE 0]]
    /\ pc' = [pc EXCEPT ![c] = "iterate"]
    /\ UNCHANGED <<kind, dsq, core, clock, frame>>

\* lottery.bpf.c draws below the length of the queue.
Draw(c) ==
    \/ pc[c] = "dispatch" /\ kind = "lottery" /\ DrawBelow(c, Len(dsq))
    \/ pc[c] = "sum" /\ frame[c].iter = {} /\ DrawBelow(c, lot[c].n)

\* bpf_for_each starts: the iterator sees the tasks queued by now.
Iterate(c) ==
    /\ pc[c] = "iterate"
    /\ frame' = [frame EXCEPT ![c] = [task |-> NoTask, iter |-> Queued]]
    /\ pc' = [pc EXCEPT ![c] = "visit"]
    /\ UNCHANGED <<kind, dsq, core, clock, lot>>

\* The loop body up to the call of scx_bpf_dsq_move: the tickets of the task
\* come off the number first, then it is compared with 0.
WinsBefore(r, t) == r <= 0
Wins(r, t) == r - Tickets(t) <= 0
MayRunAnywhere(c, t) == TRUE
MayRun(c, t) == c \in Allowed[t]

VisitNext(c, t) ==
    LET won == Wins(lot[c].random, t) /\ MayRun(c, t)
    IN  /\ frame' = [frame EXCEPT ![c] = [task |-> IF won THEN t ELSE NoTask,
                                          iter |-> frame[c].iter \ {t}]]
        /\ lot' = [lot EXCEPT ![c].random = @ - Tickets(t)]
        /\ pc' = [pc EXCEPT ![c] = IF won THEN "move" ELSE "visit"]

Visit(c) ==
    /\ pc[c] = "visit"
    /\ \/ frame[c].iter = {} /\ EndRound(c)
       \/ /\ \E i \in 1..Len(dsq) : FirstUnvisited(c, i) /\ VisitNext(c, dsq[i])
          /\ UNCHANGED vtime
    /\ UNCHANGED <<kind, dsq, core, vtime_now>>

\* scx_bpf_dsq_move: if another CPU took the task meanwhile it fails, and the
\* loop goes on.
Move(c) ==
    /\ pc[c] = "move"
    /\ \/ \E i \in 1..Len(dsq) : dsq[i] = frame[c].task /\ TakeAndReturn(c, i)
       \/ /\ frame[c].task = NoTask
          /\ pc' = [pc EXCEPT ![c] = "visit"]
          /\ UNCHANGED <<kind, dsq, core, clock, frame, lot>>
-----------------------------------------------------------------------------
CpuStep(c) ==
    \/ SchedEnqueue(c) \/ SchedDispatch(c) \/ Pick(c)
    \/ StartSum(c) \/ AddWeight(c) \/ Draw(c) \/ Iterate(c) \/ Visit(c) \/ Move(c)

Next ==
    \/ SchedInit
    \/ \E t \in Tasks : SchedEnable(t) \/ Reap(t)
    \/ \E c \in Cpus, t \in Tasks : Wake(c, t) \/ WakeToIdle(c, t)
    \/ \E c \in Cpus : CpuStep(c) \/ Tick(c) \/ Resched(c) \/ Sleep(c)

Spec == Init /\ [][Next]_vars

\* Callbacks are finite and cannot be blocked.  Nothing is assumed of wakeups,
\* nor that a task ever blocks.
FairSpec == Spec /\ \A c \in Cpus : WF_vars(CpuStep(c))
-----------------------------------------------------------------------------
(* Correctness.                                                            *)

\* The type invariant.
TypeOK ==
    /\ kind \in Kinds \cup {"none"}
    /\ state \in [Tasks -> {"absent", "asleep", "runnable"}]
    /\ dsq \in Seq(Tasks)
    /\ local \in [Cpus -> Seq(Tasks)]
    /\ running \in [Cpus -> Tasks \cup {NoTask}]
    /\ endless \subseteq Tasks
    /\ vtime \in [Tasks -> IF kind = "prio" THEN 0..(U32 - 1) ELSE 0..MaxVtime]
    /\ vtime_now \in 0..MaxVtime
    /\ pc \in [Cpus -> {"cpu", "enqueue", "dispatch", "sum", "iterate", "visit",
                        "move", "pick"}]
    /\ frame \in [Cpus -> [task : Tasks \cup {NoTask}, iter : SUBSET Tasks]]
    /\ lot \in [Cpus -> [random : Int, n : Nat]]

\* The places a task occupies; on its CPU it stays while it is enqueued again.
Positions(t) ==
    {<<"dsq", i>> : i \in {i \in 1..Len(dsq) : dsq[i] = t}}
      \cup {<<"local", c>> : c \in {c \in Cpus : Contains(local[c], t)}}
      \cup {<<"cpu", c>> : c \in {c \in Cpus : running[c] = t}}
      \cup {<<"enqueue", c>> : c \in {c \in Cpus : /\ pc[c] = "enqueue"
                                                    /\ frame[c].task = t
                                                    /\ running[c] # t}}

\* A lottery unlocks the queue between the visit of a task and its move, and
\* other CPUs move tasks meanwhile: still each runnable task is in one place,
\* and no other task in any.
OnePlace ==
    \A t \in Tasks :
        Cardinality(Positions(t)) = IF state[t] = "runnable" THEN 1 ELSE 0

Status(t) ==
    IF \E c \in Cpus : running[c] = t
    THEN <<"cpu", CHOOSE c \in Cpus : running[c] = t>>
    ELSE IF state[t] = "runnable" THEN <<"ready">> ELSE <<"asleep">>

Lifecycle == INSTANCE TaskLifecycle WITH status <- [t \in Tasks |-> Status(t)]

\* Each of the six policies is a scheduler: it runs tasks only where their
\* affinity lets them, one per CPU, and gives up none that did not block.
ImplementsLifecycle == Lifecycle!Spec

\* CPU c takes t out of the shared queue although it could have had u.
TakesBefore(c, t, u) ==
    /\ Contains(dsq, t) /\ Contains(local'[c], t)
    /\ Contains(dsq, u) /\ c \in Allowed[u]

\* prio.bpf.c serves heavier tasks first, up to the weight of nice 0: above it
\* the key wraps.
HeaviestFirst ==
    [][\A c \in Cpus, t, u \in Tasks :
          /\ kind = "prio" /\ TakesBefore(c, t, u)
          /\ Weight[t] <= NiceZero /\ Weight[u] <= NiceZero
          => Weight[u] <= Weight[t]]_vars

\* vtime.bpf.c serves the task that was charged least, though every task is
\* charged between its insertions and others are inserted meanwhile.
LeastChargedFirst ==
    [][\A c \in Cpus, t, u \in Tasks :
          kind = "vtime" /\ TakesBefore(c, t, u) => vtime[t] <= vtime[u]]_vars

\* The number is decremented before it is compared, so 0 and 1 both elect the
\* head: lottery.bpf.c never gives the last of several waiting tasks the prize,
\* unless the queue changed during the dispatch or affinity leaves no other.
LastNeverDrawn ==
    [][\A c \in Cpus :
          /\ kind = "lottery" /\ pc[c] = "move" /\ frame[c].task # NoTask
          /\ lot[c].n = Len(dsq) /\ Len(dsq) >= 2
          /\ \A t \in Tasks : Contains(dsq, t) => c \in Allowed[t]
          /\ Contains(local'[c], frame[c].task)
          => frame[c].task # Last(dsq)]_vars

\* First come, first served, and so none starves: a CPU that keeps dispatching
\* under fifo.bpf.c, sched_ext.bpf.c or fcfs.bpf.c serves every task it may run.
ArrivalsServed ==
    \A t \in Tasks : \A c \in Allowed[t] :
        ~ (/\ []<>(pc[c] = "dispatch")
           /\ <>[](kind \in {"fifo", "fcfs"} /\ Contains(dsq, t)))
-----------------------------------------------------------------------------
(* What a comment says and the code does not do.                           *)

\* vtime.bpf.c:88: "New tasks get the current max vtime".  isSmaller is never
\* true, the clock stays where it started, and a new task is put in front of
\* all that ever ran.
NewTasksGetMaxVtime ==
    [][\A t \in Tasks, c \in Cpus :
          /\ kind = "vtime" /\ state[t] = "absent" /\ state'[t] = "asleep"
          /\ running[c] # NoTask /\ pc[c] = "cpu"
          => vtime[running[c]] <= vtime'[t]]_vars
=============================================================================
