----------------------------- MODULE Telemetry -----------------------------
(***************************************************************************)
(* The probes of kernel/telemetry.bpf.c: four tracepoint handlers that run *)
(* in the context of whatever thread meets the tracepoint, on several CPUs *)
(* at once, and share the hash task_accumulators and a ring buffer.        *)
(*                                                                         *)
(* The hash is preallocated: an update of a key, also of one that exists,  *)
(* takes an unused element, and an element that was replaced or deleted    *)
(* may be taken again at once, while a handler still holds a pointer to    *)
(* it.  An action is one call of a helper, or the add: the first of a      *)
(* handler together with the event that starts it.                         *)
(***************************************************************************)
EXTENDS Naturals, Sequences, FiniteSets

CONSTANTS
    Threads,   (* thread ids; the leader's is also the process id          *)
    Tgid,      (* [Threads -> Threads], the process a thread belongs to    *)
    First,     (* the thread that is there from the start                  *)
    None,      (* "no element", "no thread"                                *)
    Elems,     (* the elements of the hash: its slots and the spares       *)
    Slots,     (* its max_entries (16384 in the code)                      *)
    RingCap,   (* records that fit in telemetry_ringbuf                    *)
    MaxCalls   (* bound: system calls counted in the life of a process     *)

ASSUME TelemetryAssumption ==
    /\ Tgid \in [Threads -> Threads]
    /\ \A t \in Threads : Tgid[Tgid[t]] = Tgid[t]
    /\ First \in Threads /\ Tgid[First] = First
    /\ None \notin Elems \cup Threads
    /\ IsFiniteSet(Elems) /\ Slots \in Nat /\ Slots < Cardinality(Elems)
    /\ RingCap \in Nat /\ MaxCalls \in Nat

VARIABLES
    life,   (* of each thread: "none", "new", "live" or "dying"            *)
    frame,  (* of each thread: the handler it is in and its locals         *)
    accum,  (* task_accumulators: key -> element                           *)
    total,  (* total_syscalls of each element                              *)
    ring,   (* records: the handler filling it in, None when submitted     *)
    made,   (* history: calls counted for a process since its fork         *)
    late    (* history: processes that did I/O after their exit handler    *)

vars == <<life, frame, accum, total, ring, made, late>>

\* The locals of a handler: "ptr" is the element found, "child" the new thread.
In(probe, step, e, u) == [probe |-> probe, step |-> step, ptr |-> e, child |-> u]
User == In("none", "user", None, None)

Init ==
    /\ life = [t \in Threads |-> IF t = First THEN "live" ELSE "none"]
    /\ frame = [t \in Threads |-> User]
    /\ accum = [t \in Threads |-> None]
    /\ total = [e \in Elems |-> 0]
    /\ ring = <<>>
    /\ made = [t \in Threads |-> 0]
    /\ late = {}

InUser(t) == frame[t] = User
At(t, step) == frame[t].step = step
Goto(t, step) == frame' = [frame EXCEPT ![t].step = step]
Return(t) == frame' = [frame EXCEPT ![t] = User]

Used(a) == {a[k] : k \in Threads} \ {None}
Members(p) == {t \in Threads : Tgid[t] = p}
Gone(p) == \A t \in Members(p) : life[t] = "none"

\* bpf_map_update_elem(&task_accumulators, &k, &zero, 0) creates or replaces;
\* a new key needs a free slot.
Update(k) ==
    IF accum[k] # None \/ Cardinality(Used(accum)) < Slots
    THEN \E e \in Elems \ Used(accum) :
            /\ accum' = [accum EXCEPT ![k] = e]
            /\ total' = [total EXCEPT ![e] = 0]
    ELSE UNCHANGED <<accum, total>>
-----------------------------------------------------------------------------
(* handle_sys_enter and handle_block_rq_issue                              *)

\* With an element in hand only handle_sys_enter goes on.
Found(t, probe, e) ==
    IF probe = "sys_enter"
    THEN frame' = [frame EXCEPT ![t] = In(probe, "add", e, None)]
    ELSE Return(t)

Lookup(t, probe) ==
    LET e == accum[Tgid[t]]
    IN  IF e = None
        THEN frame' = [frame EXCEPT ![t] = In(probe, "create", None, None)]
        ELSE Found(t, probe, e)

SysEnter(t) ==
    /\ life[t] = "live" /\ InUser(t)
    /\ made[Tgid[t]] < MaxCalls
    /\ Lookup(t, "sys_enter")
    /\ UNCHANGED <<life, accum, total, ring, made, late>>

\* Closing its files, a thread may issue I/O after its exit handler.
BlockRqIssue(t) ==
    /\ life[t] \in {"live", "dying"} /\ InUser(t)
    /\ late' = IF life[t] = "dying" THEN late \cup {Tgid[t]} ELSE late
    /\ Lookup(t, "block_rq_issue")
    /\ UNCHANGED <<life, accum, total, ring, made>>

Create(t) ==
    /\ At(t, "create")
    /\ Update(Tgid[t])
    /\ Goto(t, "again")
    /\ UNCHANGED <<life, ring, made, late>>

\* The second lookup fails if the hash is full, or if the entry was deleted.
AgainUnchecked(t, e) == Found(t, frame[t].probe, e)
Again(t, e) == IF e = None THEN Return(t) ELSE Found(t, frame[t].probe, e)

LookupAgain(t) ==
    /\ At(t, "again")
    /\ Again(t, accum[Tgid[t]])
    /\ UNCHANGED <<life, accum, total, ring, made, late>>

\* __sync_fetch_and_add on the element, whosever it is by now.
Add(t) ==
    /\ At(t, "add")
    /\ total' = [total EXCEPT ![frame[t].ptr] = @ + 1]
    /\ made' = [made EXCEPT ![Tgid[t]] = @ + 1]
    /\ Return(t)
    /\ UNCHANGED <<life, accum, ring, late>>
-----------------------------------------------------------------------------
(* handle_sched_fork                                                       *)

\* Thread t creates u: a process, or a thread of its own process.  The id of a
\* process is free when all its threads are gone.
ForkKeyOfParent(t, u) == t
ForkKey(t, u) == u

Fork(t, u) ==
    /\ life[t] = "live" /\ InUser(t)
    /\ life[u] = "none"
    /\ IF Tgid[u] = u THEN Gone(u) ELSE Tgid[u] = Tgid[t]
    /\ life' = [life EXCEPT ![u] = "new"]
    /\ late' = late \ {u}
    /\ Update(ForkKey(t, u))
    /\ frame' = [frame EXCEPT ![t] = In("fork", "reserve", None, u)]
    /\ UNCHANGED <<ring, made>>

\* The end of the tracepoint: the child may run.
ReturnFork(t) ==
    /\ life' = [life EXCEPT ![frame[t].child] = "live"]
    /\ Return(t)

\* bpf_ringbuf_reserve: no record when the ring is full.
Reserve(t) ==
    /\ At(t, "reserve")
    /\ IF Len(ring) < RingCap
       THEN /\ ring' = Append(ring, t)
            /\ Goto(t, "fill")
            /\ UNCHANGED life
       ELSE ReturnFork(t) /\ UNCHANGED ring
    /\ UNCHANGED <<accum, total, made, late>>

\* The fields are filled in, then bpf_ringbuf_submit.
Submitted(t) == [i \in DOMAIN ring |-> IF ring[i] = t THEN None ELSE ring[i]]

FillAndSubmit(t) ==
    /\ At(t, "fill")
    /\ ring' = Submitted(t)
    /\ ReturnFork(t)
    /\ UNCHANGED <<accum, total, made, late>>
-----------------------------------------------------------------------------
(* handle_sched_exit; the first process lives on in one of its threads.    *)

\* args->pid is the id of the thread.
ExitKeyOfProcess(t) == Tgid[t]
ExitKey(t) == t

SchedExit(t) ==
    /\ life[t] = "live" /\ InUser(t)
    /\ \E u \in Threads \ {t} : life[u] = "live"
    /\ life' = [life EXCEPT ![t] = "dying"]
    /\ accum' = [accum EXCEPT ![ExitKey(t)] = None]
    /\ UNCHANGED <<frame, total, ring, made, late>>

\* The rest of the exit.
Reap(t) ==
    /\ life[t] = "dying" /\ InUser(t)
    /\ life' = [life EXCEPT ![t] = "none"]
    /\ made' = IF \A u \in Members(Tgid[t]) \ {t} : life[u] = "none"
               THEN [made EXCEPT ![Tgid[t]] = 0] ELSE made
    /\ UNCHANGED <<frame, accum, total, ring, late>>

\* The consumer takes the oldest record, unless it is not submitted yet; the
\* probes submit with flags 0, so it is woken for every record it waits for.
ConsumeWhenFull ==
    /\ Len(ring) = RingCap /\ Head(ring) = None
    /\ ring' = Tail(ring)
    /\ UNCHANGED <<life, frame, accum, total, made, late>>

Consume ==
    /\ ring # <<>> /\ Head(ring) = None
    /\ ring' = Tail(ring)
    /\ UNCHANGED <<life, frame, accum, total, made, late>>
-----------------------------------------------------------------------------
Handler(t) ==
    \/ Create(t) \/ LookupAgain(t) \/ Add(t)
    \/ Reserve(t) \/ FillAndSubmit(t)

Next ==
    \/ \E t \in Threads : \/ SysEnter(t) \/ BlockRqIssue(t) \/ Handler(t)
                          \/ SchedExit(t) \/ Reap(t)
    \/ \E t, u \in Threads : Fork(t, u)
    \/ Consume

Spec == Init /\ [][Next]_vars

\* A BPF program is not preempted for good, and the daemon polls.
FairSpec == Spec /\ WF_vars(Consume) /\ \A t \in Threads : WF_vars(Handler(t))
-----------------------------------------------------------------------------
\* The type invariant.
TypeOK ==
    /\ life \in [Threads -> {"none", "new", "live", "dying"}]
    /\ frame \in [Threads -> [probe : {"none", "sys_enter", "block_rq_issue", "fork"},
                              step : {"user", "create", "again", "add", "reserve", "fill"},
                              ptr : Elems \cup {None},
                              child : Threads \cup {None}]]
    /\ \A t \in Threads : frame[t].ptr # None <=> At(t, "add")
    /\ \A t \in Threads : frame[t].child # None <=> frame[t].probe = "fork"
    /\ accum \in [Threads -> Elems \cup {None}]
    /\ Cardinality(Used(accum)) <= Slots
    /\ total \in [Elems -> Nat]
    /\ ring \in Seq(Threads \cup {None}) /\ Len(ring) <= RingCap
    /\ made \in [Threads -> Nat]
    /\ late \subseteq Threads

Single(p) == Members(p) = {p}

\* While a process of one thread lives, its accumulator, once it has one, misses
\* none of its calls, whatever other processes do and whichever element it
\* got: a stale pointer of another handler may only add to it.
OwnCallsCounted ==
    \A p \in Threads :
        Single(p) /\ life[p] = "live" /\ accum[p] # None => total[accum[p]] >= made[p]

\* No entry outlives its thread or process, which would fill the hash in the
\* long run, but for two cases: the leader of several threads exits, and
\* another of them makes a call; or there is I/O after the exit handler.
NoLeak ==
    \A k \in Threads :
        accum[k] # None /\ life[k] = "none" =>
            k \in late \/ (Tgid[k] = k /\ ~Single(k))

\* However often the ring fills up, it is read on: handlers submit in another
\* order than they reserved and the consumer stops at a record that is not yet
\* submitted, but no record stays in the ring for good.
RingFlows == <>[](ring # <<>>) => []<><<Consume>>_vars
=============================================================================
