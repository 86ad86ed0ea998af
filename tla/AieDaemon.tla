----------------------------- MODULE AieDaemon -----------------------------
(***************************************************************************)
(* The daemon process of daemon/aie_daemon.cpp: the main thread, the       *)
(* telemetry worker and the decision worker, the signals that stop it, the *)
(* ring buffer it polls and systemd, which restarts it.                    *)
(*                                                                         *)
(* pending_telemetry_ belongs to the telemetry worker alone.  Both workers *)
(* use pending_decisions_ without a lock, so its push_back and clear are   *)
(* split into their accesses to the vector's start and finish pointers; a  *)
(* store computed from a pointer that moved on is a possible outcome.  So  *)
(* are the loads for the arguments of write_decisions.                     *)
(***************************************************************************)
EXTENDS Naturals, Sequences

CONSTANTS
    Batch,    (* samples classified at a time (10 in the code)             *)
    RingCap,  (* records that fit in telemetry_ringbuf                     *)
    Ids,      (* bound: decisions are numbered 1..Ids, cyclically          *)
    MaxVec    (* bound: no batch is started with more decisions pending    *)

ASSUME DaemonAssumption ==
    /\ Batch \in Nat \ {0} /\ RingCap \in Nat \ {0}
    /\ Ids \in Nat \ {0} /\ MaxVec \in Nat

VARIABLES
    main, tele, deci,  (* where the three threads are                      *)
    code,              (* exit status of the process, "none" while it runs *)
    running,           (* running_                                         *)
    signalled,         (* SIGINT or SIGTERM was delivered                  *)
    ring,              (* records in the ring buffer                       *)
    pending,           (* size of pending_telemetry_                       *)
    todo,              (* samples of the batch not classified yet          *)
    made,              (* number of the decision pushed last               *)
    buffer,            (* start of pending_decisions_: its capacity names
                          the buffer, every growth allocates a larger one  *)
    finish,            (* finish: the buffer and the position it points to *)
    mem,               (* the decisions constructed in the buffer          *)
    loaded,            (* finish as push_back read it                      *)
    start,             (* start as clear read it                           *)
    args,              (* what push_decisions read for data(), the start,
                          and for size(), the start and finish             *)
    handed             (* decisions passed to write_decisions              *)

thread == <<main, tele, deci, code>>
vector == <<buffer, finish, mem>>
vars == <<thread, running, signalled, ring, pending, todo, made, vector,
          loaded, start, args, handed>>

NoArgs == [data |-> 0, base |-> 0, end |-> [buffer |-> 0, at |-> 0]]

Init ==
    /\ main = "connect" /\ tele = "unborn" /\ deci = "unborn"
    /\ code = "none"
    /\ running = FALSE /\ signalled = FALSE
    /\ ring = 0 /\ pending = 0 /\ todo = 0 /\ made = 0
    /\ buffer = 0 /\ finish = [buffer |-> 0, at |-> 0] /\ mem = <<>>
    /\ loaded = 0 /\ start = 0 /\ args = NoArgs
    /\ handed = {}

Alive == code = "none"

\* The loop condition of the three threads.
StillRunningIgnored == TRUE
StillRunning == running

At(n) == [buffer |-> buffer, at |-> n]
-----------------------------------------------------------------------------
(* main(), init(), run()                                                   *)

\* init() connects the four interfaces: the telemetry object may fail to open
\* or load, the other three are stubs that succeed.
Connect ==
    /\ Alive /\ main = "connect"
    /\ main' = "configure"
    /\ UNCHANGED <<tele, deci, code, running, signalled, ring, pending, todo,
                   made, vector, loaded, start, args, handed>>

ConnectFails ==
    /\ Alive /\ main = "connect"
    /\ main' = "exited" /\ code' = "failure"
    /\ UNCHANGED <<tele, deci, running, signalled, ring, pending, todo, made,
                   vector, loaded, start, args, handed>>

\* The rest of init(): configuration, classifier, devices, then running_.
Configure ==
    /\ Alive /\ main = "configure"
    /\ running' = TRUE
    /\ main' = "enter"
    /\ UNCHANGED <<tele, deci, code, signalled, ring, pending, todo, made,
                   vector, loaded, start, args, handed>>

\* run() refuses to start when running_ is false already.
Enter ==
    /\ Alive /\ main = "enter"
    /\ \/ running /\ main' = "spawn_telemetry" /\ UNCHANGED code
       \/ ~running /\ main' = "exited" /\ code' = "failure"
    /\ UNCHANGED <<tele, deci, running, signalled, ring, pending, todo, made,
                   vector, loaded, start, args, handed>>

SpawnTelemetry ==
    /\ Alive /\ main = "spawn_telemetry"
    /\ tele' = "loop" /\ main' = "spawn_decision"
    /\ UNCHANGED <<deci, code, running, signalled, ring, pending, todo, made,
                   vector, loaded, start, args, handed>>

SpawnDecision ==
    /\ Alive /\ main = "spawn_decision"
    /\ deci' = "loop" /\ main' = "loop"
    /\ UNCHANGED <<tele, code, running, signalled, ring, pending, todo, made,
                   vector, loaded, start, args, handed>>

\* Sleep ten seconds, read the statistics (StatsMonitor always fails), again.
MainLoop ==
    /\ Alive /\ main = "loop"
    /\ main' = IF StillRunning THEN "loop" ELSE "join_telemetry"
    /\ UNCHANGED <<tele, deci, code, running, signalled, ring, pending, todo,
                   made, vector, loaded, start, args, handed>>

AfterTelemetryExits == "exited"
AfterTelemetry == "join_decision"

JoinTelemetry ==
    /\ Alive /\ main = "join_telemetry" /\ tele = "done"
    /\ main' = AfterTelemetry
    /\ UNCHANGED <<tele, deci, code, running, signalled, ring, pending, todo,
                   made, vector, loaded, start, args, handed>>

JoinDecision ==
    /\ Alive /\ main = "join_decision" /\ deci = "done"
    /\ main' = "exited" /\ code' = "success"
    /\ UNCHANGED <<tele, deci, running, signalled, ring, pending, todo, made,
                   vector, loaded, start, args, handed>>
-----------------------------------------------------------------------------
(* telemetry_worker()                                                      *)

TelemetryLoop ==
    /\ Alive /\ tele = "loop"
    /\ tele' = IF StillRunning THEN "poll" ELSE "done"
    /\ UNCHANGED <<main, deci, code, running, signalled, ring, pending, todo,
                   made, vector, loaded, start, args, handed>>

AfterPoll == 0

PollRecords ==
    /\ Alive /\ tele = "poll" /\ ring > 0
    /\ ring' = AfterPoll
    /\ tele' = "loop"
    /\ UNCHANGED <<main, deci, code, running, signalled, pending, todo, made,
                   vector, loaded, start, args, handed>>

EnoughStrictly(n) == n > Batch
Enough(n) == n >= Batch

\* It returns 0 when it timed out: telemetry_worker takes that for a sample and
\* pushes its uninitialised local.
PollTimeout ==
    /\ Alive /\ tele = "poll" /\ ring = 0
    /\ Enough(pending + 1) /\ running => finish.at <= MaxVec
    /\ pending' = pending + 1
    /\ \/ /\ Enough(pending + 1)
          /\ todo' = pending + 1
          /\ tele' = "classify"
       \/ /\ ~Enough(pending + 1)
          /\ tele' = "loop"
          /\ UNCHANGED todo
    /\ UNCHANGED <<main, deci, code, running, signalled, ring, made, vector,
                   loaded, start, args, handed>>

\* classify_pending_tasks(): the classifiers never fail, so each sample gives
\* one decision; push_back loads finish.
ClassifyOne ==
    /\ Alive /\ tele = "classify" /\ todo > 0
    /\ finish.buffer = buffer
    /\ loaded' = finish.at
    /\ tele' = IF finish.at = buffer THEN "grow" ELSE "construct"
    /\ UNCHANGED <<main, deci, code, running, signalled, ring, pending, todo,
                   made, vector, start, args, handed>>

Next1(n) == (n % Ids) + 1

\* push_back with room: construct the element where finish pointed, then store
\* finish, either from the loaded value or by incrementing it in place.
Constructed(s, i, d) == IF i = Len(s) + 1 THEN Append(s, d) ELSE [s EXCEPT ![i] = d]

Construct ==
    /\ Alive /\ tele = "construct"
    /\ made' = Next1(made)
    /\ handed' = handed \ {made'}
    /\ mem' = Constructed(mem, loaded + 1, made')
    /\ \E f \in {At(loaded), finish} : finish' = [f EXCEPT !.at = @ + 1]
    /\ todo' = todo - 1
    /\ tele' = "classify"
    /\ UNCHANGED <<main, deci, code, running, signalled, ring, pending,
                   buffer, loaded, start, args>>

\* push_back without room: a buffer of twice the size gets the elements and
\* the new one; start is stored, the old buffer freed, then finish is stored.
Grow ==
    /\ Alive /\ tele = "grow"
    /\ made' = Next1(made)
    /\ handed' = handed \ {made'}
    /\ mem' = Append(SubSeq(mem, 1, loaded), made')
    /\ buffer' = IF loaded = 0 THEN 1 ELSE 2 * loaded
    /\ tele' = "grown"
    /\ UNCHANGED <<main, deci, code, running, signalled, ring, pending, todo,
                   finish, loaded, start, args>>

Grown ==
    /\ Alive /\ tele = "grown"
    /\ finish' = At(loaded + 1)
    /\ todo' = todo - 1
    /\ tele' = "classify"
    /\ UNCHANGED <<main, deci, code, running, signalled, ring, pending, made,
                   buffer, mem, loaded, start, args, handed>>

\* finish points into a freed buffer: push_back writes there.  From here on
\* anything may happen; the model ends the process.
PushWild ==
    /\ Alive /\ tele = "classify" /\ todo > 0
    /\ finish.buffer # buffer
    /\ code' = "undefined"
    /\ UNCHANGED <<main, tele, deci, running, signalled, ring, pending, todo,
                   made, vector, loaded, start, args, handed>>

\* The batch is done: clear pending_telemetry_.
BatchDone ==
    /\ Alive /\ tele = "classify" /\ todo = 0
    /\ pending' = 0
    /\ tele' = "loop"
    /\ UNCHANGED <<main, deci, code, running, signalled, ring, todo, made,
                   vector, loaded, start, args, handed>>
-----------------------------------------------------------------------------
(* decision_worker()                                                       *)

DecisionLoop ==
    /\ Alive /\ deci = "loop"
    /\ deci' = IF StillRunning THEN "empty" ELSE "done"
    /\ UNCHANGED <<main, tele, code, running, signalled, ring, pending, todo,
                   made, vector, loaded, start, args, handed>>

\* push_decisions(): empty() loads the vector's start and then its finish, and
\* the call returns when they are equal.
LoadStart ==
    /\ Alive /\ deci = "empty"
    /\ args' = [args EXCEPT !.data = buffer, !.base = buffer]
    /\ deci' = "compare"
    /\ UNCHANGED <<main, tele, code, running, signalled, ring, pending, todo,
                   made, vector, loaded, start, handed>>

IsEmpty ==
    /\ Alive /\ deci = "compare"
    /\ \/ /\ finish = [buffer |-> args.base, at |-> 0]
          /\ deci' = "loop" /\ args' = NoArgs
       \/ /\ finish # [buffer |-> args.base, at |-> 0]
          /\ deci' = "write" /\ args' = [args EXCEPT !.end = finish]
    /\ UNCHANGED <<main, tele, code, running, signalled, ring, pending, todo,
                   made, vector, loaded, start, handed>>

\* data() loads the start, size() the finish and the start.  An optimised build
\* keeps what empty() loaded, another loads them again, in any order.
Reload ==
    /\ Alive /\ deci = "write"
    /\ args' \in {[args EXCEPT !.data = buffer], [args EXCEPT !.base = buffer],
                  [args EXCEPT !.end = finish]}
    /\ UNCHANGED <<thread, running, signalled, ring, pending, todo, made,
                   vector, loaded, start, handed>>

\* The size passed to write_decisions, when it is the length of a buffer: with
\* start and finish of two buffers it is a meaningless number.
PassedCapacity == args.base
Passed == args.end.at

\* data() still is the live buffer, and size() was taken from one buffer.
\* Otherwise write_decisions gets a freed buffer or a meaningless size.
Matched == args.data = buffer /\ args.end.buffer = args.base

\* write_decisions() returns 0 without a look at its arguments.
WriteDecisions ==
    /\ Alive /\ deci = "write"
    /\ handed' = handed \cup IF Matched THEN {mem[i] : i \in 1..Passed} ELSE {}
    /\ args' = NoArgs
    /\ deci' = "clear"
    /\ UNCHANGED <<main, tele, code, running, signalled, ring, pending, todo,
                   made, vector, loaded, start>>

\* clear(): load start and, unless finish is equal, store it in finish.
ClearLoad ==
    /\ Alive /\ deci = "clear"
    /\ start' = buffer
    /\ deci' = IF finish = At(0) THEN "loop" ELSE "cleared"
    /\ UNCHANGED <<main, tele, code, running, signalled, ring, pending, todo,
                   made, vector, loaded, args, handed>>

ClearedNot == finish
Cleared == [buffer |-> start, at |-> 0]

ClearStore ==
    /\ Alive /\ deci = "cleared"
    /\ finish' = Cleared
    /\ deci' = "loop"
    /\ UNCHANGED <<main, tele, code, running, signalled, ring, pending, todo,
                   made, buffer, mem, loaded, start, args, handed>>
-----------------------------------------------------------------------------
(* The environment.                                                        *)

\* signal_handler() -> shutdown(), on any thread, as often as it is sent; a
\* poll on the thread that runs it is interrupted, logged and retried.
Signal ==
    /\ Alive
    /\ running' = FALSE /\ signalled' = TRUE
    /\ tele' \in {tele} \cup {p \in {"loop"} : tele = "poll"}
    /\ UNCHANGED <<main, deci, code, ring, pending, todo, made, vector,
                   loaded, start, args, handed>>

\* telemetry.bpf.c submits a record, dropped when the ring is full; the ring
\* exists once the object is loaded.
Record ==
    /\ Alive /\ main # "connect"
    /\ ring < RingCap
    /\ ring' = ring + 1
    /\ UNCHANGED <<thread, running, signalled, pending, todo, made, vector,
                   loaded, start, args, handed>>

\* systemd: Restart=on-failure.  The new process starts from nothing.
Restart ==
    /\ code \in {"failure", "undefined"}
    /\ main' = "connect" /\ tele' = "unborn" /\ deci' = "unborn"
    /\ code' = "none"
    /\ running' = FALSE /\ signalled' = FALSE
    /\ ring' = 0 /\ pending' = 0 /\ todo' = 0 /\ made' = 0
    /\ buffer' = 0 /\ finish' = [buffer |-> 0, at |-> 0] /\ mem' = <<>>
    /\ loaded' = 0 /\ start' = 0 /\ args' = NoArgs
    /\ handed' = {}
-----------------------------------------------------------------------------
Main == Connect \/ Configure \/ Enter \/ SpawnTelemetry \/ SpawnDecision
            \/ MainLoop \/ JoinTelemetry \/ JoinDecision

Telemetry == TelemetryLoop \/ PollRecords \/ PollTimeout \/ ClassifyOne
                 \/ Construct \/ Grow \/ Grown \/ PushWild \/ BatchDone

Decision == DecisionLoop \/ LoadStart \/ IsEmpty \/ WriteDecisions
                \/ ClearLoad \/ ClearStore

Next == Main \/ ConnectFails \/ Telemetry \/ Decision \/ Reload
            \/ Signal \/ Record \/ Restart

Spec == Init /\ [][Next]_vars

\* Threads are scheduled, polls time out, sleeps end.  Nothing makes signals
\* and records come, and no build has to load a pointer again.
FairSpec == Spec /\ WF_vars(Main) /\ WF_vars(Telemetry) /\ WF_vars(Decision)
-----------------------------------------------------------------------------
(* Properties                                                              *)

\* The variables keep their types: no more samples are pending than it
\* takes to start a batch, and finish never passes the end of its buffer.
TypeOK ==
    /\ main \in {"connect", "configure", "enter", "spawn_telemetry",
                 "spawn_decision", "loop", "join_telemetry", "join_decision",
                 "exited"}
    /\ tele \in {"unborn", "loop", "poll", "classify", "construct", "grow",
                 "grown", "done"}
    /\ deci \in {"unborn", "loop", "empty", "compare", "write", "clear",
                 "cleared", "done"}
    /\ code \in {"none", "success", "failure", "undefined"}
    /\ running \in BOOLEAN /\ signalled \in BOOLEAN
    /\ ring \in 0..RingCap
    /\ pending \in 0..Batch /\ todo \in 0..Batch
    /\ (tele = "loop" \/ tele = "poll") => pending < Batch
    /\ made \in 0..Ids
    /\ buffer \in Nat /\ Len(mem) <= buffer
    /\ \A i \in 1..Len(mem) : mem[i] \in 1..Ids
    /\ finish.buffer \in 0..buffer /\ finish.at \in 0..finish.buffer
    /\ loaded \in 0..buffer /\ start \in 0..buffer
    /\ args.data \in 0..buffer /\ args.base \in 0..buffer
    /\ args.end.buffer \in 0..buffer /\ args.end.at \in 0..args.end.buffer
    /\ handed \subseteq 1..Ids

\* When run() returns, both workers have ended: the destructor of a joinable
\* std::thread would end the process with std::terminate (aie_daemon.cpp,
\* run() joins before it returns, and main() destroys the daemon after it).
NoThreadOutlives ==
    main = "exited" => /\ tele \in {"unborn", "done"}
                       /\ deci \in {"unborn", "done"}

\* However push_back and clear overlap the loads of push_decisions, a call of
\* write_decisions with the live buffer and a length gets constructed elements
\* only, repeated ones perhaps.  The other calls get a freed buffer or a number
\* that is no length: harmless only as long as the writer ignores both.
HandedBuilt == deci = "write" /\ Matched => Passed <= Len(mem)

\* Once init() is over, a cleared running_ ends the process, before the threads
\* are spawned, between the two spawns or later: each worker sees it after the
\* call it is in, and the main thread joins both.
ShutdownCompletes ==
    (main \notin {"connect", "configure"} /\ ~running) ~> code # "none"


\* A decision does not stay in pending_decisions_ while the daemon runs.
DecisionsLeave == (finish.at > 0) ~> (finish.at = 0 \/ ~running \/ ~Alive)
=============================================================================
