------------------------ MODULE AISchedServiceProofs ------------------------
(***************************************************************************)
(* What the scheduler of AISched owes its tasks, for any number of CPUs    *)
(* and tasks: that it implements TaskLifecycle, and the order of service   *)
(* of AISchedOrder.                                                        *)
(*                                                                         *)
(* Under the inductive invariant of AISchedProofs the status of a task is  *)
(* a function of its place, and each action moves at most one task.  What  *)
(* is left of the refinement is which status each move leaves and enters,  *)
(* and that a task in a local queue may run on that CPU; what is left of   *)
(* the order is how the queue a dispatch is at relates to the tasks that   *)
(* waited since it began.                                                  *)
(***************************************************************************)
EXTENDS AISchedRefinement, AISchedOrder, AISchedProofs

\* The status of a task at place p.
Kind(p) == IF p \in {OnCpu(c) : c \in Cpus} \cup {Asleep} THEN p ELSE <<"ready">>

status == [t \in Tasks |-> StatusOf(t)]

\* Both ways into a local queue look at the affinity of the task first.
LocalAllowed ==
    \A c \in Cpus : \A i \in 1..Len(local[c]) : c \in Allowed[local[c][i]]

LEMMA StatusByPlace == IInv => status = [t \in Tasks |-> Kind(place[t])]
<1> SUFFICES ASSUME IInv, NEW t \in Tasks PROVE StatusOf(t) = Kind(place[t])
  BY DEF status
<1>1. CASE \E c \in Cpus : place[t] = OnCpu(c)
  <2>1. PICK c \in Cpus : place[t] = OnCpu(c)
    BY <1>1
  <2>2. \A e \in Cpus : running[e] = t <=> e = c
    BY <2>1, PlacesDiffer DEF IInv, OnePlace, RunningOK
  <2>3. (CHOOSE e \in Cpus : running[e] = t) = c
    BY <2>2
  <2> QED BY <2>1, <2>2, <2>3 DEF StatusOf, Kind
<1>2. CASE ~\E c \in Cpus : place[t] = OnCpu(c)
  <2>1. \A c \in Cpus : running[c] # t
    BY <1>2 DEF IInv, OnePlace, RunningOK
  <2> QED BY <1>2, <2>1, PlacesDiffer DEF StatusOf, Kind
<1> QED BY <1>1, <1>2

LEMMA StatusByPlaceNext == (IInv => status = [t \in Tasks |-> Kind(place[t])])'
  BY StatusByPlace, PTL

\* A step that moves task t.
LEMMA StatusMoves ==
    ASSUME IInv, IInv', NEW t \in Tasks, NEW v, place' = [place EXCEPT ![t] = v]
    PROVE  status' = [status EXCEPT ![t] = Kind(v)] /\ status[t] = Kind(place[t])
<1>1. status' = [u \in Tasks |-> Kind(place'[u])]
  BY StatusByPlaceNext DEF Kind, OnCpu, Asleep
<1>2. status = [u \in Tasks |-> Kind(place[u])]
  BY StatusByPlace
<1> QED BY <1>1, <1>2 DEF IInv, TypeOK
-----------------------------------------------------------------------------
(* Affinity of the tasks in local queues.                                  *)

LEMMA LocalAllowedNext ==
    IInv /\ LocalAllowed /\ [Next]_vars => LocalAllowed'
<1> SUFFICES ASSUME IInv, LocalAllowed, [Next]_vars PROVE LocalAllowed'
  OBVIOUS
<1>1. CASE UNCHANGED local
  BY <1>1 DEF LocalAllowed
<1>2. ASSUME NEW c \in Cpus, NEW t \in Tasks, c \in Allowed[t],
             local' = [local EXCEPT ![c] = Append(@, t)]
      PROVE  LocalAllowed'
  <2>1. local[c] \in Seq(Tasks) /\ local \in [Cpus -> Seq(Tasks)]
    BY DEF IInv, TypeOK
  <2>2. /\ Len(Append(local[c], t)) = Len(local[c]) + 1
        /\ \A i \in 1..Len(local[c]) : Append(local[c], t)[i] = local[c][i]
        /\ Append(local[c], t)[Len(local[c]) + 1] = t
        /\ Len(local[c]) \in Nat
    BY <2>1, AppendProperties, LenProperties
  <2>3. \A i \in 1..(Len(local[c]) + 1) : c \in Allowed[Append(local[c], t)[i]]
    <3> TAKE i \in 1..(Len(local[c]) + 1)
    <3>1. CASE i = Len(local[c]) + 1
      BY <1>2, <2>2, <3>1
    <3>2. CASE i # Len(local[c]) + 1
      <4>1. i \in 1..Len(local[c])
        BY <2>2, <3>2
      <4> QED BY <2>2, <4>1 DEF LocalAllowed
    <3> QED BY <3>1, <3>2
  <2>4. /\ local'[c] = Append(local[c], t)
        /\ \A e \in Cpus \ {c} : local'[e] = local[e]
    BY <1>2, <2>1
  <2> QED BY SMTT(30), <2>2, <2>3, <2>4 DEF LocalAllowed
<1>3. ASSUME NEW c \in Cpus, NEW t \in Tasks, WakeToIdle(c, t) PROVE LocalAllowed'
  BY <1>2, <1>3 DEF WakeToIdle
<1>4. ASSUME NEW c \in Cpus, MoveToLocal(c) PROVE LocalAllowed'
  <2>1. PICK i \in 1..Len(dsq[dq[c]]) :
            /\ IsFirstAllowed(dsq[dq[c]], i, c)
            /\ local' = [local EXCEPT ![c] = Append(@, dsq[dq[c]][i])]
    BY <1>4 DEF MoveToLocal
  <2>2. dsq[dq[c]][i] \in Tasks
    BY <1>4, ElementOfSeq DEF IInv, TypeOK, MoveToLocal
  <2> QED BY <1>2, <2>1, <2>2 DEF IsFirstAllowed
<1>5. ASSUME NEW c \in Cpus, Pick(c), ~UNCHANGED local PROVE LocalAllowed'
  <2>1. local[c] # <<>> /\ local' = [local EXCEPT ![c] = Tail(@)]
    BY <1>5 DEF Pick
  <2>2. local[c] \in Seq(Tasks) /\ local \in [Cpus -> Seq(Tasks)]
    BY DEF IInv, TypeOK
  <2>3. Len(Tail(local[c])) = 0
    <3>1. Len(local[c]) <= 1
      BY DEF IInv, LocalAtMostOne
    <3>2. /\ Tail(local[c]) \in Seq(Tasks)
          /\ Len(Tail(local[c])) = Len(local[c]) - 1
          /\ Len(local[c]) \in Nat \ {0}
      BY <2>1, <2>2, EmptySeq, HeadTailProperties
    <3> QED BY <2>2, <3>1, <3>2
  <2>4. /\ local'[c] = Tail(local[c])
        /\ \A e \in Cpus \ {c} : local'[e] = local[e]
    BY <2>1, <2>2
  <2>5. \A i \in 1..0 : FALSE
    OBVIOUS
  <2> QED BY <2>3, <2>4, <2>5 DEF LocalAllowed
<1> QED BY <1>1, <1>3, <1>4, <1>5
        DEF Next, CpuStep, Userspace, vars, core, AiSchedInit, Wake, Lookup,
            Select, Count, Route, Insert, TryNextQueue, TryMissingQueue, Tick,
            Resched, Sleep, WriteDecision, WriteEnergyMode, WriteTimeSlice
-----------------------------------------------------------------------------
(* Each action is a step of TaskLifecycle or a stutter.                    *)

LEMMA Stutters == IInv /\ IInv' /\ UNCHANGED place => UNCHANGED status
<1> SUFFICES ASSUME IInv, IInv', UNCHANGED place PROVE UNCHANGED status
  OBVIOUS
<1> QED BY StatusByPlace, StatusByPlaceNext DEF Kind, OnCpu, Asleep

\* A task that is not asleep and on no CPU stays ready in each such place.
LEMMA ReadyPlaces ==
    /\ \A q \in Dsqs : Kind(InDsq(q)) = <<"ready">>
    /\ \A c \in Cpus : /\ Kind(InHandler(c)) = <<"ready">>
                        /\ Kind(InLocal(c)) = <<"ready">>
                        /\ Kind(OnCpu(c)) = OnCpu(c)
    /\ Kind(Asleep) = Asleep
  BY PlacesDiffer DEF Kind

USE DEF Lifecycle!SleepingS, Lifecycle!ReadyS, Lifecycle!On, Lifecycle!Become

LEMMA StepRefines ==
    IInv /\ IInv' /\ LocalAllowed /\ [Next]_vars => [Lifecycle!Next]_status
<1> SUFFICES ASSUME IInv, IInv', LocalAllowed, [Next]_vars
             PROVE  [Lifecycle!Next]_status
  OBVIOUS
<1>0. IInv /\ place \in [Tasks -> Places]
  BY DEF IInv, TypeOK
<1>1. CASE UNCHANGED place
  BY <1>1, Stutters
<1>2. ASSUME NEW c \in Cpus, NEW t \in Tasks, Wake(c, t) \/ WakeToIdle(c, t)
      PROVE  Lifecycle!Next
  <2>1. PICK v \in {InHandler(c), InLocal(c)} : place' = [place EXCEPT ![t] = v]
    BY <1>2 DEF Wake, WakeToIdle
  <2>2. status[t] = Asleep /\ status' = [status EXCEPT ![t] = <<"ready">>]
    <3>1. place[t] = Asleep /\ Kind(v) = <<"ready">>
      BY <1>2, <2>1, ReadyPlaces DEF Wake, WakeToIdle
    <3>2. status' = [status EXCEPT ![t] = Kind(v)] /\ status[t] = Kind(place[t])
      BY <2>1, StatusMoves
    <3> QED BY <3>1, <3>2, ReadyPlaces
  <2>3. Lifecycle!WakeUp(t)
    BY <2>2 DEF Lifecycle!WakeUp, status, Asleep
  <2> QED BY <2>3 DEF Lifecycle!Next
<1>3. ASSUME NEW c \in Cpus, Insert(c), ~UNCHANGED place PROVE [Lifecycle!Next]_status
  <2> DEFINE t == frame[c].task
             q == frame[c].dsq
  <2>1. place' = [place EXCEPT ![t] = InDsq(q)] /\ pc[c] = "insert"
    BY <1>3 DEF Insert, core
  <2>2. t \in Tasks /\ q \in Dsqs
    BY <2>1 DEF IInv, TypeOK, Enqueuing, Frames
  <2>3. place[t] \in {InHandler(c), OnCpu(c)}
    BY <2>2 DEF IInv, OnePlace, HandlerOK
  <2>4. status' = [status EXCEPT ![t] = <<"ready">>] /\ status[t] = Kind(place[t])
    <3>1. status' = [status EXCEPT ![t] = Kind(InDsq(q))] /\ status[t] = Kind(place[t])
      BY <2>1, <2>2, StatusMoves
    <3> QED BY <2>2, <3>1, ReadyPlaces
  <2>5. CASE place[t] = InHandler(c)
    BY <2>2, <2>4, <2>5, ReadyPlaces DEF status
  <2>6. CASE place[t] = OnCpu(c)
    <3>1. Lifecycle!Preempt(t)
      BY <2>4, <2>6, ReadyPlaces DEF Lifecycle!Preempt, status, OnCpu
    <3> QED BY <2>2, <3>1 DEF Lifecycle!Next
  <2> QED BY <2>3, <2>5, <2>6
<1>4. ASSUME NEW c \in Cpus, Sleep(c) PROVE Lifecycle!Next
  <2> DEFINE t == running[c]
  <2>1. t \in Tasks /\ place[t] = OnCpu(c)
    BY <1>4 DEF Sleep, IInv, TypeOK, OnePlace, RunningOK
  <2>2. status[t] = OnCpu(c) /\ status' = [status EXCEPT ![t] = Asleep]
    <3>1. place' = [place EXCEPT ![t] = Asleep]
      BY <1>4 DEF Sleep
    <3>2. status' = [status EXCEPT ![t] = Kind(Asleep)] /\ status[t] = Kind(place[t])
      BY <2>1, <3>1, StatusMoves
    <3> QED BY <2>1, <3>2, ReadyPlaces
  <2>3. Lifecycle!Block(t)
    BY <2>2 DEF Lifecycle!Block, status, OnCpu, Asleep
  <2> QED BY <2>1, <2>3 DEF Lifecycle!Next
<1>5. ASSUME NEW c \in Cpus, MoveToLocal(c) PROVE UNCHANGED status
  <2> DEFINE q == dq[c]
  <2>1. PICK i \in 1..Len(dsq[q]) :
            place' = [place EXCEPT ![dsq[q][i]] = InLocal(c)]
    BY <1>5 DEF MoveToLocal
  <2>2. q \in Dsqs /\ dsq[q][i] \in Tasks /\ place[dsq[q][i]] = InDsq(q)
    BY ElementOfSeq DEF IInv, TypeOK, OnePlace, DsqsOK, Holds
  <2>3. /\ status[dsq[q][i]] = <<"ready">>
        /\ status' = [status EXCEPT ![dsq[q][i]] = <<"ready">>]
    <3>1. /\ status' = [status EXCEPT ![dsq[q][i]] = Kind(InLocal(c))]
          /\ status[dsq[q][i]] = Kind(place[dsq[q][i]])
      BY <2>1, <2>2, StatusMoves
    <3> QED BY <2>2, <3>1, ReadyPlaces
  <2> QED BY <2>2, <2>3 DEF status
<1>6. ASSUME NEW c \in Cpus, Pick(c), ~UNCHANGED place PROVE Lifecycle!Next
  <2> DEFINE t == Head(local[c])
  <2>1. local[c] # <<>> /\ place' = [place EXCEPT ![t] = OnCpu(c)] /\ pc[c] = "pick"
    BY <1>6 DEF Pick
  <2>2. local[c] \in Seq(Tasks) /\ t = local[c][1] /\ t \in Tasks /\ 1 \in 1..Len(local[c])
    BY <2>1, HeadTailProperties, EmptySeq DEF IInv, TypeOK
  <2>3. place[t] = InLocal(c) /\ c \in Allowed[t] /\ running[c] = NoTask
    BY <2>1, <2>2 DEF IInv, OnePlace, LocalsOK, Holds, LocalAllowed, LocalAtMostOne
  <2>4. status[t] = <<"ready">> /\ status' = [status EXCEPT ![t] = OnCpu(c)]
    <3>1. status' = [status EXCEPT ![t] = Kind(OnCpu(c))] /\ status[t] = Kind(place[t])
      BY <2>1, <2>2, StatusMoves
    <3> QED BY <2>3, <3>1, ReadyPlaces
  <2>5. ASSUME NEW u \in Tasks, status[u] = OnCpu(c) PROVE FALSE
    <3>1. status[u] = Kind(place[u])
      BY StatusByPlace
    <3>2. place[u] = OnCpu(c)
      BY <2>5, <3>1 DEF Kind, OnCpu
    <3>3. running[c] = u
      BY <3>2 DEF IInv, OnePlace, RunningOK
    <3> QED BY <2>3, <3>3, ConstantsAssumption
  <2>6. Lifecycle!Run(t, c)
    BY <2>3, <2>4, <2>5 DEF Lifecycle!Run, status, OnCpu
  <2> QED BY <2>2, <2>6 DEF Lifecycle!Next
<1> QED BY <1>1, <1>2, <1>3, <1>4, <1>5, <1>6
        DEF Next, CpuStep, Userspace, vars, core, AiSchedInit, Lookup,
            Select, Count, Route, TryNextQueue, TryMissingQueue, Tick,
            Resched, WriteDecision, WriteEnergyMode, WriteTimeSlice

LEMMA InitRefines == Init => Lifecycle!Init /\ LocalAllowed
<1> SUFFICES ASSUME Init PROVE Lifecycle!Init /\ LocalAllowed
  OBVIOUS
<1>1. \A t \in Tasks : place[t] = Asleep
  BY DEF Init
<1>2. Lifecycle!Init
  BY <1>1, InitIInv, StatusByPlace, ReadyPlaces DEF Lifecycle!Init, status, Asleep
<1>3. LocalAllowed
  BY EmptySeq DEF Init, LocalAllowed
<1> QED BY <1>2, <1>3

\* Through every interleaving of wakeups, expired slices, dispatches and map
\* writes, AISched is a scheduler: no task runs on two CPUs, on one it may not
\* use, or stops being ready without having run or having asked to.
THEOREM Implements == Spec => ImplementsLifecycle
<1>1. Init => IInv /\ LocalAllowed /\ Lifecycle!Init
  BY InitIInv, InitRefines
<1>2. IInv /\ LocalAllowed /\ [Next]_vars => IInv' /\ LocalAllowed'
  BY NextIInv, LocalAllowedNext
<1>3. IInv /\ IInv' /\ LocalAllowed /\ [Next]_vars
        => [Lifecycle!Next]_[t \in Tasks |-> StatusOf(t)]
  BY StepRefines DEF status
<1> QED BY <1>1, <1>2, <1>3, PTL DEF Spec, ImplementsLifecycle, Lifecycle!Spec
-----------------------------------------------------------------------------
(* The order of service.                                                   *)

\* What a dispatch remembers is still there to take.
WaitingOK ==
    /\ waiting \in [Cpus -> SUBSET Tasks]
    /\ \A c \in Cpus : \A t \in waiting[c] : pc[c] = "dispatch" /\ Takeable(c, t)

OrderInv == IInv /\ WaitingOK /\ NothingPassed

\* CPU c gets into or stays in a dispatch: it starts one at the first queue,
\* goes from a queue without a task for it to the next one, or stays.
LEMMA DispatchSteps ==
    ASSUME IInv, [Next]_vars, NEW c \in Cpus, pc'[c] = "dispatch"
    PROVE  \/ pc[c] # "dispatch" /\ dq'[c] = DSQ_PERF
           \/ pc[c] = "dispatch" /\ dq'[c] = dq[c]
           \/ TryNextQueue(c) /\ dq'[c] = dq[c] + 1 /\ UNCHANGED place
<1> USE DEF IInv, TypeOK
<1>1. CASE UNCHANGED <<pc, dq>>
  BY <1>1
<1>2. ASSUME NEW e \in Cpus, NEW t \in Tasks, Wake(e, t) \/ WakeToIdle(e, t)
      PROVE  pc[c] = "dispatch" /\ dq'[c] = dq[c]
  BY <1>2 DEF Wake, WakeToIdle
<1>3. ASSUME NEW e \in Cpus, Tick(e) \/ Resched(e) \/ Sleep(e), pc[c] # "dispatch"
      PROVE  dq'[c] = DSQ_PERF
  <2>1. CASE e = c
    BY <1>3, <2>1 DEF Tick, Resched, Sleep, StartRound, EndRound, FirstDsq
  <2>2. CASE e # c
    BY <1>3, <2>2 DEF Tick, Resched, Sleep, StartRound, EndRound
  <2> QED BY <2>1, <2>2
<1>4. ASSUME NEW e \in Cpus, Tick(e) \/ Resched(e) \/ Sleep(e), pc[c] = "dispatch"
      PROVE  dq'[c] = dq[c]
  <2>1. e # c
    BY <1>4 DEF Tick, Resched, Sleep
  <2> QED BY <1>4, <2>1 DEF Tick, Resched, Sleep, StartRound, EndRound
<1>5. ASSUME NEW e \in Cpus, CpuStep(e), e # c
      PROVE  pc[c] = "dispatch" /\ dq'[c] = dq[c]
  BY <1>5 DEF CpuStep, Lookup, Select, Count, Route, Insert, MoveToLocal,
              TryNextQueue, TryMissingQueue, Pick, AfterMove, Return, EndRound
<1>6. CASE Lookup(c) \/ Select(c) \/ Count(c) \/ Route(c) \/ Insert(c) \/ Pick(c)
  BY <1>6 DEF Lookup, Select, Count, Route, Insert, Pick
<1>7. CASE MoveToLocal(c)
  BY <1>7 DEF MoveToLocal, AfterMove, Return, EndRound
<1>8. CASE TryNextQueue(c)
  BY <1>8 DEF TryNextQueue, Return, EndRound, NextDsq, core
<1>9. CASE TryMissingQueue(c)
  BY <1>9 DEF TryMissingQueue
<1> QED BY <1>1, <1>2, <1>3, <1>4, <1>5, <1>6, <1>7, <1>8, <1>9
        DEF Next, CpuStep, AiSchedInit, Userspace, WriteDecision,
            WriteEnergyMode, WriteTimeSlice, vars

\* A task CPU c may take from the queue it is at makes the search succeed.
LEMMA TakeableFound ==
    ASSUME IInv, NEW c \in Cpus, NEW t \in Tasks, c \in Allowed[t],
           place[t] = InDsq(dq[c])
    PROVE  ~TryNextQueue(c)
<1>1. PICK i \in 1..Len(dsq[dq[c]]) : dsq[dq[c]][i] = t
  BY DEF IInv, TypeOK, OnePlace, DsqsOK, Holds
<1> QED BY <1>1 DEF TryNextQueue

\* What a dispatch remembers after a step.
LEMMA Remembered ==
    ASSUME WaitingOK, OrderNext, NEW c \in Cpus, NEW t \in waiting'[c]
    PROVE  /\ t \in Tasks /\ c \in Allowed[t] /\ pc'[c] = "dispatch"
           /\ \E q \in Dsqs : place'[t] = InDsq(q)
           /\ pc[c] = "dispatch" => t \in waiting[c] /\ place'[t] = place[t]
<1>1. t \in Remember(c) /\ waiting[c] \subseteq Tasks
  BY DEF OrderNext, WaitingOK
<1>2. pc'[c] = "dispatch"
  BY <1>1 DEF Remember
<1>3. CASE pc[c] # "dispatch"
  BY <1>1, <1>2, <1>3 DEF Remember, Takeable
<1>4. CASE pc[c] = "dispatch"
  BY <1>1, <1>2, <1>4 DEF Remember, WaitingOK, Takeable
<1> QED BY <1>2, <1>3, <1>4

LEMMA NextOrderInv ==
    ASSUME OrderInv, [OrderNext]_<<vars, waiting>>
    PROVE  OrderInv'
<1>1. CASE UNCHANGED <<vars, waiting>>
  <2>1. IInv'
    BY <1>1, NextIInv DEF OrderInv
  <2> QED BY <1>1, <2>1 DEF OrderInv, WaitingOK, NothingPassed, Takeable, vars, core
<1>2. CASE OrderNext
  <2>1. IInv' /\ Next /\ IInv /\ WaitingOK /\ NothingPassed
    BY <1>2, NextIInv DEF OrderNext, OrderInv
  <2>2. WaitingOK'
    <3>1. /\ waiting' = [c \in Cpus |-> Remember(c)]
          /\ \A c \in Cpus : Remember(c) = waiting'[c]
      BY <1>2 DEF OrderNext
    <3>2. \A c \in Cpus : \A t \in waiting'[c] :
             t \in Tasks /\ pc'[c] = "dispatch" /\ Takeable(c, t)'
      BY <1>2, <2>1, Remembered DEF Takeable
    <3> QED BY <3>1, <3>2 DEF WaitingOK, Takeable
  <2>3. ASSUME NEW c \in Cpus, NEW t \in Tasks, NEW q \in Dsqs,
               t \in waiting'[c], place'[t] = InDsq(q)
        PROVE  q >= dq'[c]
    <3>1. /\ c \in Allowed[t] /\ pc'[c] = "dispatch"
          /\ pc[c] = "dispatch" => t \in waiting[c] /\ place[t] = InDsq(q)
      BY <1>2, <2>1, <2>3, Remembered
    <3>2. q \in Nat /\ dq[c] \in Dsqs
      <4>1. dq \in [Cpus -> Dsqs]
        BY ZenonT(30), <2>1 DEF IInv, TypeOK
      <4> QED BY <4>1 DEF Dsqs
    <3>3. CASE pc[c] # "dispatch" /\ dq'[c] = DSQ_PERF
      BY <3>2, <3>3 DEF DSQ_PERF
    <3>4. CASE pc[c] = "dispatch" /\ dq'[c] = dq[c]
      BY <2>1, <3>1, <3>4 DEF NothingPassed
    <3>5. CASE TryNextQueue(c) /\ dq'[c] = dq[c] + 1
      <4>1. pc[c] = "dispatch"
        BY <3>5 DEF TryNextQueue
      <4>2. q >= dq[c] /\ q # dq[c]
        BY <2>1, <3>1, <3>5, <4>1, TakeableFound DEF NothingPassed
      <4> QED BY <3>2, <3>5, <4>2 DEF Dsqs
    <3> QED BY <2>1, <3>1, <3>3, <3>4, <3>5, DispatchSteps
  <2> QED BY <2>1, <2>2, <2>3 DEF OrderInv, NothingPassed
<1> QED BY <1>1, <1>2

LEMMA InitOrderInv == OrderInit => OrderInv
<1> SUFFICES ASSUME OrderInit PROVE OrderInv
  OBVIOUS
<1> QED BY InitIInv DEF OrderInit, OrderInv, WaitingOK, NothingPassed

\* Remembering who waits restricts nothing: the properties of AISched are
\* properties of AISchedOrder.
LEMMA OrderSpecIsSpec == OrderSpec => Spec
<1>1. OrderInit => Init
  BY DEF OrderInit
<1>2. [OrderNext]_<<vars, waiting>> => [Next]_vars
  BY DEF OrderNext
<1> QED BY <1>1, <1>2, PTL DEF OrderSpec, Spec

\* However many CPUs dispatch at once and whatever arrives meanwhile, no
\* dispatch has passed a queue that held a task it could have taken when it
\* started (the five calls of ai_sched_dispatch).
THEOREM NothingIsPassed == OrderSpec => []NothingPassed
<1>1. OrderInv => NothingPassed
  BY DEF OrderInv
<1> QED BY <1>1, InitOrderInv, NextOrderInv, PTL DEF OrderSpec

\* Only the CPU's own dispatch brings a task from a queue to its local queue,
\* and it takes it from the queue it is at.
LEMMA TakenByDispatch ==
    ASSUME IInv, Next, NEW c \in Cpus, NEW t \in Tasks, NEW q \in Dsqs,
           place[t] = InDsq(q), place'[t] = InLocal(c)
    PROVE  MoveToLocal(c) /\ q = dq[c]
<1> USE DEF IInv, TypeOK
<1>0. place'[t] # place[t] /\ place[t] # Asleep
  BY PlacesDiffer
<1>1. ASSUME NEW e \in Cpus, NEW u \in Tasks, Wake(e, u) \/ WakeToIdle(e, u)
      PROVE  FALSE
  BY <1>0, <1>1 DEF Wake, WakeToIdle
<1>2. ASSUME NEW e \in Cpus, Insert(e) PROVE FALSE
  BY <1>0, <1>2, PlacesDiffer DEF Insert, Frames, core
<1>3. ASSUME NEW e \in Cpus, Sleep(e) PROVE FALSE
  BY <1>0, <1>3, PlacesDiffer DEF Sleep
<1>4. ASSUME NEW e \in Cpus, Pick(e) PROVE FALSE
  BY <1>0, <1>4, PlacesDiffer DEF Pick
<1>5. ASSUME NEW e \in Cpus, MoveToLocal(e) PROVE e = c /\ q = dq[c]
  <2>1. PICK i \in 1..Len(dsq[dq[e]]) :
           place' = [place EXCEPT ![dsq[dq[e]][i]] = InLocal(e)]
    BY <1>5 DEF MoveToLocal
  <2>2. t = dsq[dq[e]][i] /\ InLocal(e) = InLocal(c)
    BY <1>0, <2>1
  <2>3. e = c /\ place[t] = InDsq(dq[e]) /\ dq[e] \in Dsqs
    BY <2>2, PlacesDiffer DEF OnePlace, DsqsOK, Holds
  <2> QED BY <2>3, PlacesDiffer
<1> QED BY <1>0, <1>1, <1>2, <1>3, <1>4, <1>5
        DEF Next, CpuStep, AiSchedInit, Lookup, Select, Count, Route,
            TryNextQueue, TryMissingQueue, Tick, Resched, Userspace,
            WriteDecision, WriteEnergyMode, WriteTimeSlice, core

LEMMA StepStrictPriority ==
    ASSUME OrderInv, OrderNext,
           NEW c \in Cpus, NEW t \in Tasks, NEW u \in Tasks,
           NEW q \in Dsqs, NEW r \in Dsqs,
           place[t] = InDsq(q), place'[t] = InLocal(c),
           u \in waiting[c], place[u] = InDsq(r)
    PROVE  r > q \/ (r = q /\ ~InFront(q, u, t))
<1>1. MoveToLocal(c) /\ q = dq[c]
  BY TakenByDispatch DEF OrderInv, OrderNext
<1>2. r >= q /\ q \in Nat /\ r \in Nat
  BY <1>1 DEF OrderInv, NothingPassed, Dsqs
<1>3. ASSUME InFront(q, u, t) PROVE FALSE
  <2>1. PICK i \in 1..Len(dsq[q]), j \in 1..Len(dsq[q]) :
           i < j /\ dsq[q][i] = u /\ dsq[q][j] = t
    BY <1>3 DEF InFront
  <2>2. PICK k \in 1..Len(dsq[q]) :
           /\ IsFirstAllowed(dsq[q], k, c)
           /\ place' = [place EXCEPT ![dsq[q][k]] = InLocal(c)]
    BY <1>1 DEF MoveToLocal
  <2>3. t = dsq[q][k]
    BY <2>2, PlacesDiffer
  <2>4. k = j
    BY <2>1, <2>3 DEF OrderInv, IInv, OnePlace, DsqsOK, Holds
  <2>5. c \in Allowed[u]
    BY DEF OrderInv, WaitingOK, Takeable
  <2>6. Len(dsq[q]) \in Nat
    BY LenProperties DEF OrderInv, IInv, TypeOK
  <2> QED BY <2>1, <2>2, <2>4, <2>5, <2>6 DEF IsFirstAllowed
<1> QED BY <1>2, <1>3

\* For any number of CPUs that dispatch at once, strict priority: nothing that
\* waited in front of a task when the dispatch began is passed over for it
\* (ai_sched_dispatch, the affinity test of scx_bpf_dsq_move_to_local).
THEOREM PriorityIsStrict == OrderSpec => StrictPriority
<1>1. OrderInv /\ [OrderNext]_<<vars, waiting>>
        => [\A c \in Cpus, t, u \in Tasks, q, r \in Dsqs :
              /\ place[t] = InDsq(q) /\ place'[t] = InLocal(c)
              /\ u \in waiting[c] /\ place[u] = InDsq(r)
              => r > q \/ (r = q /\ ~InFront(q, u, t))]_<<vars, waiting>>
  BY StepStrictPriority
<1> QED BY <1>1, InitOrderInv, NextOrderInv, PTL DEF OrderSpec, StrictPriority

\* A dispatch that ends with an empty local queue has searched the last queue.
LEMMA EmptyHanded ==
    ASSUME IInv, Next, NEW c \in Cpus,
           pc[c] = "dispatch", pc'[c] # "dispatch", local'[c] = <<>>
    PROVE  TryNextQueue(c) /\ dq[c] = DSQ_FALLBACK
<1> USE DEF IInv, TypeOK
<1>1. ~UNCHANGED pc
  OBVIOUS
<1>2. ASSUME NEW e \in Cpus, NEW u \in Tasks, Wake(e, u)
      PROVE  FALSE
  BY <1>2 DEF Wake
<1>3. ASSUME NEW e \in Cpus, Tick(e) \/ Resched(e) \/ Sleep(e) PROVE FALSE
  BY <1>3 DEF Tick, Resched, Sleep, StartRound, EndRound
<1>4. ASSUME NEW e \in Cpus, CpuStep(e) PROVE e = c
  BY <1>4 DEF CpuStep, Lookup, Select, Count, Route, Insert, MoveToLocal,
              TryNextQueue, TryMissingQueue, Pick, AfterMove, Return, EndRound
<1>5. CASE Lookup(c) \/ Select(c) \/ Count(c) \/ Route(c) \/ Insert(c) \/ Pick(c)
  BY <1>5 DEF Lookup, Select, Count, Route, Insert, Pick
<1>6. CASE MoveToLocal(c)
  <2>1. PICK i \in 1..Len(dsq[dq[c]]) :
            local' = [local EXCEPT ![c] = Append(@, dsq[dq[c]][i])]
    BY <1>6 DEF MoveToLocal
  <2>2. local[c] \in Seq(Tasks) /\ dsq[dq[c]][i] \in Tasks
    BY ElementOfSeq
  <2>3. local'[c] = Append(local[c], dsq[dq[c]][i])
    BY <2>1
  <2> QED BY <2>2, <2>3, AppendProperties
<1>7. CASE TryNextQueue(c)
  BY <1>1, <1>7 DEF TryNextQueue
<1>8. CASE TryMissingQueue(c)
  BY <1>1, <1>8 DEF TryMissingQueue
<1> QED BY <1>1, <1>2, <1>3, <1>4, <1>5, <1>6, <1>7, <1>8
        DEF Next, CpuStep, AiSchedInit, WakeToIdle, Userspace, WriteDecision,
            WriteEnergyMode, WriteTimeSlice

LEMMA StepWorkConserving ==
    ASSUME OrderInv, OrderNext, NEW c \in Cpus,
           pc[c] = "dispatch", pc'[c] # "dispatch", local'[c] = <<>>
    PROVE  waiting[c] = {}
<1>1. TryNextQueue(c) /\ dq[c] = DSQ_FALLBACK
  BY EmptyHanded DEF OrderInv, OrderNext
<1>2. SUFFICES ASSUME NEW t \in waiting[c] PROVE FALSE
  OBVIOUS
<1>3. PICK q \in Dsqs : t \in Tasks /\ c \in Allowed[t] /\ place[t] = InDsq(q)
  BY DEF OrderInv, WaitingOK, Takeable
<1>4. q >= DSQ_FALLBACK
  BY <1>1, <1>3 DEF OrderInv, NothingPassed
<1>5. q = dq[c]
  BY <1>1, <1>4 DEF Dsqs, DSQ_FALLBACK
<1> QED BY <1>1, <1>3, <1>5, TakeableFound DEF OrderInv

\* For any number of CPUs, work conservation: a dispatch that returns with
\* nothing leaves behind no task it could have taken all along, however the
\* other CPUs enqueue and dispatch meanwhile (ai_sched_dispatch).
THEOREM WorkIsConserved == OrderSpec => WorkConserving
<1>1. OrderInv /\ [OrderNext]_<<vars, waiting>>
        => [\A c \in Cpus :
              pc[c] = "dispatch" /\ pc'[c] # "dispatch" /\ local'[c] = <<>>
                => waiting[c] = {}]_<<vars, waiting>>
  BY StepWorkConserving
<1> QED BY <1>1, InitOrderInv, NextOrderInv, PTL DEF OrderSpec, WorkConserving
=============================================================================
