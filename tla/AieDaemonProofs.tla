-------------------------- MODULE AieDaemonProofs --------------------------
(***************************************************************************)
(* Proofs about AieDaemon, for every batch size, ring capacity and number  *)
(* of decisions, restarts included.                                        *)
(*                                                                         *)
(* Two invariants, one for the threads and one for the vector.  What the   *)
(* vector needs is what push_back knows between its steps: that it loaded  *)
(* a finish within the constructed elements, and that a clear in between   *)
(* can only have moved finish to the start of a buffer that has room.  No  *)
(* position a finish ever had is beyond the constructed elements, because  *)
(* a larger buffer starts with more of them than the one before could hold.*)
(***************************************************************************)
EXTENDS AieDaemon, SequenceTheorems, TLAPS

\* The main thread starts the workers one after the other, joins them in the
\* same order and exits after that or before it started any.
Threads ==
    /\ main \in {"connect", "configure", "enter", "spawn_telemetry"}
           => tele = "unborn"
    /\ main \in {"connect", "configure", "enter", "spawn_telemetry",
                 "spawn_decision"}
           => deci = "unborn"
    /\ main = "join_decision" => tele = "done"
    /\ NoThreadOutlives

\* What TypeOK leaves open: the shape of the vector, and that nothing is
\* pending before the telemetry worker runs.
Shape ==
    /\ mem \in Seq(1..Ids)
    /\ finish \in [buffer : Nat, at : Nat]
    /\ args \in [data : Nat, base : Nat, end : [buffer : Nat, at : Nat]]
    /\ tele = "unborn" => pending = 0
    /\ tele \in {"construct", "grow", "grown"} => todo > 0

\* push_back between loading and storing finish.
InConstruct ==
    tele = "construct" =>
        /\ loaded < buffer /\ loaded <= Len(mem)
        /\ finish = At(loaded) \/ (finish.at = 0 /\ finish.buffer > 0)
InGrow  == tele = "grow" => loaded = buffer /\ loaded <= Len(mem)
InGrown == tele = "grown" => loaded + 1 <= Len(mem)

\* clear only gets to its store with the start of a buffer that was allocated.
InClear == deci = "cleared" => start > 0

\* The position of finish, also as push_decisions loaded it.
Built == finish.at <= Len(mem) /\ args.end.at <= Len(mem)

Vector == Built /\ InConstruct /\ InGrow /\ InGrown /\ InClear

IInv == TypeOK /\ Threads /\ Shape /\ Vector
-----------------------------------------------------------------------------
\* What Constructed does to a vector: it writes one of the elements or appends.
LEMMA ConstructedType ==
    ASSUME NEW S, NEW s \in Seq(S), NEW d \in S, NEW i \in 1..(Len(s) + 1)
    PROVE  /\ Constructed(s, i, d) \in Seq(S)
           /\ Len(Constructed(s, i, d)) >= Len(s)
           /\ Len(Constructed(s, i, d)) >= i
           /\ Len(Constructed(s, i, d)) <= IF i > Len(s) THEN i ELSE Len(s)
<1>1. CASE i = Len(s) + 1
    <2>1. Constructed(s, i, d) = Append(s, d)
        BY <1>1 DEF Constructed
    <2>2. Append(s, d) \in Seq(S) /\ Len(Append(s, d)) = Len(s) + 1
        OBVIOUS
    <2> QED
        BY <1>1, <2>1, <2>2
<1>2. CASE i # Len(s) + 1
    <2>1. Constructed(s, i, d) = [s EXCEPT ![i] = d]
        BY <1>2 DEF Constructed
    <2>2. i \in 1..Len(s)
        BY <1>2
    <2>3. [s EXCEPT ![i] = d] \in Seq(S) /\ Len([s EXCEPT ![i] = d]) = Len(s)
        BY <2>2
    <2> QED
        BY <2>1, <2>2, <2>3
<1> QED
    BY <1>1, <1>2

LEMMA Next1Type == ASSUME NEW n \in 0..Ids PROVE Next1(n) \in 1..Ids
    BY DaemonAssumption DEF Next1

LEMMA Elements ==
    ASSUME NEW S, NEW s \in Seq(S) PROVE \A i \in 1..Len(s) : s[i] \in S
    BY ElementOfSeq

LEMMA Prefix ==
    ASSUME NEW S, NEW s \in Seq(S), NEW n \in 0..Len(s)
    PROVE  SubSeq(s, 1, n) \in Seq(S) /\ Len(SubSeq(s, 1, n)) = n
    BY SubSeqProperties

LEMMA InitHolds == Init => IInv
<1> SUFFICES ASSUME Init PROVE IInv
    OBVIOUS
<1>1. mem = <<>> /\ Len(mem) = 0 /\ mem \in Seq(1..Ids)
    BY DEF Init
<1>2. TypeOK
    <2>1. \A i \in 1..Len(mem) : mem[i] \in 1..Ids
        BY <1>1
    <2>2. /\ finish.buffer = 0 /\ finish.at = 0 /\ buffer = 0
          /\ loaded = 0 /\ start = 0 /\ made = 0 /\ ring = 0
          /\ args.data = 0 /\ args.base = 0
          /\ args.end.buffer = 0 /\ args.end.at = 0
          /\ pending = 0 /\ todo = 0 /\ handed = {}
          /\ main = "connect" /\ tele = "unborn" /\ deci = "unborn"
          /\ code = "none"
        BY DEF Init, NoArgs
    <2>3. running \in BOOLEAN /\ signalled \in BOOLEAN
        BY DEF Init
    <2>4. Len(mem) = 0
        BY <1>1
    <2> QED
        BY <2>1, <2>2, <2>3, <2>4, DaemonAssumption DEF TypeOK
<1>3. Threads /\ Shape /\ Vector
    BY <1>1
    DEF Threads, NoThreadOutlives, Shape, Vector, Built, InConstruct,
        InGrow, InGrown, InClear, Init, NoArgs
<1> QED
    BY <1>2, <1>3 DEF IInv

-----------------------------------------------------------------------------
LEMMA ConstructKeeps == IInv /\ Construct => IInv'
<1> SUFFICES ASSUME IInv, Construct PROVE IInv'
    OBVIOUS
<1> USE DEF IInv
<1>1. /\ loaded \in Nat /\ loaded < buffer /\ loaded <= Len(mem)
      /\ finish = At(loaded) \/ (finish.at = 0 /\ finish.buffer > 0)
      /\ finish \in [buffer : Nat, at : Nat]
      /\ finish.buffer <= buffer /\ buffer \in Nat
    BY DEF TypeOK, Shape, Vector, InConstruct, Construct
<1>2. /\ made' \in 1..Ids /\ handed' \subseteq 1..Ids /\ buffer' = buffer
      /\ loaded' = loaded /\ start' = start /\ args' = args
      /\ deci' = deci /\ main' = main /\ tele' = "classify"
    BY Next1Type DEF TypeOK, Construct
<1>3. /\ mem' \in Seq(1..Ids) /\ loaded + 1 <= Len(mem')
      /\ Len(mem) <= Len(mem') /\ Len(mem') <= buffer
    <2>1. mem' = Constructed(mem, loaded + 1, made')
        BY DEF Construct
    <2>2. mem \in Seq(1..Ids) /\ Len(mem) <= buffer /\ loaded + 1 \in 1..(Len(mem) + 1)
        BY <1>1 DEF TypeOK, Shape
    <2>3. /\ Constructed(mem, loaded + 1, made') \in Seq(1..Ids)
          /\ Len(Constructed(mem, loaded + 1, made')) >= Len(mem)
          /\ Len(Constructed(mem, loaded + 1, made')) >= loaded + 1
          /\ Len(Constructed(mem, loaded + 1, made'))
                <= IF loaded + 1 > Len(mem) THEN loaded + 1 ELSE Len(mem)
        BY <1>2, <2>2, ConstructedType
    <2> QED
        BY <1>1, <2>1, <2>2, <2>3
<1>4. /\ finish' \in [buffer : Nat, at : Nat]
      /\ finish'.buffer \in 0..buffer /\ finish'.at \in 0..finish'.buffer
      /\ finish'.at <= loaded + 1
    <2>1. PICK f \in {At(loaded), finish} : finish' = [f EXCEPT !.at = @ + 1]
        BY DEF Construct
    <2>2. /\ f \in [buffer : Nat, at : Nat] /\ f.buffer <= buffer
          /\ f.at < f.buffer /\ f.at <= loaded
        BY <1>1 DEF At
    <2> QED
        BY <1>1, <2>1, <2>2
<1>5. todo' \in 0..Batch
    BY SMTT(30), DaemonAssumption DEF TypeOK, Shape, Construct
<1>6. TypeOK'
    <2>1. \A i \in 1..Len(mem') : mem'[i] \in 1..Ids
        BY <1>3, Elements
    <2>2. UNCHANGED <<code, running, signalled, ring, pending>>
        BY DEF Construct
    <2> QED
        BY <1>1, <1>2, <1>3, <1>4, <1>5, <2>1, <2>2 DEF TypeOK
<1>7. Threads'
    BY DEF Threads, NoThreadOutlives, Construct
<1>8. Shape'
    BY <1>2, <1>3, <1>4 DEF Shape
<1>9. Vector'
    <2>1. finish'.at <= Len(mem') /\ args'.end.at <= Len(mem')
        <3>1. args.end.at <= Len(mem) /\ args.end.at \in Nat /\ finish'.at \in Nat
            BY <1>4 DEF Vector, Built, Shape
        <3>2. Len(mem) \in Nat /\ Len(mem') \in Nat
            BY <1>3 DEF Shape
        <3> QED
            BY <1>1, <1>2, <1>3, <1>4, <3>1, <3>2
    <2> QED
        BY <1>2, <2>1 DEF Vector, Built, InConstruct, InGrow, InGrown, InClear
<1> QED
    BY <1>6, <1>7, <1>8, <1>9

LEMMA GrowKeeps == IInv /\ Grow => IInv'
<1> SUFFICES ASSUME IInv, Grow PROVE IInv'
    OBVIOUS
<1> USE DEF IInv
<1>1. loaded = buffer /\ loaded <= Len(mem) /\ buffer \in Nat /\ mem \in Seq(1..Ids)
    BY DEF TypeOK, Shape, Vector, InGrow, Grow
<1>2. /\ made' \in 1..Ids /\ handed' \subseteq 1..Ids /\ finish' = finish
      /\ loaded' = loaded /\ start' = start /\ args' = args
      /\ deci' = deci /\ main' = main /\ todo' = todo /\ tele' = "grown"
    BY Next1Type DEF TypeOK, Grow
<1>3. buffer' \in Nat /\ loaded + 1 <= buffer' /\ buffer < buffer'
    BY <1>1 DEF Grow
<1>4. mem' \in Seq(1..Ids) /\ Len(mem') = loaded + 1
    <2> loaded \in 0..Len(mem)
        BY <1>1
    <2>1. SubSeq(mem, 1, loaded) \in Seq(1..Ids) /\ Len(SubSeq(mem, 1, loaded)) = loaded
        BY <1>1, Prefix
    <2>2. mem' = Append(SubSeq(mem, 1, loaded), made')
        BY DEF Grow
    <2> QED
        BY <1>2, <2>1, <2>2
<1>5. TypeOK'
    <2>1. \A i \in 1..Len(mem') : mem'[i] \in 1..Ids
        BY <1>4, Elements
    <2>2. UNCHANGED <<code, running, signalled, ring, pending>>
        BY DEF Grow
    <2>3. Len(mem') <= buffer'
        BY <1>1, <1>3, <1>4
    <2>4. /\ finish'.buffer \in 0..buffer' /\ finish'.at \in 0..finish'.buffer
          /\ loaded' \in 0..buffer' /\ start' \in 0..buffer'
          /\ args'.data \in 0..buffer' /\ args'.base \in 0..buffer'
          /\ args'.end.buffer \in 0..buffer'
          /\ args'.end.at \in 0..args'.end.buffer
        BY <1>1, <1>2, <1>3 DEF TypeOK, Shape
    <2> QED
        BY <1>2, <1>3, <2>1, <2>2, <2>3, <2>4 DEF TypeOK
<1>6. Threads'
    BY DEF Threads, NoThreadOutlives, Grow
<1>7. Shape'
    BY <1>2, <1>4 DEF Shape, Grow
<1>8. Vector'
    <2>1. finish'.at <= Len(mem') /\ args'.end.at <= Len(mem')
        BY <1>1, <1>2, <1>4 DEF TypeOK, Shape
    <2> QED
        BY <1>2, <1>4, <2>1
        DEF Vector, Built, InConstruct, InGrow, InGrown, InClear
<1> QED
    BY <1>5, <1>6, <1>7, <1>8

LEMMA GrownKeeps == IInv /\ Grown => IInv'
<1> SUFFICES ASSUME IInv, Grown PROVE IInv'
    OBVIOUS
<1> USE DEF IInv
<1>1. TypeOK' /\ Shape'
    BY DaemonAssumption
    DEF TypeOK, Shape, Vector, InGrown, Grown, At, vector
<1>2. Threads'
    BY DEF Threads, NoThreadOutlives, Grown
<1>3. Vector'
    BY DEF Vector, Built, InConstruct, InGrow, InGrown, InClear, TypeOK,
           Shape, Grown, At, vector
<1> QED
    BY <1>1, <1>2, <1>3

\* What push_decisions hands over was constructed, and constructed elements are
\* decisions.
LEMMA WriteDecisionsKeeps == IInv /\ WriteDecisions => IInv'
<1> SUFFICES ASSUME IInv, WriteDecisions PROVE IInv'
    OBVIOUS
<1> USE DEF IInv
<1>1. {mem[i] : i \in 1..Passed} \subseteq 1..Ids
    BY DEF Passed, Vector, Built, TypeOK, Shape
<1>2. TypeOK'
    <2>1. handed' \subseteq 1..Ids
        BY <1>1 DEF TypeOK, WriteDecisions
    <2>2. args' = NoArgs
        BY DEF WriteDecisions
    <2> QED
        BY <2>1, <2>2 DEF TypeOK, WriteDecisions, NoArgs, vector
<1>3. Threads' /\ Shape'
    BY DEF Threads, NoThreadOutlives, Shape, WriteDecisions, NoArgs, vector
<1>4. Vector'
    BY DEF Vector, Built, InConstruct, InGrow, InGrown, InClear, At,
           WriteDecisions, NoArgs, vector, Shape, TypeOK
<1> QED
    BY <1>2, <1>3, <1>4

\* The loads of push_decisions: what is loaded is a start or a finish the vector
\* has at that moment.
LEMMA LoadsKeep == IInv /\ (LoadStart \/ IsEmpty \/ Reload) => IInv'
<1> SUFFICES ASSUME IInv, LoadStart \/ IsEmpty \/ Reload PROVE IInv'
    OBVIOUS
<1> USE DEF IInv
<1>1. /\ args' \in [data : Nat, base : Nat, end : [buffer : Nat, at : Nat]]
      /\ args'.data \in 0..buffer /\ args'.base \in 0..buffer
      /\ args'.end.buffer \in 0..buffer /\ args'.end.at \in 0..args'.end.buffer
      /\ args'.end.at <= Len(mem)
    <2>1. /\ args \in [data : Nat, base : Nat, end : [buffer : Nat, at : Nat]]
          /\ args.data \in 0..buffer /\ args.base \in 0..buffer
          /\ args.end.buffer \in 0..buffer /\ args.end.at \in 0..args.end.buffer
          /\ args.end.at <= Len(mem)
        BY DEF TypeOK, Shape, Vector, Built
    <2>2. /\ finish \in [buffer : Nat, at : Nat] /\ buffer \in Nat
          /\ finish.buffer \in 0..buffer /\ finish.at \in 0..finish.buffer
          /\ finish.at <= Len(mem)
        BY DEF TypeOK, Shape, Vector, Built
    <2>3. \/ args' = NoArgs
          \/ args' = [args EXCEPT !.data = buffer, !.base = buffer]
          \/ args' = [args EXCEPT !.data = buffer]
          \/ args' = [args EXCEPT !.base = buffer]
          \/ args' = [args EXCEPT !.end = finish]
        BY DEF LoadStart, IsEmpty, Reload
    <2>4. CASE args' = NoArgs
        BY <2>2, <2>4 DEF NoArgs, Shape
    <2>5. CASE args' = [args EXCEPT !.data = buffer, !.base = buffer]
        <3>1. args' = [data |-> buffer, base |-> buffer, end |-> args.end]
            BY <2>1, <2>5
        <3> QED
            BY <2>1, <2>2, <3>1
    <2>6. CASE args' = [args EXCEPT !.data = buffer]
        BY <2>1, <2>2, <2>6
    <2>7. CASE args' = [args EXCEPT !.base = buffer]
        BY <2>1, <2>2, <2>7
    <2>8. CASE args' = [args EXCEPT !.end = finish]
        <3>1. /\ args'.data = args.data /\ args'.base = args.base
              /\ args'.end = finish
            BY <2>1, <2>8
        <3>2. args' \in [data : Nat, base : Nat, end : [buffer : Nat, at : Nat]]
            BY <2>1, <2>2, <2>8
        <3> QED
            BY <2>1, <2>2, <3>1, <3>2
    <2> QED
        BY <2>3, <2>4, <2>5, <2>6, <2>7, <2>8
<1>2. /\ UNCHANGED <<main, tele, code, running, signalled, ring, pending, todo,
                     made, buffer, finish, mem, loaded, start, handed>>
      /\ deci # "unborn" /\ deci # "done" /\ deci # "cleared"
      /\ deci' \in {"compare", "loop", "write"}
    BY DEF LoadStart, IsEmpty, Reload, thread, vector
<1>3. TypeOK'
    <2>1. \A i \in 1..Len(mem') : mem'[i] \in 1..Ids
        BY <1>2 DEF TypeOK
    <2> QED
        BY <1>1, <1>2, <2>1 DEF TypeOK
<1>4. Threads' /\ Shape'
    BY <1>1, <1>2 DEF Threads, NoThreadOutlives, Shape
<1>5. Vector'
    BY <1>1, <1>2
    DEF Vector, Built, InConstruct, InGrow, InGrown, InClear, At
<1> QED
    BY <1>3, <1>4, <1>5

\* A restarted process starts where the first one did.
LEMMA RestartKeeps == IInv /\ Restart => IInv'
<1> SUFFICES ASSUME Restart PROVE IInv'
    OBVIOUS
<1>1. mem' = <<>> /\ Len(mem') = 0 /\ mem' \in Seq(1..Ids)
    BY DEF Restart
<1>2. TypeOK'
    <2>1. \A i \in 1..Len(mem') : mem'[i] \in 1..Ids
        BY <1>1
    <2>2. /\ finish'.buffer = 0 /\ finish'.at = 0 /\ buffer' = 0
          /\ loaded' = 0 /\ start' = 0 /\ made' = 0 /\ ring' = 0
          /\ args'.data = 0 /\ args'.base = 0
          /\ args'.end.buffer = 0 /\ args'.end.at = 0
          /\ pending' = 0 /\ todo' = 0 /\ handed' = {}
          /\ main' = "connect" /\ tele' = "unborn" /\ deci' = "unborn"
          /\ code' = "none"
        BY DEF Restart, NoArgs
    <2>3. running' \in BOOLEAN /\ signalled' \in BOOLEAN
        BY DEF Restart
    <2>4. Len(mem') = 0
        BY <1>1
    <2> QED
        BY <2>1, <2>2, <2>3, <2>4, DaemonAssumption DEF TypeOK
<1>3. Threads' /\ Shape' /\ Vector'
    BY <1>1
    DEF Threads, NoThreadOutlives, Shape, Vector, Built, InConstruct,
        InGrow, InGrown, InClear, Restart, NoArgs
<1> QED
    BY <1>2, <1>3 DEF IInv

-----------------------------------------------------------------------------
\* The main thread touches neither the vector nor what is pending.
LEMMA MainKeeps == IInv /\ Main => IInv'
<1> SUFFICES ASSUME IInv, Main PROVE IInv'
    OBVIOUS
<1> USE DaemonAssumption
    DEF IInv, TypeOK, Threads, NoThreadOutlives, Shape, Vector, Built,
        InConstruct, InGrow, InGrown, InClear, Alive, At, vector
<1>1. CASE Connect
    BY <1>1 DEF Connect
<1>2. CASE Configure
    BY <1>2 DEF Configure
<1>3. CASE Enter
    BY <1>3 DEF Enter
<1>4. CASE SpawnTelemetry
    BY <1>4 DEF SpawnTelemetry
<1>5. CASE SpawnDecision
    BY <1>5 DEF SpawnDecision
<1>6. CASE MainLoop
    BY <1>6 DEF MainLoop, StillRunning
<1>7. CASE JoinTelemetry
    BY <1>7 DEF JoinTelemetry, AfterTelemetry
<1>8. CASE JoinDecision
    BY <1>8 DEF JoinDecision
<1> QED
    BY <1>1, <1>2, <1>3, <1>4, <1>5, <1>6, <1>7, <1>8 DEF Main

\* The telemetry worker.
LEMMA TelemetryKeeps == IInv /\ Telemetry => IInv'
<1> SUFFICES ASSUME IInv, Telemetry PROVE IInv'
    OBVIOUS
<1> USE DaemonAssumption
    DEF IInv, TypeOK, Threads, NoThreadOutlives, Shape, Vector, Built,
        InConstruct, InGrow, InGrown, InClear, Alive, At, vector
<1>1. CASE TelemetryLoop
    BY <1>1 DEF TelemetryLoop, StillRunning
<1>2. CASE PollRecords
    BY <1>2 DEF PollRecords, AfterPoll
<1>3. CASE PollTimeout
    BY SMTT(30), <1>3 DEF PollTimeout, Enough
<1>4. CASE ClassifyOne
    BY <1>4 DEF ClassifyOne, At
<1>5. CASE PushWild
    BY <1>5 DEF PushWild
<1>6. CASE BatchDone
    BY <1>6 DEF BatchDone
<1> QED
    BY <1>1, <1>2, <1>3, <1>4, <1>5, <1>6, ConstructKeeps, GrowKeeps, GrownKeeps DEF Telemetry

\* The decision worker.
LEMMA DecisionKeeps == IInv /\ Decision => IInv'
<1> SUFFICES ASSUME IInv, Decision PROVE IInv'
    OBVIOUS
<1> USE DaemonAssumption
    DEF IInv, TypeOK, Threads, NoThreadOutlives, Shape, Vector, Built,
        InConstruct, InGrow, InGrown, InClear, Alive, At, vector
<1>1. CASE DecisionLoop
    BY <1>1 DEF DecisionLoop, StillRunning
<1>2. CASE ClearLoad
    BY <1>2 DEF ClearLoad, At
<1>3. CASE ClearStore
    BY <1>3 DEF ClearStore, Cleared
<1> QED
    BY <1>1, <1>2, <1>3, LoadsKeep, WriteDecisionsKeeps DEF Decision

\* The environment: a signal on the telemetry worker ends its poll.
LEMMA EnvironmentKeeps ==
    IInv /\ (ConnectFails \/ Signal \/ Record \/ UNCHANGED vars) => IInv'
<1> SUFFICES ASSUME IInv, ConnectFails \/ Signal \/ Record \/ UNCHANGED vars PROVE IInv'
    OBVIOUS
<1> USE DaemonAssumption
    DEF IInv, TypeOK, Threads, NoThreadOutlives, Shape, Vector, Built,
        InConstruct, InGrow, InGrown, InClear, Alive, At, vector
<1>1. CASE ConnectFails
    BY <1>1 DEF ConnectFails
<1>2. CASE Signal
    BY ZenonT(60), <1>2 DEF Signal
<1>3. CASE Record
    BY <1>3 DEF Record, thread
<1>4. CASE UNCHANGED vars
    BY <1>4 DEF vars, thread
<1> QED
    BY <1>1, <1>2, <1>3, <1>4

LEMMA IInvHolds == Spec => []IInv
<1>1. IInv /\ [Next]_vars => IInv'
    BY MainKeeps, TelemetryKeeps, DecisionKeeps, LoadsKeep, EnvironmentKeeps,
       RestartKeeps DEF Next
<1> QED
    BY InitHolds, <1>1, PTL DEF Spec

\* However the three threads, signals and restarts interleave, the variables
\* keep their types; in particular finish never passes the end of its buffer.
THEOREM TypeCorrect == Spec => []TypeOK
<1>1. IInv => TypeOK
    BY DEF IInv
<1> QED
    BY <1>1, IInvHolds, PTL

\* Whatever ends the process, no joinable thread is left when main() destroys
\* the daemon, so run() never ends in std::terminate.
THEOREM ThreadsEndFirst == Spec => []NoThreadOutlives
<1>1. IInv => NoThreadOutlives
    BY DEF IInv, Threads
<1> QED
    BY <1>1, IInvHolds, PTL

\* Whatever the batch size, whatever the build loads again and however often
\* push_back and clear overlap it, a call of write_decisions with the live buffer
\* and a length gets constructed elements only.
THEOREM OnlyBuiltIsHanded == Spec => []HandedBuilt
<1>1. IInv => HandedBuilt
    BY DEF IInv, Vector, Built, HandedBuilt, Passed
<1> QED
    BY <1>1, IInvHolds, PTL
=============================================================================
