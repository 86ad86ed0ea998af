------------------------- MODULE SchedMonitorProofs -------------------------
(***************************************************************************)
(* For any number of loads, enqueues and CPUs: the types of SchedMonitor   *)
(* and what holds of the numbers aie_top shows.                            *)
(***************************************************************************)
EXTENDS SchedMonitor, TLAPS

Scripts == [at : {"idle", "list_energy", "remove_stats", "remove_energy",
                  "pin_stats", "pin_energy"},
            found : [Maps -> SUBSET (1..loads)]]

Tops == [at : {"off", "open_energy", "loop", "copy"}, fd : [Maps -> 1..loads \cup {None}]]

Screens == [live : BOOLEAN, copy : [Words -> 0..MaxEnqueues],
            screen : [Words -> 0..MaxEnqueues]]

\* Of every load, the second counter follows the first.
Routed == \A m \in Loads : stats[m]["routed"] <= stats[m]["tasks_enqueued"]

\* The map aie_top reads, if it found one, is ahead of the screen and of the
\* copy, and the copy is ahead of the screen.  Without a map nothing is shown.
Fd == top.fd["sched_stats"]

Behind ==
    /\ top.at = "off" => Fd = None
    /\ Fd = None => shown = Blank /\ top.at # "copy"
    /\ Fd # None => \A w \in Words : shown.screen[w] <= stats[Fd][w]
    /\ top.at = "copy" =>
          /\ shown.copy["tasks_enqueued"] <= stats[Fd]["tasks_enqueued"]
          /\ shown.screen["tasks_enqueued"] <= shown.copy["tasks_enqueued"]

IInv == TypeOK /\ Routed /\ Behind

\* The steps that count, those that change what is referred to, and aie_top's.
Loading == StartScheduler \/ StopScheduler \/ StartDaemon \/ StopDaemon
Counting == Count \/ Route
Showing == OpenStats \/ OpenEnergy \/ CopyFirst \/ CopySecond \/ QuitTop
-----------------------------------------------------------------------------
LEMMA Initial == Init => IInv
<1> SUFFICES ASSUME Init PROVE IInv
  OBVIOUS
<1> USE MonitorAssumption
<1>1. TypeOK
  BY DEF Init, TypeOK, NoRefs, Idle, TopOff, Blank, Zero, Maps, Words, Loads
<1>2. Routed /\ Behind
  BY DEF Init, Routed, Behind, Fd, NoRefs, TopOff, Blank, Zero, Maps, Words, Loads
<1> QED
  BY <1>1, <1>2 DEF IInv

LEMMA CounterNames == "tasks_enqueued" \in Words /\ "routed" \in Words
  BY DEF Words

\* What is counted, by load and counter.
LEMMA CountingKeeps == IInv /\ Counting => IInv'
<1> SUFFICES ASSUME IInv, Counting PROVE IInv'
  OBVIOUS
<1> USE MonitorAssumption
<1>1. UNCHANGED <<loads, scheduler, daemon, pin, script, top, shown>>
  BY DEF Counting, Count, Route
<1>2. /\ stats \in [Loads -> [Words -> 0..MaxEnqueues]]
      /\ scheduler \in 1..loads \cup {None} /\ loads \in 0..MaxLoads
      /\ top \in Tops
  BY DEF IInv, TypeOK, Tops
<1>3. FirstAdd = "tasks_enqueued" /\ SecondAdd = "routed"
  BY DEF FirstAdd, SecondAdd, Words
<1>4. /\ stats' \in [Loads -> [Words -> 0..MaxEnqueues]]
      /\ Routed'
      /\ \A m \in Loads, w \in Words : stats[m][w] <= stats'[m][w]
  <2> DEFINE n == stats[scheduler]
  <2>1. scheduler \in Loads /\ n \in [Words -> 0..MaxEnqueues]
        /\ n["tasks_enqueued"] \in 0..MaxEnqueues /\ n["routed"] \in 0..MaxEnqueues
    BY <1>2, CounterNames DEF Counting, Count, Route, Loads
  <2>2. CASE Count
    <3>1. /\ n["tasks_enqueued"] < MaxEnqueues
          /\ stats' = [stats EXCEPT ![scheduler] =
                [n EXCEPT !["tasks_enqueued"] = n["tasks_enqueued"] + 1]]
      BY <1>3, <2>2 DEF Count
    <3> QED
      BY <1>2, <2>1, <3>1 DEF IInv, Routed, Words
  <2>3. CASE Route
    <3>1. /\ n["routed"] < n["tasks_enqueued"]
          /\ stats' = [stats EXCEPT ![scheduler] = [n EXCEPT !["routed"] = n["routed"] + 1]]
      BY <1>3, <2>3 DEF Route
    <3> QED
      BY <1>2, <2>1, <3>1 DEF IInv, Routed, Words
  <2> QED
    BY <2>2, <2>3 DEF Counting
<1>5. TypeOK'
  BY <1>1, <1>4 DEF IInv, TypeOK
<1>6. Behind'
  <2>1. Fd' = Fd /\ Fd \in Loads \cup {None}
    BY <1>1, <1>2 DEF Fd, Tops, Maps, Loads
  <2>2. shown \in Screens
    BY DEF IInv, TypeOK, Screens
  <2>3. \A w \in Words : shown.screen[w] \in Nat /\ shown.copy[w] \in Nat
    BY <2>2 DEF Screens
  <2>4. \A m \in Loads, w \in Words : stats[m][w] \in Nat /\ stats'[m][w] \in Nat
    BY <1>2, <1>4
  <2>5. Behind
    BY DEF IInv
  <2>6. ASSUME Fd # None, NEW w \in Words, shown.screen[w] <= stats[Fd][w]
        PROVE  shown.screen[w] <= stats'[Fd][w]
    BY <1>4, <2>1, <2>3, <2>4, <2>6
  <2>7. ASSUME top.at = "copy" PROVE shown.copy["tasks_enqueued"] <= stats'[Fd]["tasks_enqueued"]
    <3>1. Fd \in Loads /\ "tasks_enqueued" \in Words
      BY <2>1, <2>5, <2>7 DEF Behind, Words
    <3> QED
      BY <1>4, <2>3, <2>4, <2>5, <2>7, <3>1 DEF Behind
  <2> QED
    BY <1>1, <2>1, <2>5, <2>6, <2>7 DEF Behind
<1> QED
  BY <1>4, <1>5, <1>6 DEF IInv

\* A new load is a number nobody holds yet.
LEMMA LoadingKeeps == IInv /\ Loading => IInv'
<1> SUFFICES ASSUME IInv, Loading PROVE IInv'
  OBVIOUS
<1> USE MonitorAssumption
<1>1. UNCHANGED <<stats, pin, script, top, shown>>
  BY DEF Loading, StartScheduler, StopScheduler, StartDaemon, StopDaemon
<1>2. Routed' /\ Behind'
  BY <1>1 DEF IInv, Routed, Behind, Fd
<1>3. /\ loads \in 0..MaxLoads
      /\ scheduler \in 1..loads \cup {None} /\ daemon \in 1..loads \cup {None}
      /\ (scheduler # None => scheduler # daemon)
  BY DEF IInv, TypeOK
<1>4. /\ loads' \in 0..MaxLoads /\ loads <= loads'
      /\ scheduler' \in 1..loads' \cup {None} /\ daemon' \in 1..loads' \cup {None}
      /\ (scheduler' # None => scheduler' # daemon')
  BY <1>3 DEF Loading, StartScheduler, StopScheduler, StartDaemon, StopDaemon, NextLoad
<1>5. 1..loads \subseteq 1..loads'
  BY <1>3, <1>4
<1>6. TypeOK'
  <2>1. /\ stats' \in [Loads -> [Words -> 0..MaxEnqueues]] /\ shown' \in Screens
    BY <1>1 DEF IInv, TypeOK, Screens
  <2>2. pin' \in [Maps -> 1..loads' \cup {None}]
    BY <1>1, <1>5 DEF IInv, TypeOK
  <2>3. script' \in Scripts'
    BY <1>1, <1>5 DEF IInv, TypeOK, Scripts
  <2>4. top' \in Tops'
    BY <1>1, <1>5 DEF IInv, TypeOK, Tops
  <2> QED
    BY <1>4, <2>1, <2>2, <2>3, <2>4 DEF TypeOK, Scripts, Tops, Screens
<1> QED
  BY <1>2, <1>6 DEF IInv

\* pin_maps.sh reads what lives, and writes the pins.
LEMMA ScriptKeeps == IInv /\ (ListStats \/ ScriptStep) => IInv'
<1> SUFFICES ASSUME IInv, ListStats \/ ScriptStep PROVE IInv'
  OBVIOUS
<1> USE MonitorAssumption
<1>1. UNCHANGED <<loads, scheduler, daemon, stats, top, shown>>
  BY DEF ListStats, ScriptStep, ListEnergy, RemoveStats, RemoveEnergy, Remove, PinStats, PinEnergy
<1>2. Routed' /\ Behind'
  BY <1>1 DEF IInv, Routed, Behind, Fd
<1>3. /\ scheduler \in 1..loads \cup {None} /\ daemon \in 1..loads \cup {None}
      /\ pin \in [Maps -> 1..loads \cup {None}]
      /\ script \in Scripts /\ top \in Tops
  BY DEF IInv, TypeOK, Scripts, Tops
<1>4. "sched_stats" \in Maps /\ "energy_mode" \in Maps
  BY DEF Maps
<1>5. ASSUME NEW k \in Maps PROVE Alive(k) \subseteq 1..loads
  BY <1>3, <1>5 DEF Alive, Tops
<1>6. ASSUME NEW k \in Maps PROVE Pinned(k) \in [Maps -> 1..loads \cup {None}]
  <2>1. CASE \E m \in Alive(k) : script.found[k] = {m} /\ pin[k] = None
    <3>1. PICK m \in Alive(k) : script.found[k] = {m}
      BY <2>1
    <3>2. (CHOOSE x \in script.found[k] : TRUE) \in 1..loads
      BY <1>5, <3>1
    <3> QED
      BY <1>3, <2>1, <3>2 DEF Pinned
  <2>2. CASE ~ \E m \in Alive(k) : script.found[k] = {m} /\ pin[k] = None
    BY <1>3, <2>2 DEF Pinned
  <2> QED
    BY <2>1, <2>2
<1>7. pin' \in [Maps -> 1..loads \cup {None}] /\ script' \in Scripts
  <2>1. CASE ListStats
    BY <1>3, <1>4, <1>5, <2>1 DEF ListStats, Idle, Scripts
  <2>2. CASE ListEnergy
    BY <1>3, <1>4, <1>5, <2>2 DEF ListEnergy, Idle, Scripts
  <2>3. CASE RemoveStats
    BY <1>3, <2>3 DEF RemoveStats, Remove, Removed, Scripts
  <2>4. CASE RemoveEnergy
    BY <1>3, <2>4 DEF RemoveEnergy, Remove, Removed, Scripts
  <2>5. CASE PinStats
    BY <1>3, <1>4, <1>6, <2>5 DEF PinStats, Scripts
  <2>6. CASE PinEnergy
    BY <1>3, <1>4, <1>6, <2>6 DEF PinEnergy, Idle, Scripts
  <2> QED
    BY <2>1, <2>2, <2>3, <2>4, <2>5, <2>6 DEF ScriptStep
<1>8. TypeOK'
  BY <1>1, <1>7 DEF IInv, TypeOK, Scripts
<1> QED
  BY <1>2, <1>8 DEF IInv

\* aie_top keeps to the descriptor it has, and copies the first counter before
\* the second.
LEMMA ShowingKeeps == IInv /\ Showing => IInv'
<1> SUFFICES ASSUME IInv, Showing PROVE IInv'
  OBVIOUS
<1> USE MonitorAssumption
<1>1. UNCHANGED <<loads, scheduler, daemon, stats, pin, script>>
  BY DEF Showing, OpenStats, OpenEnergy, CopyFirst, CopySecond, QuitTop
<1>2. Routed'
  BY <1>1 DEF IInv, Routed
<1>3. /\ pin \in [Maps -> 1..loads \cup {None}] /\ loads \in 0..MaxLoads
      /\ stats \in [Loads -> [Words -> 0..MaxEnqueues]]
      /\ top \in Tops /\ shown \in Screens
      /\ Behind
  BY DEF IInv, TypeOK, Tops, Screens
<1>4. 1..loads \subseteq Loads
  BY <1>3 DEF Loads
<1>5. top' \in Tops /\ shown' \in Screens /\ Behind'
  <2> USE <1>1, <1>3, <1>4, CounterNames
  <2>1. CASE OpenStats
    BY <2>1 DEF OpenStats, NoRefs, Maps, Tops, Screens, Behind, Fd, Blank, Zero
  <2>2. CASE OpenEnergy
    BY <2>2 DEF OpenEnergy, Maps, Tops, Behind, Fd
  <2>3. CASE CopyFirst /\ Fd = None
    BY <2>3 DEF CopyFirst, FdAtRefresh, Maps, Tops, Screens, Behind, Fd, Blank, Zero
  <2>4. CASE CopyFirst /\ Fd # None
    <3>1. /\ Fd \in Loads /\ stats[Fd] \in [Words -> 0..MaxEnqueues]
      BY <2>4 DEF Fd, Tops, Maps
    <3>2. /\ Fd' = Fd /\ top' \in Tops /\ top'.at = "copy" /\ top.at = "loop"
      BY <2>4 DEF CopyFirst, FdAtRefresh, Maps, Tops, Fd
    <3>3. /\ shown' = [shown EXCEPT !.copy = [Zero EXCEPT
                          !["tasks_enqueued"] = stats[Fd]["tasks_enqueued"]]]
      BY <2>4 DEF CopyFirst, FdAtRefresh, Fd
    <3>4. /\ shown' \in Screens /\ shown'.screen = shown.screen
          /\ shown'.copy["tasks_enqueued"] = stats[Fd]["tasks_enqueued"]
      BY <3>1, <3>3 DEF Screens, Zero
    <3> QED
      BY <2>4, <3>1, <3>2, <3>4 DEF Behind
  <2>5. CASE CopySecond
    <3>1. /\ Fd \in Loads /\ Fd # None /\ stats[Fd] \in [Words -> 0..MaxEnqueues]
      BY <2>5 DEF CopySecond, Behind, Fd, Tops, Maps
    <3>2. /\ Fd' = Fd /\ top' \in Tops /\ top'.at = "loop" /\ top.at = "copy"
      BY <2>5 DEF CopySecond, Maps, Tops, Fd
    <3>3. shown' = [live |-> TRUE, copy |-> Zero,
                    screen |-> [shown.copy EXCEPT !["routed"] = stats[Fd]["routed"]]]
      BY <2>5 DEF CopySecond, Fd
    <3>4. /\ shown' \in Screens
          /\ shown'.screen["routed"] = stats[Fd]["routed"]
          /\ shown'.screen["tasks_enqueued"] = shown.copy["tasks_enqueued"]
      BY <3>1, <3>3 DEF Screens, Zero
    <3> QED
      BY <3>1, <3>2, <3>4 DEF Behind, Words
  <2>6. CASE QuitTop
    BY <2>6 DEF QuitTop, TopOff, NoRefs, Maps, Tops, Screens, Behind, Fd, Blank, Zero
  <2> QED
    BY <2>1, <2>2, <2>3, <2>4, <2>5, <2>6 DEF Showing
<1>6. TypeOK'
  BY <1>1, <1>5 DEF IInv, TypeOK, Tops, Screens
<1> QED
  BY <1>2, <1>5, <1>6 DEF IInv

LEMMA Inductive == IInv /\ [Next]_vars => IInv'
<1> SUFFICES ASSUME IInv, [Next]_vars PROVE IInv'
  OBVIOUS
<1>1. CASE Next
  BY <1>1, LoadingKeeps, CountingKeeps, ScriptKeeps, ShowingKeeps
     DEF Next, Loading, Counting, Showing
<1>2. CASE UNCHANGED vars
  BY <1>2 DEF vars, IInv, TypeOK, Routed, Behind, Fd, Alive
<1> QED
  BY <1>1, <1>2

LEMMA InvariantHolds == Spec => []IInv
  BY Initial, Inductive, PTL DEF Spec
-----------------------------------------------------------------------------
\* What refers to a map refers to one that was made, and the scheduler and the
\* daemon never share a load.
THEOREM TypeCorrect == Spec => []TypeOK
<1>1. IInv => TypeOK
  BY DEF IInv
<1> QED
  BY <1>1, InvariantHolds, PTL

\* The parts on the screen never exceed the total the map has by then, though
\* the copy is made word by word while CPUs count.
THEOREM PartsStayWithinTotal == Spec => []PartsWithinTotal
<1>1. IInv => PartsWithinTotal
  <2> SUFFICES ASSUME IInv, Fd # None
               PROVE  shown.screen["routed"] <= stats[Fd]["tasks_enqueued"]
    BY DEF PartsWithinTotal, Fd
  <2> USE MonitorAssumption
  <2>1. Fd \in Loads
    BY DEF IInv, TypeOK, Fd, Maps, Loads
  <2>2. /\ stats[Fd]["routed"] \in Nat /\ stats[Fd]["tasks_enqueued"] \in Nat
        /\ shown.screen["routed"] \in Nat
    BY <2>1, CounterNames DEF IInv, TypeOK
  <2>3. shown.screen["routed"] <= stats[Fd]["routed"]
    BY CounterNames DEF IInv, Behind
  <2>4. stats[Fd]["routed"] <= stats[Fd]["tasks_enqueued"]
    BY <2>1 DEF IInv, Routed
  <2> QED
    BY <2>2, <2>3, <2>4
<1> QED
  BY <1>1, InvariantHolds, PTL

\* No reload, pin or count in between makes a number on the screen smaller.
THEOREM NumbersAreMonotone == Spec => NumbersNeverGoBack
<1>1. IInv /\ [Next]_vars =>
        [top.at # "off" /\ top'.at # "off" =>
            \A w \in Words : shown'.screen[w] >= shown.screen[w]]_vars
  <2> SUFFICES ASSUME IInv, Next, top.at # "off", top'.at # "off", NEW w \in Words
               PROVE  shown'.screen[w] >= shown.screen[w]
    BY DEF vars
  <2> USE MonitorAssumption
  <2>1. /\ top \in Tops /\ shown \in Screens /\ Behind
        /\ stats \in [Loads -> [Words -> 0..MaxEnqueues]] /\ loads \in 0..MaxLoads
    BY DEF IInv, TypeOK, Tops, Screens
  <2>2. shown.screen[w] \in Nat
    BY <2>1 DEF Screens
  <2>3. CASE CopySecond
    <3>1. /\ Fd \in Loads /\ Fd # None /\ top.at = "copy"
      BY <2>1, <2>3 DEF CopySecond, Behind, Fd, Tops, Maps, Loads
    <3>2. shown'.screen = [shown.copy EXCEPT !["routed"] = stats[Fd]["routed"]]
      BY <2>3 DEF CopySecond, Fd
    <3>3. CASE w = "routed"
      BY <2>1, <2>2, <3>1, <3>2, <3>3, CounterNames DEF Behind, Screens
    <3>4. CASE w = "tasks_enqueued"
      BY <2>1, <2>2, <3>1, <3>2, <3>4, CounterNames DEF Behind, Screens
    <3> QED
      BY <3>3, <3>4 DEF Words
  <2>4. CASE CopyFirst
    <3>1. shown'.screen = shown.screen
      BY <2>1, <2>4 DEF CopyFirst, FdAtRefresh, Behind, Fd, Blank, Screens
    <3> QED
      BY <2>2, <3>1
  <2>5. CASE OpenStats \/ QuitTop
    BY <2>5 DEF OpenStats, QuitTop, TopOff
  <2>6. CASE Loading \/ Counting \/ ListStats \/ ScriptStep \/ OpenEnergy
    <3>1. shown' = shown
      BY <2>6 DEF Loading, StartScheduler, StopScheduler, StartDaemon, StopDaemon,
             Counting, Count, Route, ListStats, ScriptStep, ListEnergy, RemoveStats,
             RemoveEnergy, Remove, PinStats, PinEnergy, OpenEnergy
    <3> QED
      BY <2>2, <3>1
  <2> QED
    BY <2>3, <2>4, <2>5, <2>6 DEF Next, Loading, Counting
<1> QED
  BY <1>1, InvariantHolds, PTL DEF Spec, NumbersNeverGoBack
=============================================================================
