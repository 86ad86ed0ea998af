---------------------------- MODULE SchedMonitor ----------------------------
(***************************************************************************)
(* How aie_top gets to see the scheduler's counters: the maps of every     *)
(* load of ai_sched.bpf.o (the scheduler's, and the one the daemon's       *)
(* DecisionWriter makes and never attaches), the pins pin_maps.sh makes of *)
(* them, and the descriptors aie_top opens once.  A map lives as long as   *)
(* something refers to it, a pin and a descriptor included, and bpftool    *)
(* lists every map that lives.                                             *)
(*                                                                         *)
(* Of the counters, two stand for all: update_stats adds to the first one  *)
(* and then to one of the others.  AISched has them all.                   *)
(***************************************************************************)
EXTENDS Naturals, FiniteSets

CONSTANTS
    MaxLoads,     (* bound: loads of ai_sched.bpf.o in one behaviour       *)
    MaxEnqueues,  (* bound: enqueues counted by one load                   *)
    Cpus,         (* how many CPUs may be between the two adds             *)
    None          (* "no map", "no pin", "no descriptor"                   *)

ASSUME MonitorAssumption ==
    MaxLoads \in Nat /\ MaxEnqueues \in Nat /\ Cpus \in Nat \ {0} /\ None \notin Nat

\* The maps of a load are known by its number; both are named in every load.
Loads == 1..MaxLoads
Maps == {"sched_stats", "energy_mode"}
Ref == Loads \cup {None}
Words == {"tasks_enqueued", "routed"}
NoRefs == [k \in Maps |-> None]

VARIABLES
    loads,     (* how often the object was loaded                          *)
    scheduler, (* the load that is attached as the scheduler               *)
    daemon,    (* the load the daemon holds open                           *)
    stats,     (* sched_stats of each load                                 *)
    pin,       (* /sys/fs/bpf/aie_<map>                                    *)
    script,    (* pin_maps.sh: its next line and the ids it found          *)
    top,       (* aie_top: its next step and its descriptors               *)
    shown      (* what the screen shows, with the copy being made          *)

vars == <<loads, scheduler, daemon, stats, pin, script, top, shown>>

Zero == [w \in Words |-> 0]
Idle == [at |-> "idle", found |-> [k \in Maps |-> {}]]
TopOff == [at |-> "off", fd |-> NoRefs]
Blank == [live |-> FALSE, copy |-> Zero, screen |-> Zero]

Init ==
    /\ loads = 0 /\ scheduler = None /\ daemon = None
    /\ stats = [m \in Loads |-> Zero]
    /\ pin = NoRefs
    /\ script = Idle
    /\ top = TopOff
    /\ shown = Blank

\* What "bpftool map list" shows under a name.
Alive(k) == {scheduler, daemon, pin[k], top.fd[k]} \ {None}
-----------------------------------------------------------------------------
(* The scheduler and the daemon come and go.                               *)

\* Every load makes maps of its own; ai_sched_init clears the counters.
NextLoadShared == IF scheduler # None THEN scheduler ELSE loads + 1
NextLoad == loads + 1

StartScheduler ==
    /\ scheduler = None /\ loads < MaxLoads
    /\ loads' = loads + 1 /\ scheduler' = NextLoad
    /\ UNCHANGED <<daemon, stats, pin, script, top, shown>>

StopScheduler ==
    /\ scheduler # None
    /\ scheduler' = None
    /\ UNCHANGED <<loads, daemon, stats, pin, script, top, shown>>

StartDaemon ==
    /\ daemon = None /\ loads < MaxLoads
    /\ loads' = loads + 1 /\ daemon' = NextLoad
    /\ UNCHANGED <<scheduler, stats, pin, script, top, shown>>

StopDaemon ==
    /\ daemon # None
    /\ daemon' = None
    /\ UNCHANGED <<loads, scheduler, stats, pin, script, top, shown>>

\* update_stats makes two adds; between them are at most as many enqueues as
\* there are CPUs.
FirstAddRouted == "routed"
FirstAdd == "tasks_enqueued"
SecondAdd == CHOOSE w \in Words : w # FirstAdd

Count ==
    /\ scheduler # None
    /\ stats[scheduler][FirstAdd] < MaxEnqueues
    /\ stats[scheduler][FirstAdd] < stats[scheduler][SecondAdd] + Cpus
    /\ stats' = [stats EXCEPT ![scheduler][FirstAdd] = @ + 1]
    /\ UNCHANGED <<loads, scheduler, daemon, pin, script, top, shown>>

Route ==
    /\ scheduler # None
    /\ stats[scheduler][SecondAdd] < stats[scheduler][FirstAdd]
    /\ stats' = [stats EXCEPT ![scheduler][SecondAdd] = @ + 1]
    /\ UNCHANGED <<loads, scheduler, daemon, pin, script, top, shown>>
-----------------------------------------------------------------------------
(* pin_maps.sh, line by line; "at" names the command that comes next.      *)

\* Two calls of bpftool, one for each name.
ListStats ==
    /\ script.at = "idle"
    /\ script' = [Idle EXCEPT !.at = "list_energy", !.found["sched_stats"] = Alive("sched_stats")]
    /\ UNCHANGED <<loads, scheduler, daemon, stats, pin, top, shown>>

\* "sched_stats map not found": exit.
ListEnergy ==
    /\ script.at = "list_energy"
    /\ script' = IF script.found["sched_stats"] = {} THEN Idle
                 ELSE [script EXCEPT !.at = "remove_stats",
                                     !.found["energy_mode"] = Alive("energy_mode")]
    /\ UNCHANGED <<loads, scheduler, daemon, stats, pin, top, shown>>

RemovedNot(k) == pin[k]
Removed(k) == None

Remove(k, at, next) ==
    /\ script.at = at
    /\ pin' = [pin EXCEPT ![k] = Removed(k)]
    /\ script' = [script EXCEPT !.at = next]
    /\ UNCHANGED <<loads, scheduler, daemon, stats, top, shown>>

RemoveStats == Remove("sched_stats", "remove_stats", "remove_energy")
RemoveEnergy == Remove("energy_mode", "remove_energy", "pin_stats")

\* "bpftool map pin id $IDS path": the ids are not quoted, so with two of them
\* nothing is pinned at the path.  It fails too if the map is gone by now or
\* the path exists.
Pinned(k) ==
    IF \E m \in Alive(k) : script.found[k] = {m} /\ pin[k] = None
    THEN [pin EXCEPT ![k] = CHOOSE m \in script.found[k] : TRUE]
    ELSE pin

PinStats ==
    /\ script.at = "pin_stats"
    /\ pin' = Pinned("sched_stats")
    /\ script' = [script EXCEPT !.at = "pin_energy"]
    /\ UNCHANGED <<loads, scheduler, daemon, stats, top, shown>>

\* The last one, and "[DONE]" whatever happened.
PinEnergy ==
    /\ script.at = "pin_energy"
    /\ pin' = Pinned("energy_mode")
    /\ script' = Idle
    /\ UNCHANGED <<loads, scheduler, daemon, stats, top, shown>>

ScriptStep ==
    ListEnergy \/ RemoveStats \/ RemoveEnergy \/ PinStats \/ PinEnergy
-----------------------------------------------------------------------------
(* aie_top                                                                 *)

\* main opens both pins, once.
OpenStats ==
    /\ top.at = "off"
    /\ top' = [at |-> "open_energy", fd |-> [NoRefs EXCEPT !["sched_stats"] = pin["sched_stats"]]]
    /\ shown' = Blank
    /\ UNCHANGED <<loads, scheduler, daemon, stats, pin, script>>

OpenEnergy ==
    /\ top.at = "open_energy"
    /\ top' = [top EXCEPT !.at = "loop", !.fd["energy_mode"] = pin["energy_mode"]]
    /\ UNCHANGED <<loads, scheduler, daemon, stats, pin, script, shown>>

\* A refresh: without a descriptor there is nothing to show; with one, the
\* kernel copies the struct word by word while CPUs add to it.
FdReopened == pin["sched_stats"]
FdAtRefresh == top.fd["sched_stats"]

CopyFirst ==
    /\ top.at = "loop"
    /\ top' = [top EXCEPT !.fd["sched_stats"] = FdAtRefresh,
                          !.at = IF FdAtRefresh = None THEN "loop" ELSE "copy"]
    /\ shown' = IF FdAtRefresh = None THEN Blank
                ELSE [shown EXCEPT !.copy = [Zero EXCEPT
                        !["tasks_enqueued"] = stats[FdAtRefresh]["tasks_enqueued"]]]
    /\ UNCHANGED <<loads, scheduler, daemon, stats, pin, script>>

\* The last word, and display_stats with "[LIVE]".
CopySecond ==
    /\ top.at = "copy"
    /\ LET c == [shown.copy EXCEPT !["routed"] = stats[top.fd["sched_stats"]]["routed"]]
       IN  shown' = [live |-> TRUE, copy |-> Zero, screen |-> c]
    /\ top' = [top EXCEPT !.at = "loop"]
    /\ UNCHANGED <<loads, scheduler, daemon, stats, pin, script>>

\* SIGINT or SIGTERM: the loop ends and the descriptors are closed.
QuitTop ==
    /\ top.at = "loop"
    /\ top' = TopOff
    /\ shown' = Blank
    /\ UNCHANGED <<loads, scheduler, daemon, stats, pin, script>>
-----------------------------------------------------------------------------
Next ==
    \/ StartScheduler \/ StopScheduler \/ StartDaemon \/ StopDaemon
    \/ Count \/ Route
    \/ ListStats \/ ScriptStep
    \/ OpenStats \/ OpenEnergy \/ CopyFirst \/ CopySecond \/ QuitTop

Spec == Init /\ [][Next]_vars
-----------------------------------------------------------------------------
\* The type invariant.  A load that is in use has been made, and what refers
\* to a map refers to one that was.
TypeOK ==
    /\ loads \in 0..MaxLoads
    /\ scheduler \in 1..loads \cup {None} /\ daemon \in 1..loads \cup {None}
    /\ stats \in [Loads -> [Words -> 0..MaxEnqueues]]
    /\ pin \in [Maps -> 1..loads \cup {None}]
    /\ script \in [at : {"idle", "list_energy", "remove_stats", "remove_energy",
                         "pin_stats", "pin_energy"},
                   found : [Maps -> SUBSET (1..loads)]]
    /\ top \in [at : {"off", "open_energy", "loop", "copy"},
                fd : [Maps -> 1..loads \cup {None}]]
    /\ shown \in [live : BOOLEAN, copy : [Words -> 0..MaxEnqueues],
                  screen : [Words -> 0..MaxEnqueues]]
    /\ scheduler # None => scheduler # daemon

\* The copy need not be a state the counters were in: the parts shown may
\* exceed the total shown.  But the parts, which are added to and copied last,
\* never exceed the total that the map has by then.
PartsWithinTotal ==
    top.fd["sched_stats"] # None =>
        shown.screen["routed"] <= stats[top.fd["sched_stats"]]["tasks_enqueued"]

\* As long as aie_top runs its numbers never go back, though schedulers come
\* and go and pins are moved: it keeps to the map it opened first.
NumbersNeverGoBack ==
    [][top.at # "off" /\ top'.at # "off" =>
          \A w \in Words : shown'.screen[w] >= shown.screen[w]]_vars

\* After a reload the old pins keep the old maps alive, the script finds two
\* ids of each and pins nothing, but removes the pins: run again, it pins the
\* maps of the scheduler.  So it settles, unless the daemon or aie_top keep
\* other maps alive.
Settled == scheduler # None /\ daemon = None /\ top.at = "off"

PinsSettle ==
    <>[][FALSE]_scheduler /\ <>[]Settled /\ []<><<PinEnergy>>_script
        => <>[](script.at = "idle" => \A k \in Maps : pin[k] = scheduler)
=============================================================================
