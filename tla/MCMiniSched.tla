---------------------------- MODULE MCMiniSched ----------------------------
(***************************************************************************)
(* Small instances of MiniSched for TLC.                                   *)
(***************************************************************************)
EXTENDS MiniSched

CONSTANTS c1, c2, t1, t2, t3

TwoCpus    == {c1, c2}
OneCpu     == {c1}
TwoTasks   == {t1, t2}
ThreeTasks == {t1, t2, t3}

Anywhere == [t \in Tasks |-> Cpus]

\* t2 is pinned.
Pinned == [t \in Tasks |-> IF t = t2 THEN {c1} ELSE Cpus]

\* t1 is of nice 0, t2 lighter and t3 heavier.
Weights == [t \in Tasks |-> IF t = t1 THEN 2 ELSE IF t = t2 THEN 1 ELSE 3]

JustVtime == {"vtime"}
=============================================================================
