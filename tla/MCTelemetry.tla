---------------------------- MODULE MCTelemetry ----------------------------
(* A process p with a second thread q, and a process s of one thread.      *)
EXTENDS Telemetry

CONSTANTS p, q, s

ThreeThreads == {p, q, s}
TwoProcesses == [t \in ThreeThreads |-> IF t = q THEN p ELSE t]
=============================================================================
