-------------------------- MODULE AieDaemonClaims --------------------------
(***************************************************************************)
(* What a comment of the daemon says of it and its code does not do.       *)
(***************************************************************************)
EXTENDS AieDaemon

\* The decisions in pending_decisions_ as the next write would see them.
Visible == IF finish.buffer = buffer THEN {mem[i] : i \in 1..finish.at} ELSE {}

=============================================================================
