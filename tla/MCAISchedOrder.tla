--------------------------- MODULE MCAISchedOrder ---------------------------
(***************************************************************************)
(* The instances of MCAISched for AISchedOrder.                            *)
(***************************************************************************)
EXTENDS AISchedOrder, MCAISched
=============================================================================
