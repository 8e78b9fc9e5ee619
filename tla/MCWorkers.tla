----------------------------- MODULE MCWorkers ------------------------------
(***************************************************************************)
(* Two CPUs, one worker item and three signals.                            *)
(***************************************************************************)
EXTENDS Workers

CONSTANTS c1, c2
=============================================================================
