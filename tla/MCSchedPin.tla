----------------------------- MODULE MCSchedPin -----------------------------
(***************************************************************************)
(* The instance of SchedPin for TLC: two CPUs and three threads.           *)
(***************************************************************************)
EXTENDS SchedPin, TLC

CONSTANTS c1, c2, t1, t2, t3

MCPinned == [t \in Threads |-> IF t = Boot THEN NoCpu ELSE c2]

=============================================================================
