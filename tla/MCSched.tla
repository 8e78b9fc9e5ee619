------------------------------ MODULE MCSched ------------------------------
(***************************************************************************)
(* Instances of Sched for TLC: two CPUs, a thread that boots on the first  *)
(* and starts the others on the second.                                    *)
(***************************************************************************)
EXTENDS Sched, TLC

CONSTANTS c1, c2, t1, t2, t3

MCPinned == [t \in Threads |-> IF t = Boot THEN NoCpu ELSE c2]

\* Threads other than Boot are started alike, so they are interchangeable.
MCSymmetry == Permutations(Threads \ {Boot})

=============================================================================
