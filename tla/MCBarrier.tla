----------------------------- MODULE MCBarrier -----------------------------
(* Three threads at a barrier, of which any may be late with its wake-ups. *)
EXTENDS Barrier

CONSTANTS t1, t2, t3

MCLate == {[threads |-> {t1, t2, t3}, prompt |-> FALSE]}
=============================================================================
