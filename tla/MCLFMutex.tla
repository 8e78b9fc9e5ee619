----------------------------- MODULE MCLFMutex -----------------------------
(***************************************************************************)
(* Instances of LFMutex for TLC: three threads, so that two can meet in    *)
(* the hand-off protocol while a third holds, sends or wants the mutex.    *)
(***************************************************************************)
EXTENDS LFMutexImpl

CONSTANT Client

\* Every lock() of a thread is eventually granted.  The specification treats
\* all threads alike, so one of them stands for all.
ClientServed == ClaimServed(Client)

=============================================================================
