---------------------------- MODULE LFMutexImpl ----------------------------
(***************************************************************************)
(* LFMutex implements the abstract mutex of module Mutex.                  *)
(***************************************************************************)
EXTENDS LFMutex

\* A record that was popped but not woken yet is still first in line; at most
\* one thread has one, or has a list taken from pushlist.
InHand ==
    LET poppers == {t \in Threads : pc[t] \in {"lk_got", "ul_wake"}
                                    /\ other[t] # NoThread}
        movers == {t \in Threads : taken[t] # <<>>}
    IN  CASE poppers # {} -> <<other[CHOOSE t \in poppers : TRUE]>>
          [] movers # {} -> taken[CHOOSE t \in movers : TRUE]
          [] OTHER -> <<>>

Line == InHand \o poplist \o pushlist

Holders == {t \in Threads : Granted(t)}
Holder == IF Holders = {} THEN NoThread ELSE CHOOSE t \in Holders : TRUE

Level == IF owner # NoThread THEN depth ELSE IF Holders = {} THEN 0 ELSE 1

Abstract == INSTANCE Mutex WITH holder <- Holder, level <- Level, waiting <- Line

\* lock(), try_lock(), unlock() and send_lock() together behave as the
\* abstract mutex: exclusive, first come first served, never left free while
\* somebody is queued.
ImplementsMutex == Abstract!Spec

=============================================================================
