------------------------------- MODULE Mutex -------------------------------
(***************************************************************************)
(* What a recursive mutex promises its callers: one holder at a time, and  *)
(* waiters served in the order in which they queued.  A thread that does   *)
(* not queue gets in only when nobody holds the mutex: with try_lock(),    *)
(* past the queue; with lock(), when nobody is queued either.              *)
(***************************************************************************)
EXTENDS Integers, Sequences

CONSTANTS Threads, NoThread

VARIABLES
    holder,   \* the thread that has the mutex, or NoThread
    level,    \* how many times it has locked it
    waiting   \* the threads that queued for it, oldest first

avars == <<holder, level, waiting>>

Queued == {waiting[i] : i \in DOMAIN waiting}

Init ==
    /\ holder = NoThread
    /\ level = 0
    /\ waiting = <<>>

Give(t) ==
    /\ holder = NoThread
    /\ holder' = t
    /\ level' = 1

Enter(t) ==
    /\ waiting = <<>>
    /\ Give(t)
    /\ UNCHANGED waiting

Enqueue(t) ==
    /\ t # holder
    /\ t \notin Queued
    /\ waiting' = Append(waiting, t)
    /\ UNCHANGED <<holder, level>>

Grant ==
    /\ waiting # <<>>
    /\ Give(Head(waiting))
    /\ waiting' = Tail(waiting)

Barge(t) ==
    /\ t \notin Queued
    /\ Give(t)
    /\ UNCHANGED waiting

Again ==
    /\ holder # NoThread
    /\ level' = level + 1
    /\ UNCHANGED <<holder, waiting>>

Leave ==
    /\ holder # NoThread
    /\ level' = level - 1
    /\ holder' = IF level = 1 THEN NoThread ELSE holder
    /\ UNCHANGED waiting

Next ==
    \/ \E t \in Threads : Enter(t) \/ Enqueue(t) \/ Barge(t)
    \/ Grant \/ Again \/ Leave

Spec == Init /\ [][Next]_avars

=============================================================================
