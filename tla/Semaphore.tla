----------------------------- MODULE Semaphore ------------------------------
(***************************************************************************)
(* core/semaphore.cc: units under a mutex and a list of wait records.  A   *)
(* post() looks at one record per step and holds the mutex meanwhile;      *)
(* timers expire and threads wake up at any time.                          *)
(***************************************************************************)
EXTENDS Integers, Sequences, FiniteSets, SequencesExt, FiniteSetsExt

CONSTANTS
    Threads,
    Units,          \* what a call may ask for or give
    Initial,        \* val of the constructor
    MaxSupply       \* bound on the units posted and not taken

None == "none"

VARIABLES
    val,            \* _val
    mtx,            \* the thread that holds _mtx, or None
    waiters,        \* _waiters, by the thread of the record
    owner, units,   \* of the wait_record of each thread; owner says it is set
    timer,          \* the timer of a wait(): None, "armed" or "expired"
    asleep,
    pc, i,          \* where a thread is, and the iterator of the post() with the mutex
    supply          \* units posted and not yet taken by a call that returned true

semaphore == <<val, waiters, owner, units>>
vars == <<semaphore, mtx, timer, asleep, pc, i, supply>>

Init ==
    /\ val = Initial /\ waiters = <<>> /\ mtx = None
    /\ owner = [t \in Threads |-> FALSE] /\ units = [t \in Threads |-> 0]
    /\ timer = [t \in Threads |-> None] /\ asleep = [t \in Threads |-> FALSE]
    /\ pc = [t \in Threads |-> "out"] /\ i = 1
    /\ supply = Initial

Go(t, l) == pc' = [pc EXCEPT ![t] = l]

-----------------------------------------------------------------------------
\* _val is large enough; trywait() ends here in any case.
trywait(t, u) ==
    /\ pc[t] = "out" /\ mtx = None /\ val >= u
    /\ val' = val - u
    /\ supply' = supply - u
    /\ UNCHANGED <<waiters, owner, units, mtx, timer, asleep, pc, i>>

wait(t, u, tmr) ==
    /\ pc[t] = "out" /\ mtx = None /\ val < u
    /\ mtx' = t
    /\ waiters' = Append(waiters, t)
    /\ owner' = [owner EXCEPT ![t] = TRUE]
    /\ units' = [units EXCEPT ![t] = u]
    /\ timer' = [timer EXCEPT ![t] = tmr]
    /\ Go(t, "test")
    /\ UNCHANGED <<val, asleep, i, supply>>

\* wait_until(_mtx, ...) tests its condition, or gives up the mutex and sleeps.
test(t) ==
    /\ pc[t] = "test"
    /\ IF timer[t] = "expired" \/ ~owner[t]
       THEN Go(t, "return") /\ UNCHANGED <<mtx, asleep>>
       ELSE Go(t, "sleep") /\ mtx' = None /\ asleep' = [asleep EXCEPT ![t] = TRUE]
    /\ UNCHANGED <<semaphore, timer, i, supply>>

acquire(t) ==
    /\ pc[t] = "sleep" /\ ~asleep[t] /\ mtx = None
    /\ mtx' = t
    /\ Go(t, "test")
    /\ UNCHANGED <<semaphore, timer, asleep, i, supply>>

\* Who was woken by the timer did not get the units.
waitReturnExpired(t) ==
    /\ pc[t] = "return"
    /\ IF timer[t] = "expired" THEN waiters' = Remove(waiters, t) /\ UNCHANGED supply
       ELSE supply' = supply - units[t] /\ UNCHANGED waiters
    /\ owner' = [owner EXCEPT ![t] = FALSE]
    /\ units' = [units EXCEPT ![t] = 0]
    /\ timer' = [timer EXCEPT ![t] = None]
    /\ mtx' = None
    /\ Go(t, "out")
    /\ UNCHANGED <<val, asleep, i>>

\* The end of wait(); the record is gone with the stack frame.
waitReturn(t) ==
    /\ pc[t] = "return"
    /\ IF owner[t] THEN waiters' = Remove(waiters, t) /\ UNCHANGED supply
       ELSE supply' = supply - units[t] /\ UNCHANGED waiters
    /\ owner' = [owner EXCEPT ![t] = FALSE]
    /\ units' = [units EXCEPT ![t] = 0]
    /\ timer' = [timer EXCEPT ![t] = None]
    /\ mtx' = None
    /\ Go(t, "out")
    /\ UNCHANGED <<val, asleep, i>>

Expire(t) ==
    /\ timer[t] = "armed"
    /\ timer' = [timer EXCEPT ![t] = "expired"]
    /\ asleep' = [asleep EXCEPT ![t] = FALSE]
    /\ UNCHANGED <<semaphore, mtx, pc, i, supply>>

-----------------------------------------------------------------------------
post(t, u) ==
    /\ pc[t] = "out" /\ mtx = None /\ supply + u <= MaxSupply
    /\ mtx' = t
    /\ val' = val + u
    /\ supply' = supply + u
    /\ Go(t, "post")
    /\ UNCHANGED <<waiters, owner, units, timer, asleep, i>>

grant(w) ==
    /\ val' = val - units[w]
    /\ asleep' = [asleep EXCEPT ![w] = FALSE]
    /\ owner' = [owner EXCEPT ![w] = FALSE]
    /\ waiters' = Remove(waiters, w)

\* The loop of post_unlocked(), which skips requests that are too large
post_unlocked(t) ==
    /\ pc[t] = "post"
    /\ IF val > 0 /\ i <= Len(waiters)
       THEN /\ UNCHANGED <<mtx, pc>>
            /\ IF units[waiters[i]] <= val THEN grant(waiters[i]) /\ UNCHANGED i
               ELSE i' = i + 1 /\ UNCHANGED <<val, waiters, owner, asleep>>
       ELSE mtx' = None /\ i' = 1 /\ Go(t, "out") /\ UNCHANGED <<val, waiters, owner, asleep>>
    /\ UNCHANGED <<units, timer, supply>>

Next ==
    \E t \in Threads :
      \/ test(t) \/ acquire(t) \/ waitReturn(t) \/ post_unlocked(t) \/ Expire(t)
      \/ \E u \in Units : trywait(t, u) \/ post(t, u) \/ \E tmr \in {None, "armed"} : wait(t, u, tmr)

Spec == Init /\ [][Next]_vars

-----------------------------------------------------------------------------
\* wait() and post_unlocked(): "if wr.owner, it's a timeout - post() didn't wake us
\* and didn't decrease the semaphore's value for us".  Units are in _val or with
\* calls that returned true or will, a record is in the list until it is granted
\* or given up, nobody waits for units that are there, and whoever was granted
\* units or whose time is up is awake.
UnitsAccounted ==
    LET granted == {t \in Threads : pc[t] \in {"sleep", "test", "return"} /\ ~owner[t]}
    IN  /\ supply = val + MapThenSumSet(LAMBDA t : units[t], granted)
        /\ ToSet(waiters) = {t \in Threads : owner[t]} /\ IsInjective(waiters)
        /\ mtx = None => \A t \in ToSet(waiters) : units[t] > val
        /\ \A t \in Threads : asleep[t] => owner[t] /\ timer[t] # "expired"
=============================================================================
