------------------------------- MODULE RWLock -------------------------------
(***************************************************************************)
(* The read-write lock of core/rwlock.cc.  Writers are serialised by the   *)
(* recursive mutex _wmtx, which is taken as module Mutex describes it: wm  *)
(* holds its owner (the first) and those who wait for it.  Readers and the *)
(* owner of _wmtx meet in the atomic word _readers.  An action is one      *)
(* access to shared memory.  A compare-and-exchange in a loop is one step, *)
(* taken when it succeeds or when the loop is left.  The callers follow    *)
(* the rules of such locks: a thread that holds the lock for reading does  *)
(* not call rlock() or wlock(), one that holds it for writing no rlock().  *)
(***************************************************************************)
EXTENDS Integers, Sequences, FiniteSets

CONSTANTS
    Threads,
    NoThread,
    MaxDepth    \* bound on the recursion of wlock() and try_wlock()

ASSUME RWLockAssumption == IsFiniteSet(Threads) /\ NoThread \notin Threads

VARIABLES
    readers,      \* _readers: the two flags that are set and the two counts
    writer_wait,  \* _writer_wait
    waiters,      \* _read_waiters
    wm, depth,    \* _wmtx
    pc,
    back,         \* where the thread is after it has unlocked _wmtx
    granted,      \* the readers whose read_waiter was set to nullptr
    pending,      \* local pending_readers of wake_pending_readers()
    prev,         \* local prev_readers of try_wlock() and try_upgrade()
    who           \* the thread that runlock() or wake_pending_readers() wakes

mtx  == <<wm, depth>>
locs == <<back, granted, pending, prev, who>>
vars == <<readers, writer_wait, waiters, mtx, pc, locs>>

\* The bits WRITER_LOCK and PENDING_WRITER
W == "WRITER_LOCK"
P == "PENDING_WRITER"

Zero == [flags |-> {}, owning |-> 0, waiting |-> 0]

Init ==
    /\ readers = Zero
    /\ writer_wait = FALSE
    /\ waiters = <<>>
    /\ wm = <<>>
    /\ depth = 0
    /\ pc = [t \in Threads |-> "run"]
    /\ back = [t \in Threads |-> "run"]
    /\ granted = {}
    /\ pending = [t \in Threads |-> 0]
    /\ prev = [t \in Threads |-> Zero]
    /\ who = [t \in Threads |-> NoThread]

At(t, l) == pc[t] = l
Goto(t, l) == pc' = [pc EXCEPT ![t] = l]

\* prev_readers < PENDING_WRITER
NoWriter == readers.flags = {}

(***************************************************************************)
(* rlock() and try_rlock(); the latter returns where the former blocks.    *)
(***************************************************************************)
\* A pending writer does not stop a new reader.
RLockPastPending(t) ==
    /\ At(t, "run")
    /\ W \notin readers.flags
    /\ readers' = [readers EXCEPT !.owning = @ + 1]
    /\ Goto(t, "reading")
    /\ UNCHANGED <<writer_wait, waiters, mtx, locs>>

RLock(t) ==
    /\ At(t, "run")
    /\ NoWriter
    /\ readers' = [readers EXCEPT !.owning = @ + 1]
    /\ Goto(t, "reading")
    /\ UNCHANGED <<writer_wait, waiters, mtx, locs>>

RLockBlocked(t) ==
    /\ At(t, "run")
    /\ ~ NoWriter
    /\ Goto(t, "rl_add")
    /\ UNCHANGED <<readers, writer_wait, waiters, mtx, locs>>

RLockAdd(t) ==
    /\ At(t, "rl_add")
    /\ readers' = [readers EXCEPT !.waiting = @ + 1]
    /\ Goto(t, IF NoWriter THEN "rl_retry" ELSE "rl_push")
    /\ UNCHANGED <<writer_wait, waiters, mtx, locs>>

\* The reader takes the lock and stays counted as pending.
RLockRetryInc(t) ==
    /\ At(t, "rl_retry")
    /\ NoWriter
    /\ readers' = [readers EXCEPT !.owning = @ + 1]
    /\ Goto(t, "reading")
    /\ UNCHANGED <<writer_wait, waiters, mtx, locs>>

RLockRetry(t) ==
    /\ At(t, "rl_retry")
    /\ NoWriter
    /\ readers' = [readers EXCEPT !.owning = @ + 1, !.waiting = @ - 1]
    /\ Goto(t, "reading")
    /\ UNCHANGED <<writer_wait, waiters, mtx, locs>>

RLockRetryBlocked(t) ==
    /\ At(t, "rl_retry")
    /\ ~ NoWriter
    /\ Goto(t, "rl_push")
    /\ UNCHANGED <<readers, writer_wait, waiters, mtx, locs>>

RLockPush(t) ==
    /\ At(t, "rl_push")
    /\ waiters' = Append(waiters, t)
    /\ Goto(t, "rl_wait")
    /\ UNCHANGED <<readers, writer_wait, mtx, locs>>

RLockWait(t) ==
    /\ At(t, "rl_wait")
    /\ t \in granted
    /\ granted' = granted \ {t}
    /\ Goto(t, "reading")
    /\ UNCHANGED <<readers, writer_wait, waiters, mtx, back, pending, prev, who>>

(***************************************************************************)
(* runlock(): the last owning reader wakes the pending writer.             *)
(***************************************************************************)
RUnlock(t) ==
    /\ At(t, "reading")
    /\ readers' = [readers EXCEPT !.owning = @ - 1]
    /\ Goto(t, IF readers.owning = 1 /\ P \in readers.flags
               THEN "ru_owner" ELSE "run")
    /\ UNCHANGED <<writer_wait, waiters, mtx, locs>>

\* _wmtx.get_owner()
Owner == IF depth = 0 THEN NoThread ELSE Head(wm)

RUnlockOwner(t) ==
    /\ At(t, "ru_owner")
    /\ who' = [who EXCEPT ![t] = Owner]
    /\ Goto(t, IF Owner = NoThread THEN "run" ELSE "ru_store")
    /\ UNCHANGED <<readers, writer_wait, waiters, mtx, back, granted, pending, prev>>

RUnlockStore(t) ==
    /\ At(t, "ru_store")
    /\ writer_wait' = FALSE
    /\ Goto(t, "ru_wake")
    /\ UNCHANGED <<readers, waiters, mtx, locs>>

\* The condition the thread waits for is true before wake() is called.
RUnlockWake(t) ==
    /\ At(t, "ru_wake")
    /\ who' = [who EXCEPT ![t] = NoThread]
    /\ Goto(t, "run")
    /\ UNCHANGED <<readers, writer_wait, waiters, mtx, back, granted, pending, prev>>

(***************************************************************************)
(* wlock()                                                                 *)
(***************************************************************************)
WLock(t) ==
    /\ At(t, "run")
    /\ wm' = Append(wm, t)
    /\ Goto(t, "wl_lock")
    /\ UNCHANGED <<readers, writer_wait, waiters, depth, locs>>

\* _wmtx.lock() returns, and _readers is tested for a recursive call.
WLockLocked(t) ==
    /\ At(t, "wl_lock")
    /\ Head(wm) = t
    /\ depth' = 1
    /\ Goto(t, IF W \in readers.flags THEN "writing" ELSE "wl_store")
    /\ UNCHANGED <<readers, writer_wait, waiters, wm, locs>>

\* wlock() or try_wlock() of the thread that holds the lock for writing
WLockNested(t) ==
    /\ At(t, "writing")
    /\ W \in readers.flags
    /\ depth < MaxDepth
    /\ depth' = depth + 1
    /\ UNCHANGED <<readers, writer_wait, waiters, wm, pc, locs>>

WLockStore(t) ==
    /\ At(t, "wl_store")
    /\ writer_wait' = TRUE
    /\ Goto(t, "wl_or")
    /\ UNCHANGED <<readers, waiters, mtx, locs>>

WLockOr(t) ==
    /\ At(t, "wl_or")
    /\ readers' = [readers EXCEPT !.flags = @ \cup {P}]
    /\ Goto(t, IF readers.owning = 0 THEN "wl_cas" ELSE "wl_wait")
    /\ UNCHANGED <<writer_wait, waiters, mtx, locs>>

\* The store of _writer_wait is part of the step: see PendingWriterWoken.
WLockCas(t) ==
    /\ At(t, "wl_cas")
    /\ IF readers.owning = 0
       THEN /\ readers' = [readers EXCEPT !.flags = {W}]
            /\ writer_wait' = FALSE
            /\ Goto(t, "writing")
       ELSE /\ Goto(t, "wl_wait")
            /\ UNCHANGED <<readers, writer_wait>>
    /\ UNCHANGED <<waiters, mtx, locs>>

WLockWait(t) ==
    /\ At(t, "wl_wait")
    /\ ~ writer_wait
    /\ Goto(t, "wl_add")
    /\ UNCHANGED <<readers, writer_wait, waiters, mtx, locs>>

\* Adding PENDING_WRITER to the word carries it into WRITER_LOCK.
WLockAdd(t) ==
    /\ At(t, "wl_add")
    /\ readers' = [readers EXCEPT !.flags = IF P \in @ THEN {W} \ @ ELSE @ \cup {P}]
    /\ Goto(t, "writing")
    /\ UNCHANGED <<writer_wait, waiters, mtx, locs>>

(***************************************************************************)
(* try_wlock() of a thread outside and try_upgrade() of a reader: they go  *)
(* on when _wmtx is free.  When they fail, the thread is where it was.     *)
(***************************************************************************)
Try(t, l) ==
    /\ At(t, l)
    /\ wm = <<>>
    /\ wm' = <<t>>
    /\ depth' = 1
    /\ back' = [back EXCEPT ![t] = l]
    /\ Goto(t, "tr_load")
    /\ UNCHANGED <<readers, writer_wait, waiters, granted, pending, prev, who>>

TryWLock(t) == Try(t, "run")
TryUpgrade(t) == Try(t, "reading")

TryLoad(t) ==
    /\ At(t, "tr_load")
    /\ prev' = [prev EXCEPT ![t] = readers]
    /\ LET free == IF back[t] = "run" THEN readers.owning = 0 /\ W \notin readers.flags
                                      ELSE readers.owning = 1 /\ NoWriter
       IN  Goto(t, IF free THEN "tr_cas"
                   ELSE IF back[t] = "run" /\ W \in readers.flags THEN "writing"
                   ELSE "tr_fail")
    /\ UNCHANGED <<readers, writer_wait, waiters, mtx, back, granted, pending, who>>

TryCas(t) ==
    /\ At(t, "tr_cas")
    /\ IF readers = prev[t]
       THEN /\ readers' = [Zero EXCEPT !.flags = {W}, !.waiting = readers.waiting]
            /\ back' = [back EXCEPT ![t] = "run"]
            /\ Goto(t, "writing")
       ELSE /\ Goto(t, "tr_fail")
            /\ UNCHANGED <<readers, back>>
    /\ prev' = [prev EXCEPT ![t] = Zero]
    /\ UNCHANGED <<writer_wait, waiters, mtx, granted, pending, who>>

\* _wmtx is unlocked all the way, and the operation returns.
Release(t) ==
    /\ wm' = Tail(wm)
    /\ depth' = 0
    /\ back' = [back EXCEPT ![t] = "run"]
    /\ Goto(t, back[t])

TryFail(t) ==
    /\ At(t, "tr_fail")
    /\ Release(t)
    /\ prev' = [prev EXCEPT ![t] = Zero]
    /\ UNCHANGED <<readers, writer_wait, waiters, granted, pending, who>>

(***************************************************************************)
(* wunlock() and downgrade(), with wake_pending_readers()                  *)
(***************************************************************************)
WUnlockNested(t) ==
    /\ At(t, "writing")
    /\ depth > 1
    /\ depth' = depth - 1
    /\ UNCHANGED <<readers, writer_wait, waiters, wm, pc, locs>>

WUnlock(t) ==
    /\ At(t, "writing")
    /\ depth = 1
    /\ readers' = [readers EXCEPT !.flags = @ \ {W}]
    /\ pending' = [pending EXCEPT ![t] = readers.waiting]
    /\ Goto(t, "wk_loop")
    /\ UNCHANGED <<writer_wait, waiters, mtx, back, granted, prev, who>>

Downgrade(t) ==
    /\ At(t, "writing")
    /\ readers' = [readers EXCEPT !.flags = @ \ {W}, !.owning = @ + 1]
    /\ back' = [back EXCEPT ![t] = "reading"]
    /\ Goto(t, "dg_load")
    /\ UNCHANGED <<writer_wait, waiters, mtx, granted, pending, prev, who>>

DowngradeLoad(t) ==
    /\ At(t, "dg_load")
    /\ pending' = [pending EXCEPT ![t] = readers.waiting]
    /\ Goto(t, "wk_loop")
    /\ UNCHANGED <<readers, writer_wait, waiters, mtx, back, granted, prev, who>>

\* An empty queue ends the loop.
WakeEmptyStop(t) ==
    /\ At(t, "wk_loop")
    /\ pending[t] # 0
    /\ waiters = <<>>
    /\ pending' = [pending EXCEPT ![t] = 0]
    /\ UNCHANGED <<readers, writer_wait, waiters, mtx, pc, back, granted, prev, who>>

\* pop() finds nothing: the count is read again.
WakeEmpty(t) ==
    /\ At(t, "wk_loop")
    /\ pending[t] # 0
    /\ waiters = <<>>
    /\ pending' = [pending EXCEPT ![t] = readers.waiting]
    /\ UNCHANGED <<readers, writer_wait, waiters, mtx, pc, back, granted, prev, who>>

\* pop(), of which this thread is the only caller, and the fetch_add; the
\* loop goes on with the count from before the addition.
WakePop(t) ==
    /\ At(t, "wk_loop")
    /\ pending[t] # 0
    /\ waiters # <<>>
    /\ waiters' = Tail(waiters)
    /\ readers' = [readers EXCEPT !.owning = @ + 1, !.waiting = @ - 1]
    /\ pending' = [pending EXCEPT ![t] = readers.waiting]
    /\ who' = [who EXCEPT ![t] = Head(waiters)]
    /\ Goto(t, "wk_store")
    /\ UNCHANGED <<writer_wait, mtx, back, granted, prev>>

WakeStore(t) ==
    /\ At(t, "wk_store")
    /\ granted' = granted \cup {who[t]}
    /\ Goto(t, "wk_wake")
    /\ UNCHANGED <<readers, writer_wait, waiters, mtx, back, pending, prev, who>>

\* The condition the reader waits for is true before wake() is called.
WakeCall(t) ==
    /\ At(t, "wk_wake")
    /\ who' = [who EXCEPT ![t] = NoThread]
    /\ Goto(t, "wk_loop")
    /\ UNCHANGED <<readers, writer_wait, waiters, mtx, back, granted, pending, prev>>

\* _wmtx is unlocked before the readers are woken.
WakeEndEarly(t) ==
    /\ At(t, "wk_loop")
    /\ Release(t)
    /\ pending' = [pending EXCEPT ![t] = 0]
    /\ UNCHANGED <<readers, writer_wait, waiters, granted, prev, who>>

WakeEnd(t) ==
    /\ At(t, "wk_loop")
    /\ pending[t] = 0
    /\ Release(t)
    /\ UNCHANGED <<readers, writer_wait, waiters, granted, pending, prev, who>>

-----------------------------------------------------------------------------
\* A call of the lock by a thread that is outside or holds it
Call(t) ==
    \/ RLock(t) \/ RLockBlocked(t) \/ WLock(t) \/ WLockNested(t)
    \/ TryWLock(t) \/ TryUpgrade(t) \/ WUnlockNested(t) \/ Downgrade(t)

\* A step inside a call
Step(t) ==
    \/ RLockAdd(t) \/ RLockRetry(t) \/ RLockRetryBlocked(t) \/ RLockPush(t) \/ RLockWait(t)
    \/ RUnlockOwner(t) \/ RUnlockStore(t) \/ RUnlockWake(t)
    \/ WLockLocked(t) \/ WLockStore(t) \/ WLockOr(t) \/ WLockCas(t)
    \/ WLockWait(t) \/ WLockAdd(t)
    \/ TryLoad(t) \/ TryCas(t) \/ TryFail(t)
    \/ DowngradeLoad(t) \/ WakeEmpty(t) \/ WakePop(t) \/ WakeStore(t)
    \/ WakeCall(t) \/ WakeEnd(t)

Next == \E t \in Threads : Call(t) \/ RUnlock(t) \/ WUnlock(t) \/ Step(t)

Spec == Init /\ [][Next]_vars

\* Threads in a call go on when they can (wait_until() returns once woken),
\* and holders give the lock back, however often they up- or downgrade it.
FairSpec ==
    /\ Spec
    /\ \A t \in Threads : /\ WF_vars(Step(t) \/ WUnlockNested(t))
                          /\ SF_vars(RUnlock(t))
                          /\ SF_vars(WUnlock(t))

\* A thread outside the lock ends, is joined and destroyed.
Exit(t) ==
    /\ At(t, "run")
    /\ Goto(t, "exited")
    /\ UNCHANGED <<readers, writer_wait, waiters, mtx, locs>>

ExitSpec == Init /\ [][Next \/ \E t \in Threads : Exit(t)]_vars

-----------------------------------------------------------------------------
\* A thread that holds the lock for writing (wlock(), try_wlock() or
\* try_upgrade() returned) holds it alone, owns _wmtx and finds WRITER_LOCK
\* set, as wunlock() and downgrade() assert.
Exclusion ==
    \A t \in Threads : At(t, "writing") =>
        /\ Owner = t
        /\ W \in readers.flags
        /\ \A u \in Threads \ {t} : pc[u] \notin {"reading", "writing"}

\* A reader for which a writer took the lock and which has not noticed
Given(t) == At(t, "rl_wait") /\ (t \in granted \/ \E u \in Threads : who[u] = t /\ At(u, "wk_store"))
Owning(t) == pc[t] = "reading" \/ back[t] = "reading" \/ Given(t)
Waiting(t) == pc[t] \in {"rl_retry", "rl_push"} \/ (At(t, "rl_wait") /\ ~ Given(t))

\* The two counts in _readers are exact: each reader is counted once, as an
\* owner or as pending, whoever moved it from one count to the other.
CountsExact ==
    /\ readers.owning = Cardinality({t \in Threads : Owning(t)})
    /\ readers.waiting = Cardinality({t \in Threads : Waiting(t)})

\* When the last reader looks for the pending writer, the owner of _wmtx is
\* that writer, it waits for _writer_wait, and no reader is left: runlock()
\* wakes the right thread and takes no wake-up from another.
PendingWriterWoken ==
    \A t \in Threads : pc[t] \in {"ru_owner", "ru_store"} =>
        /\ Owner # NoThread /\ pc[Owner] = "wl_wait"
        /\ writer_wait /\ P \in readers.flags /\ readers.owning = 0
        /\ \A u \in Threads \ {t} : pc[u] \notin {"ru_owner", "ru_store"}

\* A reader that sleeps and was not given the lock is in the queue.  One that
\* is there, or on its way, has a writer that will look: one that holds or
\* wants the lock, or one in wake_pending_readers() that has not seen the
\* count of pending readers at zero.
NoReaderStranded ==
    \A t \in Threads :
        /\ At(t, "rl_wait") /\ ~ Given(t) => \E i \in DOMAIN waiters : waiters[i] = t
        /\ At(t, "rl_push") \/ (At(t, "rl_wait") /\ ~ Given(t)) =>
            \/ ~ NoWriter
            \/ \E u \in Threads :
                \/ At(u, "dg_load")
                \/ pc[u] \in {"wk_loop", "wk_store", "wk_wake"} /\ pending[u] # 0

\* The last reader finds the writer that waits for it, and a writer that leaves
\* finds the readers that wait: nobody sleeps whom nobody will wake.
NobodyStranded == PendingWriterWoken /\ NoReaderStranded

\* Neither readers nor writers starve: whoever waits in rlock() or wlock() gets
\* out of it, and that is with the lock.
LockServed ==
    \A t \in Threads :
        []<>(pc[t] \notin {"rl_add", "rl_retry", "rl_push", "rl_wait",
                          "wl_lock", "wl_store", "wl_or", "wl_cas", "wl_wait", "wl_add"})

\* The thread that runlock() or wake_pending_readers() is about to wake still
\* exists.
WokenThreadExists ==
    \A t \in Threads : pc[t] \in {"ru_wake", "wk_wake"} => ~ At(who[t], "exited")

=============================================================================
