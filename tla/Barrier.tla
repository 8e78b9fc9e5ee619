------------------------------ MODULE Barrier ------------------------------
(***************************************************************************)
(* libc/pthread_barrier.cc over the waitqueue of core/waitqueue.cc, with   *)
(* the wait morphing of core/sched.cc: who is woken on the waitqueue is    *)
(* moved to the queue of the mutex (status sending_lock) and gets the      *)
(* mutex with the wake-up (lock_sent).  The mutex is the one of module     *)
(* LFMutex as its callers see it: a holder, a queue of wait records, and   *)
(* count.  wake() of a wait record is two steps, as in the code: the       *)
(* record is cleared, and then the thread is woken.                        *)
(***************************************************************************)
EXTENDS Integers, Sequences, FiniteSets, SequencesExt

CONSTANTS
    Threads,
    Count,      \* barrier->count
    MaxCalls,   \* bound on the calls of pthread_barrier_wait()
    Setups      \* which threads take part, and whether every wake() is prompt,
                \* that is over before the woken thread runs on

None == "none"

VARIABLES
    setup,              \* the member of Setups that is the case
    state,              \* barrier->state
    calls, entered, left,
    holder, queue, count,       \* the mutex
    fifo,               \* waitqueue::_waiters_fifo
    wr, mr,             \* woken() of a thread's wait record here and in lock()
    st, lock_sent,      \* detached_state
    pc, place,          \* where a thread is, and where in pthread_barrier_wait()
    waking              \* waking[t]: the thread that t wakes as its next step

barrier == <<state, calls, entered, left>>
mutex == <<holder, queue, count>>
vars == <<setup, barrier, mutex, fifo, wr, mr, st, lock_sent, pc, place, waking>>

Init ==
    /\ setup \in Setups
    /\ state = 0 /\ calls = 0 /\ entered = 0 /\ left = 0
    /\ holder = None /\ queue = <<>> /\ count = 0
    /\ fifo = <<>>
    /\ wr = [t \in Threads |-> FALSE] /\ mr = [t \in Threads |-> FALSE]
    /\ st = [t \in Threads |-> "running"]
    /\ lock_sent = [t \in Threads |-> FALSE]
    /\ pc = [t \in Threads |-> "out"]
    /\ place = [t \in Threads |-> "enter"]
    /\ waking = [t \in Threads |-> None]

At(t, p) == pc[t] = p /\ waking[t] = None
Go(t, p) == pc' = [pc EXCEPT ![t] = p]

-----------------------------------------------------------------------------
\* mutex::lock(), and the loop in which it waits for its record; p is where the
\* caller goes on
lock(t, p) ==
    /\ count' = count + 1
    /\ IF holder = None
       THEN holder' = t /\ Go(t, p) /\ UNCHANGED <<queue, mr>>
       ELSE /\ queue' = Append(queue, [of |-> t, rec |-> "mr"])
            /\ mr' = [mr EXCEPT ![t] = FALSE]
            /\ Go(t, IF p = "in" THEN "lockIn" ELSE "lockPoll")
            /\ UNCHANGED holder

lockWait(t) ==
    /\ At(t, "lockIn") \/ At(t, "lockPoll")
    /\ st[t] = "running"
    /\ IF mr[t]
       THEN Go(t, IF pc[t] = "lockIn" THEN "in" ELSE "poll") /\ UNCHANGED st
       ELSE st' = [st EXCEPT ![t] = "waiting"] /\ UNCHANGED pc
    /\ UNCHANGED <<barrier, mutex, fifo, wr, mr, lock_sent, place, waking>>

\* wake_impl() with the states that wake_with_from_mutex() allows
Woken(s, h) == [s EXCEPT ![h] = IF @ \in {"waiting", "sending_lock"} THEN "running" ELSE @]

\* mutex::unlock(): the oldest record gets the mutex.  s and w are what the
\* caller makes of st and wr.
unlock(t, s, w) ==
    /\ count' = count - 1
    /\ IF queue = <<>>
       THEN holder' = None /\ st' = s /\ wr' = w /\ UNCHANGED <<queue, mr, waking>>
       ELSE LET h == Head(queue).of
                here == Head(queue).rec = "wr"
            IN  /\ holder' = h
                /\ queue' = Tail(queue)
                /\ wr' = IF here THEN [w EXCEPT ![h] = TRUE] ELSE w
                /\ mr' = IF here THEN mr ELSE [mr EXCEPT ![h] = TRUE]
                /\ st' = IF setup.prompt THEN Woken(s, h) ELSE s
                /\ waking' = [waking EXCEPT ![t] = IF setup.prompt THEN None ELSE h]

wake_impl(t) ==
    /\ waking[t] # None
    /\ st' = Woken(st, waking[t])
    /\ waking' = [waking EXCEPT ![t] = None]
    /\ UNCHANGED <<barrier, mutex, fifo, wr, mr, lock_sent, pc, place>>

-----------------------------------------------------------------------------
\* thread::wake_lock() with send_lock_unless_already_waiting()
wake_lock(x, t) ==
    IF x.st[t] # "waiting" THEN [x EXCEPT !.wr[t] = TRUE]
    ELSE IF \E i \in DOMAIN x.queue : x.queue[i].of = t
    THEN [x EXCEPT !.count = @ + 1, !.wr[t] = TRUE]
    ELSE [x EXCEPT !.count = @ + 1, !.queue = Append(@, [of |-> t, rec |-> "wr"]),
                   !.st[t] = "sending_lock", !.lock_sent[t] = TRUE]

wake_all ==
    LET x == FoldLeft(wake_lock, [st |-> st, wr |-> wr, queue |-> queue, count |-> count,
                                  lock_sent |-> lock_sent], fifo)
    IN  /\ fifo' = <<>>
        /\ st' = x.st /\ wr' = x.wr /\ queue' = x.queue /\ count' = x.count
        /\ lock_sent' = x.lock_sent

\* waitqueue::wait(): arm(), and in do_wait_for() prepare_wait() and release(mtx)
wait(t, p) ==
    /\ fifo' = Append(fifo, t)
    /\ place' = [place EXCEPT ![t] = p]
    /\ Go(t, "asleep")
    /\ unlock(t, [st EXCEPT ![t] = "waiting"], [wr EXCEPT ![t] = FALSE])
    /\ UNCHANGED lock_sent

\* me->wait() returns: the mutex was sent along, or has to be taken.
waitReturn(t) ==
    /\ At(t, "asleep") /\ st[t] = "running"
    /\ lock_sent' = [lock_sent EXCEPT ![t] = FALSE]
    /\ IF lock_sent[t]
       THEN holder' = t /\ Go(t, "poll") /\ UNCHANGED <<queue, count, mr>>
       ELSE lock(t, "poll")
    /\ UNCHANGED <<barrier, fifo, wr, st, place, waking>>

\* Back in do_wait_for(): not woken on the waitqueue, it waits once more.
poll(t) ==
    /\ At(t, "poll")
    /\ IF wr[t]
       THEN Go(t, "in") /\ UNCHANGED <<mutex, wr, mr, st, waking>>
       ELSE Go(t, "asleep") /\ unlock(t, [st EXCEPT ![t] = "waiting"], wr)
    /\ UNCHANGED <<barrier, fifo, lock_sent, place>>

-----------------------------------------------------------------------------
pthread_barrier_wait(t) ==
    /\ At(t, "out") /\ t \in setup.threads /\ calls < MaxCalls
    /\ calls' = calls + 1
    /\ place' = [place EXCEPT ![t] = "enter"]
    /\ lock(t, "in")
    /\ UNCHANGED <<setup, state, entered, left, fifo, wr, st, lock_sent, waking>>

\* Who completes a round does not leave behind how many still have to go.
barrierEnterReset(t) ==
    /\ At(t, "in") /\ place[t] = "enter"
    /\ IF state < 0
       THEN wait(t, "enter") /\ UNCHANGED <<state, entered>>
       ELSE IF state + 1 = Count
       THEN /\ state' = 0 /\ entered' = entered + 1
            /\ wake_all /\ Go(t, "unlock") /\ UNCHANGED <<holder, mr, place, waking>>
       ELSE state' = state + 1 /\ entered' = entered + 1 /\ wait(t, "inner")
    /\ UNCHANGED <<calls, left>>

barrierEnter(t) ==
    /\ At(t, "in") /\ place[t] = "enter"
    /\ IF state < 0
       THEN wait(t, "enter") /\ UNCHANGED <<state, entered>>
       ELSE IF state + 1 = Count
       THEN /\ state' = 1 - Count /\ entered' = entered + 1
            /\ wake_all /\ Go(t, "unlock") /\ UNCHANGED <<holder, mr, place, waking>>
       ELSE state' = state + 1 /\ entered' = entered + 1 /\ wait(t, "inner")
    /\ UNCHANGED <<calls, left>>

\* Those who wait for the next round are not told that this one is over.
barrierLeaveSilent(t) ==
    /\ At(t, "in") /\ place[t] = "inner"
    /\ IF state > 0
       THEN wait(t, "inner") /\ UNCHANGED state
       ELSE /\ state' = state + 1
            /\ Go(t, "unlock")
            /\ UNCHANGED <<fifo, st, wr, lock_sent, mutex, mr, place, waking>>
    /\ UNCHANGED <<calls, entered, left>>

barrierLeave(t) ==
    /\ At(t, "in") /\ place[t] = "inner"
    /\ IF state > 0
       THEN wait(t, "inner") /\ UNCHANGED state
       ELSE /\ state' = state + 1
            /\ IF state + 1 = 0 THEN wake_all
               ELSE UNCHANGED <<fifo, st, wr, queue, count, lock_sent>>
            /\ Go(t, "unlock")
            /\ UNCHANGED <<holder, mr, place, waking>>
    /\ UNCHANGED <<calls, entered, left>>

barrierReturn(t) ==
    /\ At(t, "unlock")
    /\ unlock(t, st, wr)
    /\ left' = left + 1
    /\ Go(t, "out")
    /\ UNCHANGED <<state, calls, entered, fifo, lock_sent, place>>

Proceed(t) ==
    /\ \/ lockWait(t) \/ wake_impl(t) \/ waitReturn(t) \/ poll(t)
       \/ barrierEnter(t) \/ barrierLeave(t) \/ barrierReturn(t)
    /\ UNCHANGED setup

Next == \E t \in Threads : pthread_barrier_wait(t) \/ Proceed(t)

Spec == Init /\ [][Next]_vars

\* The scheduler runs every thread that can run.
FairSpec == Spec /\ \A t \in Threads : WF_vars(Proceed(t))

-----------------------------------------------------------------------------
\* pthread_barrier_wait(): nobody returns before as many threads as the barrier
\* was made for have come, in every round.
BarrierHolds == left <= Count * (entered \div Count)

\* Everybody who was in a complete round returns, and those who came too early
\* for the next one get into it.
BarrierPasses == []<>(calls = entered /\ entered - left < Count)

\* "since we're in status::sending_lock, no one can wake us except
\* mutex::unlock": a thread to which the mutex was sent runs on when it holds it,
\* and so nobody else is inside.
OneHolder == Cardinality({t \in Threads : pc[t] \in {"poll", "in", "unlock"}}) <= 1
=============================================================================
