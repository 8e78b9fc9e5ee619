------------------------------ MODULE CondVar ------------------------------
(***************************************************************************)
(* The condition variable of core/condvar.cc, with timeouts and "wait      *)
(* morphing": a woken waiter is not woken up but put into the queue of the *)
(* user's mutex, and sleeps on until the mutex is its own.                 *)
(*                                                                         *)
(* The user's mutexes are taken as module Mutex describes them: claims[m]  *)
(* is the queue of the threads that own m (the first) or wait for it.  A   *)
(* section of code that holds the condition variable's own lock _m is one  *)
(* step: the list of waiters is changed nowhere else, and the one read of  *)
(* it outside the lock is a step of its own.                               *)
(***************************************************************************)
EXTENDS Integers, Sequences, FiniteSets, Functions

CONSTANTS
    Threads,
    Mutexes,    \* the users' mutexes
    NoMutex     \* nullptr

VARIABLES
    claims,       \* the user's mutexes
    fifo,         \* _waiters_fifo, oldest first
    user_mutex,   \* _user_mutex
    pc,           \* where each thread is
    mtx,          \* the mutex each thread locked last
    sent,         \* the threads whose wait_record was passed to send_lock()
    batch, dest   \* locals of wake_all(): waiters still to send, and whereto

vars == <<claims, fifo, user_mutex, pc, mtx, sent, batch, dest>>

\* Lists of waiters: who is in one, and what is left without its i-th
Contains(list, t) == \E i \in 1 .. Len(list) : list[i] = t
Erase(list, i) == SubSeq(list, 1, i - 1) \o SubSeq(list, i + 1, Len(list))

Waiting == {"waiting", "expired", "collect"}

Init ==
    /\ claims = [m \in Mutexes |-> <<>>]
    /\ fifo = <<>>
    /\ user_mutex = NoMutex
    /\ pc = [t \in Threads |-> "run"]
    /\ mtx = [t \in Threads |-> CHOOSE m \in Mutexes : TRUE]
    /\ sent = {}
    /\ batch = [t \in Threads |-> <<>>]
    /\ dest = [t \in Threads |-> NoMutex]

Goto(t, l) == pc' = [pc EXCEPT ![t] = l]
Claim(m, t) == claims' = [claims EXCEPT ![m] = Append(@, t)]
Holds(t) == claims[mtx[t]] # <<>> /\ Head(claims[mtx[t]]) = t

\* wr.woken(): the record was sent to the mutex, and the mutex reached it.
Woken(t) == t \in sent /\ Holds(t)

locals == <<batch, dest>>
cond   == <<fifo, user_mutex>>

(***************************************************************************)
(* The users' locking.                                                     *)
(***************************************************************************)
Lock(t, m) ==
    /\ pc[t] = "run"
    /\ Claim(m, t)
    /\ mtx' = [mtx EXCEPT ![t] = m]
    /\ Goto(t, "lock")
    /\ UNCHANGED <<cond, sent, locals>>

Locked(t) ==
    /\ pc[t] \in {"lock", "relock"}
    /\ Holds(t)
    /\ Goto(t, "crit")
    /\ UNCHANGED <<claims, cond, mtx, sent, locals>>

Unlock(t) ==
    /\ pc[t] = "crit"
    /\ claims' = [claims EXCEPT ![mtx[t]] = Tail(@)]
    /\ Goto(t, "run")
    /\ UNCHANGED <<cond, mtx, sent, locals>>

(***************************************************************************)
(* wait().  Its users know that concurrent waits must use the same mutex.  *)
(***************************************************************************)
MayWait(t) ==
    /\ pc[t] = "crit"
    /\ \A u \in Threads : pc[u] \in Waiting \cup {"relock"} => mtx[u] = mtx[t]

\* The assertion at the top of wait().
SameMutex(t) == user_mutex \in {NoMutex, mtx[t]}

Wait(t) ==
    /\ MayWait(t)
    /\ SameMutex(t)
    /\ fifo' = Append(fifo, t)
    /\ user_mutex' = mtx[t]
    /\ claims' = [claims EXCEPT ![mtx[t]] = Tail(@)]
    /\ Goto(t, "waiting")
    /\ UNCHANGED <<mtx, sent, locals>>

\* The timer expires, and woken() is still false.
Expire(t) ==
    /\ pc[t] = "waiting"
    /\ ~ Woken(t)
    /\ Goto(t, "expired")
    /\ UNCHANGED <<claims, cond, mtx, sent, locals>>

\* A bug: nobody looks whether the record still is in the list.
RemoveExpiredBlind(t) ==
    /\ pc[t] = "expired"
    /\ fifo' = SelectSeq(fifo, LAMBDA u : u # t)
    /\ Claim(mtx[t], t)
    /\ Goto(t, "relock")
    /\ UNCHANGED <<user_mutex, mtx, sent, locals>>

\* The record is taken out of the list again, and the mutex locked: ETIMEDOUT.
RemoveExpired(t) ==
    /\ pc[t] = "expired"
    /\ \E i \in DOMAIN fifo : fifo[i] = t /\ fifo' = Erase(fifo, i)
    /\ Claim(mtx[t], t)
    /\ Goto(t, "relock")
    /\ UNCHANGED <<user_mutex, mtx, sent, locals>>

\* Somebody has taken it already, and will wake this thread up.
ExpiredTooLate(t) ==
    /\ pc[t] = "expired"
    /\ ~ Contains(fifo, t)
    /\ Goto(t, "collect")
    /\ UNCHANGED <<claims, cond, mtx, sent, locals>>

\* receive_lock(): the mutex is this thread's already.
ReceiveLock(t) ==
    /\ pc[t] \in {"waiting", "collect"}
    /\ Woken(t)
    /\ sent' = sent \ {t}
    /\ Goto(t, "crit")
    /\ UNCHANGED <<claims, cond, mtx, locals>>

(***************************************************************************)
(* wake_one() and wake_all(), called with or without the mutex.            *)
(***************************************************************************)
\* The look at the list outside the lock.
WakeCheck(t, l) ==
    /\ pc[t] \in {"run", "crit"}
    /\ fifo # <<>>
    /\ Goto(t, l)
    /\ UNCHANGED <<claims, cond, mtx, sent, locals>>

Return(t) == IF Holds(t) THEN "crit" ELSE "run"

WakeOne(t) ==
    /\ pc[t] = "wake_one"
    /\ fifo # <<>>
    /\ fifo' = Tail(fifo)
    /\ Claim(user_mutex, Head(fifo))
    /\ sent' = sent \cup {Head(fifo)}
    /\ user_mutex' = IF fifo' = <<>> THEN NoMutex ELSE user_mutex
    /\ Goto(t, Return(t))
    /\ UNCHANGED <<mtx, locals>>

WakeOneNobody(t) ==
    /\ pc[t] = "wake_one"
    /\ fifo = <<>>
    /\ Goto(t, Return(t))
    /\ UNCHANGED <<claims, cond, mtx, sent, locals>>

\* Bugs: the list is kept; _user_mutex is read after it was zeroed.
WakeAllTakeKeep(t) ==
    /\ pc[t] = "wake_all"
    /\ batch' = [batch EXCEPT ![t] = fifo]
    /\ dest' = [dest EXCEPT ![t] = user_mutex]
    /\ Goto(t, "send")
    /\ UNCHANGED <<claims, cond, mtx, sent>>

WakeAllTakeZero(t) ==
    /\ pc[t] = "wake_all"
    /\ batch' = [batch EXCEPT ![t] = fifo]
    /\ dest' = [dest EXCEPT ![t] = NoMutex]
    /\ fifo' = <<>>
    /\ user_mutex' = NoMutex
    /\ Goto(t, "send")
    /\ UNCHANGED <<claims, mtx, sent>>

WakeAllTake(t) ==
    /\ pc[t] = "wake_all"
    /\ batch' = [batch EXCEPT ![t] = fifo]
    /\ dest' = [dest EXCEPT ![t] = user_mutex]
    /\ fifo' = <<>>
    /\ user_mutex' = NoMutex
    /\ Goto(t, "send")
    /\ UNCHANGED <<claims, mtx, sent>>

\* Waiters on one CPU are sent one after another; the order is left open.
WakeAllSend(t, i) ==
    /\ pc[t] = "send"
    /\ batch' = [batch EXCEPT ![t] = Erase(@, i)]
    /\ Claim(dest[t], batch[t][i])
    /\ sent' = sent \cup {batch[t][i]}
    /\ UNCHANGED <<pc, cond, mtx, dest>>

WakeAllEnd(t) ==
    /\ pc[t] = "send"
    /\ batch[t] = <<>>
    /\ dest' = [dest EXCEPT ![t] = NoMutex]
    /\ Goto(t, Return(t))
    /\ UNCHANGED <<claims, cond, mtx, sent, batch>>

(***************************************************************************)
(* The specification.                                                      *)
(***************************************************************************)
\* A step of a call that has begun.
Step(t) ==
    \/ Locked(t) \/ RemoveExpired(t) \/ ExpiredTooLate(t) \/ ReceiveLock(t)
    \/ WakeOne(t) \/ WakeOneNobody(t)
    \/ WakeAllTake(t) \/ WakeAllEnd(t) \/ \E i \in DOMAIN batch[t] : WakeAllSend(t, i)

Call(t) ==
    \/ \E m \in Mutexes : Lock(t, m)
    \/ Unlock(t) \/ Wait(t) \/ Expire(t)
    \/ WakeCheck(t, "wake_one") \/ WakeCheck(t, "wake_all")

Next == \E t \in Threads : Step(t) \/ Call(t)

Spec == Init /\ [][Next]_vars

\* A call that has begun goes on, and a critical section ends.
Fairness ==
    \A t \in Threads : WF_vars(Step(t)) /\ SF_vars(Unlock(t))

FairSpec == Spec /\ Fairness

(***************************************************************************)
(* What the condition variable guarantees.                                 *)
(***************************************************************************)
\* The wait_record of t can be reached from where it is named.
InFifo(t)  == Contains(fifo, t)
InBatch(t) == \E u \in Threads : Contains(batch[u], t)
InMutex(t) == \E m \in Mutexes : Contains(claims[m], t)

\* No wake-up is lost and none is given twice: a thread inside wait() is in the
\* list, in the hands of one wake_all(), or sent to its mutex, and in just one
\* of these; a thread that has left wait() is in none, so that nobody touches
\* the record that was on its stack.
WaitersAccounted ==
    \A t \in Threads :
        /\ pc[t] \in Waiting =>
             /\ InFifo(t) \/ InBatch(t) \/ t \in sent
             /\ ~ (InFifo(t) /\ InBatch(t))
             /\ t \in sent => ~ InFifo(t) /\ ~ InBatch(t)
        /\ pc[t] \notin Waiting => ~ InFifo(t) /\ ~ InBatch(t) /\ t \notin sent

\* wait() returns with the mutex held, once: a thread queues for one mutex at a
\* time, the one it waits with, and owns it in its critical section; and
\* wake_one() and wake_all() send waiters to the mutex they came with.
MutexReturned ==
    /\ \A m \in Mutexes : IsInjective(claims[m])
    /\ \A t \in Threads, m \in Mutexes : Contains(claims[m], t) => m = mtx[t]
    /\ \A t \in Threads :
        /\ pc[t] \in {"lock", "relock", "crit"} \/ t \in sent => InMutex(t)
        /\ pc[t] = "run" => ~ InMutex(t)
        /\ pc[t] = "crit" => Holds(t)
    /\ \A i \in DOMAIN fifo : user_mutex = mtx[fifo[i]]
    /\ \A t \in Threads : \A i \in DOMAIN batch[t] : dest[t] = mtx[batch[t][i]]

\* A waiter that was picked by a wake-up returns from wait(), however its timer
\* races the wake-up and whoever else wants the mutex: it never stays picked
\* for ever, and it leaves that state with the mutex.
WakeupsReturn == \A t \in Threads : []<>~(InBatch(t) \/ t \in sent)

\* _user_mutex is zero when no wait() is going on, so that the assertion at the
\* top of wait() holds for users who keep the rule it stands for.
MutexForgotten == \A t \in Threads : MayWait(t) => SameMutex(t)

=============================================================================
