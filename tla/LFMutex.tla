------------------------------ MODULE LFMutex ------------------------------
(***************************************************************************)
(* The lock-free recursive mutex of core/lfmutex.cc, with its              *)
(* "Responsibility Hand-Off" (RHO) protocol between lock() and unlock().   *)
(* One action is one access to shared memory: an atomic read-modify-write, *)
(* a load that later decides something, or a store.  The accesses to       *)
(* depth and sequence, which only the thread in charge of the mutex makes, *)
(* are part of the neighbouring step.                                      *)
(*                                                                         *)
(* The wait queue is the queue_mpsc of include/lockfree/queue-mpsc.hh at   *)
(* the grain its callers can observe: a pushlist and a poplist, each kept  *)
(* here oldest first, which pop() drains in two steps and empty() reads in *)
(* two steps.  Every thread has at most one wait_record outstanding, so a  *)
(* record is named by its thread; woken[t] is "t.load() == nullptr" of     *)
(* wait_record.hh.                                                         *)
(***************************************************************************)
EXTENDS Integers, Sequences, FiniteSets

CONSTANTS
    Threads,    \* the threads that use the mutex
    NoThread,   \* nullptr, as the value of owner and of a pop()
    SeqMax,     \* largest value of the unsigned counter "sequence"
    MaxDepth    \* bound on the recursion of one thread

ASSUME ThreadsAssumption ==
    /\ IsFiniteSet(Threads)
    /\ NoThread \notin Threads

ASSUME BoundsAssumption ==
    /\ SeqMax \in Nat \ {0}
    /\ MaxDepth \in Nat \ {0}

VARIABLES
    count, owner, depth, handoff, sequence, \* the fields of class mutex
    pushlist, poplist,                      \* its waitqueue
    woken,                                  \* the wait_record of each thread
    parked,   \* threads asleep on a wait_record held by a condvar
    pc,       \* where each thread is; "run" is outside the mutex code
    rec,      \* the wait_record that lock() or send_lock() is pushing
    old,      \* local old_handoff (lock, try_lock) and ourhandoff (unlock)
    other,    \* local result of pop()
    taken     \* local list that pop() took from pushlist

held   == <<owner, depth>>
rho    == <<handoff, sequence>>
mutex  == <<count, held, rho>>
qvars  == <<pushlist, poplist>>
wvars  == <<woken, parked>>
popped == <<other, taken>>
locals == <<rec, old, popped>>
vars   == <<mutex, qvars, wvars, pc, locals>>

Locations ==
    {"run", "lk_rec", "lk_dec", "lk_push", "lk_hload", "lk_emp", "lk_emp2",
     "lk_cas", "lk_pop", "lk_pop2", "lk_got", "lk_wait", "lk_own", "sl_wake",
     "tl_rec", "tl_hload", "tl_hcas", "tl_inc",
     "ul_dec", "ul_pop", "ul_pop2", "ul_wake", "ul_hand", "ul_emp",
     "ul_emp2", "ul_cas"}

TypeOK ==
    /\ count \in Int
    /\ owner \in Threads \cup {NoThread}
    /\ depth \in Nat
    /\ handoff \in 0..SeqMax
    /\ sequence \in 0..SeqMax
    /\ pushlist \in Seq(Threads)
    /\ poplist \in Seq(Threads)
    /\ woken \in [Threads -> BOOLEAN]
    /\ parked \in SUBSET Threads
    /\ pc \in [Threads -> Locations]
    /\ rec \in [Threads -> Threads]
    /\ old \in [Threads -> 0..SeqMax]
    /\ other \in [Threads -> Threads \cup {NoThread}]
    /\ taken \in [Threads -> Seq(Threads)]

Init ==
    /\ count = 0 /\ owner = NoThread /\ depth = 0
    /\ handoff = 0 /\ sequence = 0
    /\ pushlist = <<>> /\ poplist = <<>>
    /\ woken = [t \in Threads |-> FALSE]
    /\ parked = {}
    /\ pc = [t \in Threads |-> "run"]
    /\ rec = [t \in Threads |-> t]
    /\ old = [t \in Threads |-> 0]
    /\ other = [t \in Threads |-> NoThread]
    /\ taken = [t \in Threads |-> <<>>]

At(t, l) == pc[t] = l
Goto(t, l) == pc' = [pc EXCEPT ![t] = l]

InLock == {"lk_rec", "lk_push", "lk_hload", "lk_emp", "lk_emp2", "lk_cas",
           "lk_pop", "lk_pop2", "lk_got", "lk_wait"}

\* A step that only decides where to continue.
Branch(t, l) ==
    /\ Goto(t, l)
    /\ UNCHANGED <<mutex, qvars, wvars, locals>>

\* The local variables go out of scope.
EndLocals(t) ==
    /\ old' = [old EXCEPT ![t] = 0]
    /\ other' = [other EXCEPT ![t] = NoThread]

\* Out of the hand-off protocol: lock() goes on to sleep, the others return.
Leave(t) ==
    /\ Goto(t, IF pc[t] \in InLock /\ rec[t] = t THEN "lk_wait" ELSE "run")
    /\ rec' = [rec EXCEPT ![t] = t]
    /\ EndLocals(t)

(***************************************************************************)
(* The wait queue, and the handoff cell.                                   *)
(***************************************************************************)
Push(w) ==
    /\ pushlist' = Append(pushlist, w)
    /\ UNCHANGED poplist

Result(t) == IF pc[t] \in InLock THEN "lk_got" ELSE "ul_wake"

\* pop(): serve from the poplist ...
PopHead(t) ==
    /\ pc[t] \in {"lk_pop", "ul_pop"}
    /\ poplist # <<>>
    /\ other' = [other EXCEPT ![t] = Head(poplist)]
    /\ poplist' = Tail(poplist)
    /\ Goto(t, Result(t))
    /\ UNCHANGED <<mutex, pushlist, wvars, rec, old, taken>>

\* ... or else take the whole pushlist ...
PopTake(t) ==
    /\ pc[t] \in {"lk_pop", "ul_pop"}
    /\ poplist = <<>> /\ pushlist # <<>>
    /\ taken' = [taken EXCEPT ![t] = pushlist]
    /\ pushlist' = <<>>
    /\ Goto(t, IF At(t, "lk_pop") THEN "lk_pop2" ELSE "ul_pop2")
    /\ UNCHANGED <<mutex, poplist, wvars, rec, old, other>>

\* Mutation: pop() forgets to reverse the list it took.
PopRestNewest(t) ==
    LET n == Len(taken[t])
    IN  /\ pc[t] \in {"lk_pop2", "ul_pop2"}
        /\ other' = [other EXCEPT ![t] = taken[t][n]]
        /\ poplist' = SubSeq(taken[t], 1, n - 1)
        /\ taken' = [taken EXCEPT ![t] = <<>>]
        /\ Goto(t, Result(t))
        /\ UNCHANGED <<mutex, pushlist, wvars, rec, old>>

\* ... store all of it but the oldest item in the poplist ...
PopRest(t) ==
    /\ pc[t] \in {"lk_pop2", "ul_pop2"}
    /\ other' = [other EXCEPT ![t] = Head(taken[t])]
    /\ poplist' = Tail(taken[t])
    /\ taken' = [taken EXCEPT ![t] = <<>>]
    /\ Goto(t, Result(t))
    /\ UNCHANGED <<mutex, pushlist, wvars, rec, old>>

\* ... unless there is nothing.
PopNone(t) ==
    /\ pc[t] \in {"lk_pop", "ul_pop"}
    /\ poplist = <<>> /\ pushlist = <<>>
    /\ Branch(t, IF At(t, "lk_pop") THEN "lk_got" ELSE "ul_hand")

\* empty() looks at the poplist, then at the pushlist.
EmptyNo(t) ==
    /\ \/ pc[t] \in {"lk_emp", "ul_emp"} /\ poplist # <<>>
       \/ pc[t] \in {"lk_emp2", "ul_emp2"} /\ pushlist # <<>>
    /\ Branch(t, IF pc[t] \in InLock THEN "lk_cas" ELSE "ul_cas")

EmptyMaybe(t) ==
    /\ pc[t] \in {"lk_emp", "ul_emp"}
    /\ poplist = <<>>
    /\ Branch(t, IF At(t, "lk_emp") THEN "lk_emp2" ELSE "ul_emp2")

EmptyYes(t) ==
    /\ pc[t] \in {"lk_emp2", "ul_emp2"}
    /\ pushlist = <<>>
    /\ Leave(t)
    /\ UNCHANGED <<mutex, qvars, wvars, taken>>

\* wait_record::wake(): clears the thread pointer its owner waits on.
Wake(w) == woken' = [woken EXCEPT ![w] = TRUE]

\* Mutation: the handoff is looked at but not cleared.
TakeHandoffKeep(t, next) ==
    /\ handoff = old[t]
    /\ Goto(t, next)
    /\ EndLocals(t)
    /\ UNCHANGED <<mutex, qvars, wvars, rec, taken>>

\* Mutation: handoff.exchange(0), which takes whatever handoff is there now.
TakeHandoffAny(t, next) ==
    /\ handoff' = 0
    /\ Goto(t, next)
    /\ EndLocals(t)
    /\ UNCHANGED <<count, held, sequence, qvars, wvars, rec, taken>>

\* handoff.compare_exchange_strong(old, 0)
TakeHandoff(t, next) ==
    /\ handoff = old[t]
    /\ handoff' = 0
    /\ Goto(t, next)
    /\ EndLocals(t)
    /\ UNCHANGED <<count, held, sequence, qvars, wvars, rec, taken>>

MissHandoff(t) ==
    /\ pc[t] \in {"lk_cas", "tl_hcas", "ul_cas"}
    /\ handoff # old[t]
    /\ Leave(t)
    /\ UNCHANGED <<mutex, qvars, wvars, taken>>

(***************************************************************************)
(* lock()                                                                  *)
(***************************************************************************)
Lock(t) ==
    /\ At(t, "run")
    /\ owner = t => depth < MaxDepth
    /\ count' = count + 1
    /\ Goto(t, IF count = 0 THEN "lk_own" ELSE "lk_rec")
    /\ UNCHANGED <<held, rho, qvars, wvars, locals>>

LockCheckOwner(t) ==
    /\ At(t, "lk_rec")
    /\ Branch(t, IF owner = t THEN "lk_dec" ELSE "lk_push")

LockDeepen(t) ==
    /\ At(t, "lk_dec")
    /\ count' = count - 1
    /\ depth' = depth + 1
    /\ Goto(t, "run")
    /\ UNCHANGED <<owner, rho, qvars, wvars, locals>>

\* lock() pushes the record it built, send_lock() the one it was given.
LockPush(t) ==
    /\ At(t, "lk_push")
    /\ Push(rec[t])
    /\ Goto(t, "lk_hload")
    /\ UNCHANGED <<mutex, wvars, locals>>

\* Mutation: the handoff is taken without asking whether the queue is empty.
LockSeeHandoffNoEmpty(t) ==
    /\ At(t, "lk_hload")
    /\ handoff # 0
    /\ old' = [old EXCEPT ![t] = handoff]
    /\ Goto(t, "lk_cas")
    /\ UNCHANGED <<mutex, qvars, wvars, rec, popped>>

LockSeeHandoff(t) ==
    /\ At(t, "lk_hload")
    /\ handoff # 0
    /\ old' = [old EXCEPT ![t] = handoff]
    /\ Goto(t, "lk_emp")
    /\ UNCHANGED <<mutex, qvars, wvars, rec, popped>>

LockNoHandoff(t) ==
    /\ At(t, "lk_hload")
    /\ handoff = 0
    /\ Leave(t)
    /\ UNCHANGED <<mutex, qvars, wvars, taken>>

LockTakeHandoff(t) == At(t, "lk_cas") /\ TakeHandoff(t, "lk_pop")

LockWakeOther(t) ==
    /\ At(t, "lk_got")
    /\ other[t] \notin {NoThread, t}
    /\ Wake(other[t])
    /\ Leave(t)
    /\ UNCHANGED <<mutex, qvars, parked, taken>>

LockPoppedSelf(t) ==
    /\ At(t, "lk_got")
    /\ other[t] = t
    /\ Goto(t, "lk_own")
    /\ EndLocals(t)
    /\ UNCHANGED <<mutex, qvars, wvars, rec, taken>>

\* Mutation: a thread that was scheduled does not look whether it was woken.
LockWaitOnce(t) ==
    /\ At(t, "lk_wait")
    /\ Branch(t, "lk_own")

LockWait(t) ==
    /\ At(t, "lk_wait")
    /\ woken[t]
    /\ Branch(t, "lk_own")

\* The stores that end lock(), try_lock() and receive_lock(), after which
\* the wait_record is gone.
TakeOwnership(t) ==
    /\ At(t, "lk_own")
    /\ owner' = t
    /\ depth' = 1
    /\ woken' = [woken EXCEPT ![t] = FALSE]
    /\ Goto(t, "run")
    /\ UNCHANGED <<count, rho, qvars, parked, locals>>

(***************************************************************************)
(* Wait morphing.  A thread parks on a wait_record that a condvar holds,   *)
(* and another thread locks the mutex on its behalf.                       *)
(***************************************************************************)
Park(t) ==
    /\ At(t, "run")
    /\ owner # t
    /\ parked' = parked \cup {t}
    /\ Goto(t, "lk_wait")
    /\ UNCHANGED <<mutex, qvars, woken, locals>>

SendLock(t, w) ==
    /\ At(t, "run")
    /\ w \in parked
    /\ parked' = parked \ {w}
    /\ rec' = [rec EXCEPT ![t] = w]
    /\ count' = count + 1
    /\ Goto(t, IF count = 0 THEN "sl_wake" ELSE "lk_push")
    /\ UNCHANGED <<held, rho, qvars, woken, old, popped>>

SendLockWake(t) ==
    /\ At(t, "sl_wake")
    /\ Wake(rec[t])
    /\ Leave(t)
    /\ UNCHANGED <<mutex, qvars, parked, taken>>

(***************************************************************************)
(* try_lock()                                                              *)
(***************************************************************************)
TryLock(t) ==
    /\ At(t, "run")
    /\ owner = t => depth < MaxDepth
    /\ count' = IF count = 0 THEN 1 ELSE count
    /\ Goto(t, IF count = 0 THEN "lk_own" ELSE "tl_rec")
    /\ UNCHANGED <<held, rho, qvars, wvars, locals>>

TryLockCheckOwner(t) ==
    /\ At(t, "tl_rec")
    /\ depth' = IF owner = t THEN depth + 1 ELSE depth
    /\ Goto(t, IF owner = t THEN "run" ELSE "tl_hload")
    /\ UNCHANGED <<count, owner, rho, qvars, wvars, locals>>

TryLockLoadHandoff(t) ==
    /\ At(t, "tl_hload")
    /\ old' = [old EXCEPT ![t] = handoff]
    /\ Goto(t, IF handoff # 0 THEN "tl_hcas" ELSE "run")
    /\ UNCHANGED <<mutex, qvars, wvars, rec, popped>>

TryLockTakeHandoff(t) == At(t, "tl_hcas") /\ TakeHandoff(t, "tl_inc")

\* Mutation: try_lock() takes the handoff but does not count itself.
TryLockCountNot(t) ==
    /\ At(t, "tl_inc")
    /\ Branch(t, "lk_own")

TryLockCount(t) ==
    /\ At(t, "tl_inc")
    /\ count' = count + 1
    /\ Goto(t, "lk_own")
    /\ UNCHANGED <<held, rho, qvars, wvars, locals>>

(***************************************************************************)
(* unlock()                                                                *)
(***************************************************************************)
UnlockShallower(t) ==
    /\ At(t, "run")
    /\ owner = t
    /\ depth > 1
    /\ depth' = depth - 1
    /\ UNCHANGED <<count, owner, rho, qvars, wvars, pc, locals>>

Unlock(t) ==
    /\ At(t, "run")
    /\ owner = t
    /\ depth = 1
    /\ depth' = 0
    /\ owner' = NoThread
    /\ Goto(t, "ul_dec")
    /\ UNCHANGED <<count, rho, qvars, wvars, locals>>

UnlockCount(t) ==
    /\ At(t, "ul_dec")
    /\ count' = count - 1
    /\ Goto(t, IF count = 1 THEN "run" ELSE "ul_pop")
    /\ UNCHANGED <<held, rho, qvars, wvars, locals>>

UnlockWake(t) ==
    /\ At(t, "ul_wake")
    /\ Wake(other[t])
    /\ Leave(t)
    /\ UNCHANGED <<mutex, qvars, parked, taken>>

\* ++sequence on an unsigned that wraps, never leaving it at 0.
NextSequence == IF sequence = SeqMax THEN 1 ELSE sequence + 1

\* The assumption of mutex.hh:47-49: no CPU pauses with a handoff number it
\* loaded for so long that the counter comes round to that number again.
NotStale(n) ==
    \A u \in Threads :
        pc[u] \in {"lk_emp", "lk_emp2", "lk_cas", "tl_hcas", "ul_emp",
                   "ul_emp2", "ul_cas"} => old[u] # n

\* Mutation: unlock() returns without a second look at the queue.
UnlockHandoffBlind(t) ==
    /\ At(t, "ul_hand")
    /\ NotStale(NextSequence)
    /\ sequence' = NextSequence
    /\ handoff' = NextSequence
    /\ Goto(t, "run")
    /\ UNCHANGED <<count, held, qvars, wvars, locals>>

UnlockHandoff(t) ==
    /\ At(t, "ul_hand")
    /\ NotStale(NextSequence)
    /\ sequence' = NextSequence
    /\ handoff' = NextSequence
    /\ old' = [old EXCEPT ![t] = NextSequence]
    /\ Goto(t, "ul_emp")
    /\ UNCHANGED <<count, held, qvars, wvars, rec, popped>>

UnlockTakeHandoff(t) == At(t, "ul_cas") /\ TakeHandoff(t, "ul_pop")

(***************************************************************************)
(* The specification.                                                      *)
(***************************************************************************)
\* A step inside the mutex code, or out of a wait.
Step(t) ==
    \/ PopHead(t) \/ PopTake(t) \/ PopRest(t) \/ PopNone(t)
    \/ EmptyNo(t) \/ EmptyMaybe(t) \/ EmptyYes(t) \/ MissHandoff(t)
    \/ LockCheckOwner(t) \/ LockDeepen(t) \/ LockPush(t) \/ LockSeeHandoff(t)
    \/ LockNoHandoff(t) \/ LockTakeHandoff(t) \/ LockWakeOther(t)
    \/ LockPoppedSelf(t) \/ LockWait(t) \/ TakeOwnership(t) \/ SendLockWake(t)
    \/ TryLockCheckOwner(t) \/ TryLockLoadHandoff(t) \/ TryLockTakeHandoff(t)
    \/ TryLockCount(t)
    \/ UnlockCount(t) \/ UnlockWake(t) \/ UnlockHandoff(t)
    \/ UnlockTakeHandoff(t)

\* A call into the mutex code.
Call(t) ==
    \/ Lock(t) \/ TryLock(t) \/ UnlockShallower(t) \/ Unlock(t) \/ Park(t)
    \/ \E w \in Threads : SendLock(t, w)

Next == \E t \in Threads : Step(t) \/ Call(t)

Spec == Init /\ [][Next]_vars

\* A thread inside the mutex code keeps executing, and the one thread that
\* holds the mutex eventually leaves its critical section.
Fairness ==
    /\ \A t \in Threads : WF_vars(Step(t))
    /\ SF_vars(\E t \in Threads : UnlockShallower(t))
    /\ SF_vars(\E t \in Threads : Unlock(t))

FairSpec == Spec /\ Fairness

(***************************************************************************)
(* What the mutex guarantees.                                              *)
(***************************************************************************)
Popping == {"lk_pop", "lk_pop2", "ul_pop", "ul_pop2"}

\* t was counted in count: it holds the mutex or has asked for it.
Claims ==
    {t \in Threads :
        \/ owner = t
        \/ pc[t] \in {"lk_own", "ul_dec"}
        \/ pc[t] \in InLock /\ rec[t] = t /\ t \notin parked}

\* A recursive lock() counts its thread once more until it sees it is one.
Recursing == {t \in Threads : owner = t /\ pc[t] \in {"lk_rec", "lk_dec"}}

\* The mutex was given to t, whether t has noticed or not.
Granted(t) ==
    \/ owner = t
    \/ pc[t] \in {"lk_own", "tl_inc"}
    \/ pc[t] \in InLock \ {"lk_rec", "lk_push"} /\ rec[t] = t /\ woken[t]
    \/ \E u \in Threads : pc[u] = "sl_wake" /\ rec[u] = t

\* Two threads never have the mutex at once, neither by owner nor by a grant
\* the winner has not noticed yet: lock(), try_lock(), unlock() and send_lock()
\* pass it on only from the one thread in charge.
MutualExclusion ==
    \A t, u \in Threads : Granted(t) /\ Granted(u) => t = u

\* The claim of include/lockfree/mutex.hh:22-39: pop(), which supports a
\* single consumer, is never run by two threads at once, nor while a handoff
\* that would let a third thread pop is on offer.
SinglePopper ==
    \A t \in Threads : pc[t] \in Popping =>
        /\ handoff = 0
        /\ \A u \in Threads \ {t} : pc[u] \notin Popping

\* The assertions of lock(), send_lock() and unlock() (lfmutex.cc:66, 74, 131,
\* 222, 247): a pop() after taking a handoff finds a record, whoever takes one
\* to wake another thread was not itself woken, the owner has a depth, and
\* unlock() never pops itself.
AssertionsHold ==
    \A t \in Threads :
        /\ owner = t => depth # 0
        /\ pc[t] = "lk_got" => other[t] # NoThread
        /\ pc[t] = "lk_got" /\ other[t] # t /\ rec[t] = t => ~ woken[t]
        /\ pc[t] = "ul_wake" => other[t] # t

\* A wait_record lives on the stack of lock(): as long as the queue, or a
\* thread that popped it, can still reach it, its thread has not left lock()
\* and was not woken.
RecordsAlive ==
    \A w \in Threads :
        \/ \E i \in DOMAIN pushlist : pushlist[i] = w
        \/ \E i \in DOMAIN poplist : poplist[i] = w
        \/ \E t \in Threads : \E i \in DOMAIN taken[t] : taken[t][i] = w
        \/ \E t \in Threads : pc[t] \in {"lk_got", "ul_wake"} /\ other[t] = w
        => pc[w] \in InLock /\ ~ woken[w]

\* count is the number of threads that hold or want the mutex, so that 0 means
\* free; only try_lock() counts itself after the fact.
CountExact == count = Cardinality(Claims) + Cardinality(Recursing)

\* While a handoff is on offer and some thread wants the mutex, a thread that
\* will still look at the handoff is on its way: unlock() never returns
\* leaving only sleepers behind.
HandoffNoticed ==
    handoff # 0 =>
        \E t \in Threads :
            \/ pc[t] \in {"lk_rec", "lk_push", "lk_hload"}
            \/ pc[t] \in {"lk_emp", "lk_emp2", "lk_cas", "tl_hcas", "ul_emp",
                          "ul_emp2", "ul_cas"} /\ old[t] = handoff

\* Every thread counted in count obtains the mutex: no wake-up is lost between
\* a lock() that is about to queue and an unlock() that finds the queue empty.
ClaimServed(t) == t \in Claims /\ pc[t] # "ul_dec" ~> owner = t

=============================================================================
