------------------------------ MODULE MCLocks -------------------------------
(***************************************************************************)
(* The locks that threads wait for, checked in one run: a behaviour is one *)
(* of RWLock, whose variables are those of the module, or of CondVar, as   *)
(* the value of which says, and leaves the variables of the other as they  *)
(* were.                                                                   *)
(*                                                                         *)
(* RWLock: three threads, recursion up to two.                             *)
(* CondVar: the same threads and two mutexes.                              *)
(***************************************************************************)
EXTENDS RWLock

CONSTANTS Mutexes, NoMutex

VARIABLES
    which,      \* the component of this behaviour
    cv_claims, cv_fifo, cv_user_mutex, cv_pc, cv_mtx, cv_sent, cv_batch, cv_dest

cv_vars == <<
    cv_claims, cv_fifo, cv_user_mutex, cv_pc, cv_mtx, cv_sent, cv_batch, cv_dest>>
all_vars == <<which, cv_vars, vars>>

Cv == INSTANCE CondVar WITH
    claims <- cv_claims, fifo <- cv_fifo, user_mutex <- cv_user_mutex, pc <- cv_pc,
    mtx <- cv_mtx, sent <- cv_sent, batch <- cv_batch, dest <- cv_dest

LocksInit ==
    /\ which \in {"condvar", "rwlock"}
    /\ Cv!Init /\ Init

OnlyCv == which = "condvar" /\ UNCHANGED <<which, vars>>
OnlyRw == which = "rwlock" /\ UNCHANGED <<which, cv_vars>>

LocksNext ==
    \/ OnlyCv /\ Cv!Next
    \/ OnlyRw /\ Next

\* The fairness of the two modules.  Since which does not change, a disjunction of
\* actions of different modules is fair when the one that is meant is.
LocksSpec ==
    /\ LocksInit /\ [][LocksNext]_all_vars
    /\ \A t \in Threads :
        /\ WF_all_vars((OnlyCv /\ Cv!Step(t)) \/ (OnlyRw /\ (Step(t) \/ WUnlockNested(t))))
        /\ SF_all_vars((OnlyCv /\ Cv!Unlock(t)) \/ (OnlyRw /\ RUnlock(t)))
        /\ SF_all_vars(OnlyRw /\ WUnlock(t))

\* CondVar: a thread inside wait() is in the list, in the hands of one wake_all() or
\* sent to its mutex, and a thread that has left wait() is in none of them.
WaitersAccounted == Cv!WaitersAccounted

\* CondVar: wait() returns with the mutex it was called with, held once.
MutexReturned == Cv!MutexReturned

\* CondVar: a waiter that was picked by a wake-up returns from wait().
WakeupsReturn == Cv!WakeupsReturn
=============================================================================
