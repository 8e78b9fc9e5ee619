--------------------------- MODULE LFMutexInv ------------------------------
(***************************************************************************)
(* Proofs about LFMutex, for any finite set of threads, any range of the   *)
(* sequence counter and any recursion depth.                               *)
(*                                                                         *)
(* The argument: there is one token that stands for the right to decide    *)
(* who gets the mutex.  It is with a thread (Tok), on offer in handoff, or *)
(* nowhere, and then count is 0.  Every step moves it or leaves it alone.  *)
(***************************************************************************)
EXTENDS LFMutex, TLAPS

TokenLocations ==
    {"lk_own", "tl_inc", "sl_wake", "lk_pop", "lk_pop2", "lk_got",
     "ul_dec", "ul_pop", "ul_pop2", "ul_wake", "ul_hand"}

\* Thread t has the token.
Tok(t) == owner = t \/ pc[t] \in TokenLocations \/ woken[t]

In(s, w) == \E i \in 1..Len(s) : s[i] = w
Distinct(s) == \A i, j \in 1..Len(s) : s[i] = s[j] => i = j

\* Locations of lock() after its record is pushed.
Pushed == {"lk_hload", "lk_emp", "lk_emp2", "lk_cas", "lk_pop", "lk_pop2",
           "lk_got", "lk_wait"}

OneToken ==
    /\ \A t, u \in Threads : Tok(t) /\ Tok(u) => t = u
    /\ handoff # 0 => \A t \in Threads : ~ Tok(t)

TokenClaimed ==
    handoff # 0 \/ (\E t \in Threads : Tok(t)) => Claims # {}

\* The part of TypeOK that most steps of the argument need.
Shape ==
    /\ count \in Int
    /\ owner \in Threads \cup {NoThread}
    /\ handoff \in Nat
    /\ woken \in [Threads -> BOOLEAN]
    /\ pc \in [Threads -> Locations]
    /\ rec \in [Threads -> Threads]
    /\ other \in [Threads -> Threads \cup {NoThread}]

\* What the location of a thread says about the rest of its state.
OwnerInv ==
    \A t \in Threads :
        /\ owner = t => /\ pc[t] \notin TokenLocations
                        /\ ~ woken[t]
                        /\ pc[t] \in InLock \ {"lk_rec"} => rec[t] # t
                        /\ depth > 0
        /\ pc[t] = "lk_dec" => owner = t

WaitInv ==
    \A t \in Threads :
        /\ woken[t] => /\ pc[t] \in Pushed \cup {"lk_own"}
                       /\ pc[t] \notin {"lk_pop", "lk_pop2", "lk_got"}
                       /\ rec[t] = t
        /\ t \in parked => pc[t] = "lk_wait" /\ ~ woken[t]
        /\ rec[t] # t => /\ pc[t] \in (Pushed \cup {"lk_push", "sl_wake"})
                         /\ pc[t] # "lk_wait"
        /\ pc[t] = "sl_wake" => rec[t] # t

\* A thread for which another thread is about to push or wake a record.
Target(t, w) == pc[t] \in {"lk_push", "sl_wake"} /\ rec[t] = w /\ w # t

SendInv ==
    \A t, w \in Threads : Target(t, w) =>
        /\ pc[w] = "lk_wait" /\ rec[w] = w /\ ~ woken[w] /\ w \notin parked
        /\ \A u \in Threads : Target(u, w) => u = t

\* w is reachable from the queue or from a thread that popped it.
Reach(w) ==
    \/ In(pushlist, w)
    \/ In(poplist, w)
    \/ \E u \in Threads : In(taken[u], w)
    \/ \E u \in Threads : other[u] = w

PopInv ==
    \A u \in Threads :
        /\ taken[u] # <<>> <=> pc[u] \in {"lk_pop2", "ul_pop2"}
        /\ other[u] # NoThread => pc[u] \in {"lk_got", "ul_wake"}
        /\ pc[u] = "ul_wake" => other[u] # NoThread

ReachInv ==
    \A w \in Threads : Reach(w) =>
        /\ pc[w] \in Pushed /\ rec[w] = w /\ ~ woken[w] /\ w \notin parked
        /\ \A t \in Threads : ~ Target(t, w)

DistinctInv ==
    /\ Distinct(pushlist)
    /\ Distinct(poplist)
    /\ \A u \in Threads : Distinct(taken[u])
    /\ \A w \in Threads : ~ (In(pushlist, w) /\ In(poplist, w))
    /\ \A w, u \in Threads :
        /\ In(pushlist, w) \/ In(poplist, w) =>
             ~ In(taken[u], w) /\ other[u] # w
        /\ In(taken[u], w) => other[u] # w

\* A thread that may take the handoff will find a record to pop.
NonEmptyInv ==
    \A t \in Threads :
        \/ pc[t] = "lk_cas" /\ old[t] = handoff
        \/ pc[t] = "lk_pop"
        => poplist # <<>> \/ pushlist # <<>>

OldInv ==
    \A t \in Threads :
        /\ pc[t] \in {"lk_emp", "lk_emp2", "lk_cas", "tl_hcas", "ul_emp",
                      "ul_emp2", "ul_cas"} => old[t] # 0
        /\ pc[t] = "lk_got" => other[t] # NoThread

IInv ==
    /\ TypeOK /\ OneToken /\ TokenClaimed /\ CountExact
    /\ OwnerInv /\ WaitInv /\ SendInv
    /\ PopInv /\ ReachInv /\ DistinctInv /\ NonEmptyInv /\ OldInv

\* count is 0 only when the mutex is free and nobody wants it.
FreeInv ==
    count = 0 => /\ Claims = {} /\ handoff = 0 /\ owner = NoThread
                 /\ \A t \in Threads : ~ Tok(t)

\* A step of thread t in a state where the invariant holds.
InvStep(t) ==
    /\ IInv
    /\ FreeInv
    /\ Step(t) \/ Call(t)

=============================================================================
