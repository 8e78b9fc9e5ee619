------------------------------ MODULE Workers -------------------------------
(***************************************************************************)
(* core/percpu-worker.cc: worker items that are signalled for a CPU and    *)
(* are run there by a thread, the sheriff.  A store to _duty that is not   *)
(* followed by a fence may reach the other CPUs only after later loads of  *)
(* the sheriff: it waits in the store buffer of the CPU.  The fences are   *)
(* the status store of prepare_wait() and the first access of the one      *)
(* handler there is, garbage_collector_fn(), an atomic exchange.           *)
(***************************************************************************)
EXTENDS Integers, FiniteSets

CONSTANTS
    Cpus,
    LastItem,       \* the items of .percpu_workers are 1..LastItem
    MaxSignals      \* bound on the calls of signal()

VARIABLES
    have_work,      \* have_work[c]: the items whose _have_work is set for c
    duty, ready,    \* _duty and _ready of each CPU
    buffered,       \* the sheriff's store of false to _duty is in the buffer
    sheriff, wi,    \* where the sheriff of a CPU is, and its item
    asleep,         \* it waits and was not woken
    caller,         \* caller[s]: the signal() that CPU s executes
    signals,        \* the number of calls of signal()
    new,            \* new[c]: items signalled for c and not run since
    owed            \* owed[c]: those of them for which signal() returns true

flags == <<have_work, duty, ready, buffered>>
sheriffs == <<sheriff, wi, asleep>>
ghosts == <<new, owed>>
vars == <<flags, sheriffs, caller, signals, ghosts>>

Items == 1..LastItem
NoCall == [at |-> "out"]

Init ==
    /\ have_work = [c \in Cpus |-> {}]
    /\ duty = [c \in Cpus |-> FALSE] /\ ready = [c \in Cpus |-> FALSE]
    /\ buffered = [c \in Cpus |-> FALSE]
    /\ sheriff = [c \in Cpus |-> "none"] /\ wi = [c \in Cpus |-> 1]
    /\ asleep = [c \in Cpus |-> FALSE]
    /\ caller = [s \in Cpus |-> NoCall] /\ signals = 0
    /\ new = [c \in Cpus |-> {}] /\ owed = [c \in Cpus |-> {}]

-----------------------------------------------------------------------------
\* The switch from the sheriff to another thread of its CPU is a fence.
At(s, l) == caller[s].at = l /\ ~buffered[s]

\* worker_item::signal(): work for a CPU on which programs run already
signal(s, c, item) ==
    /\ At(s, "out") /\ sheriff[c] # "none" /\ signals < MaxSignals
    /\ signals' = signals + 1
    /\ have_work' = [have_work EXCEPT ![c] = @ \cup {item}]
    /\ new' = [new EXCEPT ![c] = @ \cup {item}]
    /\ caller' = [caller EXCEPT ![s] = [at |-> "workman", cpu |-> c, item |-> item]]
    /\ UNCHANGED <<duty, ready, buffered, sheriffs, owed>>

\* workman::signal(): _ready is that of the calling CPU.
workman_signal(s) ==
    LET c == caller[s].cpu
    IN  /\ At(s, "workman")
        /\ IF ready[s]
           THEN /\ duty' = [duty EXCEPT ![c] = TRUE]
                /\ owed' = [owed EXCEPT ![c] = @ \cup (new[c] \cap {caller[s].item})]
                /\ caller' = [caller EXCEPT ![s].at = "wake"]
           ELSE caller' = [caller EXCEPT ![s] = NoCall] /\ UNCHANGED <<duty, owed>>
        /\ UNCHANGED <<have_work, ready, buffered, sheriffs, signals, new>>

wake(s) ==
    LET c == caller[s].cpu
    IN  /\ At(s, "wake")
        /\ asleep' = [asleep EXCEPT ![c] = FALSE]
        /\ caller' = [caller EXCEPT ![s] = NoCall]
        /\ UNCHANGED <<flags, sheriff, wi, signals, ghosts>>

-----------------------------------------------------------------------------
pcpu_init(c) ==
    /\ sheriff[c] = "none"
    /\ duty' = [duty EXCEPT ![c] = FALSE]
    /\ sheriff' = [sheriff EXCEPT ![c] = "start"]
    /\ UNCHANGED <<have_work, ready, buffered, wi, asleep, caller, signals, ghosts>>

\* call_of_duty()
start(c) ==
    /\ sheriff[c] = "start"
    /\ ready' = [ready EXCEPT ![c] = TRUE]
    /\ sheriff' = [sheriff EXCEPT ![c] = "wait"]
    /\ UNCHANGED <<have_work, duty, buffered, wi, asleep, caller, signals, ghosts>>

wait_until(c) ==
    /\ sheriff[c] = "wait" /\ ~asleep[c] /\ ~buffered[c]
    /\ IF duty[c] THEN sheriff' = [sheriff EXCEPT ![c] = "answer"] /\ UNCHANGED asleep
       ELSE asleep' = [asleep EXCEPT ![c] = TRUE] /\ UNCHANGED sheriff
    /\ UNCHANGED <<flags, wi, caller, signals, ghosts>>

clear_duty(c) ==
    /\ sheriff[c] = "answer"
    /\ buffered' = [buffered EXCEPT ![c] = TRUE]
    /\ sheriff' = [sheriff EXCEPT ![c] = "scan"]
    /\ wi' = [wi EXCEPT ![c] = 1]
    /\ UNCHANGED <<have_work, duty, ready, asleep, caller, signals, ghosts>>

\* The store to _duty gets out of the store buffer.
Drain(c) ==
    /\ buffered[c]
    /\ duty' = [duty EXCEPT ![c] = FALSE]
    /\ buffered' = [buffered EXCEPT ![c] = FALSE]
    /\ UNCHANGED <<have_work, ready, sheriffs, caller, signals, ghosts>>

have_workOf(c) ==
    /\ sheriff[c] = "scan"
    /\ IF wi[c] > LastItem THEN sheriff' = [sheriff EXCEPT ![c] = "wait"] /\ UNCHANGED wi
       ELSE IF wi[c] \in have_work[c]
       THEN sheriff' = [sheriff EXCEPT ![c] = "clear"] /\ UNCHANGED wi
       ELSE wi' = [wi EXCEPT ![c] = @ + 1] /\ UNCHANGED sheriff
    /\ UNCHANGED <<flags, asleep, caller, signals, ghosts>>

\* clear_work(); the store is out of the buffer when the handler begins.
clear_work(c) ==
    /\ sheriff[c] = "clear" /\ ~buffered[c]
    /\ have_work' = [have_work EXCEPT ![c] = @ \ {wi[c]}]
    /\ sheriff' = [sheriff EXCEPT ![c] = "handler"]
    /\ UNCHANGED <<duty, ready, buffered, wi, asleep, caller, signals, ghosts>>

\* set_finished() clears the flag once more when the handler is done.
handlerFinished(c) ==
    /\ \/ /\ sheriff[c] = "handler"
          /\ new' = [new EXCEPT ![c] = @ \ {wi[c]}] /\ owed' = [owed EXCEPT ![c] = @ \ {wi[c]}]
          /\ sheriff' = [sheriff EXCEPT ![c] = "finished"]
          /\ UNCHANGED <<have_work, wi>>
       \/ /\ sheriff[c] = "finished"
          /\ have_work' = [have_work EXCEPT ![c] = @ \ {wi[c]}]
          /\ sheriff' = [sheriff EXCEPT ![c] = "scan"]
          /\ wi' = [wi EXCEPT ![c] = @ + 1]
          /\ UNCHANGED ghosts
    /\ UNCHANGED <<duty, ready, buffered, asleep, caller, signals>>

handler(c) ==
    /\ sheriff[c] = "handler"
    /\ new' = [new EXCEPT ![c] = @ \ {wi[c]}]
    /\ owed' = [owed EXCEPT ![c] = @ \ {wi[c]}]
    /\ sheriff' = [sheriff EXCEPT ![c] = "scan"]
    /\ wi' = [wi EXCEPT ![c] = @ + 1]
    /\ UNCHANGED <<flags, asleep, caller, signals>>

call_of_duty(c) ==
    \/ start(c) \/ wait_until(c) \/ clear_duty(c) \/ Drain(c)
    \/ have_workOf(c) \/ clear_work(c) \/ handler(c)

Proceed(c) == workman_signal(c) \/ wake(c)

Next == \E c \in Cpus : \/ pcpu_init(c) \/ call_of_duty(c) \/ Proceed(c)
                        \/ \E d \in Cpus, item \in Items : signal(c, d, item)

Spec == Init /\ [][Next]_vars

\* The threads of all CPUs run, and store buffers empty themselves.
FairSpec ==
    Spec /\ \A c \in Cpus : WF_vars(call_of_duty(c)) /\ WF_vars(Proceed(c)) /\ WF_vars(Drain(c))

-----------------------------------------------------------------------------
\* worker_item::signal() and clear_work(): the handler of an item that was
\* signalled will be called as soon as the sheriff looks at the item, whatever
\* the order in which the sheriff clears and others set _have_work.
WorkKept ==
    \A c \in Cpus : new[c] \subseteq have_work[c] \cup
                      (IF sheriff[c] = "handler" THEN {wi[c]} ELSE {})

\* "we want the sheriff to see _duty=true only after _have_work=true ... we may
\* miss it in the sheriff thread": no signal() that returns true is missed.
WorkDone == \A c \in Cpus : []<>(owed[c] = {})
=============================================================================
