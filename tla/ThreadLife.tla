----------------------------- MODULE ThreadLife -----------------------------
(***************************************************************************)
(* The end of a thread in core/sched.cc: complete(), the destroy() that    *)
(* the next thread of the CPU runs, join(), detach(), ~thread() and the    *)
(* reaper of detached threads.  A thread is two pieces of memory: the      *)
(* thread object with its stack, deleted by ~thread(), and _detached_state *)
(* (ds), which is disposed of through RCU.  Waiting and waking up are those*)
(* of module Sched: a check that fails and going to sleep are one step.    *)
(***************************************************************************)
EXTENDS Integers, Sequences, FiniteSets

CONSTANTS
    Cpus,
    Threads,
    Owner,      \* Owner[t]: the thread that starts t and joins or detaches it
    Main,       \* a thread that does not end
    Reaper

None == "none"

\* Nobody starts, joins or detaches itself before it runs; main(), the reaper and
\* nullptr are none of the threads that come and go.
ASSUME OwnerAssumption ==
    /\ Owner \in [Threads -> Threads \cup {Main}]
    /\ \A t \in Threads : Owner[t] # t
    /\ {Main, Reaper, None} \cap Threads = {}
    /\ Main # Reaper /\ Main # None /\ Reaper # None

VARIABLES
    st,             \* detached_state::st: unstarted, running, terminating, terminated
    detach_state,   \* attached, detached, attached_complete
    detached,       \* _attr._detached
    joiner,         \* _joiner
    object,         \* the thread object has not been deleted
    ds,             \* ds: alive, disposed or freed
    grace,          \* the CPUs that the grace period of a disposed ds waits for
    pc,             \* where the thread itself is
    client,         \* client[t]: the call on t that is going on, and its caller
    terminating_thread,
    destroying,     \* destroying[c]: the thread that CPU c destroys, and where it is
    zombies, reap,  \* the reaper's queue and what it does, under its mutex
    asleep

life == <<st, detach_state, detached, joiner>>
memory == <<object, ds, grace>>
cpus == <<terminating_thread, destroying>>
reaper == <<zombies, reap>>
vars == <<life, memory, pc, client, cpus, reaper, asleep>>

Nobody == [at |-> "none", of |-> None]

Init ==
    /\ detached \in [Threads -> BOOLEAN]
    /\ st = [t \in Threads |-> "unstarted"]
    /\ detach_state = [t \in Threads |-> IF detached[t] THEN "detached" ELSE "attached"]
    /\ joiner = [t \in Threads |-> None]
    /\ object = [t \in Threads |-> TRUE]
    /\ ds = [t \in Threads |-> "alive"]
    /\ grace = [t \in Threads |-> {}]
    /\ pc = [t \in Threads |-> "run"]
    /\ client = [t \in Threads |-> [at |-> "own", by |-> Owner[t]]]
    /\ terminating_thread = [c \in Cpus |-> None]
    /\ destroying = [c \in Cpus |-> Nobody]
    /\ zombies = <<>> /\ reap = Nobody
    /\ asleep = {}

\* A thread can make the next step of its own code.
Runs(o) == o \notin asleep /\ (o \in Threads => st[o] = "running" /\ pc[o] = "run")
Calls(o) == {t \in Threads : client[t].by = o /\ client[t].at \notin {"own", "done"}}
Wake(o) == asleep' = asleep \ {o}
Client(t, at) == client' = [client EXCEPT ![t].at = at]

-----------------------------------------------------------------------------
start(t) ==
    /\ Runs(Owner[t]) /\ Calls(Owner[t]) = {} /\ st[t] = "unstarted" /\ object[t]
    /\ st' = [st EXCEPT ![t] = "running"]
    /\ client' = [client EXCEPT ![t].at = IF detached[t] THEN "done" ELSE @]
    /\ UNCHANGED <<detach_state, detached, joiner, memory, pc, cpus, reaper, asleep>>

\* join(), by pthread_join() and once more by ~thread()
join(t) ==
    /\ client[t].at \in {"own", "joined"} /\ ~detached[t]
    /\ client[t].by = Owner[t] /\ Runs(Owner[t]) /\ Calls(Owner[t]) \subseteq {t}
    /\ IF st[t] # "unstarted" /\ joiner[t] = None
       THEN joiner' = [joiner EXCEPT ![t] = Owner[t]] /\ Client(t, "wait")
       ELSE Client(t, "joined") /\ UNCHANGED joiner
    /\ UNCHANGED <<st, detach_state, detached, memory, pc, cpus, reaper, asleep>>

joinWait(t) ==
    /\ client[t].at = "wait" /\ Runs(Owner[t])
    /\ IF st[t] = "terminated"
       THEN Client(t, "joined") /\ UNCHANGED asleep
       ELSE asleep' = asleep \cup {Owner[t]} /\ UNCHANGED client
    /\ UNCHANGED <<life, memory, pc, cpus, reaper>>

\* The rest of ~thread(): object and stack go, and ds after a grace period.
InSection == {c \in Cpus : destroying[c].at \in {"cas", "store", "storeWake", "wake"}}
Delete(t) ==
    /\ object' = [object EXCEPT ![t] = FALSE]
    /\ ds' = [ds EXCEPT ![t] = "disposed"]
    /\ grace' = [grace EXCEPT ![t] = InSection]

delete(t) ==
    /\ client[t].at = "joined" /\ Runs(Owner[t])
    /\ Delete(t) /\ Client(t, "done")
    /\ UNCHANGED <<life, pc, cpus, reaper, asleep>>

rcu_dispose(t) ==
    /\ ds[t] = "disposed" /\ grace[t] = {}
    /\ ds' = [ds EXCEPT ![t] = "freed"]
    /\ UNCHANGED <<life, object, grace, pc, client, cpus, reaper, asleep>>

\* detach(), by the owner or by the thread itself
detach(t, o) ==
    /\ client[t].at = "own" /\ st[t] # "unstarted" /\ Runs(o) /\ Calls(o) = {}
    /\ detached' = [detached EXCEPT ![t] = TRUE]
    /\ client' = [client EXCEPT ![t] = [at |-> "detach", by |-> o]]
    /\ UNCHANGED <<st, detach_state, joiner, memory, pc, cpus, reaper, asleep>>

\* Whoever detaches leaves the thread to the reaper.
detachCasAdd(t) ==
    /\ client[t].at = "detach" /\ Runs(client[t].by)
    /\ detach_state' = [detach_state EXCEPT ![t] = IF @ = "attached" THEN "detached" ELSE @]
    /\ Client(t, "zombie")
    /\ UNCHANGED <<st, detached, joiner, memory, pc, cpus, reaper, asleep>>

detachCas(t) ==
    /\ client[t].at = "detach" /\ Runs(client[t].by)
    /\ detach_state' = [detach_state EXCEPT ![t] = IF @ = "attached" THEN "detached" ELSE @]
    /\ Client(t, IF detach_state[t] = "attached_complete" THEN "zombie" ELSE "done")
    /\ UNCHANGED <<st, detached, joiner, memory, pc, cpus, reaper, asleep>>

\* The reaper holds its mutex from when it finds a zombie until it sleeps again.
add_zombie(t) ==
    /\ reap = Nobody
    /\ zombies' = Append(zombies, t)
    /\ Wake(Reaper)
    /\ UNCHANGED reap

detachZombie(t) ==
    /\ client[t].at = "zombie" /\ Runs(client[t].by)
    /\ add_zombie(t) /\ Client(t, "done")
    /\ UNCHANGED <<life, memory, pc, cpus>>

-----------------------------------------------------------------------------
At(t, p) == pc[t] = p
Go(t, p) == pc' = [pc EXCEPT ![t] = p]

\* detach_state is read, and written only later.
completeLate(t) ==
    /\ st[t] = "running" /\ Runs(t) /\ Calls(t) = {}
    /\ Go(t, IF detach_state[t] = "detached" THEN "zombie" ELSE "exit")
    /\ UNCHANGED <<life, memory, client, cpus, reaper, asleep>>

complete(t) ==
    /\ st[t] = "running" /\ Runs(t) /\ Calls(t) = {}
    /\ detach_state' = [detach_state EXCEPT ![t] = IF @ = "attached" THEN "attached_complete" ELSE @]
    /\ Go(t, IF detach_state[t] = "detached" THEN "zombie" ELSE "exit")
    /\ UNCHANGED <<st, detached, joiner, memory, client, cpus, reaper, asleep>>

completeZombie(t) ==
    /\ At(t, "zombie") /\ add_zombie(t) /\ Go(t, "exit")
    /\ UNCHANGED <<life, memory, client, cpus>>

\* From here on with preemption disabled, on CPU c.  A thread that ends before the
\* CPU went through reschedule() again finds the slot taken.
completeTerminating(t, c) ==
    /\ At(t, "exit") /\ destroying[c] = Nobody
    /\ st' = [st EXCEPT ![t] = "terminating"]
    /\ IF terminating_thread[c] # None
       THEN /\ destroying' = [destroying EXCEPT ![c] = [at |-> "cas", of |-> terminating_thread[c]]]
            /\ Go(t, "displace")
       ELSE Go(t, "off") /\ UNCHANGED destroying
    /\ terminating_thread' = [terminating_thread EXCEPT ![c] = t]
    /\ UNCHANGED <<detach_state, detached, joiner, memory, client, reaper, asleep>>

\* reschedule() returns in the next thread
destroy_current_cpu_terminating_thread(c) ==
    /\ destroying[c] = Nobody /\ terminating_thread[c] # None
    /\ destroying' = [destroying EXCEPT ![c] = [at |-> "cas", of |-> terminating_thread[c]]]
    /\ terminating_thread' = [terminating_thread EXCEPT ![c] = None]
    /\ UNCHANGED <<life, memory, pc, client, reaper, asleep>>

\* destroy() is over; it was called by the next thread or by complete().
Left(c) ==
    /\ destroying' = [destroying EXCEPT ![c] = Nobody]
    /\ grace' = [t \in Threads |-> grace[t] \ {c}]
    /\ pc' = [t \in Threads |-> IF At(t, "displace") /\ terminating_thread[c] = t THEN "off" ELSE pc[t]]

\* The status says terminated before _joiner is settled.
destroyEarly(c) ==
    LET t == destroying[c].of
    IN  /\ destroying[c].at = "cas"
        /\ IF st[t] = "terminating"
           THEN st' = [st EXCEPT ![t] = "terminated"] /\ UNCHANGED <<joiner, destroying>>
           ELSE /\ joiner' = IF joiner[t] = None THEN [joiner EXCEPT ![t] = t] ELSE joiner
                /\ destroying' = [destroying EXCEPT ![c].at = IF joiner[t] = None THEN "store" ELSE "storeWake"]
                /\ UNCHANGED st
        /\ UNCHANGED <<detach_state, detached, memory, pc, client, terminating_thread, reaper, asleep>>

destroy(c) ==
    LET t == destroying[c].of
    IN  /\ destroying[c].at = "cas"
        /\ joiner' = IF joiner[t] = None THEN [joiner EXCEPT ![t] = t] ELSE joiner
        /\ destroying' = [destroying EXCEPT ![c].at = IF joiner[t] = None THEN "store" ELSE "storeWake"]
        /\ UNCHANGED <<st, detach_state, detached, memory, pc, client, terminating_thread, reaper, asleep>>

destroyStore(c) ==
    /\ destroying[c].at = "store"
    /\ st' = [st EXCEPT ![destroying[c].of] = "terminated"]
    /\ Left(c)
    /\ UNCHANGED <<detach_state, detached, joiner, object, ds, client, terminating_thread, reaper, asleep>>

\* wake_with(): ds of the joiner is read, the status stored, the joiner woken.
destroyStoreWake(c) ==
    /\ destroying[c].at = "storeWake"
    /\ st' = [st EXCEPT ![destroying[c].of] = "terminated"]
    /\ destroying' = [destroying EXCEPT ![c] = [at |-> "wake", of |-> joiner[destroying[c].of]]]
    /\ UNCHANGED <<detach_state, detached, joiner, memory, pc, client, terminating_thread, reaper, asleep>>

destroyWake(c) ==
    /\ destroying[c].at = "wake"
    /\ Wake(destroying[c].of)
    /\ Left(c)
    /\ UNCHANGED <<life, object, ds, client, terminating_thread, reaper>>

-----------------------------------------------------------------------------
\* The reaper's loop: sleep, or take a zombie and join it with the mutex held
Reap(at, z) == reap' = [at |-> at, of |-> z]

reapNext ==
    /\ Runs(Reaper) /\ reap.at \in {"none", "next"}
    /\ IF zombies = <<>>
       THEN asleep' = asleep \cup {Reaper} /\ reap' = Nobody /\ UNCHANGED zombies
       ELSE Reap("join", Head(zombies)) /\ zombies' = Tail(zombies) /\ UNCHANGED asleep
    /\ UNCHANGED <<life, memory, pc, client, cpus>>

reapJoin ==
    /\ reap.at = "join"
    /\ IF joiner[reap.of] = None
       THEN joiner' = [joiner EXCEPT ![reap.of] = Reaper] /\ Reap("wait", reap.of)
       ELSE Reap("cleanup", reap.of) /\ UNCHANGED joiner
    /\ UNCHANGED <<st, detach_state, detached, memory, pc, client, cpus, zombies, asleep>>

reapWait ==
    /\ reap.at = "wait" /\ Runs(Reaper)
    /\ IF st[reap.of] = "terminated"
       THEN Reap("cleanup", reap.of) /\ UNCHANGED asleep
       ELSE asleep' = asleep \cup {Reaper} /\ UNCHANGED reap
    /\ UNCHANGED <<life, memory, pc, client, cpus, zombies>>

reapCleanup ==
    /\ reap.at = "cleanup"
    /\ Delete(reap.of) /\ Reap("next", None)
    /\ UNCHANGED <<life, pc, client, cpus, zombies, asleep>>

Ending(t) == completeZombie(t) \/ \E c \in Cpus : completeTerminating(t, c)
Returning(t) == joinWait(t) \/ delete(t) \/ detachCas(t) \/ detachZombie(t)
Destroying(c) ==
    \/ destroy_current_cpu_terminating_thread(c)
    \/ destroy(c) \/ destroyStore(c) \/ destroyStoreWake(c) \/ destroyWake(c)
Reaping == reapNext \/ reapJoin \/ reapWait \/ reapCleanup

Next ==
    \/ \E t \in Threads : start(t) \/ join(t) \/ rcu_dispose(t) \/ complete(t)
    \/ \E t \in Threads : \E o \in {t, Owner[t]} : detach(t, o)
    \/ \E t \in Threads : Ending(t) \/ Returning(t)
    \/ \E c \in Cpus : Destroying(c)
    \/ Reaping

Spec == Init /\ [][Next]_vars

\* Threads that can run do run, the mutex of the reaper is fair, every CPU
\* switches to another thread after one has ended.
FairSpec ==
    /\ Spec
    /\ \A t \in Threads : WF_vars(Ending(t)) /\ WF_vars(Returning(t))
    /\ \A c \in Cpus : WF_vars(Destroying(c))
    /\ WF_vars(Reaping)

-----------------------------------------------------------------------------
Usable(o) == o \in Threads => ds[o] # "freed"

\* destroy(), join() and the reaper: the thread object and its stack are in place
\* while the thread is on the stack and while destroy() reads _joiner, and a ds
\* lasts as long as somebody stores into it or wakes through it.
MemoryOutlivesUse ==
    /\ \A t \in Threads : ~object[t] => st[t] = "unstarted" \/ pc[t] = "off"
    /\ \A c \in Cpus : LET d == destroying[c]
                       IN  /\ d.at = "cas" => object[d.of]
                           /\ d.at \in {"store", "storeWake", "wake"} => Usable(d.of)
    /\ \A t \in Threads : client[t].at \in {"wait", "joined", "zombie"} => object[t]

\* Who is to see to it that the detached thread t is deleted: the queue of the
\* reaper, the reaper, t itself or the caller of its detach().
Queued(t) == \E i \in DOMAIN zombies : zombies[i] = t
Hands(t) ==
    {h \in {"queue", "reaper", "thread", "caller"} :
       \/ h = "queue" /\ Queued(t)
       \/ h = "reaper" /\ reap.of = t
       \/ h = "thread" /\ pc[t] = "zombie"
       \/ h = "caller" /\ client[t].at = "zombie"}

\* "if detach_state == attached_complete ... detach() is responsible for releasing
\* its resources": a thread gets into the reaper's hands once, never when somebody
\* joins it, and is deleted once.
OneReleaser ==
    /\ \A i, j \in DOMAIN zombies : zombies[i] = zombies[j] => i = j
    /\ \A t \in Threads :
         /\ Hands(t) # {} => object[t] /\ detached[t]
         /\ \A x, y \in Hands(t) : x = y

\* A thread that has ended and is joined or detached is deleted, and its joiner
\* returns.
EndedReleased ==
    []<>(\A t \in Threads :
           st[t] \in {"terminating", "terminated"} /\ client[t].at # "own" => ~object[t])
=============================================================================
