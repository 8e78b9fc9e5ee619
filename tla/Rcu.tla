-------------------------------- MODULE Rcu --------------------------------
(***************************************************************************)
(* core/rcu.cc: readers that disable preemption, per-CPU double buffers of *)
(* deferred callbacks, and the quiescent-state thread of every CPU, which  *)
(* agree on generations.  A callback is the disposal of an object, or the  *)
(* post() of a rcu_flush().  Every object is disposed of once, which       *)
(* bounds the generations.  Memory is sequentially consistent.             *)
(***************************************************************************)
EXTENDS Integers, Sequences, FiniteSets

CONSTANTS
    Cpus,
    Threads,        \* they dispose of objects and call rcu_flush()
    Objects,
    QueueSize,      \* CONF_core_rcu_defer_queue_size
    Null

Posts == Threads \X Cpus
Callbacks == Objects \cup Posts

ASSUME RcuAssumption == Null \notin Callbacks /\ Objects \cap Posts = {}

VARIABLES
    reader,             \* reader[c]: what the reader on c reads, or Null
    done,               \* the callbacks that have run
    deferred,           \* the callbacks that were handed to rcu_defer()
    buf, callbacks,     \* percpu_callbacks
    waiting_defers,     \* percpu_waiting_defers
    next_generation, generation, request, requested,
    qst,                \* qst[c]: where the thread of c is, its g and loop
    asleep,             \* asleep[c]: it waits and was not woken
    thread              \* thread[t]: what t is doing

perCpu == <<buf, callbacks, waiting_defers>>
gens == <<next_generation, generation, request, requested>>
vars == <<reader, done, deferred, perCpu, gens, qst, asleep, thread>>

Idle == [pc |-> "idle", cpu |-> Null, what |-> Null, then |-> "idle", must |-> {}]

Init ==
    /\ reader = [c \in Cpus |-> Null]
    /\ done = {} /\ deferred = {}
    /\ buf = [c \in Cpus |-> 0]
    /\ callbacks = [c \in Cpus |-> [b \in 0..1 |-> <<>>]]
    /\ waiting_defers = [c \in Cpus |-> {}]
    /\ next_generation = 0
    /\ generation = [c \in Cpus |-> 0]
    /\ request = [c \in Cpus |-> 0]
    /\ requested = [c \in Cpus |-> FALSE]
    /\ qst = [c \in Cpus |-> [pc |-> "top", g |-> 0, todo |-> {}, back |-> "top"]]
    /\ asleep = [c \in Cpus |-> FALSE]
    /\ thread = [t \in Threads |-> Idle]

\* With preemption disabled by a reader nothing else runs on its CPU.
Preemptible(c) == reader[c] = Null

-----------------------------------------------------------------------------
rcu_read_lock(c, o) ==
    /\ Preemptible(c)
    /\ o \notin deferred
    /\ reader' = [reader EXCEPT ![c] = o]
    /\ UNCHANGED <<done, deferred, perCpu, gens, qst, asleep, thread>>

rcu_read_unlock(c) ==
    /\ ~Preemptible(c)
    /\ reader' = [reader EXCEPT ![c] = Null]
    /\ UNCHANGED <<done, deferred, perCpu, gens, qst, asleep, thread>>

\* rcu_defer() on CPU c.  With a full buffer the thread wakes the quiescent-state
\* thread and waits on this CPU until the buffers were switched.
rcu_defer(t, c, cb, then) ==
    IF Len(callbacks[c][buf[c]]) = QueueSize
    THEN /\ waiting_defers' = [waiting_defers EXCEPT ![c] = @ \cup {t}]
         /\ asleep' = [asleep EXCEPT ![c] = FALSE]
         /\ thread' = [thread EXCEPT ![t].pc = "room", ![t].cpu = c, ![t].what = cb, ![t].then = then]
         /\ UNCHANGED <<buf, callbacks>>
    ELSE /\ callbacks' = [callbacks EXCEPT ![c][buf[c]] = Append(@, cb)]
         /\ thread' = [thread EXCEPT ![t] = IF then = "idle" THEN Idle
                                            ELSE [@ EXCEPT !.pc = then, !.cpu = c, !.what = cb]]
         /\ UNCHANGED <<buf, waiting_defers, asleep>>

\* The writer unlinks the object; what it does next is rcu_dispose() or, in
\* rcu_synchronize(), a wake-up of the quiescent-state thread and a wait.
Dispose(t, c, o) ==
    /\ Preemptible(c)
    /\ thread[t].pc = "idle"
    /\ o \notin deferred
    /\ deferred' = deferred \cup {o}
    /\ \E then \in {"idle", "sync"} : rcu_defer(t, c, o, then)
    /\ UNCHANGED <<reader, done, gens, qst>>

\* Woken for room: the loop of rcu_defer(), on the same CPU
Retry(t) ==
    LET c == thread[t].cpu
    IN  /\ thread[t].pc = "room" /\ t \notin waiting_defers[c] /\ Preemptible(c)
        /\ rcu_defer(t, c, thread[t].what, thread[t].then)
        /\ UNCHANGED <<reader, done, deferred, gens, qst>>

Wake(t) ==
    /\ thread[t].pc \in {"sync", "poke"}
    /\ asleep' = [asleep EXCEPT ![thread[t].cpu] = FALSE]
    /\ thread' = [thread EXCEPT ![t].pc = IF @ = "sync" THEN "wait" ELSE "flush"]
    /\ UNCHANGED <<reader, done, deferred, perCpu, gens, qst>>

SyncReturn(t) ==
    /\ thread[t].pc = "wait" /\ thread[t].what \in done
    /\ thread' = [thread EXCEPT ![t] = Idle]
    /\ UNCHANGED <<reader, done, deferred, perCpu, gens, qst, asleep>>

\* rcu_flush(): on each CPU in turn a pinned thread defers a post() and wakes
\* the quiescent-state thread.  What it must wait for are the callbacks that are
\* enqueued: not those of threads that wait for room.
Enqueued == deferred \ {thread[u].what : u \in {u \in Threads : thread[u].pc = "room"}}

FlushStart(t) ==
    /\ thread[t].pc = "idle"
    /\ \A c \in Cpus : <<t, c>> \notin deferred
    /\ thread' = [thread EXCEPT ![t] = [Idle EXCEPT !.pc = "flush", !.must = Enqueued]]
    /\ UNCHANGED <<reader, done, deferred, perCpu, gens, qst, asleep>>

FlushDefer(t, c) ==
    /\ thread[t].pc = "flush" /\ <<t, c>> \notin deferred /\ Preemptible(c)
    /\ deferred' = deferred \cup {<<t, c>>}
    /\ rcu_defer(t, c, <<t, c>>, "poke")
    /\ UNCHANGED <<reader, done, gens, qst>>

\* One post() is enough.
FlushedOnce(t) == \E c \in Cpus : <<t, c>> \in done

Flushed(t) == \A c \in Cpus : <<t, c>> \in done

FlushReturn(t) ==
    /\ thread[t].pc = "flush" /\ Flushed(t)
    /\ thread' = [thread EXCEPT ![t] = [Idle EXCEPT !.pc = "flushed", !.must = thread[t].must]]
    /\ UNCHANGED <<reader, done, deferred, perCpu, gens, qst, asleep>>

-----------------------------------------------------------------------------
At(c, pc) == qst[c].pc = pc /\ ~asleep[c] /\ Preemptible(c)
Others(c) == Cpus \ {c}

\* The head of the loop, with preemption disabled: switch buffers, let the
\* threads that wait for room go on.
Switch(c) ==
    /\ At(c, "top")
    /\ IF callbacks[c][buf[c]] # <<>>
       THEN buf' = [buf EXCEPT ![c] = 1 - @] /\ qst' = [qst EXCEPT ![c].pc = "generation"]
       ELSE qst' = [qst EXCEPT ![c].pc = "idle"] /\ UNCHANGED buf
    /\ waiting_defers' = [waiting_defers EXCEPT ![c] = {}]
    /\ UNCHANGED <<reader, done, deferred, callbacks, gens, asleep, thread>>

NextGeneration(c) ==
    /\ At(c, "generation")
    /\ next_generation' = next_generation + 1
    /\ qst' = [qst EXCEPT ![c].pc = "requested", ![c].g = next_generation + 1]
    /\ UNCHANGED <<reader, done, deferred, perCpu, generation, request, requested, asleep, thread>>

SetRequested(c) ==
    /\ At(c, "requested")
    /\ requested' = [requested EXCEPT ![c] = TRUE]
    /\ qst' = [qst EXCEPT ![c].pc = "request", ![c].todo = Others(c)]
    /\ UNCHANGED <<reader, done, deferred, perCpu, next_generation, generation, request, asleep, thread>>

\* request(g) of another CPU's thread
RequestOf(c, d) ==
    /\ At(c, "request") /\ d \in qst[c].todo
    /\ request' = [request EXCEPT ![d] = IF qst[c].g > @ THEN qst[c].g ELSE @]
    /\ asleep' = [asleep EXCEPT ![d] = FALSE]
    /\ qst' = [qst EXCEPT ![c].todo = @ \ {d}]
    /\ UNCHANGED <<reader, done, deferred, perCpu, next_generation, generation, requested, thread>>

\* set_generation(g): the store, and then a look at who may want to know
StoreGeneration(c, g, back) ==
    /\ generation' = [generation EXCEPT ![c] = g]
    /\ qst' = [qst EXCEPT ![c].pc = IF Others(c) = {} THEN back ELSE "notify",
                          ![c].todo = Others(c), ![c].back = back]
    /\ UNCHANGED <<reader, done, deferred, perCpu, next_generation, request, requested, asleep, thread>>

SetOwn(c) ==
    /\ At(c, "request") /\ qst[c].todo = {}
    /\ StoreGeneration(c, qst[c].g, "wait")

Notify(c, d) ==
    /\ At(c, "notify") /\ d \in qst[c].todo
    /\ asleep' = IF requested[d] THEN [asleep EXCEPT ![d] = FALSE] ELSE asleep
    /\ qst' = [qst EXCEPT ![c].todo = @ \ {d}, ![c].pc = IF qst[c].todo = {d} THEN qst[c].back ELSE @]
    /\ UNCHANGED <<reader, done, deferred, perCpu, gens, thread>>

\* The generation is not looked at: only this CPU's own store counts.
all_at_generationOwn(c, g) == generation[c] >= g

all_at_generation(c, g) == \A d \in Cpus : generation[d] >= g

\* The loops that wait for the generation and serve requests meanwhile
Await(c) ==
    /\ At(c, "wait")
    /\ \/ generation[c] < request[c] /\ StoreGeneration(c, request[c], "wait")
       \/ /\ generation[c] >= request[c] /\ ~all_at_generation(c, qst[c].g)
          /\ asleep' = [asleep EXCEPT ![c] = TRUE]
          /\ UNCHANGED <<reader, done, deferred, perCpu, gens, qst, thread>>
       \/ /\ generation[c] >= request[c] /\ all_at_generation(c, qst[c].g)
          /\ requested' = [requested EXCEPT ![c] = FALSE]
          /\ qst' = [qst EXCEPT ![c].pc = "run"]
          /\ UNCHANGED <<reader, done, deferred, perCpu, next_generation, generation, request, asleep, thread>>

\* Requests of other CPUs are left for later.
IdleWaitDeaf(c) ==
    /\ At(c, "idle")
    /\ IF callbacks[c][buf[c]] # <<>>
       THEN qst' = [qst EXCEPT ![c].pc = "top"] /\ UNCHANGED asleep
       ELSE asleep' = [asleep EXCEPT ![c] = TRUE] /\ UNCHANGED qst
    /\ UNCHANGED <<reader, done, deferred, perCpu, gens, thread>>

\* With nothing to clean it waits for a request or for callbacks.
IdleWait(c) ==
    /\ At(c, "idle")
    /\ \/ generation[c] < request[c] /\ StoreGeneration(c, request[c], "top")
       \/ /\ generation[c] >= request[c]
          /\ IF callbacks[c][buf[c]] # <<>>
             THEN qst' = [qst EXCEPT ![c].pc = "top"] /\ UNCHANGED asleep
             ELSE asleep' = [asleep EXCEPT ![c] = TRUE] /\ UNCHANGED qst
          /\ UNCHANGED <<reader, done, deferred, perCpu, gens, thread>>

\* The callbacks of the buffer that is not in use, one after the other
Run(c) ==
    /\ At(c, "run")
    /\ LET q == callbacks[c][1 - buf[c]]
       IN  IF q = <<>>
           THEN qst' = [qst EXCEPT ![c].pc = "top"] /\ UNCHANGED <<done, callbacks>>
           ELSE /\ done' = done \cup {Head(q)}
                /\ callbacks' = [callbacks EXCEPT ![c][1 - buf[c]] = Tail(@)]
                /\ UNCHANGED qst
    /\ UNCHANGED <<reader, deferred, buf, waiting_defers, gens, asleep, thread>>

do_work(c) ==
    \/ Switch(c) \/ NextGeneration(c) \/ SetRequested(c) \/ SetOwn(c)
    \/ \E d \in Cpus : RequestOf(c, d) \/ Notify(c, d)
    \/ Await(c) \/ IdleWait(c) \/ Run(c)

Proceed(t) ==
    Retry(t) \/ Wake(t) \/ SyncReturn(t) \/ FlushReturn(t) \/ \E c \in Cpus : FlushDefer(t, c)

Next ==
    \/ \E c \in Cpus, o \in Objects : rcu_read_lock(c, o)
    \/ \E c \in Cpus : rcu_read_unlock(c) \/ do_work(c)
    \/ \E t \in Threads, c \in Cpus, o \in Objects : Dispose(t, c, o)
    \/ \E t \in Threads : FlushStart(t) \/ Proceed(t)

Spec == Init /\ [][Next]_vars

\* Readers do not block, and the scheduler runs every thread that can run.
FairSpec ==
    /\ Spec
    /\ \A c \in Cpus : WF_vars(rcu_read_unlock(c)) /\ SF_vars(do_work(c))
    /\ \A t \in Threads : SF_vars(Proceed(t))

-----------------------------------------------------------------------------
\* rcu_defer(): "Calls 'func(p)' when it is safe to do so": no reader still
\* reads what it found before the object was unlinked and is now gone.
GracePeriod == \A c \in Cpus : ~Preemptible(c) => reader[c] \notin done

\* rcu_flush(): "a barrier that ensures that all callbacks previously enqueued
\* with rcu_defer() have completed execution".
FlushIsBarrier == \A t \in Threads : thread[t].pc = "flushed" => thread[t].must \subseteq done

\* rcu_synchronize(), rcu_flush() and a rcu_defer() that waits for room return,
\* also when another thread gets in first and fills the buffer again.  This needs
\* an end to the calls of the others, which there is with finitely many Objects and
\* flushes: "We have a starvation possibility: another thread looping on rcu_defer()
\* can cause us to always find a full queue" (FIXME in rcu_defer()).
WaitsEnd == \A t \in Threads : []<>(thread[t].pc \in {"idle", "flushed"})
=============================================================================
