----------------------------- MODULE RcuProofs -----------------------------
(***************************************************************************)
(* The grace period of Rcu, and that rcu_flush() is a barrier, for any     *)
(* sets of CPUs, threads and objects and any size of the buffers.          *)
(*                                                                         *)
(* What carries the first proof is Cleared: a CPU that has reached the     *)
(* generation for which a batch of callbacks waits has no reader of what   *)
(* the batch disposes of.  It holds at first because the generation is new *)
(* (GenerationsBounded), it is kept because a generation is stored where   *)
(* no reader is and because new readers find only what was not deferred    *)
(* (QueuedDeferred), and it reaches all CPUs because generations only grow *)
(* (OwnBehind).  The second proof, at the end, is about the order of the   *)
(* callbacks in the queues.                                                *)
(***************************************************************************)
EXTENDS Rcu, TLAPS

\* A step is left to Zenon, unless it names SMT or the temporal prover.
USE ZenonT(40)

Waits == {"requested", "request", "wait", "run"}
Locations == Waits \cup {"top", "generation", "notify", "idle"}
WorkerStates == [pc : Locations, g : Nat, todo : SUBSET Cpus, back : {"top", "wait"}]
ThreadLocations == {"idle", "room", "sync", "poke", "wait", "flush", "flushed"}
ThreadStates ==
    [pc : ThreadLocations, cpu : Cpus \cup {Null}, what : Callbacks \cup {Null},
     then : {"idle", "sync", "poke"}, must : SUBSET Callbacks]

TypeInv ==
    /\ reader \in [Cpus -> Objects \cup {Null}]
    /\ done \in SUBSET Callbacks /\ deferred \in SUBSET Callbacks
    /\ buf \in [Cpus -> 0..1]
    /\ callbacks \in [Cpus -> [0..1 -> Seq(Callbacks)]]
    /\ next_generation \in Nat
    /\ generation \in [Cpus -> Nat] /\ request \in [Cpus -> Nat]
    /\ qst \in [Cpus -> WorkerStates]
    /\ thread \in [Threads -> ThreadStates]

\* The callbacks in buffer b of CPU c
InBuffer(c, b) == {callbacks[c][b][i] : i \in 1 .. Len(callbacks[c][b])}

\* What a thread defers, has queued or has run was unlinked before.
QueuedDeferred ==
    /\ done \subseteq deferred
    /\ \A c \in Cpus, b \in 0..1 : InBuffer(c, b) \subseteq deferred

ThreadsDeferred ==
    \A t \in Threads : thread[t].pc = "room" => thread[t].what \in deferred /\ thread[t].cpu \in Cpus

GenerationsBounded ==
    \A c \in Cpus : /\ generation[c] <= next_generation
                    /\ request[c] <= next_generation
                    /\ qst[c].g <= next_generation

OwnBehind == \A c \in Cpus : qst[c].pc \in {"requested", "request"} => generation[c] <= qst[c].g

\* A worker thread that has switched buffers and waits for its generation, or runs
\* its callbacks
Waiting(x) == x.pc \in Waits \/ (x.pc = "notify" /\ x.back = "wait")
Batched(c) == Waiting(qst[c])

Cleared ==
    \A c, e \in Cpus :
      Batched(c) /\ generation[e] >= qst[c].g => reader[e] \notin InBuffer(c, 1 - buf[c])

AllThere == \A c, e \in Cpus : qst[c].pc = "run" => generation[e] >= qst[c].g

RcuInv ==
    /\ TypeInv /\ QueuedDeferred /\ ThreadsDeferred /\ GenerationsBounded /\ OwnBehind
    /\ Cleared /\ AllThere /\ GracePeriod

-----------------------------------------------------------------------------
LEMMA SameBuffers ==
    ASSUME UNCHANGED callbacks
    PROVE  \A c \in Cpus, b \in 0..1 : InBuffer(c, b)' = InBuffer(c, b)
BY DEF InBuffer

LEMMA SameBatch ==
    ASSUME TypeInv, UNCHANGED <<buf, callbacks>>
    PROVE  /\ \A c \in Cpus, b \in 0..1 : InBuffer(c, b)' = InBuffer(c, b)
           /\ \A c \in Cpus : 1 - buf[c] \in 0..1 /\ InBuffer(c, 1 - buf[c])' = InBuffer(c, 1 - buf[c])
<1>1. ASSUME NEW c \in Cpus PROVE 1 - buf[c] \in 0..1
  <2>1. buf[c] \in 0..1
    BY DEF TypeInv
  <2> QED
    BY <2>1, SMT
<1>2. \A c \in Cpus : InBuffer(c, 1 - buf[c])' = InBuffer(c, 1 - buf[c])
  BY DEF InBuffer
<1> QED
  BY <1>1, <1>2, SameBuffers

\* Append() of rcu_defer()
LEMMA AppendBuffer ==
    ASSUME TypeInv, NEW c \in Cpus, NEW a \in 0..1, NEW cb \in Callbacks,
           callbacks' = [callbacks EXCEPT ![c][a] = Append(@, cb)]
    PROVE  /\ callbacks' \in [Cpus -> [0..1 -> Seq(Callbacks)]]
           /\ InBuffer(c, a)' \subseteq InBuffer(c, a) \cup {cb}
           /\ \A d \in Cpus, b \in 0..1 : ~(d = c /\ b = a) => InBuffer(d, b)' = InBuffer(d, b)
<1> DEFINE q == callbacks[c][a]
<1>1. callbacks[c][a] \in Seq(Callbacks)
  BY DEF TypeInv
<1>2. Append(callbacks[c][a], cb) \in Seq(Callbacks)
  BY <1>1, SMT
<1>3. callbacks' \in [Cpus -> [0..1 -> Seq(Callbacks)]]
  BY <1>1, <1>2 DEF TypeInv
<1>4. ASSUME NEW d \in Cpus, NEW b \in 0..1, ~(d = c /\ b = a)
      PROVE InBuffer(d, b)' = InBuffer(d, b)
  <2>1. callbacks'[d][b] = callbacks[d][b]
    BY <1>4 DEF TypeInv
  <2> QED
    BY <2>1 DEF InBuffer
<1>5. InBuffer(c, a)' \subseteq InBuffer(c, a) \cup {cb}
  <2>1. /\ Len(Append(q, cb)) = Len(q) + 1 /\ Len(q) \in Nat
        /\ \A i \in 1 .. Len(q) : Append(q, cb)[i] = q[i]
        /\ Append(q, cb)[Len(q) + 1] = cb
    BY <1>1, SMT
  <2>2. callbacks'[c][a] = Append(q, cb)
    BY <1>1 DEF TypeInv
  <2> QED
    BY <2>1, <2>2, SMT DEF InBuffer
<1> QED
  BY <1>3, <1>4, <1>5

\* Tail() of Run()
LEMMA TailBuffer ==
    ASSUME TypeInv, NEW c \in Cpus, NEW a \in 0..1, callbacks[c][a] # <<>>,
           callbacks' = [callbacks EXCEPT ![c][a] = Tail(@)]
    PROVE  /\ callbacks' \in [Cpus -> [0..1 -> Seq(Callbacks)]]
           /\ Head(callbacks[c][a]) \in InBuffer(c, a)
           /\ \A d \in Cpus, b \in 0..1 : InBuffer(d, b)' \subseteq InBuffer(d, b)
           /\ \A d \in Cpus, b \in 0..1 :
                InBuffer(d, b) \subseteq InBuffer(d, b)' \cup {Head(callbacks[c][a])}
<1> DEFINE q == callbacks[c][a]
<1>1. q \in Seq(Callbacks) /\ Len(q) > 0
  BY SMT DEF TypeInv
<1>2. Tail(q) \in Seq(Callbacks) /\ Len(Tail(q)) = Len(q) - 1
      /\ \A i \in 1 .. Len(Tail(q)) : Tail(q)[i] = q[i + 1]
  BY <1>1, SMT
<1>3. callbacks' \in [Cpus -> [0..1 -> Seq(Callbacks)]]
  BY <1>1, <1>2 DEF TypeInv
<1>4. Head(q) \in InBuffer(c, a)
  BY <1>1, SMT DEF InBuffer
<1>5. ASSUME NEW d \in Cpus, NEW b \in 0..1
      PROVE InBuffer(d, b)' \subseteq InBuffer(d, b)
  <2>1. CASE d = c /\ b = a
    <3>1. callbacks'[d][b] = Tail(q)
      BY <2>1 DEF TypeInv
    <3> QED
      BY <3>1, <2>1, <1>1, <1>2, SMT DEF InBuffer
  <2>2. CASE ~(d = c /\ b = a)
    <3>1. callbacks'[d][b] = callbacks[d][b]
      BY <2>2 DEF TypeInv
    <3> QED
      BY <3>1 DEF InBuffer
  <2> QED
    BY <2>1, <2>2
<1>6. ASSUME NEW d \in Cpus, NEW b \in 0..1, NEW x \in InBuffer(d, b), x # Head(q)
      PROVE x \in InBuffer(d, b)'
  <2>1. CASE d = c /\ b = a
    <3>1. callbacks'[d][b] = Tail(q)
      BY <2>1 DEF TypeInv
    <3>2. PICK i \in 1 .. Len(q) : x = q[i]
      BY <1>6, <2>1 DEF InBuffer
    <3>3. i # 1
      BY <1>1, <1>6, <3>2, SMT
    <3>4. i - 1 \in 1 .. Len(Tail(q)) /\ Tail(q)[i - 1] = x
      BY <1>1, <1>2, <3>2, <3>3, SMT
    <3> QED
      BY <3>1, <3>4 DEF InBuffer
  <2>2. CASE ~(d = c /\ b = a)
    <3>1. callbacks'[d][b] = callbacks[d][b]
      BY <2>2 DEF TypeInv
    <3> QED
      BY <3>1, <1>6 DEF InBuffer
  <2> QED
    BY <2>1, <2>2
<1> QED
  BY <1>3, <1>4, <1>5, <1>6

-----------------------------------------------------------------------------
\* rcu_read_lock() and rcu_read_unlock(): what a new reader finds was not deferred.
LEMMA ReaderSteps ==
    ASSUME RcuInv, NEW c \in Cpus,
           (\E o \in Objects : rcu_read_lock(c, o)) \/ rcu_read_unlock(c)
    PROVE  RcuInv'
<1>1. PICK x \in Objects \cup {Null} :
        /\ reader' = [reader EXCEPT ![c] = x] /\ x \notin deferred
        /\ UNCHANGED <<done, deferred, perCpu, gens, qst, asleep, thread>>
  BY RcuAssumption DEF rcu_read_lock, rcu_read_unlock, RcuInv, TypeInv
<1>2. /\ TypeInv' /\ QueuedDeferred' /\ ThreadsDeferred' /\ GenerationsBounded' /\ OwnBehind'
      /\ AllThere'
  BY <1>1, SameBuffers, SMT DEF RcuInv, TypeInv, QueuedDeferred, ThreadsDeferred,
      GenerationsBounded, OwnBehind,
              AllThere, perCpu, gens
<1>3. Cleared'
  <2>1. \A d \in Cpus : /\ InBuffer(d, 1 - buf[d])' = InBuffer(d, 1 - buf[d])
                        /\ InBuffer(d, 1 - buf[d]) \subseteq deferred
    BY <1>1, SameBatch DEF RcuInv, QueuedDeferred, perCpu
  <2>2. \A d, e \in Cpus : reader[e] \notin InBuffer(d, 1 - buf[d])
                             => reader'[e] \notin InBuffer(d, 1 - buf[d])
    BY <1>1, <2>1 DEF RcuInv, TypeInv
  <2> QED
    BY <1>1, <2>1, <2>2 DEF RcuInv, Cleared, Batched, gens
<1>4. GracePeriod'
  BY <1>1, RcuAssumption DEF RcuInv, TypeInv, QueuedDeferred, GracePeriod, Preemptible
<1> QED
  BY <1>2, <1>3, <1>4 DEF RcuInv

\* rcu_defer() has its caller wait for room, or go on.
LEMMA DeferThread ==
    ASSUME RcuInv, NEW t \in Threads, NEW c \in Cpus,
           NEW cb \in Callbacks, NEW then \in {"idle", "sync", "poke"},
           rcu_defer(t, c, cb, then)
    PROVE  /\ thread' \in [Threads -> ThreadStates]
           /\ \A u \in Threads : u # t => thread'[u] = thread[u]
           /\ thread'[t].pc = "room" => thread'[t].what = cb /\ thread'[t].cpu = c
           /\ thread'[t].pc # "flushed" /\ thread'[t].must \subseteq thread[t].must
<1>1. thread[t] \in ThreadStates /\ Idle \in ThreadStates
  BY DEF RcuInv, TypeInv, Idle, ThreadStates, ThreadLocations
<1>2. CASE thread' = [thread EXCEPT ![t].pc = "room", ![t].cpu = c, ![t].what = cb, ![t].then = then]
  <2>1. thread' = [thread EXCEPT ![t] = [thread[t] EXCEPT !.pc = "room", !.cpu = c, !.what = cb,
                                                         !.then = then]]
    BY <1>2
  <2>2. [thread[t] EXCEPT !.pc = "room", !.cpu = c, !.what = cb, !.then = then] \in ThreadStates
    BY <1>1 DEF ThreadStates, ThreadLocations
  <2> QED
    BY <1>1, <2>1, <2>2 DEF RcuInv, TypeInv, ThreadStates
<1>3. CASE thread' = [thread EXCEPT ![t] = IF then = "idle" THEN Idle
                                           ELSE [@ EXCEPT !.pc = then, !.cpu = c, !.what = cb]]
  <2>1. [thread[t] EXCEPT !.pc = then, !.cpu = c, !.what = cb] \in ThreadStates
    BY <1>1 DEF ThreadStates, ThreadLocations
  <2> QED
    BY <1>1, <1>3, <2>1 DEF RcuInv, TypeInv, ThreadStates, Idle
<1> QED
  BY <1>2, <1>3 DEF rcu_defer

\* rcu_defer() leaves the buffer that is not in use alone.
LEMMA DeferBuffers ==
    ASSUME RcuInv, NEW t \in Threads, NEW c \in Cpus,
           NEW cb \in Callbacks, NEW then \in {"idle", "sync", "poke"},
           rcu_defer(t, c, cb, then)
    PROVE  /\ buf' = buf
           /\ callbacks' \in [Cpus -> [0..1 -> Seq(Callbacks)]]
           /\ \A d \in Cpus, b \in 0..1 : InBuffer(d, b)' \subseteq InBuffer(d, b) \cup {cb}
           /\ \A d \in Cpus : InBuffer(d, 1 - buf[d])' = InBuffer(d, 1 - buf[d])
<1>1. buf' = buf /\ TypeInv /\ buf[c] \in 0..1
  BY DEF rcu_defer, RcuInv, TypeInv
<1>2. CASE callbacks' = callbacks
  BY <1>1, <1>2, SameBatch DEF TypeInv
<1>3. CASE callbacks' = [callbacks EXCEPT ![c][buf[c]] = Append(@, cb)]
  <2>1. PICK a \in 0..1 : a = buf[c]
    BY <1>1
  <2>2. /\ callbacks' \in [Cpus -> [0..1 -> Seq(Callbacks)]]
        /\ InBuffer(c, a)' \subseteq InBuffer(c, a) \cup {cb}
        /\ \A d \in Cpus, b \in 0..1 : ~(d = c /\ b = a) => InBuffer(d, b)' = InBuffer(d, b)
    BY <1>1, <1>3, <2>1, AppendBuffer
  <2>3. ASSUME NEW d \in Cpus PROVE InBuffer(d, 1 - buf[d])' = InBuffer(d, 1 - buf[d])
    <3>1. buf[d] \in 0..1
      BY <1>1 DEF TypeInv
    <3>2. PICK b \in 0..1 : b = 1 - buf[d]
      BY <3>1, SMT
    <3>3. InBuffer(d, b)' = InBuffer(d, b)
      BY <2>1, <2>2, <3>2, <3>1, SMT
    <3>4. b = (1 - buf[d])'
      BY <1>1, <3>2
    <3> QED
      BY <3>2, <3>3, <3>4 DEF InBuffer
  <2> QED
    BY <1>1, <2>2, <2>3
<1> QED
  BY <1>2, <1>3 DEF rcu_defer

\* rcu_defer() puts a callback that is deferred into the buffer in use, which no
\* thread waits for, or has its caller wait for room.
LEMMA DeferStep ==
    ASSUME RcuInv, NEW t \in Threads, NEW c \in Cpus,
           NEW cb \in Callbacks, NEW then \in {"idle", "sync", "poke"},
           rcu_defer(t, c, cb, then),
           deferred' \in SUBSET Callbacks, deferred \subseteq deferred', cb \in deferred',
           UNCHANGED <<reader, done, gens, qst>>
    PROVE  RcuInv'
<1>1. /\ thread' \in [Threads -> ThreadStates]
      /\ \A u \in Threads : u # t => thread'[u] = thread[u]
      /\ thread'[t].pc = "room" => thread'[t].what = cb /\ thread'[t].cpu = c
  BY DeferThread
<1>2. /\ buf' = buf
      /\ callbacks' \in [Cpus -> [0..1 -> Seq(Callbacks)]]
      /\ \A d \in Cpus, b \in 0..1 : InBuffer(d, b)' \subseteq InBuffer(d, b) \cup {cb}
      /\ \A d \in Cpus : InBuffer(d, 1 - buf[d])' = InBuffer(d, 1 - buf[d])
  BY DeferBuffers
<1>3. TypeInv' /\ QueuedDeferred' /\ ThreadsDeferred'
  <2>1. TypeInv'
    BY <1>1, <1>2 DEF RcuInv, TypeInv, gens
  <2>2. QueuedDeferred'
    BY <1>2 DEF RcuInv, QueuedDeferred
  <2>3. ThreadsDeferred'
    BY <1>1 DEF RcuInv, ThreadsDeferred
  <2> QED
    BY <2>1, <2>2, <2>3
<1>4. GenerationsBounded' /\ OwnBehind' /\ AllThere' /\ GracePeriod'
  BY DEF RcuInv, GenerationsBounded, OwnBehind, AllThere, GracePeriod, Preemptible, gens
<1>5. Cleared'
  BY <1>2 DEF RcuInv, Cleared, Batched, gens
<1> QED
  BY <1>3, <1>4, <1>5 DEF RcuInv

\* The other steps of threads change nothing that the worker threads look at.
LEMMA CallerSteps ==
    ASSUME RcuInv, NEW t \in Threads, Wake(t) \/ SyncReturn(t) \/ FlushStart(t) \/ FlushReturn(t)
    PROVE  RcuInv'
<1>1. PICK x \in ThreadStates : thread' = [thread EXCEPT ![t] = x] /\ x.pc # "room"
  <2>1. thread[t] \in ThreadStates /\ Enqueued \in SUBSET Callbacks
    BY DEF RcuInv, TypeInv, Enqueued
  <2>2. CASE Wake(t)
    <3>1. [thread[t] EXCEPT !.pc = IF @ = "sync" THEN "wait" ELSE "flush"] \in ThreadStates
      BY <2>1 DEF ThreadStates, ThreadLocations
    <3> QED
      BY <2>1, <2>2, <3>1 DEF Wake, ThreadStates
  <2>3. CASE SyncReturn(t)
    <3>1. Idle \in ThreadStates /\ Idle.pc = "idle"
      BY DEF Idle, ThreadStates, ThreadLocations
    <3> QED
      BY <2>3, <3>1 DEF SyncReturn
  <2>4. CASE FlushStart(t)
    <3>1. /\ [Idle EXCEPT !.pc = "flush", !.must = Enqueued] \in ThreadStates
          /\ [Idle EXCEPT !.pc = "flush", !.must = Enqueued].pc = "flush"
      BY <2>1 DEF Idle, ThreadStates, ThreadLocations
    <3> QED
      BY <2>4, <3>1 DEF FlushStart
  <2>5. CASE FlushReturn(t)
    <3>1. /\ [Idle EXCEPT !.pc = "flushed", !.must = thread[t].must] \in ThreadStates
          /\ [Idle EXCEPT !.pc = "flushed", !.must = thread[t].must].pc = "flushed"
      BY <2>1 DEF Idle, ThreadStates, ThreadLocations
    <3> QED
      BY <2>5, <3>1 DEF FlushReturn
  <2> QED
    BY <2>2, <2>3, <2>4, <2>5
<1>2. UNCHANGED <<reader, done, deferred, buf, callbacks, next_generation, generation, request, qst>>
  BY DEF Wake, SyncReturn, FlushStart, FlushReturn, perCpu, gens
<1>3. TypeInv' /\ ThreadsDeferred'
  BY <1>1, <1>2 DEF RcuInv, TypeInv, ThreadsDeferred
<1>4. GenerationsBounded' /\ OwnBehind' /\ AllThere' /\ GracePeriod'
  BY <1>2 DEF RcuInv, GenerationsBounded, OwnBehind, AllThere, GracePeriod, Preemptible
<1>5. QueuedDeferred' /\ Cleared'
  BY <1>2, SameBatch DEF RcuInv, QueuedDeferred, Cleared, Batched
<1> QED
  BY <1>3, <1>4, <1>5 DEF RcuInv

\* The callers of rcu_defer()
LEMMA DeferringSteps ==
    ASSUME RcuInv, NEW t \in Threads,
           \/ \E c \in Cpus, o \in Objects : Dispose(t, c, o)
           \/ Retry(t)
           \/ \E c \in Cpus : FlushDefer(t, c)
    PROVE  RcuInv'
<1>1. ASSUME NEW c \in Cpus, NEW o \in Objects, Dispose(t, c, o) PROVE RcuInv'
  <2>1. PICK then \in {"idle", "sync"} : rcu_defer(t, c, o, then)
    BY <1>1 DEF Dispose
  <2>2. o \in Callbacks /\ deferred' \in SUBSET Callbacks
    BY <1>1 DEF Dispose, Callbacks, RcuInv, TypeInv
  <2> QED
    BY <1>1, <2>1, <2>2, DeferStep DEF Dispose
<1>2. ASSUME Retry(t) PROVE RcuInv'
  <2>1. thread[t].cpu \in Cpus /\ thread[t].what \in deferred
    BY <1>2 DEF Retry, RcuInv, ThreadsDeferred
  <2>2. thread[t].then \in {"idle", "sync", "poke"} /\ deferred \in SUBSET Callbacks
    BY DEF RcuInv, TypeInv, ThreadStates
  <2>3. PICK c \in Cpus, cb \in Callbacks, then \in {"idle", "sync", "poke"} :
          rcu_defer(t, c, cb, then) /\ cb \in deferred
    BY <1>2, <2>1, <2>2 DEF Retry
  <2> QED
    BY <1>2, <2>2, <2>3, DeferStep DEF Retry
<1>3. ASSUME NEW c \in Cpus, FlushDefer(t, c) PROVE RcuInv'
  <2>1. <<t, c>> \in Callbacks /\ deferred' \in SUBSET Callbacks
    BY <1>3, SMT DEF FlushDefer, Callbacks, Posts, RcuInv, TypeInv
  <2> QED
    BY <1>3, <2>1, DeferStep DEF FlushDefer
<1> QED
  BY <1>1, <1>2, <1>3

-----------------------------------------------------------------------------
\* set_generation(): the CPU has no reader, so it can take any generation that
\* was given out.
LEMMA StoreStep ==
    ASSUME RcuInv, NEW c \in Cpus, NEW g \in Nat, NEW back \in {"top", "wait"},
           Preemptible(c), generation[c] <= g, g <= next_generation,
           back = "wait" => Batched(c),
           StoreGeneration(c, g, back)
    PROVE  RcuInv'
<1>1. /\ UNCHANGED <<reader, done, deferred, buf, callbacks, next_generation, request, thread>>
      /\ generation' = [generation EXCEPT ![c] = g]
  BY DEF StoreGeneration, perCpu
<1>2. /\ qst' \in [Cpus -> WorkerStates]
      /\ \A d \in Cpus : qst'[d].g = qst[d].g /\ (d # c => qst'[d] = qst[d])
      /\ qst'[c].pc \in {"notify", back} /\ qst'[c].back = back
  <2> DEFINE x == [qst[c] EXCEPT !.pc = IF Others(c) = {} THEN back ELSE "notify",
                                 !.todo = Others(c), !.back = back]
  <2>1. qst \in [Cpus -> WorkerStates] /\ qst[c] \in WorkerStates
    BY DEF RcuInv, TypeInv
  <2>2. x \in WorkerStates /\ x.g = qst[c].g /\ x.pc \in {"notify", back} /\ x.back = back
    <3>1. PICK p \in {"notify", back} : p = IF Others(c) = {} THEN back ELSE "notify"
      OBVIOUS
    <3>2. p \in Locations
      BY <3>1 DEF Locations, Waits
    <3>3. x = [qst[c] EXCEPT !.pc = p, !.todo = Others(c), !.back = back]
      BY <3>1
    <3> HIDE DEF x
    <3> QED
      BY <2>1, <3>1, <3>2, <3>3 DEF WorkerStates, Others
  <2>3. qst' = [qst EXCEPT ![c] = x]
    BY DEF StoreGeneration
  <2> HIDE DEF x
  <2> QED
    BY <2>1, <2>2, <2>3
<1>3. TypeInv' /\ ThreadsDeferred' /\ GracePeriod'
  BY <1>1, <1>2 DEF RcuInv, TypeInv, ThreadsDeferred, GracePeriod, Preemptible
<1>4. GenerationsBounded' /\ OwnBehind'
  BY <1>1, <1>2 DEF RcuInv, TypeInv, GenerationsBounded, OwnBehind
<1>5. AllThere'
  <2> SUFFICES ASSUME NEW d \in Cpus, NEW e \in Cpus, qst'[d].pc = "run"
               PROVE  generation'[e] >= qst'[d].g
    BY DEF AllThere
  <2>1. d # c /\ qst'[d] = qst[d] /\ qst[d].g \in Nat
    BY <1>2 DEF RcuInv, TypeInv, WorkerStates
  <2>2. generation[e] >= qst[d].g /\ generation[e] \in Nat
    BY <2>1 DEF RcuInv, TypeInv, AllThere
  <2>3. generation'[e] >= generation[e]
    BY <1>1, SMT DEF RcuInv, TypeInv
  <2>4. generation'[e] \in Nat
    BY <1>1 DEF RcuInv, TypeInv
  <2> QED
    BY <2>1, <2>2, <2>3, <2>4, SMT
<1>6. QueuedDeferred'
  BY <1>1, SameBatch DEF RcuInv, QueuedDeferred
<1>7. Cleared'
  <2> SUFFICES ASSUME NEW d \in Cpus, NEW e \in Cpus, Batched(d)', (generation[e] >= qst[d].g)'
               PROVE  (reader[e] \notin InBuffer(d, 1 - buf[d]))'
    BY DEF Cleared
  <2>1. /\ InBuffer(d, 1 - buf[d])' = InBuffer(d, 1 - buf[d])
        /\ InBuffer(d, 1 - buf[d]) \subseteq Callbacks
    BY <1>1, SameBatch DEF RcuInv, QueuedDeferred, TypeInv
  <2>2. Batched(d)
    BY <1>2 DEF Batched, Waiting, Waits
  <2>3. CASE e = c
    BY <1>1, <2>1, <2>3, RcuAssumption DEF Preemptible
  <2>4. CASE e # c
    <3>1. generation'[e] = generation[e] /\ qst'[d].g = qst[d].g /\ reader'[e] = reader[e]
      BY <1>1, <1>2, <2>4 DEF RcuInv, TypeInv
    <3> QED
      BY <2>1, <2>2, <3>1 DEF RcuInv, Cleared
  <2> QED
    BY <2>3, <2>4
<1> QED
  BY <1>3, <1>4, <1>5, <1>6, <1>7 DEF RcuInv

\* A step of the worker thread that keeps its generation and all callbacks: it
\* waits for the same batch as before, or for a generation that nobody has reached.
LEMMA MoveStep ==
    ASSUME RcuInv, NEW c \in Cpus, NEW x \in WorkerStates, qst' = [qst EXCEPT ![c] = x],
           UNCHANGED <<reader, done, deferred, callbacks, generation, thread>>,
           next_generation' \in Nat, next_generation <= next_generation', x.g <= next_generation',
           request' \in [Cpus -> Nat], \A d \in Cpus : request'[d] <= next_generation',
           buf' \in [Cpus -> 0..1], \A d \in Cpus \ {c} : buf'[d] = buf[d],
           x.pc \in {"requested", "request"} => generation[c] <= x.g,
           x.pc = "run" => \A e \in Cpus : generation[e] >= x.g,
           Waiting(x) => \/ Batched(c) /\ x.g = qst[c].g /\ buf' = buf
                         \/ \A e \in Cpus : generation[e] < x.g
    PROVE  RcuInv'
<1>1. /\ qst' \in [Cpus -> WorkerStates]
      /\ \A d \in Cpus \ {c} : qst'[d] = qst[d]
      /\ qst'[c] = x
  BY DEF RcuInv, TypeInv
<1>2. TypeInv'
  BY <1>1 DEF RcuInv, TypeInv
<1>3. ThreadsDeferred' /\ GracePeriod'
  BY DEF RcuInv, ThreadsDeferred, GracePeriod, Preemptible
<1>4. QueuedDeferred'
  BY SameBuffers DEF RcuInv, QueuedDeferred
<1>5. GenerationsBounded'
  <2> SUFFICES ASSUME NEW d \in Cpus
               PROVE  /\ generation[d] <= next_generation' /\ request'[d] <= next_generation'
                      /\ qst'[d].g <= next_generation'
    BY DEF GenerationsBounded
  <2>1. /\ generation[d] \in Nat /\ generation[d] <= next_generation /\ next_generation \in Nat
        /\ qst[d].g \in Nat /\ qst[d].g <= next_generation
    BY DEF RcuInv, TypeInv, WorkerStates, GenerationsBounded
  <2> QED
    BY <1>1, <2>1, SMT
<1>6. OwnBehind'
  BY <1>1 DEF RcuInv, OwnBehind
<1>7. AllThere'
  BY <1>1 DEF RcuInv, AllThere
<1>8. Cleared'
  <2> SUFFICES ASSUME NEW d \in Cpus, NEW e \in Cpus, Waiting(qst'[d]), generation[e] >= qst'[d].g
               PROVE  (reader[e] \notin InBuffer(d, 1 - buf[d]))'
    BY DEF Cleared, Batched, Waiting
  <2>1. Batched(d) /\ qst'[d].g = qst[d].g /\ buf'[d] = buf[d]
    <3>1. CASE d = c
      <4>1. generation[e] \in Nat /\ x.g \in Nat
        BY DEF RcuInv, TypeInv, WorkerStates
      <4> QED
        BY <1>1, <3>1, <4>1, SMT
    <3>2. CASE d # c
      BY <1>1, <3>2 DEF Batched
    <3> QED
      BY <3>1, <3>2
  <2>2. reader[e] \notin InBuffer(d, 1 - buf[d])
    BY <2>1 DEF RcuInv, Cleared
  <2>3. InBuffer(d, 1 - buf[d])' = InBuffer(d, 1 - buf[d])
    BY <2>1 DEF InBuffer
  <2> QED
    BY <2>2, <2>3
<1> QED
  BY <1>2, <1>3, <1>4, <1>5, <1>6, <1>7, <1>8 DEF RcuInv

\* Run(): all CPUs have reached the generation, so none has a reader of what the
\* callback disposes of.
LEMMA RunStep ==
    ASSUME RcuInv, NEW c \in Cpus, Run(c), callbacks[c][1 - buf[c]] # <<>>
    PROVE  RcuInv'
<1>1. PICK a \in 0..1 : a = 1 - buf[c]
  <2>1. buf[c] \in 0..1
    BY DEF RcuInv, TypeInv
  <2> QED
    BY <2>1, SMT
<1> DEFINE cb == Head(callbacks[c][a])
<1>2. /\ UNCHANGED <<reader, deferred, buf, next_generation, generation, request, qst, thread>>
      /\ done' = done \cup {cb}
      /\ callbacks' = [callbacks EXCEPT ![c][a] = Tail(@)]
  BY <1>1 DEF Run, gens
<1>3. /\ callbacks' \in [Cpus -> [0..1 -> Seq(Callbacks)]]
      /\ cb \in InBuffer(c, a)
      /\ \A d \in Cpus, b \in 0..1 : InBuffer(d, b)' \subseteq InBuffer(d, b)
  BY <1>1, <1>2, TailBuffer DEF RcuInv
<1> HIDE DEF cb
<1>4. cb \in deferred
  BY <1>3 DEF RcuInv, QueuedDeferred
<1>5. \A e \in Cpus : reader[e] # cb
  <2>1. qst[c].pc = "run"
    BY DEF Run, At
  <2>2. Batched(c) /\ \A e \in Cpus : generation[e] >= qst[c].g
    BY <2>1 DEF RcuInv, AllThere, Batched, Waiting, Waits
  <2> QED
    BY <1>1, <1>3, <2>2 DEF RcuInv, Cleared
<1>6. TypeInv' /\ ThreadsDeferred'
  BY <1>2, <1>3, <1>4 DEF RcuInv, TypeInv, ThreadsDeferred
<1>7. QueuedDeferred'
  BY <1>2, <1>3, <1>4 DEF RcuInv, QueuedDeferred
<1>8. GenerationsBounded' /\ OwnBehind' /\ AllThere'
  BY <1>2 DEF RcuInv, GenerationsBounded, OwnBehind, AllThere
<1>9. GracePeriod'
  BY <1>2, <1>5 DEF RcuInv, GracePeriod, Preemptible
<1>10. Cleared'
  <2> SUFFICES ASSUME NEW d \in Cpus, NEW e \in Cpus, Batched(d), generation[e] >= qst[d].g
               PROVE  (reader[e] \notin InBuffer(d, 1 - buf[d]))'
    BY <1>2 DEF Cleared, Batched
  <2>1. reader[e] \notin InBuffer(d, 1 - buf[d])
    BY DEF RcuInv, Cleared
  <2>2. PICK b \in 0..1 : b = 1 - buf[d]
    <3>1. buf[d] \in 0..1
      BY DEF RcuInv, TypeInv
    <3> QED
      BY <3>1, SMT
  <2>3. InBuffer(d, b)' = InBuffer(d, 1 - buf[d])'
    BY <1>2, <2>2 DEF InBuffer
  <2> QED
    BY <1>2, <1>3, <2>1, <2>2, <2>3
<1> QED
  BY <1>6, <1>7, <1>8, <1>9, <1>10 DEF RcuInv

\* do_work(), step by step
LEMMA WorkerSteps ==
    ASSUME RcuInv, NEW c \in Cpus, do_work(c)
    PROVE  RcuInv'
<1> DEFINE w == qst[c]
<1>t. /\ qst \in [Cpus -> WorkerStates] /\ w \in WorkerStates /\ w.g \in Nat
      /\ next_generation \in Nat /\ buf \in [Cpus -> 0..1] /\ buf[c] \in 0..1
      /\ generation \in [Cpus -> Nat] /\ request \in [Cpus -> Nat]
  BY DEF RcuInv, TypeInv, WorkerStates
<1>b. /\ \A d \in Cpus : generation[d] <= next_generation /\ request[d] <= next_generation
      /\ w.g <= next_generation
      /\ next_generation <= next_generation
  BY <1>t, SMT DEF RcuInv, GenerationsBounded
<1> DEFINE To(p) == [w EXCEPT !.pc = p]
<1>p. \A p \in Locations : To(p) \in WorkerStates /\ To(p).g = w.g /\ To(p).pc = p /\ To(p).back = w.back
  BY <1>t DEF WorkerStates
<1> HIDE DEF To
<1>1. CASE Switch(c)
  <2>1. PICK p \in {"generation", "idle"} : qst' = [qst EXCEPT ![c] = To(p)]
    BY <1>1 DEF Switch, To
  <2>2. buf' \in [Cpus -> 0..1] /\ \A d \in Cpus \ {c} : buf'[d] = buf[d]
    <3>1. 1 - buf[c] \in 0..1
      BY <1>t, SMT
    <3>2. buf' = buf \/ buf' = [buf EXCEPT ![c] = 1 - buf[c]]
      BY <1>1 DEF Switch
    <3> QED
      BY <1>t, <3>1, <3>2
  <2>3. /\ To(p) \in WorkerStates /\ To(p).g = w.g /\ ~Waiting(To(p))
        /\ To(p).pc \notin {"requested", "request", "run"}
    BY <1>p, <2>1 DEF Waiting, Waits, Locations
  <2> QED
    BY <1>1, <1>t, <1>b, <2>1, <2>2, <2>3, MoveStep DEF Switch, gens
<1>2. CASE NextGeneration(c)
  <2> DEFINE x == [w EXCEPT !.pc = "requested", !.g = next_generation + 1]
  <2>1. x \in WorkerStates /\ x.g = next_generation + 1 /\ x.pc = "requested"
    <3>1. next_generation + 1 \in Nat
      BY <1>t, SMT
    <3> QED
      BY <1>t, <3>1 DEF WorkerStates, Locations, Waits
  <2>2. qst' = [qst EXCEPT ![c] = x] /\ next_generation' = next_generation + 1
    BY <1>2 DEF NextGeneration
  <2> HIDE DEF x
  <2>3. \A e \in Cpus : generation[e] < x.g /\ request[e] <= next_generation'
    BY <1>t, <1>b, <2>1, <2>2, SMT
  <2>4. generation[c] <= x.g /\ x.g <= next_generation' /\ next_generation <= next_generation'
        /\ next_generation' \in Nat
    BY <1>t, <2>1, <2>2, <2>3, SMT
  <2> QED
    BY <1>2, <1>t, <2>1, <2>2, <2>3, <2>4, MoveStep DEF NextGeneration, perCpu
<1>3. CASE SetRequested(c)
  <2> DEFINE x == [w EXCEPT !.pc = "request", !.todo = Others(c)]
  <2>1. x \in WorkerStates /\ x.g = w.g /\ x.pc = "request"
    BY <1>t DEF WorkerStates, Locations, Waits, Others
  <2>2. qst' = [qst EXCEPT ![c] = x] /\ w.pc = "requested"
    BY <1>3 DEF SetRequested, At
  <2> HIDE DEF x
  <2>3. generation[c] <= x.g /\ Batched(c)
    BY <2>1, <2>2 DEF RcuInv, OwnBehind, Batched, Waiting, Waits
  <2> QED
    BY <1>3, <1>t, <1>b, <2>1, <2>2, <2>3, MoveStep DEF SetRequested, perCpu
<1>4. ASSUME NEW d \in Cpus, RequestOf(c, d) PROVE RcuInv'
  <2> DEFINE x == [w EXCEPT !.todo = @ \ {d}]
  <2>1. x \in WorkerStates /\ x.g = w.g /\ x.pc = w.pc
    BY <1>t DEF WorkerStates
  <2>2. qst' = [qst EXCEPT ![c] = x] /\ w.pc = "request"
    BY <1>4 DEF RequestOf, At
  <2> HIDE DEF x
  <2>3. generation[c] <= x.g /\ Batched(c)
    BY <2>1, <2>2 DEF RcuInv, OwnBehind, Batched, Waiting, Waits
  <2>4. request' \in [Cpus -> Nat] /\ \A e \in Cpus : request'[e] <= next_generation
    BY <1>4, <1>t, <1>b DEF RequestOf
  <2> QED
    BY <1>4, <1>t, <1>b, <2>1, <2>2, <2>3, <2>4, MoveStep DEF RequestOf, perCpu
<1>5. CASE SetOwn(c)
  <2>1. w.pc = "request" /\ Preemptible(c) /\ StoreGeneration(c, w.g, "wait")
    BY <1>5 DEF SetOwn, At
  <2>2. generation[c] <= w.g /\ Batched(c)
    BY <2>1 DEF RcuInv, OwnBehind, Batched, Waiting, Waits
  <2>3. PICK g \in Nat : g = w.g
    BY <1>t
  <2> QED
    BY <1>t, <1>b, <2>1, <2>2, <2>3, StoreStep
<1>6. ASSUME NEW d \in Cpus, Notify(c, d) PROVE RcuInv'
  <2> DEFINE x == [w EXCEPT !.todo = @ \ {d}, !.pc = IF w.todo = {d} THEN w.back ELSE @]
  <2>1. w.pc = "notify" /\ qst' = [qst EXCEPT ![c] = x]
    BY <1>6 DEF Notify, At
  <2>2. x \in WorkerStates /\ x.g = w.g /\ x.pc \in {"notify", w.back} /\ x.back = w.back
    BY <1>t, <2>1 DEF WorkerStates, Locations, Waits
  <2> HIDE DEF x
  <2>3. w.back \in {"top", "wait"}
    BY <1>t DEF WorkerStates
  <2>4. /\ Waiting(x) => Batched(c)
        /\ x.pc \notin {"requested", "request", "run"}
    BY <2>1, <2>2, <2>3 DEF Batched, Waiting, Waits
  <2> QED
    BY <1>6, <1>t, <1>b, <2>1, <2>2, <2>4, MoveStep DEF Notify, perCpu, gens
<1>7. CASE Await(c)
  <2>1. w.pc = "wait" /\ Batched(c) /\ Preemptible(c)
    BY <1>7 DEF Await, At, Batched, Waiting, Waits
  <2>2. ASSUME generation[c] < request[c], StoreGeneration(c, request[c], "wait") PROVE RcuInv'
    <3>1. PICK g \in Nat : g = request[c]
      BY <1>t
    <3>2. generation[c] <= g /\ g <= next_generation
      BY <1>t, <1>b, <2>2, <3>1, SMT
    <3> QED
      BY <2>1, <2>2, <3>1, <3>2, StoreStep
  <2>3. ASSUME UNCHANGED <<reader, done, deferred, perCpu, gens, qst, thread>> PROVE RcuInv'
    <3>1. To("wait") = w
      BY <1>t, <2>1 DEF To, WorkerStates
    <3>2. qst' = [qst EXCEPT ![c] = w]
      BY <1>t, <2>3
    <3> QED
      BY <1>t, <1>b, <2>1, <2>3, <3>2, MoveStep DEF perCpu, gens
  <2>4. ASSUME all_at_generation(c, qst[c].g), qst' = [qst EXCEPT ![c].pc = "run"],
               UNCHANGED <<reader, done, deferred, perCpu, next_generation, generation, request, thread>>
        PROVE  RcuInv'
    <3>1. qst' = [qst EXCEPT ![c] = To("run")]
      BY <2>4 DEF To
    <3>2. /\ To("run") \in WorkerStates /\ To("run").g = w.g /\ To("run").pc = "run"
          /\ \A e \in Cpus : generation[e] >= To("run").g
      BY <1>p, <2>4 DEF all_at_generation, Locations, Waits
    <3> QED
      BY <1>t, <1>b, <2>1, <2>4, <3>1, <3>2, MoveStep DEF perCpu
  <2> QED
    BY <1>7, <2>2, <2>3, <2>4 DEF Await
<1>8. CASE IdleWait(c)
  <2>1. w.pc = "idle" /\ Preemptible(c)
    BY <1>8 DEF IdleWait, At
  <2>2. ASSUME generation[c] < request[c], StoreGeneration(c, request[c], "top") PROVE RcuInv'
    <3>1. PICK g \in Nat : g = request[c]
      BY <1>t
    <3>2. generation[c] <= g /\ g <= next_generation
      BY <1>t, <1>b, <2>2, <3>1, SMT
    <3> QED
      BY <2>1, <2>2, <3>1, <3>2, StoreStep
  <2>3. ASSUME qst' = [qst EXCEPT ![c].pc = "top"] \/ qst' = qst,
               UNCHANGED <<reader, done, deferred, perCpu, gens, thread>>
        PROVE  RcuInv'
    <3>1. PICK p \in {"top", "idle"} : qst' = [qst EXCEPT ![c] = To(p)]
      <4>1. To("idle") = w
        BY <1>t, <2>1 DEF To, WorkerStates
      <4> QED
        BY <1>t, <2>3, <4>1 DEF To
    <3>2. /\ To(p) \in WorkerStates /\ To(p).g = w.g /\ ~Waiting(To(p))
          /\ To(p).pc \notin {"requested", "request", "run"}
      BY <1>p, <3>1 DEF Waiting, Waits, Locations
    <3> QED
      BY <1>t, <1>b, <2>3, <3>1, <3>2, MoveStep DEF perCpu, gens
  <2> QED
    BY <1>8, <2>2, <2>3 DEF IdleWait
<1>9. CASE Run(c)
  <2>1. CASE callbacks[c][1 - buf[c]] = <<>>
    <3>1. qst' = [qst EXCEPT ![c] = To("top")]
      BY <1>9, <2>1 DEF Run, To
    <3>2. /\ To("top") \in WorkerStates /\ To("top").g = w.g /\ ~Waiting(To("top"))
          /\ To("top").pc \notin {"requested", "request", "run"}
      BY <1>p, SMT DEF Waiting, Waits, Locations
    <3> QED
      BY <1>9, <2>1, <1>t, <1>b, <3>1, <3>2, MoveStep DEF Run, gens
  <2> QED
    BY <1>9, <2>1, RunStep
<1> QED
  BY <1>1, <1>2, <1>3, <1>4, <1>5, <1>6, <1>7, <1>8, <1>9 DEF do_work

-----------------------------------------------------------------------------
\* The inductive invariant holds in every state.
LEMMA RcuInvariance == Spec => []RcuInv
<1>1. Init => RcuInv
  <2> SUFFICES ASSUME Init PROVE RcuInv
    OBVIOUS
  <2>1. TypeInv
    BY SMT DEF Init, TypeInv, WorkerStates, Locations, ThreadStates, ThreadLocations, Idle
  <2>2. \A c \in Cpus, b \in 0..1 : InBuffer(c, b) = {}
    BY SMT DEF Init, InBuffer
  <2> QED
    BY <2>1, <2>2, SMT DEF Init, RcuInv, QueuedDeferred, ThreadsDeferred, GenerationsBounded,
      OwnBehind, Cleared, Batched, Waiting, Waits, AllThere, GracePeriod, Preemptible, Idle
<1>2. RcuInv /\ [Next]_vars => RcuInv'
  <2> SUFFICES ASSUME RcuInv, [Next]_vars PROVE RcuInv'
    OBVIOUS
  <2>1. CASE Next
    BY <2>1, ReaderSteps, WorkerSteps, DeferringSteps, CallerSteps DEF Next, Proceed
  <2>2. CASE UNCHANGED vars
    <3>1. /\ reader' = reader /\ done' = done /\ deferred' = deferred /\ thread' = thread
          /\ buf' = buf /\ callbacks' = callbacks /\ qst' = qst
          /\ next_generation' = next_generation /\ generation' = generation /\ request' = request
      BY <2>2 DEF vars, perCpu, gens
    <3>2. TypeInv' /\ ThreadsDeferred' /\ GracePeriod'
      BY <3>1 DEF RcuInv, TypeInv, ThreadsDeferred, GracePeriod, Preemptible
    <3>3. QueuedDeferred'
      BY <3>1, SameBatch DEF RcuInv, QueuedDeferred
    <3>4. GenerationsBounded' /\ OwnBehind' /\ AllThere'
      BY <3>1 DEF RcuInv, GenerationsBounded, OwnBehind, AllThere
    <3>5. Cleared'
      BY <3>1, SameBatch DEF RcuInv, Cleared, Batched
    <3> QED
      BY <3>2, <3>3, <3>4, <3>5 DEF RcuInv
  <2> QED
    BY <2>1, <2>2
<1> QED
  BY <1>1, <1>2, PTL DEF Spec

\* rcu_defer(), rcu_dispose() and rcu_synchronize() keep their promise: a callback
\* runs only when no reader reads what it found before the object was unlinked.
THEOREM GracePeriods == Spec => []GracePeriod
<1>1. RcuInv => GracePeriod
  BY DEF RcuInv
<1> QED
  BY <1>1, RcuInvariance, PTL

-----------------------------------------------------------------------------
(***************************************************************************)
(* rcu_flush().  The two buffers of a CPU are one queue: that which is not *)
(* in use comes first, and it is empty when the buffers are switched       *)
(* (Emptied).  A post() of rcu_flush() is queued on its own CPU (OnOwnCpu) *)
(* behind what was there when the flush began (PostsLast), and what the    *)
(* flush must wait for is in a queue or has run (NothingLost).             *)
(***************************************************************************)
Idling(x) == x.pc \in {"top", "idle"} \/ (x.pc = "notify" /\ x.back = "top")

Emptied == \A c \in Cpus : Idling(qst[c]) => InBuffer(c, 1 - buf[c]) = {}

OwnCpu(cb, c) == \A t \in Threads, d \in Cpus : cb = <<t, d>> => d = c

OnOwnCpu ==
    /\ \A c \in Cpus, b \in 0..1 : \A cb \in InBuffer(c, b) : OwnCpu(cb, c)
    /\ \A u \in Threads : thread[u].pc = "room" => OwnCpu(thread[u].what, thread[u].cpu)

MustEnqueued == \A t \in Threads : thread[t].must \subseteq Enqueued

NothingLost == \A x \in Enqueued : x \in done \/ \E c \in Cpus, b \in 0..1 : x \in InBuffer(c, b)

\* On CPU c, x is not queued behind p and has run before p has.
Behind(p, x, c) ==
    /\ p \in done => \A b \in 0..1 : x \notin InBuffer(c, b)
    /\ p \in InBuffer(c, 1 - buf[c]) => x \notin InBuffer(c, buf[c])
    /\ \A b \in 0..1 : \A i, j \in 1 .. Len(callbacks[c][b]) :
         callbacks[c][b][i] = p /\ callbacks[c][b][j] = x => j < i

PostsLast ==
    \A t \in Threads, c \in Cpus : \A x \in thread[t].must : Behind(<<t, c>>, x, c)

BarrierInv ==
    /\ Emptied /\ OnOwnCpu /\ MustEnqueued /\ NothingLost /\ PostsLast /\ FlushIsBarrier

\* What a thread that calls rcu_defer() adds to the callbacks that are enqueued
LEMMA EnqueuedGrows ==
    ASSUME NEW t \in Threads, NEW cb, cb \notin Enqueued,
           deferred \subseteq deferred', deferred' \subseteq deferred \cup {cb},
           \A u \in Threads : u # t => thread'[u] = thread[u],
           thread'[t].pc = "room" => thread'[t].what = cb,
           thread[t].pc = "room" => thread[t].what = cb
    PROVE  /\ Enqueued \subseteq Enqueued' /\ Enqueued' \subseteq Enqueued \cup {cb}
           /\ thread'[t].pc = "room" => cb \notin Enqueued'
<1>1. ASSUME NEW x \in Enqueued PROVE x \in Enqueued'
  <2>1. x # cb /\ x \in deferred'
    BY <1>1 DEF Enqueued
  <2>2. ASSUME NEW u \in Threads, thread'[u].pc = "room", thread'[u].what = x PROVE FALSE
    BY <1>1, <2>1, <2>2 DEF Enqueued
  <2> QED
    BY <2>1, <2>2 DEF Enqueued
<1>2. ASSUME NEW x \in Enqueued', x # cb PROVE x \in Enqueued
  <2>1. x \in deferred
    BY <1>2 DEF Enqueued
  <2>2. ASSUME NEW u \in Threads, thread[u].pc = "room", thread[u].what = x PROVE FALSE
    BY <1>2, <2>2 DEF Enqueued
  <2> QED
    BY <2>1, <2>2 DEF Enqueued
<1>3. thread'[t].pc = "room" => cb \notin Enqueued'
  BY DEF Enqueued
<1> QED
  BY <1>1, <1>2, <1>3

\* Steps that leave the queues and the threads alone
LEMMA QueuesSame ==
    ASSUME RcuInv, BarrierInv, Emptied', UNCHANGED <<done, deferred, buf, callbacks, thread>>
    PROVE  BarrierInv'
<1>1. /\ \A c \in Cpus, b \in 0..1 : InBuffer(c, b)' = InBuffer(c, b)
      /\ \A c \in Cpus : buf[c] \in 0..1 /\ 1 - buf[c] \in 0..1
      /\ \A c \in Cpus : InBuffer(c, 1 - buf[c])' = InBuffer(c, 1 - buf[c])
      /\ Enqueued' = Enqueued
  BY SameBatch DEF RcuInv, TypeInv, Enqueued
<1>2. MustEnqueued' /\ FlushIsBarrier' /\ OnOwnCpu'
  BY <1>1, SMT DEF BarrierInv, MustEnqueued, FlushIsBarrier, OnOwnCpu, OwnCpu
<1>3. NothingLost'
  BY <1>1 DEF BarrierInv, NothingLost
<1>4. PostsLast'
  <2>1. ASSUME NEW u \in Threads, NEW c \in Cpus, NEW x \in thread[u].must PROVE Behind(<<u, c>>, x, c)'
    <3>1. Behind(<<u, c>>, x, c)
      BY DEF BarrierInv, PostsLast
    <3> QED
      BY <3>1, <1>1 DEF Behind
  <2> QED
    BY <2>1 DEF PostsLast
<1> QED
  BY <1>2, <1>3, <1>4 DEF BarrierInv

\* rcu_defer() appends to the buffer in use of its CPU, unless it waits for room.
LEMMA DeferQueue ==
    ASSUME RcuInv, NEW t \in Threads, NEW c \in Cpus, NEW cb \in Callbacks,
           NEW then \in {"idle", "sync", "poke"}, rcu_defer(t, c, cb, then)
    PROVE  /\ \A d \in Cpus, b \in 0..1 :
                \/ callbacks'[d][b] = callbacks[d][b]
                \/ d = c /\ callbacks'[d][b] = Append(callbacks[d][b], cb)
           /\ thread'[t].pc # "room" =>
                callbacks'[c][buf[c]] = Append(callbacks[c][buf[c]], cb)
           /\ \A d \in Cpus, b \in 0..1 : callbacks[d][b] \in Seq(Callbacks)
<1>1. /\ callbacks \in [Cpus -> [0..1 -> Seq(Callbacks)]] /\ buf[c] \in 0..1
      /\ \A d \in Cpus, b \in 0..1 : callbacks[d][b] \in Seq(Callbacks)
      /\ thread \in [Threads -> ThreadStates] /\ thread[t] \in ThreadStates
  BY DEF RcuInv, TypeInv
<1>2. CASE /\ callbacks' = callbacks
           /\ thread' = [thread EXCEPT ![t].pc = "room", ![t].cpu = c, ![t].what = cb, ![t].then = then]
  BY <1>1, <1>2 DEF ThreadStates
<1>3. CASE callbacks' = [callbacks EXCEPT ![c][buf[c]] = Append(@, cb)]
  BY <1>1, <1>3
<1> QED
  BY <1>2, <1>3 DEF rcu_defer

\* rcu_defer(): the callback goes to the end of the queue of its CPU, or nowhere.
LEMMA DeferLast ==
    ASSUME RcuInv, BarrierInv, NEW t \in Threads, NEW c \in Cpus,
           NEW cb \in Callbacks, NEW then \in {"idle", "sync", "poke"},
           rcu_defer(t, c, cb, then), cb \notin Enqueued, OwnCpu(cb, c),
           deferred \subseteq deferred', deferred' \subseteq deferred \cup {cb},
           thread[t].pc = "room" => thread[t].what = cb,
           UNCHANGED <<done, qst>>
    PROVE  BarrierInv'
<1>1. /\ \A u \in Threads : u # t => thread'[u] = thread[u]
      /\ thread'[t].pc = "room" => thread'[t].what = cb /\ thread'[t].cpu = c
      /\ thread'[t].pc # "flushed" /\ thread'[t].must \subseteq thread[t].must
  BY DeferThread
<1>2. /\ buf' = buf
      /\ \A d \in Cpus, b \in 0..1 : InBuffer(d, b)' \subseteq InBuffer(d, b) \cup {cb}
      /\ \A d \in Cpus : InBuffer(d, 1 - buf[d])' = InBuffer(d, 1 - buf[d])
  BY DeferBuffers, SMT
<1>3. /\ Enqueued \subseteq Enqueued' /\ Enqueued' \subseteq Enqueued \cup {cb}
      /\ thread'[t].pc = "room" => cb \notin Enqueued'
  BY <1>1, EnqueuedGrows
<1>q. /\ \A d \in Cpus, b \in 0..1 :
           \/ callbacks'[d][b] = callbacks[d][b]
           \/ d = c /\ callbacks'[d][b] = Append(callbacks[d][b], cb)
      /\ thread'[t].pc # "room" => callbacks'[c][buf[c]] = Append(callbacks[c][buf[c]], cb)
      /\ \A d \in Cpus, b \in 0..1 : callbacks[d][b] \in Seq(Callbacks)
  BY DeferQueue
<1>4. ASSUME NEW u \in Threads
      PROVE  /\ thread'[u].must \subseteq thread[u].must /\ thread[u].must \subseteq Enqueued
             /\ cb \notin thread'[u].must
  <2>1. thread'[u].must \subseteq thread[u].must
    BY <1>1
  <2>2. thread[u].must \subseteq Enqueued
    BY DEF BarrierInv, MustEnqueued
  <2> QED
    BY <2>1, <2>2
<1>5. Emptied'
  BY <1>2 DEF BarrierInv, Emptied, Idling
<1>6. OnOwnCpu'
  <2>1. ASSUME NEW d \in Cpus, NEW b \in 0..1, NEW x \in InBuffer(d, b)' PROVE OwnCpu(x, d)
    <3>1. CASE x \in InBuffer(d, b)
      BY <3>1 DEF BarrierInv, OnOwnCpu
    <3>2. CASE x \notin InBuffer(d, b)
      <4>1. x = cb
        BY <1>2, <2>1, <3>2
      <4>2. d = c
        <5>1. callbacks'[d][b] # callbacks[d][b]
          BY <2>1, <3>2 DEF InBuffer
        <5> QED
          BY <5>1, <1>q
      <4> QED
        BY <4>1, <4>2
    <3> QED
      BY <3>1, <3>2
  <2>2. ASSUME NEW u \in Threads, thread'[u].pc = "room"
        PROVE  OwnCpu(thread'[u].what, thread'[u].cpu)
    <3>1. CASE u = t
      BY <1>1, <2>2, <3>1
    <3>2. CASE u # t
      BY <1>1, <2>2, <3>2 DEF BarrierInv, OnOwnCpu
    <3> QED
      BY <3>1, <3>2
  <2> QED
    BY <2>1, <2>2 DEF OnOwnCpu, OwnCpu
<1>7. MustEnqueued'
  BY <1>3, <1>4 DEF MustEnqueued
<1>8. NothingLost'
  <2>1. ASSUME NEW x, NEW d \in Cpus, NEW b \in 0..1, x \in InBuffer(d, b)
        PROVE  x \in InBuffer(d, b)'
    <3>1. CASE callbacks'[d][b] = callbacks[d][b]
      BY <2>1, <3>1 DEF InBuffer
    <3>2. CASE callbacks'[d][b] = Append(callbacks[d][b], cb)
      <4>1. PICK i \in 1 .. Len(callbacks[d][b]) : x = callbacks[d][b][i]
        BY <2>1 DEF InBuffer
      <4>2. i \in 1 .. Len(callbacks'[d][b]) /\ callbacks'[d][b][i] = x
        BY <1>q, <3>2, <4>1, SMT
      <4> QED
        BY <4>2 DEF InBuffer
    <3> QED
      BY <1>q, <3>1, <3>2
  <2>2. ASSUME cb \in Enqueued' PROVE \E b \in 0..1 : cb \in InBuffer(c, b)'
    <3>1. PICK b \in 0..1 : b = buf[c]
      BY DEF RcuInv, TypeInv
    <3>2. callbacks'[c][b] = Append(callbacks[c][b], cb) /\ callbacks[c][b] \in Seq(Callbacks)
      BY <1>3, <1>q, <2>2, <3>1
    <3>3. Len(callbacks'[c][b]) \in 1 .. Len(callbacks'[c][b])
          /\ callbacks'[c][b][Len(callbacks'[c][b])] = cb
      BY <3>2, SMT
    <3> QED
      BY <3>3 DEF InBuffer
  <2>3. ASSUME NEW x \in Enqueued
        PROVE  x \in done' \/ \E d \in Cpus, b \in 0..1 : x \in InBuffer(d, b)'
    <3>1. x \in done \/ \E d \in Cpus, b \in 0..1 : x \in InBuffer(d, b)
      BY DEF BarrierInv, NothingLost
    <3> QED
      BY <3>1, <2>1
  <2>4. ASSUME NEW x \in Enqueued'
        PROVE  x \in done' \/ \E d \in Cpus, b \in 0..1 : x \in InBuffer(d, b)'
    <3>1. x \in Enqueued \/ x = cb
      BY <1>3, <2>4
    <3> QED
      BY <3>1, <2>2, <2>3, <2>4
  <2> QED
    BY <2>4 DEF NothingLost
<1>9. PostsLast'
  <2>1. ASSUME NEW u \in Threads, NEW d \in Cpus, NEW x \in thread'[u].must
        PROVE  Behind(<<u, d>>, x, d)'
    <3> DEFINE p == <<u, d>>
    <3>1. x # cb /\ Behind(p, x, d)
      BY <1>4, <2>1 DEF BarrierInv, PostsLast
    <3> HIDE DEF p
    <3>2. buf[d] \in 0..1
      BY DEF RcuInv, TypeInv
    <3>3. \A b \in 0..1 : x \in InBuffer(d, b)' => x \in InBuffer(d, b)
      BY <1>2, <3>1
    <3>4. ASSUME NEW b \in 0..1, NEW i \in 1 .. Len(callbacks'[d][b]),
                 NEW j \in 1 .. Len(callbacks'[d][b]),
                 callbacks'[d][b][i] = p, callbacks'[d][b][j] = x
          PROVE  j < i
      <4>1. CASE callbacks'[d][b] = callbacks[d][b]
        BY <3>1, <3>4, <4>1 DEF Behind
      <4>2. CASE callbacks'[d][b] = Append(callbacks[d][b], cb)
        <5> DEFINE n == Len(callbacks[d][b])
        <5>1. n \in Nat /\ Len(callbacks'[d][b]) = n + 1 /\ callbacks'[d][b][n + 1] = cb
              /\ \A k \in 1 .. n : callbacks'[d][b][k] = callbacks[d][b][k]
          BY <1>q, <4>2, SMT
        <5>2. j \in 1 .. n
          BY <3>1, <3>4, <5>1, SMTT(40)
        <5>3. CASE i \in 1 .. n
          BY <3>1, <3>4, <5>1, <5>2, <5>3 DEF Behind
        <5>4. CASE i = n + 1
          BY <5>1, <5>2, <5>4, SMT
        <5>5. i \in 1 .. n \/ i = n + 1
          BY <3>1, <5>1, SMT
        <5> QED
          BY <5>3, <5>4, <5>5
      <4> QED
        BY <1>q, <4>1, <4>2
    <3>5. p \in done' => \A b \in 0..1 : x \notin InBuffer(d, b)'
      BY <3>1, <3>3 DEF Behind
    <3>6. (p \in InBuffer(d, 1 - buf[d]) => x \notin InBuffer(d, buf[d]))'
      <4>1. PICK b \in 0..1 : b = buf[d]
        BY <3>2
      <4>2. InBuffer(d, buf[d])' = InBuffer(d, b)' /\ InBuffer(d, buf[d]) = InBuffer(d, b)
        BY <4>1, <1>2 DEF InBuffer
      <4> QED
        BY <1>2, <3>1, <3>3, <4>1, <4>2 DEF Behind
    <3>7. Behind(p, x, d)'
      BY <3>4, <3>5, <3>6 DEF Behind
    <3> QED
      BY <3>7 DEF p
  <2> QED
    BY <2>1 DEF PostsLast
<1>10. FlushIsBarrier'
  BY <1>1 DEF BarrierInv, FlushIsBarrier
<1> QED
  BY <1>5, <1>6, <1>7, <1>8, <1>9, <1>10 DEF BarrierInv

\* The callers of rcu_defer() queue on a CPU what is theirs.
LEMMA DeferringKeeps ==
    ASSUME RcuInv, BarrierInv, NEW t \in Threads,
           \/ \E c \in Cpus, o \in Objects : Dispose(t, c, o)
           \/ Retry(t)
           \/ \E c \in Cpus : FlushDefer(t, c)
    PROVE  BarrierInv'
<1>1. ASSUME NEW c \in Cpus, NEW o \in Objects, Dispose(t, c, o) PROVE BarrierInv'
  <2>1. PICK then \in {"idle", "sync"} : rcu_defer(t, c, o, then)
    BY <1>1 DEF Dispose
  <2>2. o \in Callbacks /\ o \notin Enqueued /\ thread[t].pc = "idle"
        /\ deferred' = deferred \cup {o} /\ UNCHANGED <<done, qst>>
    BY <1>1 DEF Dispose, Callbacks, Enqueued
  <2>3. OwnCpu(o, c)
    BY RcuAssumption, SMTT(40) DEF OwnCpu, Posts
  <2> QED
    BY <2>1, <2>2, <2>3, DeferLast
<1>2. ASSUME Retry(t) PROVE BarrierInv'
  <2>1. thread[t].pc = "room" /\ thread[t].cpu \in Cpus /\ thread[t].what \in deferred
    BY <1>2 DEF Retry, RcuInv, ThreadsDeferred
  <2>2. thread[t].then \in {"idle", "sync", "poke"} /\ deferred \in SUBSET Callbacks
    BY DEF RcuInv, TypeInv, ThreadStates
  <2>3. PICK c \in Cpus, cb \in Callbacks, then \in {"idle", "sync", "poke"} :
          rcu_defer(t, c, cb, then) /\ cb = thread[t].what /\ c = thread[t].cpu
    BY <1>2, <2>1, <2>2 DEF Retry
  <2>4. cb \notin Enqueued /\ OwnCpu(cb, c)
    <3>1. cb \notin Enqueued
      BY <2>1, <2>3 DEF Enqueued
    <3>2. OwnCpu(cb, c)
      BY <2>1, <2>3 DEF BarrierInv, OnOwnCpu
    <3> QED
      BY <3>1, <3>2
  <2>5. UNCHANGED <<done, qst, deferred>>
    BY <1>2 DEF Retry
  <2> QED
    BY <2>1, <2>3, <2>4, <2>5, DeferLast
<1>3. ASSUME NEW c \in Cpus, FlushDefer(t, c) PROVE BarrierInv'
  <2>1. PICK cb \in Callbacks : cb = <<t, c>>
    BY DEF Callbacks, Posts
  <2>2. /\ rcu_defer(t, c, cb, "poke") /\ cb \notin Enqueued /\ thread[t].pc = "flush"
        /\ deferred' = deferred \cup {cb} /\ UNCHANGED <<done, qst>>
    BY <1>3, <2>1 DEF FlushDefer, Enqueued
  <2>3. OwnCpu(cb, c)
    BY <2>1 DEF OwnCpu
  <2> QED
    BY <2>2, <2>3, DeferLast
<1> QED
  BY <1>1, <1>2, <1>3

\* rcu_flush() begins with none of its posts queued, and returns with all of them
\* done.
LEMMA CallersKeep ==
    ASSUME RcuInv, BarrierInv, NEW t \in Threads,
           Wake(t) \/ SyncReturn(t) \/ FlushStart(t) \/ FlushReturn(t)
    PROVE  BarrierInv'
<1>1. /\ UNCHANGED <<done, deferred, buf, callbacks, qst>>
      /\ thread \in [Threads -> ThreadStates] /\ thread[t] \in ThreadStates
      /\ QueuedDeferred
  BY DEF Wake, SyncReturn, FlushStart, FlushReturn, perCpu, RcuInv, TypeInv
<1>2. /\ \A u \in Threads : u # t => thread'[u] = thread[u]
      /\ thread[t].pc # "room" /\ thread'[t].pc # "room"
      /\ \/ thread'[t].must \subseteq thread[t].must
         \/ thread'[t].must = Enqueued /\ \A c \in Cpus : <<t, c>> \notin deferred
      /\ thread'[t].pc = "flushed" => Flushed(t) /\ thread'[t].must = thread[t].must
  <2>1. CASE Wake(t)
    BY <1>1, <2>1 DEF Wake, ThreadStates
  <2>2. CASE SyncReturn(t)
    BY <1>1, <2>2 DEF SyncReturn, Idle, ThreadStates
  <2>3. CASE FlushStart(t)
    BY <1>1, <2>3 DEF FlushStart, Idle, ThreadStates
  <2>4. CASE FlushReturn(t)
    BY <1>1, <2>4 DEF FlushReturn, Idle, ThreadStates
  <2> QED
    BY <2>1, <2>2, <2>3, <2>4
<1>3. Enqueued' = Enqueued
  BY <1>1, <1>2 DEF Enqueued
<1>4. /\ \A c \in Cpus, b \in 0..1 : InBuffer(c, b)' = InBuffer(c, b)
      /\ \A c \in Cpus : buf[c] \in 0..1 /\ 1 - buf[c] \in 0..1
      /\ \A c \in Cpus : InBuffer(c, 1 - buf[c])' = InBuffer(c, 1 - buf[c])
  BY <1>1, SameBatch DEF RcuInv, TypeInv
<1>5. Emptied'
  BY <1>1, <1>4 DEF BarrierInv, Emptied, Idling
<1>6. OnOwnCpu'
  <2>1. ASSUME NEW c \in Cpus, NEW b \in 0..1, NEW cb \in InBuffer(c, b)' PROVE OwnCpu(cb, c)
    BY <1>4, <2>1 DEF BarrierInv, OnOwnCpu
  <2>2. ASSUME NEW u \in Threads, thread'[u].pc = "room"
        PROVE  OwnCpu(thread'[u].what, thread'[u].cpu)
    <3>1. u # t /\ thread'[u] = thread[u]
      BY <1>2, <2>2
    <3> QED
      BY <2>2, <3>1 DEF BarrierInv, OnOwnCpu
  <2> QED
    BY <2>1, <2>2 DEF OnOwnCpu, OwnCpu
<1>7. MustEnqueued'
  <2>1. ASSUME NEW u \in Threads PROVE thread'[u].must \subseteq Enqueued
    BY <1>2 DEF BarrierInv, MustEnqueued
  <2> QED
    BY <1>3, <2>1 DEF MustEnqueued
<1>8. NothingLost'
  BY <1>1, <1>3, <1>4, SMT DEF BarrierInv, NothingLost
<1>9. PostsLast'
  <2>1. ASSUME NEW u \in Threads, NEW c \in Cpus, NEW x \in thread'[u].must
        PROVE  Behind(<<u, c>>, x, c)
    <3>1. CASE x \in thread[u].must
      BY <3>1 DEF BarrierInv, PostsLast
    <3>2. CASE x \notin thread[u].must
      <4>1. <<u, c>> \notin deferred
        BY <1>2, <2>1, <3>2
      <4>2. <<u, c>> \notin done /\ \A b \in 0..1 : <<u, c>> \notin InBuffer(c, b)
        BY <1>1, <4>1 DEF QueuedDeferred
      <4>3. \A b \in 0..1 : \A i \in 1 .. Len(callbacks[c][b]) : callbacks[c][b][i] # <<u, c>>
        BY <4>2 DEF InBuffer
      <4> QED
        BY <4>2, <4>3, <1>4 DEF Behind
    <3> QED
      BY <3>1, <3>2
  <2>2. ASSUME NEW u \in Threads, NEW c \in Cpus, NEW x \in thread'[u].must
        PROVE  Behind(<<u, c>>, x, c)'
    <3>1. Behind(<<u, c>>, x, c)
      BY <2>1, <2>2
    <3> QED
      BY <1>1, <1>4, <3>1 DEF Behind
  <2> QED
    BY <2>2 DEF PostsLast
<1>10. FlushIsBarrier'
  <2>1. ASSUME NEW u \in Threads, thread'[u].pc = "flushed" PROVE thread'[u].must \subseteq done
    <3>1. CASE u # t
      BY <1>2, <2>1, <3>1 DEF BarrierInv, FlushIsBarrier
    <3>2. CASE u = t
      <4>1. ASSUME NEW x \in thread[t].must, x \notin done PROVE FALSE
        <5>1. x \in Enqueued
          BY <4>1 DEF BarrierInv, MustEnqueued
        <5>2. PICK c \in Cpus, b \in 0..1 : x \in InBuffer(c, b)
          BY <4>1, <5>1 DEF BarrierInv, NothingLost
        <5>3. Behind(<<t, c>>, x, c)
          BY <4>1 DEF BarrierInv, PostsLast
        <5>4. <<t, c>> \in done
          BY <1>2, <2>1, <3>2 DEF Flushed
        <5> QED
          BY <5>2, <5>3, <5>4 DEF Behind
      <4> QED
        BY <1>2, <2>1, <3>2, <4>1
    <3> QED
      BY <3>1, <3>2
  <2> QED
    BY <1>1, <2>1 DEF FlushIsBarrier
<1> QED
  BY <1>5, <1>6, <1>7, <1>8, <1>9, <1>10 DEF BarrierInv

\* The buffers are switched when that which is not in use is empty.
LEMMA SwitchKeeps ==
    ASSUME RcuInv, BarrierInv, NEW c \in Cpus, Switch(c)
    PROVE  BarrierInv'
<1>1. /\ UNCHANGED <<done, deferred, callbacks, thread>>
      /\ buf \in [Cpus -> 0..1] /\ qst \in [Cpus -> WorkerStates] /\ qst[c].pc = "top"
      /\ buf[c] \in 0..1
  BY DEF Switch, At, RcuInv, TypeInv
<1>2. /\ \A d \in Cpus : d # c => buf'[d] = buf[d] /\ qst'[d] = qst[d]
      /\ \/ buf' = buf
         \/ buf'[c] = 1 - buf[c] /\ qst'[c].pc = "generation"
  BY <1>1 DEF Switch, WorkerStates
<1>3. InBuffer(c, 1 - buf[c]) = {}
  BY <1>1 DEF BarrierInv, Emptied, Idling
<1>4. /\ \A d \in Cpus, b \in 0..1 : InBuffer(d, b)' = InBuffer(d, b)
      /\ Enqueued' = Enqueued
  BY <1>1, SameBuffers DEF Enqueued
<1>5. ASSUME NEW d \in Cpus, buf'[d] = buf[d]
      PROVE  /\ InBuffer(d, 1 - buf[d])' = InBuffer(d, 1 - buf[d])
             /\ InBuffer(d, buf[d])' = InBuffer(d, buf[d])
  BY <1>1, <1>5 DEF InBuffer
<1>6. ASSUME buf'[c] # buf[c]
      PROVE  InBuffer(c, buf[c])' = {}
  <2>1. buf'[c] = 1 - buf[c]
    BY <1>2, <1>6
  <2>2. InBuffer(c, buf[c])' = InBuffer(c, 1 - buf[c])
    BY <1>1, <2>1 DEF InBuffer
  <2> QED
    BY <2>2, <1>3
<1>7. Emptied'
  <2>1. ASSUME NEW d \in Cpus, Idling(qst'[d]) PROVE InBuffer(d, 1 - buf[d])' = {}
    <3>1. buf'[d] = buf[d]
      BY <1>2, <2>1 DEF Idling
    <3>2. InBuffer(d, 1 - buf[d]) = {}
      <4>1. CASE d = c
        BY <1>3, <4>1
      <4>2. CASE d # c
        BY <1>2, <2>1, <4>2 DEF BarrierInv, Emptied
      <4> QED
        BY <4>1, <4>2
    <3> QED
      BY <1>5, <3>1, <3>2
  <2> QED
    BY <2>1 DEF Emptied, Idling
<1>8. MustEnqueued' /\ FlushIsBarrier' /\ OnOwnCpu'
  BY <1>1, <1>4, SMT DEF BarrierInv, MustEnqueued, FlushIsBarrier, OnOwnCpu, OwnCpu
<1>9. NothingLost'
  BY <1>1, <1>4, SMT DEF BarrierInv, NothingLost
<1>10. PostsLast'
  <2>1. ASSUME NEW u \in Threads, NEW d \in Cpus, NEW x \in thread[u].must
        PROVE  Behind(<<u, d>>, x, d)'
    <3> DEFINE p == <<u, d>>
    <3>1. Behind(p, x, d)
      BY DEF BarrierInv, PostsLast
    <3> HIDE DEF p
    <3>2. (p \in done => \A b \in 0..1 : x \notin InBuffer(d, b))'
      BY <1>1, <1>4, <3>1 DEF Behind
    <3>3. (p \in InBuffer(d, 1 - buf[d]) => x \notin InBuffer(d, buf[d]))'
      <4>1. CASE buf'[d] = buf[d]
        BY <1>5, <3>1, <4>1 DEF Behind
      <4>2. CASE buf'[d] # buf[d]
        <5>1. d = c
          BY <1>2, <4>2
        <5>2. InBuffer(d, buf[d])' = {}
          BY <1>6, <4>2, <5>1
        <5> QED
          BY <5>2
      <4> QED
        BY <4>1, <4>2
    <3>4. Behind(p, x, d)'
      BY <1>1, <3>1, <3>2, <3>3 DEF Behind
    <3> QED
      BY <3>4 DEF p
  <2> QED
    BY <1>1, <2>1 DEF PostsLast
<1> QED
  BY <1>7, <1>8, <1>9, <1>10 DEF BarrierInv

\* Run() takes the first of the queue: what a flush must wait for was before its
\* post().
LEMMA RunKeeps ==
    ASSUME RcuInv, BarrierInv, NEW c \in Cpus, Run(c), callbacks[c][1 - buf[c]] # <<>>
    PROVE  BarrierInv'
<1>1. PICK a \in 0..1 : a = 1 - buf[c]
  <2>1. buf[c] \in 0..1
    BY DEF RcuInv, TypeInv
  <2> QED
    BY <2>1, SMT
<1> DEFINE cb == Head(callbacks[c][a])
<1>2. /\ UNCHANGED <<deferred, buf, qst, thread>>
      /\ done' = done \cup {cb}
      /\ callbacks' = [callbacks EXCEPT ![c][a] = Tail(@)]
  BY <1>1 DEF Run
<1>3. /\ cb \in InBuffer(c, a)
      /\ \A d \in Cpus, b \in 0..1 : InBuffer(d, b)' \subseteq InBuffer(d, b)
      /\ \A d \in Cpus, b \in 0..1 : InBuffer(d, b) \subseteq InBuffer(d, b)' \cup {cb}
  BY <1>1, <1>2, TailBuffer DEF RcuInv
<1>4. /\ callbacks[c][a] \in Seq(Callbacks) /\ callbacks[c][a] # <<>>
      /\ callbacks'[c][a] = Tail(callbacks[c][a]) /\ cb = callbacks[c][a][1]
      /\ \A d \in Cpus, b \in 0..1 : ~(d = c /\ b = a) => callbacks'[d][b] = callbacks[d][b]
  BY <1>1, <1>2, SMT DEF RcuInv, TypeInv
<1> HIDE DEF cb
<1>5. Enqueued' = Enqueued
  BY <1>2 DEF Enqueued
<1>6. ASSUME NEW d \in Cpus
      PROVE  /\ InBuffer(d, 1 - buf[d])' \subseteq InBuffer(d, 1 - buf[d])
             /\ InBuffer(d, buf[d])' \subseteq InBuffer(d, buf[d])
  <2>1. PICK b \in 0..1, e \in 0..1 : b = buf[d] /\ e = 1 - buf[d]
    <3>1. buf[d] \in 0..1
      BY DEF RcuInv, TypeInv
    <3> QED
      BY <3>1, SMT
  <2>2. /\ InBuffer(d, 1 - buf[d])' = InBuffer(d, e)' /\ InBuffer(d, 1 - buf[d]) = InBuffer(d, e)
        /\ InBuffer(d, buf[d])' = InBuffer(d, b)' /\ InBuffer(d, buf[d]) = InBuffer(d, b)
    BY <1>2, <2>1 DEF InBuffer
  <2> QED
    BY <1>3, <2>2
<1>7. Emptied'
  BY <1>2, <1>6 DEF BarrierInv, Emptied, Idling
<1>8. OnOwnCpu'
  BY <1>2, <1>3, SMT DEF BarrierInv, OnOwnCpu, OwnCpu
<1>9. MustEnqueued' /\ FlushIsBarrier'
  BY <1>2, <1>5 DEF BarrierInv, MustEnqueued, FlushIsBarrier
<1>10. NothingLost'
  <2>1. ASSUME NEW x \in Enqueued
        PROVE  x \in done' \/ \E d \in Cpus, b \in 0..1 : x \in InBuffer(d, b)'
    <3>1. CASE x \in done
      BY <1>2, <3>1
    <3>2. ASSUME NEW d \in Cpus, NEW b \in 0..1, x \in InBuffer(d, b)
          PROVE  x \in done' \/ x \in InBuffer(d, b)'
      BY <1>2, <1>3, <3>2
    <3> QED
      BY <3>1, <3>2 DEF BarrierInv, NothingLost
  <2> QED
    BY <1>5, <2>1 DEF NothingLost
<1>11. PostsLast'
  <2>1. ASSUME NEW u \in Threads, NEW d \in Cpus, NEW x \in thread[u].must
        PROVE  Behind(<<u, d>>, x, d)'
    <3>0. cb = <<u, d>> => d = c
      BY <1>3 DEF BarrierInv, OnOwnCpu, OwnCpu
    <3> DEFINE p == <<u, d>>
    <3>1. Behind(p, x, d)
      BY DEF BarrierInv, PostsLast
    <3>2. cb = p => d = c
      BY <3>0
    <3> HIDE DEF p
    <3>3. ASSUME NEW b \in 0..1, NEW i \in 1 .. Len(callbacks'[d][b]),
                 NEW j \in 1 .. Len(callbacks'[d][b]),
                 callbacks'[d][b][i] = p, callbacks'[d][b][j] = x
          PROVE  j < i
      <4>1. CASE ~(d = c /\ b = a)
        <5>1. callbacks'[d][b] = callbacks[d][b]
          BY <1>4, <4>1
        <5> QED
          BY <3>1, <3>3, <5>1 DEF Behind
      <4>2. CASE d = c /\ b = a
        <5> DEFINE q == callbacks[d][b]
        <5>1. q \in Seq(Callbacks) /\ q # <<>> /\ callbacks'[d][b] = Tail(q)
          BY <1>4, <4>2
        <5>2. /\ i + 1 \in 1 .. Len(q) /\ j + 1 \in 1 .. Len(q) /\ i \in Nat /\ j \in Nat
              /\ q[i + 1] = p /\ q[j + 1] = x
          BY <3>3, <5>1, SMT
        <5>3. j + 1 < i + 1
          BY <3>1, <5>2 DEF Behind
        <5> QED
          BY <5>2, <5>3, SMT
      <4> QED
        BY <4>1, <4>2
    <3>4. ASSUME p \in done', NEW b \in 0..1, x \in InBuffer(d, b)' PROVE FALSE
      <4>1. x \in InBuffer(d, b)
        BY <1>3, <3>4
      <4>2. p \notin done /\ p = cb /\ d = c
        BY <1>2, <3>1, <3>2, <3>4, <4>1 DEF Behind
      <4>3. p \in InBuffer(d, 1 - buf[d]) /\ x \notin InBuffer(d, buf[d])
        BY <1>1, <1>3, <3>1, <4>2 DEF Behind
      <4>4. b = a
        <5>1. buf[c] \in 0..1
          BY DEF RcuInv, TypeInv
        <5>2. b # buf[c]
          BY <4>1, <4>2, <4>3
        <5> QED
          BY <1>1, <5>1, <5>2, SMT
      <4>5. PICK j \in 1 .. Len(callbacks'[d][b]) : callbacks'[d][b][j] = x
        BY <3>4 DEF InBuffer
      <4>6. /\ j + 1 \in 1 .. Len(callbacks[d][b]) /\ j \in Nat /\ j > 0
            /\ callbacks[d][b][j + 1] = x
            /\ 1 \in 1 .. Len(callbacks[d][b]) /\ callbacks[d][b][1] = p
        <5>1. /\ callbacks'[d][b] = Tail(callbacks[d][b]) /\ callbacks[d][b] \in Seq(Callbacks)
              /\ callbacks[d][b] # <<>> /\ callbacks[d][b][1] = p
          BY <1>4, <4>2, <4>4
        <5> QED
          BY <4>5, <5>1, SMT
      <4>7. j + 1 < 1
        BY <3>1, <4>6 DEF Behind
      <4> QED
        BY <4>6, <4>7, SMT
    <3>5. (p \in InBuffer(d, 1 - buf[d]) => x \notin InBuffer(d, buf[d]))'
      BY <1>6, <3>1 DEF Behind
    <3>6. Behind(p, x, d)'
      BY <3>3, <3>4, <3>5 DEF Behind
    <3> QED
      BY <3>6 DEF p
  <2> QED
    BY <1>2, <2>1 DEF PostsLast
<1> QED
  BY <1>7, <1>8, <1>9, <1>10, <1>11 DEF BarrierInv

\* The other steps of do_work() leave the queues alone, and it goes on to the head
\* of its loop, or idles, only from there or when nothing is left to run.
LEMMA WorkersKeep ==
    ASSUME RcuInv, BarrierInv, NEW c \in Cpus, do_work(c)
    PROVE  BarrierInv'
<1>t. /\ qst \in [Cpus -> WorkerStates] /\ qst[c].back \in {"wait", "top"}
      /\ qst[c].pc \in Locations
  BY DEF RcuInv, TypeInv, WorkerStates
<1>q. ASSUME UNCHANGED <<done, deferred, buf, callbacks, thread>>,
             \A d \in Cpus : d # c => qst'[d] = qst[d],
             Idling(qst'[c]) => Idling(qst[c]) \/ InBuffer(c, 1 - buf[c]) = {}
      PROVE  BarrierInv'
  <2>1. \A d \in Cpus : InBuffer(d, 1 - buf[d])' = InBuffer(d, 1 - buf[d])
    BY <1>q DEF InBuffer
  <2>2. Emptied'
    BY <1>q, <2>1 DEF BarrierInv, Emptied, Idling
  <2> QED
    BY <1>q, <2>2, QueuesSame
<1>s. ASSUME NEW g, NEW back \in {"wait", "top"}, StoreGeneration(c, g, back),
             back = "top" => Idling(qst[c])
      PROVE  BarrierInv'
  <2>0. /\ qst' = [qst EXCEPT ![c].pc = IF Others(c) = {} THEN back ELSE "notify",
                              ![c].todo = Others(c), ![c].back = back]
        /\ UNCHANGED <<done, deferred, buf, callbacks, thread>>
    BY <1>s DEF StoreGeneration, perCpu
  <2>1. /\ UNCHANGED <<done, deferred, buf, callbacks, thread>>
        /\ \A d \in Cpus : d # c => qst'[d] = qst[d]
    BY <1>t, <2>0
  <2>2. qst'[c].pc \in {back, "notify"} /\ qst'[c].back = back
    BY <1>t, <2>0 DEF WorkerStates
  <2>3. Idling(qst'[c]) => back = "top"
    BY <2>2 DEF Idling
  <2>4. CASE back = "top"
    BY <1>q, <1>s, <2>1, <2>4
  <2>5. CASE back # "top"
    BY <1>q, <2>1, <2>3, <2>5
  <2> QED
    BY <2>4, <2>5
<1>1. CASE Switch(c)
  BY <1>1, SwitchKeeps
<1>2. CASE NextGeneration(c) \/ SetRequested(c)
  <2>1. /\ UNCHANGED <<done, deferred, buf, callbacks, thread>>
        /\ \A d \in Cpus : d # c => qst'[d] = qst[d]
    BY <1>2, <1>t DEF NextGeneration, SetRequested, perCpu
  <2>2. qst'[c].pc \in {"requested", "request"}
    BY <1>2, <1>t, SMT DEF NextGeneration, SetRequested, WorkerStates
  <2> QED
    BY <1>q, <2>1, <2>2 DEF Idling
<1>3. CASE SetOwn(c)
  BY <1>3, <1>s DEF SetOwn
<1>4. ASSUME NEW d \in Cpus, RequestOf(c, d) PROVE BarrierInv'
  <2>1. /\ UNCHANGED <<done, deferred, buf, callbacks, thread>>
        /\ \A e \in Cpus : e # c => qst'[e] = qst[e]
    BY <1>4, <1>t DEF RequestOf, perCpu
  <2>2. qst'[c].pc = "request"
    BY <1>4, <1>t DEF RequestOf, At, WorkerStates
  <2> QED
    BY <1>q, <2>1, <2>2 DEF Idling
<1>5. ASSUME NEW d \in Cpus, Notify(c, d) PROVE BarrierInv'
  <2>1. /\ UNCHANGED <<done, deferred, buf, callbacks, thread>>
        /\ \A e \in Cpus : e # c => qst'[e] = qst[e]
    BY <1>5, <1>t DEF Notify, perCpu
  <2>2. /\ qst[c].pc = "notify"
        /\ qst'[c].pc \in {"notify", qst[c].back} /\ qst'[c].back = qst[c].back
    BY <1>5, <1>t, SMT DEF Notify, At, WorkerStates
  <2>3. Idling(qst'[c]) => Idling(qst[c])
    BY <1>t, <2>2 DEF Idling
  <2> QED
    BY <1>q, <2>1, <2>3
<1>6. CASE Await(c)
  <2>1. CASE generation[c] < request[c] /\ StoreGeneration(c, request[c], "wait")
    BY <1>s, <2>1
  <2>2. CASE UNCHANGED <<done, deferred, perCpu, qst, thread>>
    BY <1>q, <2>2 DEF perCpu
  <2>3. CASE UNCHANGED <<done, deferred, perCpu, thread>> /\ qst' = [qst EXCEPT ![c].pc = "run"]
    <3>1. qst'[c].pc = "run" /\ \A d \in Cpus : d # c => qst'[d] = qst[d]
      BY <1>t, <2>3 DEF WorkerStates
    <3> QED
      BY <1>q, <2>3, <3>1 DEF perCpu, Idling
  <2> QED
    BY <1>6, <2>1, <2>2, <2>3 DEF Await
<1>7. CASE IdleWait(c)
  <2>1. qst[c].pc = "idle" /\ Idling(qst[c])
    BY <1>7 DEF IdleWait, At, Idling
  <2>2. CASE generation[c] < request[c] /\ StoreGeneration(c, request[c], "top")
    BY <1>s, <2>1, <2>2
  <2>3. CASE /\ UNCHANGED <<done, deferred, perCpu, thread>>
             /\ qst' = qst \/ qst' = [qst EXCEPT ![c].pc = "top"]
    <3>1. \A d \in Cpus : d # c => qst'[d] = qst[d]
      BY <1>t, <2>3
    <3> QED
      BY <1>q, <2>1, <2>3, <3>1 DEF perCpu
  <2> QED
    BY <1>7, <2>2, <2>3 DEF IdleWait
<1>8. CASE Run(c)
  <2>1. CASE callbacks[c][1 - buf[c]] # <<>>
    BY <1>8, <2>1, RunKeeps
  <2>2. CASE callbacks[c][1 - buf[c]] = <<>>
    <3>1. /\ UNCHANGED <<done, deferred, buf, callbacks, thread>>
          /\ qst' = [qst EXCEPT ![c].pc = "top"]
      BY <1>8, <2>2 DEF Run
    <3>2. \A d \in Cpus : d # c => qst'[d] = qst[d]
      BY <1>t, <3>1
    <3>3. InBuffer(c, 1 - buf[c]) = {}
      BY <2>2, SMT DEF InBuffer
    <3> QED
      BY <1>q, <3>1, <3>2, <3>3
  <2> QED
    BY <2>1, <2>2
<1> QED
  BY <1>1, <1>2, <1>3, <1>4, <1>5, <1>6, <1>7, <1>8 DEF do_work

\* rcu_flush() keeps its promise: when it returns, every callback that was enqueued
\* when it was called has run, on whatever CPU it was queued.
THEOREM FlushWaits == Spec => []FlushIsBarrier
<1>1. Init => BarrierInv
  <2> SUFFICES ASSUME Init PROVE BarrierInv
    OBVIOUS
  <2>1. \A c \in Cpus, b \in 0..1 : InBuffer(c, b) = {} /\ callbacks[c][b] = <<>>
    BY SMT DEF Init, InBuffer
  <2>2. /\ \A c \in Cpus : buf[c] = 0
        /\ \A t \in Threads : thread[t].pc = "idle" /\ thread[t].must = {}
        /\ deferred = {} /\ done = {}
    BY DEF Init, Idle
  <2>3. Emptied
    BY <2>1, <2>2, SMT DEF Emptied
  <2>4. OnOwnCpu
    BY <2>1, <2>2 DEF OnOwnCpu
  <2>5. MustEnqueued /\ NothingLost /\ FlushIsBarrier /\ PostsLast
    BY <2>2 DEF MustEnqueued, NothingLost, FlushIsBarrier, PostsLast, Enqueued
  <2> QED
    BY <2>3, <2>4, <2>5 DEF BarrierInv
<1>2. RcuInv /\ BarrierInv /\ [Next]_vars => BarrierInv'
  <2> SUFFICES ASSUME RcuInv, BarrierInv, [Next]_vars PROVE BarrierInv'
    OBVIOUS
  <2>1. ASSUME UNCHANGED <<done, deferred, buf, callbacks, qst, thread>> PROVE BarrierInv'
    <3>1. \A c \in Cpus : InBuffer(c, 1 - buf[c])' = InBuffer(c, 1 - buf[c])
      BY <2>1 DEF InBuffer
    <3>2. Emptied'
      BY <2>1, <3>1 DEF BarrierInv, Emptied, Idling
    <3> QED
      BY <2>1, <3>2, QueuesSame
  <2>2. ASSUME NEW c \in Cpus, rcu_read_unlock(c) \/ \E o \in Objects : rcu_read_lock(c, o)
        PROVE  BarrierInv'
    BY <2>1, <2>2 DEF rcu_read_lock, rcu_read_unlock, perCpu
  <2>3. CASE UNCHANGED vars
    BY <2>1, <2>3 DEF vars, perCpu
  <2>4. CASE Next
    BY <2>2, <2>4, WorkersKeep, DeferringKeeps, CallersKeep DEF Next, Proceed
  <2> QED
    BY <2>3, <2>4
<1>3. BarrierInv => FlushIsBarrier
  BY DEF BarrierInv
<1> QED
  BY <1>1, <1>2, <1>3, RcuInvariance, PTL DEF Spec
=============================================================================
