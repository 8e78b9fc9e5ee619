# miniosv in TLA+

miniosv is a small hard fork of the OSv unikernel: one binary that holds the
kernel and the application. This directory models its concurrency core, its
memory management and its address space, checks the models with TLC and proves
the mutex, the rwlock, the condition variable, the scheduler, the end of threads,
RCU and the small-object pools with TLAPS. Source paths are relative to `src/`. `PROJECT.json` has the same project for tools: components,
runs, the source lines of every definition, hazards, findings and theorems.

## The system and its modules

| Part | Code | Module |
|---|---|---|
| mutex | `core/lfmutex.cc`, `include/lockfree/mutex.hh`, `queue-mpsc.hh`, `include/osv/wait_record.hh` | `LFMutex`; `Mutex` is what it promises, `LFMutexImpl` the mapping |
| scheduler | `core/sched.cc`, `include/osv/sched.hh` | `Sched`; `SchedPin` adds `pin()` of the current thread |
| end of threads | `core/sched.cc` (`complete`, `destroy`, `join`, `detach`, reaper) | `ThreadLife` |
| timers | `core/sched.cc`, `include/osv/timer-set.hh` | `Timers` |
| condition variable | `core/condvar.cc` | `CondVar` |
| waitqueue, barrier | `core/waitqueue.cc`, `libc/pthread_barrier.cc` | `Barrier` |
| rwlock | `core/rwlock.cc` | `RWLock` |
| semaphore | `core/semaphore.cc` | `Semaphore` |
| RCU | `core/rcu.cc`, `include/osv/rcu.hh` | `Rcu` |
| page ranges, reclaimer | `core/mempool.cc` | `PageRanges` |
| L1/L2 page pools | `core/mempool.cc` | `PagePool` |
| small objects | `core/mempool.cc` | `SmallPool` |
| VMAs, page tables, page faults | `core/mmu.cc`, `include/osv/mmu.hh` | `AddressSpace` |
| per-CPU workers | `core/percpu-worker.cc` | `Workers` |

How they interact. Every blocking primitive ends in `thread::wait_until()` and
`thread::wake_with()`, which are `Sched`. The mutex parks its waiters with them
and wakes them through a `wait_record` on the waiter's stack. A condition
variable moves its waiters straight onto the queue of the user's mutex ("wait
morphing"), so that they sleep on until the mutex is theirs: `CondVar` does so
over the abstract mutex, and `LFMutex` has the other side of it (`Park`,
`SendLock`, `TakeOwnership`). The waitqueue does the same with a thread status of
its own (`sending_lock`), which is in `Barrier`. Wake-ups hold an RCU read lock,
which keeps the `detached_state` of a thread alive; `ThreadLife` has that grace
period. RCU, the page pools, the small objects and the reclaimer run threads of
their own; small objects freed on another CPU travel through a worker item.

What makes this hard: no lock protects the mutex itself, the run queues of other
CPUs are reached through lock-free queues and an interrupt that is skipped when
the target seems awake, a thread can be woken before it sleeps or when it no
longer waits, and page faults walk the page tables at the same time.

In every module a step is one access to shared state, and what a thread does with
its own data is merged with the access before it. Where the code holds a lock
that all other accesses take too, the section is one step; the header of each
module says so.

### LFMutex

`count`, `owner`, `depth`, `handoff` and `sequence` are the fields of the class;
`old[t]` is what thread `t` read from `handoff`. `pushlist` and `poplist` are the
two lists of `queue_mpsc`, and `taken` is the list that a `pop()` has exchanged
and not yet reversed. `woken[t]` says that the wait record of `t` was cleared.
`pc[t]` is the next access: `lk_` in `lock()`, `tl_` in `try_lock()`, `sl_` in
`send_lock()`, `ul_` in `unlock()`. A thread that holds the mutex may `Park`: it
gives it up as `condvar::wait()` does and sleeps on a record that another thread
can `SendLock`. This stands for every caller of `send_lock()`.

`mutex.hh` (41-50) rests on an assumption it states itself: a thread delayed
between reading and taking a handoff does not sleep through all values of
`sequence`. The model makes it the guard `NotStale`, because with the small
`SeqMax` of a model checker the wrap-around is a few steps away.

### Sched and SchedPin

`st` and `cpu` are `detached_state::st` and `_cpu`. `incoming[c][s]` is
`incoming_wakeups[s]` of CPU `c`, `mask[c]` its mask, `ipi[c]` a pending wake-up
interrupt. `flag[t]` stands for whatever the predicate of `wait_until()` tests.
`pc[t]` is the thread's position (`wt_` waiting, `wk_` inside `wake_impl()`) and
`cpc[c]` the CPU's position in scheduler code (`id_` in `do_idle()`).

* The run queue is a set. Which of its threads has the least virtual runtime is
  an open choice, so the results hold for every policy.
* The idle thread is the value `Idle` of `current[c]`. It is always runnable and
  is not kept in `runqueue[c]`; `Size` adds it back where the code counts it.
* `need_reschedule` is thread-local in the code. It is false for a thread that is
  not current, so one value per CPU is the same thing.
* Push and pop of the incoming queues are atomic: each has one producer (a CPU,
  with interrupts off) and one consumer.

`SchedPin` adds `PinBegin` (start the wakeme thread on the CPU to be left),
`PinMove` (change the CPU, mark the thread waiting, set wakeme's condition) and
the two steps of wakeme, which then runs through the `wk_` steps of `Sched`.

### The other locks

* `CondVar`: `claims[m]` is the line of a user mutex, `fifo` the list of wait
  records, `sent` the records given to `send_lock()`. Timeouts expire at any time;
  the look at the record outside of `_m` is a step of its own (`"collect"`).
* `RWLock`: `readers` is the word `_readers` with its flags and its two counts,
  `writer_wait`, `waiters` the other fields, `wm` and `depth` the recursive mutex
  `_wmtx` as `Mutex` describes it. `granted` are the readers whose record was
  cleared. Each load, compare-and-exchange, push and pop is a step.
* `Barrier`: the mutex as its callers see it (`holder`, `queue`, `count`), the
  waitqueue's `fifo`, and `st` and `lock_sent` of `detached_state`. The wake-up of
  a record is two steps, since the code clears the record first.
* `Semaphore`: `post()` looks at one record per step, with the mutex held, and the
  timers of `wait()` expire at any time.

### RCU

`callbacks[c]` are the two buffers of a CPU and `buf[c]` the one in use.
`generation`, `request` and `requested` are the fields of the quiescent-state
threads, whose loop `do_work()` is `qst[c].pc`. A reader disables preemption, so
nothing else happens on its CPU (`Preemptible`). `Dispose` unlinks an object and
calls `rcu_defer()`, alone or in `rcu_synchronize()`. A full buffer makes the
caller wait on its CPU (`"room"`). `rcu_flush()` defers a `post()` on each CPU;
what it has to wait for is recorded when it begins (`must`).

### Memory

* `PageRanges`: `fpr` is the allocator, free ranges and bitmap, `owned` what was
  handed out. Which range of a free list comes first is open. The reclaimer and
  the waiters (`req`, `waiters`) run around it. `alloc`, `alloc_aligned`, `free`
  and `initial_add` are functions of the allocator; the invariants compare what
  they compute with the set of all pages.
* `PagePool`: pages are counted. A thread holds its CPU from `preempt_lock` on and
  gives it up, but stays there, while it fills or empties `l2`.
* `SmallPool`: pages of objects with their free lists, and the sinks in which
  objects freed on other CPUs wait for the collector.
* `AddressSpace`: calls that hold `vma_list_mutex` for write are one step; page
  faults hold it for read and take one step per access to a page-table entry.
  `tlb` is one translation that some CPU may remember. An entry is the set of its
  permissions, with `"valid"` as on x64: `make_pte()` leaves the bit clear for
  PROT_NONE (`arch/x64/arch-mmu.hh:138`), `change_perm()` always sets it. A walk of
  a part of a huge page looks at the bit before it looks whether the entry is large.
  When a walk takes a huge page for a table, or a table for a huge page, `corrupted`
  is set and the model ends; `lost` counts tables that were stored over.

### Threads, timers, workers

* `ThreadLife`: memory is two pieces per thread, the object and `ds`, each with the
  moment it is given back. `destroying[c]` is the `destroy()` that the next thread
  of a CPU executes; `client[t]` the `join()` or `detach()` going on.
* `Timers`: timestamps of `Bits` bits, buckets as in `timer_set`. All of it runs
  with interrupts off, so each call is a step.
* `Workers`: the one module that is not sequentially consistent. `buffered[c]` is
  the sheriff's store of false to `_duty` in the store buffer of its CPU.

## Runs

The structures that run without one another are checked together: the state of
`MCLocks`, `MCStructures` and `MCThreads` holds all of them, `which` names the one
that moves, and the others stay as they began. Each instance is checked completely
and none of them sees the others.

| Run | Instance | Shows |
|---|---|---|
| `mutex` | 3 threads, depth 2, 2 sequence numbers | one owner (`MutualExclusion`), one consumer of the queue (`SinglePopper`), the asserts of the code (`AssertionsHold`), no use of a dead wait record (`RecordsAlive`), `count` is exact (`CountExact`), an offered handoff is not overlooked (`HandoffNoticed`), refinement of `Mutex` (`ImplementsMutex`), a counted `lock()` is granted (`ClientServed`) |
| `sched_safety` | 2 CPUs, 3 threads, two of them on one CPU | a thread is on one CPU and in one queue (`OneCpu`), the status says where it is (`StatusAgrees`), the asserts of the code (`AssertionsHold`), no CPU halts on an unannounced wake-up (`HaltNoticed`) |
| `locks` | `CondVar`: 3 threads, 2 mutexes. `RWLock`: 3 threads, depth 2 | every waiter is in one place (`WaitersAccounted`), `wait()` returns with the mutex (`MutexReturned`) and returns once woken (`WakeupsReturn`); a writer is alone (`Exclusion`), both counts are exact (`CountsExact`), no pending writer or reader is forgotten (`NobodyStranded`), nobody starves (`LockServed`) |
| `structures` | `PageRanges`: 8 pages, 7 of them in 3 ranges added in any order, huge pages of 4. `PagePool`: 1 CPU, 2 threads, both fill threads, batches of 2, 11 pages. `SmallPool`: 2 CPUs, 2 pages of 3 objects. `Rcu`: 2 CPUs, 1 thread, 2 objects, buffers of 1. `Timers`: 2 timers of a thread that moves between 2 CPUs, 3 bits. `AddressSpace`: 3 pages, huge pages of 2; one faulting thread with PROT_NONE and MAP_POPULATE, one with the TLBs, two faulting threads, three that write the same page. `Semaphore`: 3 threads, 1 or 2 units. `Workers`: 2 CPUs, 1 item, 3 signals | `MemoryAccounted`, `BitmapTellsEnds`; `PagesConserved`, `L1Room`; `ObjectsAccounted`; `GracePeriod`, `FlushIsBarrier`; `BucketsFound`, `EventInTime`; `MappingsExact`, `PtesMatch`, `TlbCurrent`; `UnitsAccounted`; `WorkKept` |
| `threads` | `Sched`: 2 CPUs, 2 threads. `Rcu`: 2 CPUs, 1 thread, 1 object; and 1 CPU, 2 threads, 2 objects. `ThreadLife`: 2 CPUs, a thread that starts another. `Barrier`: barrier of 2, 6 calls, 3 threads, or 2 threads with late wake-ups | no wake-up is lost (`WakeupsDelivered`); `rcu_synchronize()`, `rcu_flush()` and a full `rcu_defer()` return when the calls of the other thread come to an end (`WaitsEnd`); memory is not used after it was given back (`MemoryOutlivesUse`), is given back once (`OneReleaser`) and in the end (`EndedReleased`); `BarrierHolds`, `BarrierPasses` |
| `pin_self`, `condvar_mutex`, `rwlock_wake`, `sent_lock`, `reclaim`, `fault_race`, `worker_signal` | small instances of one module | violations: see Findings |

Bounds. Three threads are the least with which an owner of the mutex, a queued
thread and one that has counted itself but is not queued exist together, which is
the case the hand-off protocol is for. Depth 2 makes recursion happen, two
sequence numbers the wrap-around. Two CPUs give remote and local wake-ups; two
threads on one CPU give preemption, yield and a thread that wakes its neighbour.
In `RWLock` three threads are a writer, a reader that leaves and one that comes.
Buffers of one callback make `rcu_defer()` wait; with two threads and two objects
on a CPU, a thread that was woken for room finds the buffer full again up to twice.
In `PageRanges` two ranges touch
and the third lies behind a hole; 8 is more than there is, so requests wait and
memory runs out. 11 pages against an `l1` of 8 and batches of 2 make both pools run
full and empty. Three bits of time make all
buckets occur. Three pages are the least with a huge page and a neighbour outside it;
three page faults are one that installs a huge page and two that split it. The
symmetry of `MCSched` exchanges threads that are started alike. `MaxCalls`,
`MaxSignals`, `MaxSupply`, `MaxDepth`, and `Adders` bound what is unbounded.

Deadlock is checked in `locks` and `condvar_mutex`. It is not in the other runs,
where the system may stop: all threads wait with nobody to wake them, or all calls
that the bound allows have been made.

Fairness. A thread keeps taking the steps of a call it has begun, and a CPU those
of scheduler code (weak fairness): the scheduler runs every runnable thread, and
interrupts are delivered. That owners unlock in the end is assumed, as for any
lock (strong fairness of `Unlock`, `RUnlock`, `WUnlock`). A queued thread is chosen
in the end (strong fairness of `SwitchTo`), because its virtual runtime stands
still while that of the running threads grows, and the preemption timer is armed
while another thread is queued. In `Rcu` readers end (they do not block), and the
quiescent-state threads and callers, which readers on their CPU can delay again and
again, get on between readers (strong fairness). Calls from outside are never fair.

What fairness does not give is that a full `rcu_defer()` returns while others go on
calling it. A FIXME in the code says so (`core/rcu.cc:207-208`): "another thread
looping on rcu_defer() can cause us to always find a full queue". In `Rcu` every
object is disposed of once and every thread flushes once, so that a waiter is
overtaken finitely often; `WaitsEnd` is about that case and claims no more.

## Findings

Each is a run in which TLC finds a behaviour of the code that a comment of the
code rules out. `PROJECT.json` quotes the comments.

* `pin_self` (`core/sched.cc:649`). From the store of `status::waiting` until the
  switch, a thread in `pin()` still runs on the CPU it leaves and looks like a
  waiting thread of the target. A wake-up that was delayed between its condition
  and its compare-and-exchange queues it on the target too early.
* `condvar_mutex` (`core/condvar.cc:56`). A `wait()` that times out as the last one
  leaves `_user_mutex` set; a later wait with another mutex meets the assertion.
* `rwlock_wake` (`core/rwlock.cc:275`). `wake_pending_readers()` clears the record
  and then wakes the thread behind a bare pointer; the thread may be gone.
* `sent_lock` (`core/sched.cc:1375`). The wake-up that an earlier `unlock()` still
  owes a thread reaches it in status `sending_lock`, and it takes a mutex that
  another thread holds.
* `reclaim` (`core/mempool.cc:1026`). Who begins to wait for memory while the
  reclaimer is between serving waiters and blocking wakes nobody, and sleeps on
  after enough memory was freed.
* `fault_race` (`core/mmu.cc:199`). Two page faults in one huge page: one fails to
  install its page table because the other installed a large page, and follows
  the large page as if it were the table. The model ends there: after such a step
  no call and no fault begins.
* `worker_signal` (`core/percpu-worker.cc:95`). The sheriff's store of false to
  `_duty` may leave the store buffer after a `signal()` and wipe it out.

Two more cases in huge pages are in the model and excepted from `PtesMatch`.
`mmap()` with PROT_NONE and MAP_POPULATE makes a large entry that is not valid, and
`map_level` returns at it (`core/mmu.cc:461-463`) before it would split it: a
`munmap()` or `mprotect()` of a part of it succeeds and leaves memory and entry as
they were, though `unpopulate` is to free "memory allocated by populate()"
(`core/mmu.cc:658`). A later `mmap()` or page fault there that has to populate a part
follows the huge page as a table. And with three page faults, two can read the same
large entry (`core/mmu.cc:256`) and store a table each (`core/mmu.cc:190`): the first
table is lost, and if the second read comes after the first store, the new table is
made from the entry of the first.

Seen while modelling, without a comment that says otherwise, and so no run of
their own: `madvise()` for depopulate and nohugepage goes on by whole VMAs
(`core/mmu.cc:1160-1163`); `l2::refill()` can meet a null batch
(`core/mempool.cc:1490`); `send_lock_unless_already_waiting()` counts before it
knows (`core/lfmutex.cc:147`); the timer `reset()` reads the list before it
disables interrupts (`core/sched.cc:1761`); a callback that calls `rcu_defer()`
with a full buffer waits for itself (`core/rcu.cc:209`); a mutex that is destroyed
right after a handoff may still be read by the thread that offered it
(`core/lfmutex.cc:258`); wakeme of `pin()` pushes into the queue of the target CPU
from the CPU it runs on (`core/sched.cc:652`); `workman::signal()` looks at `_ready`
of the CPU that calls it (`core/percpu-worker.cc:63`).

## Proofs

TLAPS proves the following for every value of the constants.

| Module | Theorem | Says |
|---|---|---|
| `LFMutexProofs` | `TypeCorrectness`, `Exclusion`, `OnePopper`, `Assertions`, `RecordLifetime`, `CountIsExact` | `TypeOK`, `MutualExclusion`, `SinglePopper`, `AssertionsHold`, `RecordsAlive`, `CountExact` of `LFMutex` are invariants |
| `LFMutexRefines` | `HandoffIsNoticed` | so is `HandoffNoticed` |
| `LFMutexRefines` | `Refinement` | `LFMutex` implements `Mutex`: `Spec => ImplementsMutex` |
| `SchedProofs` | `SchedInvariant`, `OneCpuHolds`, `StatusAgreesHolds`, `AssertionsHoldAlways`, `HaltNoticedHolds` | the inductive invariant of `Sched`, and all four properties of `sched_safety` |
| `RWLockProofs` | `RWLockInvariant`, `ExclusionHolds`, `CountsExactHolds`, `NobodyStrandedHolds` | the inductive invariant of `RWLock`, and its three invariants |
| `RcuProofs` | `GracePeriods`, `FlushWaits` | `GracePeriod` and `FlushIsBarrier` of `Rcu` are invariants |
| `ThreadLifeProofs` | `LifeInvariant`, `MemorySafe`, `ReleasedOnce` | the inductive invariant of `ThreadLife`, `MemoryOutlivesUse` and `OneReleaser` |
| `CondVarProofs` | `CvInvariant`, `WaitersSafe`, `MutexComesBack` | the inductive invariant of `CondVar`, `WaitersAccounted` and `MutexReturned` |
| `SmallPoolProofs` | `PoolInvariant`, `ObjectsSafe`, `FreeListSafe` | the inductive invariant of `SmallPool`, `ObjectsAccounted` and `FreeListExact` |

The modules of the runs extend or instantiate the modules these theorems are about,
so that TLC checks the same definitions on the small instance. A lemma is stated
where two steps need it; each proof that a step keeps an invariant has one case per
action. The steps are small enough for Zenon, and name SMT where they need
arithmetic or sequences. `CondVarProofs` and `SmallPoolProofs`
begin with what `push_back()`, `pop_front()` and `erase()` do to a list that names
nobody twice; the models have these operations as expressions over indices (`Contains`,
`Erase`), about which this can be proved.

Assumptions. `LFMutex`: `Threads` is finite without `NoThread`, `SeqMax` and
`MaxDepth` are positive, and the guard `NotStale`, which is the assumption that
`mutex.hh` makes. `Sched`: CPUs and threads are finite, the boot thread and its CPU
are among them, `Pinned` maps threads to CPUs or to none, `NoCpu` is no
CPU and `Idle` no thread. `RWLock`: `Threads` is finite without
`NoThread`. `Rcu`: `Null` is no callback, and objects are not `post()`s; the sets
may be infinite and the buffers of any size. `ThreadLife`: `Owner` gives each thread
another one, or `main()`, that starts it and joins or detaches it; `main()`, the reaper
and `nullptr` are none of the threads. `CondVar` and `SmallPool` are instantiated by
their runs, so what they need is a hypothesis of their theorems: there is a mutex, and
`NoMutex` is none; a page has objects, finitely many, and `None` is no CPU.

### The mutex

None of the invariants is inductive alone. `IInv` of `LFMutexInv` says that there
is a single right to decide who comes next, the token. It is with one thread
(`Tok`: the owner, a thread that was woken, or one at a location that decides), on
offer in `handoff`, or nowhere, and then `count` is 0 (`OneToken`, `TokenClaimed`,
`FreeInv`). Exclusion and the single consumer follow, since both need the token.
`CountExact` ties `count` to the set `Claims` of threads that own the mutex or
asked for it. It is what an `unlock()` with `count > 0` relies on, and it needs the
token: the set shrinks only when the token holder counts itself down. The rest
(`PopInv`, `ReachInv`, `DistinctInv`, `SendInv`, `WaitInv`) says where a wait record
can be reached from: one place at a time, and only while its thread is still in
`lock()`. `NonEmptyInv` and `OldInv` carry the asserts: a thread that can still win
the handoff will find the queue non-empty, because only the token holder pops.
`LFMutexProofs` has first the steps for the token and who sleeps, then those for the
records and the lists, and last those for the count.

`HandoffNoticed` says that while a handoff is on offer some thread has still to
read it, or has read this very number and has not given up. A thread gives up only
when `empty()` tells it that nobody is queued. `empty()` reads two lists at two
moments, and `NoticeInv` says why its answer holds: who sleeps can be found in the
queue or in the hands of a thread that will wake it (`QueuedInv`), and nothing moves
from the pushlist to the poplist behind the reader, because that takes the token and
then the handoff has another number (`EmptyInv`, `MovedInv`, `NotStale`). If nobody
is queued, the other claims that `CountExact` promises are threads that have counted
themselves and not yet read `handoff`.

The refinement maps the holder to whoever was given the mutex, noticed or not
(`Holder`), the depth to `depth` once there is an owner (`Level`), and the line to
what was popped and not yet woken, then the poplist, then the pushlist (`Line`). A
`lock()`, `try_lock()` or `send_lock()` that finds `count = 0` is an `Enter`;
`LockPush`, of the thread's own record or of one it sends, is an `Enqueue`; the wake-up of
a popped record, by `unlock()` or by a `lock()` that took the handoff, is a `Grant`,
and so is popping oneself; `TryLockTakeHandoff` is a `Barge`, the recursive calls
are `Again`, and the `unlock()`s `Leave`. All other steps change nothing. The hard
ones are the steps inside `pop()`, which move records between three lists: `Line`
stays the same because at most one thread has a record or a list in hand (`PopInv`).

### The scheduler

`Place` says where a thread is: running on its CPU, in the run queue of its CPU, in
one incoming queue of its CPU once, in the hands of one waker, or asleep, and its
status tells which. `OneCpu`, `StatusAgrees` and `AssertionsHold` follow. The point
of it is `PushInv`: between the compare-and-exchange of `wake_impl()` and the push
exactly one thread has the right to queue the woken one, and its `_cpu` does not
change meanwhile.

`HaltNoticed` needs `Look`, about the last look a CPU takes at its queues: a queue
that is not empty is in the mask, or its waker has yet to set the bit, or the CPU
is draining it (`NotedInv`); and once the CPU has cleared `idle_poll` with
interrupts off, whatever enters the mask comes with an interrupt (`ToldInv`).

### The rwlock

`_readers` is written by everybody, so the proof is about who may change which part
of it. The flags belong to the owner of `_wmtx`, which is alone (`OwnerInv`), and
`FlagsInv` reads off its location which are set. The counts belong to the readers,
and `CountsExact` says whose they are. The two meet in `WaitInv`: while
`PENDING_WRITER` is set no reader gets in, so a writer that has seen no owning reader
meets none, and `_writer_wait` is cleared by the last reader that leaves.
`PendingWriterWoken` says that this reader finds the right thread with
`get_owner()`. `QueueInv` says that who sleeps in `rlock()` is in the queue, or was
taken from it, once; `NoReaderStranded`, that with the flags clear every pending
reader will retry, or somebody is in `wake_pending_readers()` who counts it.

### RCU

What carries `GracePeriod` is `Cleared`: a CPU that has reached the generation for
which a batch of callbacks waits has no reader of what the batch disposes of. It
holds at first because the generation is new (`GenerationsBounded`). It is kept
because a generation is stored where no reader is, and because new readers find only
what was not deferred (`QueuedDeferred`). It reaches all CPUs because generations only
grow (`OwnBehind`, `AllThere`).

For `FlushIsBarrier` the two buffers of a CPU are read as one queue, that which is
not in use first. It is empty whenever the buffers are switched (`Emptied`), so a
switch does not change the order. A `post()` is on its own CPU (`OnOwnCpu`) and
behind what was there when the flush began (`PostsLast`). What the flush must wait
for is in a queue or has run (`MustEnqueued`, `NothingLost`). The callbacks of a
thread that waits for room are not enqueued yet and are not waited for; this is what
the comment on `rcu_flush()` says ("previously enqueued"), and more would be false.

### The end of threads

`MemoryOutlivesUse` is about many parties that know little of each other, and
`LifeInv` writes down what they know. `Status` ties a thread's status to how far it
has come in `complete()`. `Joined` says what a value in `_joiner` means: the owner is
in `join()` or has returned from it, the reaper has the thread in its hands or has
deleted it, or `destroy()` has put the thread itself there, and then it has left its
stack. `Detached` says who was first of `detach()` and `complete()`: the loser of the
compare-and-exchange on `_detach_state` is the one that hands the thread to the reaper, so
`OneReleaser` holds. The CPU's part is that for a thread in `terminating` at most one
CPU has still to store `terminated`, and that a `detached_state` used by a CPU is
alive, or was disposed of with this CPU in its grace period. Without the last one the
`destroy()` that wakes a joiner could use what the joiner has freed.

### The condition variable

`WaitersAccounted` says where a record is, not that it is there once, and a record
that is twice in a list would stay behind when `wake_one()` takes it. `ListInv` adds
this for the list, for the batches that `wake_all()` has taken and for the queues of the
mutexes, and that two `wake_all()`s have no record in common. `ClaimInv` says which
mutex a thread queues for: the one it waits with, and if it is inside `wait()` only after
it was sent. So `send_lock()` never queues a thread twice, and a thread that times out
and finds its record gone can wait for the wake-up that has to come. `DestInv` says that
waiters go to the mutex they came with: `_user_mutex` does not change while there is a
waiter in the list, and `wake_all()` has read it together with the list.

### The small objects

`ObjectsAccounted` and `FreeListExact` need each other: `alloc()` finds an object at the
head of the list because the list has just the pages with a free object, and the list
stays exact because `nalloc` counts the objects that are out. `PoolInv` has both, and
`OnePlace`: an object is in use or in one sink. Otherwise the collector could free it a
second time, and `nalloc` would reach zero with an object in use. The sinks of an object
are those of the CPU that its page belongs to, and a page changes its CPU only when all
of its objects are free, so the collector works on its own lists.

### Only model-checked

* Liveness: `ClientServed`, `WakeupsDelivered`, `WakeupsReturn`, `LockServed`,
  `WaitsEnd`, `EndedReleased`, `BarrierPasses`. The prover has no fairness.
* Sums and counts over a set, which need induction over finite sets, and the prover
  cannot be given that: `PagesConserved` (`PagePool`), `UnitsAccounted` (`Semaphore`),
  `MemoryAccounted` and `BitmapTellsEnds` (`PageRanges`, where `alloc`, `free` and
  `initial_add` work on sets of ranges and `free_memory` is their sum).
* Walks over lists and page tables, which are folds over sequences and need induction
  over their length: `MappingsExact`, `PtesMatch` and `TlbCurrent` (`AddressSpace`), and
  `BarrierHolds` (`Barrier`, where `wake_all()` goes through the waiters). `BucketsFound`
  and `EventInTime` (`Timers`) are about powers of two with a variable exponent, which
  the solver does not know.
* `WorkKept` (`Workers`) and `L1Room` (`PagePool`): small state per CPU that
  each step tests before it changes it; no proof was written.
* That the abstract pieces are right about one another: `CondVar`, `RWLock` and
  `Semaphore` use a mutex as `Mutex` describes it, which `Refinement` proves of
  `LFMutex`, and sleep as `Sched` does; the composition itself is not a theorem.

## Not modelled

Memory is sequentially consistent, except in `Workers`: where the code uses relaxed
accesses next to a fence (`idle_poll`, `send_wakeup_ipi()`), the fence is taken to
do its work. Page tables are freed through RCU in the code and at once in
`AddressSpace`. The inside of `lockless_queue` and of the ring buffers, and `pin()` of
another thread, which depends on the former, are left out; so are virtual runtimes
(floating point), thread ids and handles, the destruction of mutexes and barriers,
`wait_for()` over several objects, the locks that only lockbench uses, signals, tracing,
device drivers and clocks, architecture code, boot, and the C library.
`PROJECT.json` gives the reason for each.
