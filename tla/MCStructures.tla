---------------------------- MODULE MCStructures ----------------------------
(***************************************************************************)
(* The data structures of the kernel that run without one another, checked *)
(* in one run: a behaviour is one of exactly one of the modules below,     *)
(* which the value of which names, and leaves the variables of the others  *)
(* as they were.  The variables and properties of Rcu are used as they     *)
(* are, so that the proofs of RcuProofs are about what is checked here.    *)
(*                                                                         *)
(* PageRanges: seven pages in three ranges that are added in any order,    *)
(* the first two of which touch while the third lies behind a hole.        *)
(* PagePool: one CPU, its fill thread, that of L2 and two threads.         *)
(* SmallPool: two CPUs, two pages of three objects.                        *)
(* Rcu: two CPUs, a thread, two objects, buffers of one callback.          *)
(* Timers: a thread with two timers, which moves between two CPUs.         *)
(* AddressSpace: three pages, the first two of which a huge page can       *)
(* cover; a thread that faults while the program maps, protects and gives  *)
(* back any of them, a thread and the TLBs, two threads that fault in the  *)
(* huge page at the same time, and three that all write its first page.    *)
(* Semaphore: three threads that ask for or give one unit or two, as long  *)
(* as there are not more than three.                                       *)
(* Workers: two CPUs, one worker item, three signals.                      *)
(***************************************************************************)
EXTENDS Rcu, TLC

CONSTANTS c1, c2, t1, t2, f1, f2, p1, p2, x1, x2

OneCpu == {c1}
OneThread == {t1}
TwoThreads == {t1, t2}
ThreeThreads == {t1, t2, f1}
MCFiller == c1 :> f1
MCPages == {p1, p2}
MCSlots == 1 .. 3
MCTimerIds == {x1, x2}
MCClient == [x \in MCTimerIds |-> t1]
MCTimeouts == {1, 6}
MCSizes == {1, 3, 8}
MCRange(first, size) == [start |-> first, size |-> size]
MCChunks == {MCRange(0, 2), MCRange(2, 3), MCRange(6, 2)}
R == {"read"}
RW == {"read", "write"}
MCAnyAccess == (1 .. 3) \X BOOLEAN
MCOneFault == [threads |-> {t1}, accesses |-> MCAnyAccess, last |-> 3, perms |-> {{}, RW},
               small |-> BOOLEAN, pop |-> BOOLEAN, tlb |-> FALSE]
MCTlb == [threads |-> {t1}, accesses |-> MCAnyAccess, last |-> 2, perms |-> {R, RW},
          small |-> BOOLEAN, pop |-> {TRUE}, tlb |-> TRUE]
MCTwoFaults == [threads |-> {t1, t2}, accesses |-> MCAnyAccess, last |-> 2, perms |-> {RW},
                small |-> BOOLEAN, pop |-> {FALSE}, tlb |-> FALSE]
MCThreeFaults == [threads |-> ThreeThreads, accesses |-> {<<1, TRUE>>}, last |-> 2,
                  perms |-> {RW}, small |-> {FALSE}, pop |-> {FALSE}, tlb |-> FALSE]
MCSetups == {MCOneFault, MCTlb, MCTwoFaults, MCThreeFaults}

VARIABLES
    which,      \* the component of this behaviour
    pr_fpr, pr_bitmapAt, pr_chunks, pr_owned, pr_free_memory, pr_req, pr_waiters, pr_reclaimer,
    pr_aborted,
    pp_ranges, pp_stack, pp_nr, pp_l1, pp_held, pp_th, pp_holder, pp_crashed,
    sp_cpu_id, sp_nalloc, sp_local_free, sp_free, sp_user, sp_sink, sp_pushed, sp_collecting,
    sp_adding,
    tm_now, tm_set, tm_last, tm_state, tm_time, tm_cpu,
    as_setup, as_vmas, as_pde, as_pte, as_frames, as_tables, as_tlb, as_fault, as_corrupted,
    as_lost, as_asked,
    sem_val, sem_mtx, sem_waiters, sem_owner, sem_units, sem_timer, sem_asleep, sem_pc, sem_i,
    sem_supply,
    wk_have_work, wk_duty, wk_ready, wk_buffered, wk_sheriff, wk_wi, wk_asleep, wk_caller,
    wk_signals, wk_new, wk_owed

pr_vars == <<
    pr_fpr, pr_bitmapAt, pr_chunks, pr_owned, pr_free_memory, pr_req, pr_waiters, pr_reclaimer,
    pr_aborted>>
pp_vars == <<
    pp_ranges, pp_stack, pp_nr, pp_l1, pp_held, pp_th, pp_holder, pp_crashed>>
sp_vars == <<
    sp_cpu_id, sp_nalloc, sp_local_free, sp_free, sp_user, sp_sink, sp_pushed, sp_collecting,
    sp_adding>>
tm_vars == <<
    tm_now, tm_set, tm_last, tm_state, tm_time, tm_cpu>>
as_vars == <<
    as_setup, as_vmas, as_pde, as_pte, as_frames, as_tables, as_tlb, as_fault, as_corrupted,
    as_lost, as_asked>>
sem_vars == <<
    sem_val, sem_mtx, sem_waiters, sem_owner, sem_units, sem_timer, sem_asleep, sem_pc, sem_i,
    sem_supply>>
wk_vars == <<
    wk_have_work, wk_duty, wk_ready, wk_buffered, wk_sheriff, wk_wi, wk_asleep, wk_caller,
    wk_signals, wk_new, wk_owed>>
mc_vars == <<which, pr_vars, pp_vars, sp_vars, vars, tm_vars, as_vars, sem_vars, wk_vars>>

Ranges == INSTANCE PageRanges WITH
    Threads <- OneThread, NPages <- 8, Chunks <- MCChunks, MaxOrder <- 2, Sizes <- MCSizes,
    Huge <- 4, Watermark <- 1, fpr <- pr_fpr, bitmapAt <- pr_bitmapAt, chunks <- pr_chunks,
    owned <- pr_owned, free_memory <- pr_free_memory, req <- pr_req, waiters <- pr_waiters,
    reclaimer <- pr_reclaimer, aborted <- pr_aborted

Pool == INSTANCE PagePool WITH
    Cpus <- OneCpu, Workers <- TwoThreads, L1Filler <- MCFiller, L2Filler <- f2, Batch <- 2,
    L1Max <- 8, NPages <- 11, Width <- 64, ranges <- pp_ranges, stack <- pp_stack, nr <- pp_nr,
    l1 <- pp_l1, held <- pp_held, th <- pp_th, holder <- pp_holder, crashed <- pp_crashed

Small == INSTANCE SmallPool WITH
    Cpus <- Cpus, Pages <- MCPages, Slots <- MCSlots, Threshold <- 1, Adders <- 1,
    cpu_id <- sp_cpu_id, nalloc <- sp_nalloc, local_free <- sp_local_free, free <- sp_free,
    user <- sp_user, sink <- sp_sink, pushed <- sp_pushed, collecting <- sp_collecting,
    adding <- sp_adding

Timers == INSTANCE Timers WITH
    Cpus <- Cpus, Threads <- OneThread, TimerIds <- MCTimerIds, Client <- MCClient, Bits <- 3,
    Timeouts <- MCTimeouts, now <- tm_now, set <- tm_set, last <- tm_last, state <- tm_state,
    time <- tm_time, cpu <- tm_cpu

Space == INSTANCE AddressSpace WITH
    Threads <- ThreeThreads, NPages <- 4, Huge <- 2, Width <- 20, Setups <- MCSetups,
    setup <- as_setup, vmas <- as_vmas, pde <- as_pde, pte <- as_pte, frames <- as_frames,
    tables <- as_tables, tlb <- as_tlb, fault <- as_fault, corrupted <- as_corrupted,
    lost <- as_lost, asked <- as_asked

Sem == INSTANCE Semaphore WITH
    Threads <- ThreeThreads, Units <- {1, 2}, Initial <- 0, MaxSupply <- 3, val <- sem_val,
    mtx <- sem_mtx, waiters <- sem_waiters, owner <- sem_owner, units <- sem_units,
    timer <- sem_timer, asleep <- sem_asleep, pc <- sem_pc, i <- sem_i, supply <- sem_supply

Work == INSTANCE Workers WITH
    Cpus <- Cpus, LastItem <- 1, MaxSignals <- 3, have_work <- wk_have_work, duty <- wk_duty,
    ready <- wk_ready, buffered <- wk_buffered, sheriff <- wk_sheriff, wi <- wk_wi,
    asleep <- wk_asleep, caller <- wk_caller, signals <- wk_signals, new <- wk_new,
    owed <- wk_owed

MCInit ==
    /\ which \in {"ranges", "pool", "small", "rcu", "timers", "space", "semaphore", "workers"}
    /\ Ranges!Init /\ Pool!Init /\ Small!Init /\ Init /\ Timers!Init
    /\ Space!Init /\ Sem!Init /\ Work!Init
    /\ which # "timers" => tm_cpu[t1] = c1
    /\ which # "space" => as_setup = MCTlb

OnlyRanges == which = "ranges" /\
    UNCHANGED <<which, pp_vars, sp_vars, vars, tm_vars, as_vars, sem_vars, wk_vars>>
OnlyPool == which = "pool" /\
    UNCHANGED <<which, pr_vars, sp_vars, vars, tm_vars, as_vars, sem_vars, wk_vars>>
OnlySmall == which = "small" /\
    UNCHANGED <<which, pr_vars, pp_vars, vars, tm_vars, as_vars, sem_vars, wk_vars>>
OnlyRcu == which = "rcu" /\
    UNCHANGED <<which, pr_vars, pp_vars, sp_vars, tm_vars, as_vars, sem_vars, wk_vars>>
OnlyTimers == which = "timers" /\
    UNCHANGED <<which, pr_vars, pp_vars, sp_vars, vars, as_vars, sem_vars, wk_vars>>
OnlySpace == which = "space" /\
    UNCHANGED <<which, pr_vars, pp_vars, sp_vars, vars, tm_vars, sem_vars, wk_vars>>
OnlySem == which = "semaphore" /\
    UNCHANGED <<which, pr_vars, pp_vars, sp_vars, vars, tm_vars, as_vars, wk_vars>>
OnlyWork == which = "workers" /\
    UNCHANGED <<which, pr_vars, pp_vars, sp_vars, vars, tm_vars, as_vars, sem_vars>>

MCNext ==
    \/ OnlyRanges /\ Ranges!Next
    \/ OnlyPool /\ Pool!Next
    \/ OnlySmall /\ Small!Next
    \/ OnlyRcu /\ Next
    \/ OnlyTimers /\ Timers!Next
    \/ OnlySpace /\ Space!Next
    \/ OnlySem /\ Sem!Next
    \/ OnlyWork /\ Work!Next

MCSpec == MCInit /\ [][MCNext]_mc_vars

\* PageRanges: every page that was handed to the allocator is in exactly one free
\* range, one allocation or the bitmap's page, and free_memory is their sum.
MemoryAccounted == which = "ranges" => Ranges!MemoryAccounted

\* PageRanges: the bits free() trusts tell the ends of free ranges, also when a
\* huge page comes back in pieces, and free ranges that touch are merged.
BitmapTellsEnds == which = "ranges" => Ranges!BitmapTellsEnds

\* PagePool: no page is lost or duplicated between the ranges, l2, the l1 buffers
\* and the batches that threads are moving.
PagesConserved == which = "pool" => Pool!PagesConserved

\* PagePool: the asserts of l1::push() and l1::pop() hold although other threads
\* ran on the CPU since room or pages were looked for.
L1Room == which = "pool" => Pool!L1Room

\* SmallPool: every object is in use, in its page's list or in a sink of its
\* page's CPU, a page is given back only with all of its objects returned, and the
\* list _free of a CPU has exactly its pages with free objects.
ObjectsAccounted == which = "small" => Small!ObjectsAccounted /\ Small!FreeListExact

\* Timers: an armed timer is in the bucket in which remove() will look for it.
BucketsFound == which = "timers" => Timers!BucketsFound

\* Timers: an armed timer has a clock event that comes in time.
EventInTime == which = "timers" => Timers!EventInTime

\* AddressSpace: the VMAs are disjoint and say of each page what mmap, munmap and
\* mprotect asked for last.
MappingsExact == which = "space" => Space!MappingsExact

\* AddressSpace: mapped pages have the permissions of their VMA, and every page in use
\* is mapped, a page table or in the hands of a page fault, except that a huge page
\* populated with PROT_NONE cannot be changed in part, and that two page faults which
\* split the same huge page lose a table.
PtesMatch == which = "space" => Space!PtesMatch

\* AddressSpace: no TLB grants more than the page table does.
TlbCurrent == which = "space" => Space!TlbCurrent

\* Semaphore: units are in _val or with calls that return true, every other wait()
\* has its record in the list, and nobody sleeps who could have units or has given
\* them up.
UnitsAccounted == which = "semaphore" => Sem!UnitsAccounted

\* Workers: the handler of a signalled item is called when the sheriff next looks
\* at the item.
WorkKept == which = "workers" => Work!WorkKept
=============================================================================
