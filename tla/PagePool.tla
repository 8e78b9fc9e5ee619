------------------------------ MODULE PagePool ------------------------------
(***************************************************************************)
(* The two levels of page pools of core/mempool.cc: a buffer per CPU (l1), *)
(* a lock-free stack of batches (l2) whose count _nr is kept beside it,    *)
(* and the threads that fill both.  Pages are interchangeable, so pools    *)
(* are counts.  A thread holds its CPU from preempt_lock on, and gives it  *)
(* up, but stays on it (migration_lock), while it fills or empties l2.     *)
(***************************************************************************)
EXTENDS Integers, FiniteSets, FiniteSetsExt

CONSTANTS
    Cpus,
    Workers,        \* threads that allocate and free pages
    L1Filler,       \* L1Filler[c]: the pinned thread of l1 on CPU c
    L2Filler,
    Batch,          \* page_batch::nr_pages
    L1Max,          \* l1::max
    NPages,
    Width           \* _nr is a size_t, here of this many values

AllThreads == Workers \cup {L1Filler[c] : c \in Cpus} \cup {L2Filler}
None == "none"

VARIABLES
    ranges,     \* pages in free_page_ranges
    stack,      \* batches in l2::_stack
    nr,         \* l2::_nr
    l1,         \* l1[c]: pages in the buffer of CPU c
    held,       \* pages in use
    th,         \* th[t]: where thread t is, its CPU and what it returns to
    holder,     \* holder[c]: the thread that holds preempt_lock on c
    crashed     \* a batch was written through a null pointer

vars == <<ranges, stack, nr, l1, held, th, holder, crashed>>

L2Max == Cardinality(Cpus) * (L1Max \div Batch)
Lo(max) == max \div 4
Hi(max) == (max * 3) \div 4

Init ==
    /\ ranges = NPages /\ stack = 0 /\ nr = 0 /\ held = 0
    /\ l1 = [c \in Cpus |-> 0]
    /\ th \in {f \in [AllThreads -> [pc : {"idle"}, cpu : Cpus, home : {"idle"}]] :
                 \A c \in Cpus : f[L1Filler[c]].cpu = c}
    /\ holder = [c \in Cpus |-> None]
    /\ crashed = FALSE

At(t, pc) == th[t].pc = pc
Cpu(t) == th[t].cpu
Go(t, pc) == th' = [th EXCEPT ![t].pc = pc]

\* Outside of the pools a worker may be moved to another CPU.
Leave(t, pc, home) ==
    \E c \in IF t \in Workers THEN Cpus ELSE {Cpu(t)} :
      th' = [th EXCEPT ![t] = [pc |-> pc, cpu |-> c, home |-> home]]
Return(t) == Leave(t, th[t].home, th[t].home)

CpuFree(t) == holder[Cpu(t)] = None
HoldCpu(t) == CpuFree(t) /\ holder' = [holder EXCEPT ![Cpu(t)] = t]
DropCpu(t) == holder' = [holder EXCEPT ![Cpu(t)] = None]
inc_nr == nr' = (nr + 1) % Width
dec_nr == nr' = (nr - 1) % Width

-----------------------------------------------------------------------------
\* After a refill a page is taken to be there, although other threads ran meanwhile.
alloc_page_localOnce(t) ==
    /\ t \in Workers /\ th[t].pc \in {"idle", "alloc"} /\ CpuFree(t)
    /\ IF l1[Cpu(t)] = 0 /\ At(t, "idle")
       THEN Leave(t, "refill", "alloc") /\ UNCHANGED <<l1, held>>
       ELSE /\ l1' = [l1 EXCEPT ![Cpu(t)] = @ - 1]
            /\ held' = held + 1
            /\ Leave(t, "idle", "idle")
    /\ UNCHANGED <<ranges, stack, nr, holder, crashed>>

alloc_page_local(t) ==
    /\ t \in Workers /\ th[t].pc \in {"idle", "alloc"} /\ CpuFree(t)
    /\ IF l1[Cpu(t)] = 0
       THEN Leave(t, "refill", "alloc") /\ UNCHANGED <<l1, held>>
       ELSE /\ l1' = [l1 EXCEPT ![Cpu(t)] = @ - 1]
            /\ held' = held + 1
            /\ Leave(t, "idle", "idle")
    /\ UNCHANGED <<ranges, stack, nr, holder, crashed>>

\* A page that is being freed counts as in use until it is in the buffer.
free_page_local(t) ==
    /\ t \in Workers /\ CpuFree(t)
    /\ \/ At(t, "free")
       \/ At(t, "idle") /\ held > Cardinality({u \in Workers : th[u].home = "free"})
    /\ IF l1[Cpu(t)] = L1Max
       THEN Leave(t, "unfill", "free") /\ UNCHANGED <<l1, held>>
       ELSE /\ l1' = [l1 EXCEPT ![Cpu(t)] = @ + 1]
            /\ held' = held - 1
            /\ Leave(t, "idle", "idle")
    /\ UNCHANGED <<ranges, stack, nr, holder, crashed>>

\* l2::alloc_page_batch() and l2::free_page_batch(), which give the CPU up when
\* l2 is empty or full and come back to "pop" or "push"
try_alloc_page_batch(t) ==
    /\ CpuFree(t)
    /\ IF stack > 0
       THEN stack' = stack - 1 /\ Go(t, "popped") /\ HoldCpu(t)
       ELSE Go(t, "l2refill") /\ UNCHANGED <<stack, holder>>

try_free_page_batch(t) ==
    /\ holder[Cpu(t)] \in {None, t}
    /\ IF stack < L2Max
       THEN stack' = stack + 1 /\ Go(t, "pushed") /\ holder' = [holder EXCEPT ![Cpu(t)] = t]
       ELSE Go(t, "l2unfill") /\ DropCpu(t) /\ UNCHANGED stack

l1_refill(t) ==
    /\ CpuFree(t)
    /\ IF l1[Cpu(t)] + Batch < L1Max \div 2
       THEN try_alloc_page_batch(t)
       ELSE Return(t) /\ UNCHANGED <<stack, holder>>
    /\ UNCHANGED <<ranges, nr, l1, held, crashed>>

l1_unfill(t) ==
    /\ CpuFree(t)
    /\ IF l1[Cpu(t)] > Batch + L1Max \div 2
       THEN try_free_page_batch(t) /\ l1' = [l1 EXCEPT ![Cpu(t)] = @ - Batch]
       ELSE Return(t) /\ UNCHANGED <<stack, holder, l1>>
    /\ UNCHANGED <<ranges, nr, held, crashed>>

\* l1::fill_thread() waits until its buffer is below the low or above the high
\* watermark, and then goes on until it is about half full.
l1_fill_thread(c) ==
    LET t == L1Filler[c]
    IN  /\ \/ At(t, "idle") /\ l1[c] < Lo(L1Max) /\ Leave(t, "fill", "fill")
           \/ At(t, "idle") /\ l1[c] > Hi(L1Max) /\ Leave(t, "empty", "empty")
           \/ /\ At(t, "fill") /\ l1[c] + Batch >= L1Max \div 2
              /\ LET next == IF l1[c] > Hi(L1Max) THEN "empty" ELSE "idle"
                 IN  Leave(t, next, next)
           \/ At(t, "empty") /\ l1[c] <= Batch + L1Max \div 2 /\ Leave(t, "idle", "idle")
        /\ UNCHANGED <<ranges, stack, nr, l1, held, holder, crashed>>

\* A refill() or unfill() that was called, by the loop of the fill thread too
Called(t) ==
    \/ At(t, "refill") /\ l1_refill(t)
    \/ At(t, "unfill") /\ l1_unfill(t)
    \/ At(t, "fill") /\ l1[Cpu(t)] + Batch < L1Max \div 2 /\ l1_refill(t)
    \/ At(t, "empty") /\ l1[Cpu(t)] > Batch + L1Max \div 2 /\ l1_unfill(t)

Again(t) ==
    /\ \/ At(t, "pop") /\ try_alloc_page_batch(t)
       \/ At(t, "push") /\ try_free_page_batch(t)
    /\ UNCHANGED <<ranges, nr, l1, held, crashed>>

\* The batch is no longer in l2, but still counted there.
l1_takeUncounted(t) ==
    /\ At(t, "popped")
    /\ IF l1[Cpu(t)] + Batch <= L1Max
       THEN l1' = [l1 EXCEPT ![Cpu(t)] = @ + Batch] /\ DropCpu(t) /\ Return(t)
       ELSE Go(t, "push") /\ UNCHANGED <<l1, holder>>
    /\ UNCHANGED <<ranges, stack, nr, held, crashed>>

\* The rest of l1::refill() with the batch in hand
l1_take(t) ==
    /\ At(t, "popped")
    /\ dec_nr
    /\ IF l1[Cpu(t)] + Batch <= L1Max
       THEN l1' = [l1 EXCEPT ![Cpu(t)] = @ + Batch] /\ DropCpu(t) /\ Return(t)
       ELSE Go(t, "push") /\ UNCHANGED <<l1, holder>>
    /\ UNCHANGED <<ranges, stack, held, crashed>>

free_page_batch_end(t) ==
    /\ At(t, "pushed")
    /\ inc_nr /\ DropCpu(t) /\ Return(t)
    /\ UNCHANGED <<ranges, stack, l1, held, crashed>>

-----------------------------------------------------------------------------
l2_fill_thread ==
    /\ At(L2Filler, "idle")
    /\ \/ nr < Lo(L2Max) /\ Go(L2Filler, "l2refill")
       \/ nr > Hi(L2Max) /\ Go(L2Filler, "l2unfill")
    /\ UNCHANGED <<ranges, stack, nr, l1, held, holder, crashed>>

\* The end of l2::refill() and l2::unfill(): a thread that came from l1 tries
\* once more.
L2Return(t, again) ==
    /\ Go(t, IF t = L2Filler THEN "idle" ELSE again)
    /\ UNCHANGED <<ranges, stack, nr, l1, held, holder, crashed>>

\* alloc() gives the pages there are and null pointers for the rest, and the
\* batch is stored in its last page.
TakeBatch(t) ==
    /\ IF ranges >= Batch
       THEN ranges' = ranges - Batch /\ Go(t, "l2push") /\ UNCHANGED crashed
       ELSE ranges' = 0 /\ Go(t, "fault") /\ crashed' = TRUE
    /\ UNCHANGED <<stack, nr, l1, held, holder>>

l2_refill(t) ==
    /\ At(t, "l2refill")
    /\ \/ nr >= L2Max \div 2 /\ L2Return(t, "pop")
       \/ nr < L2Max \div 2 /\ ranges > 0 /\ TakeBatch(t)
       \/ /\ nr < L2Max \div 2 /\ ranges = 0 /\ Go(t, "wait")
          /\ UNCHANGED <<ranges, stack, nr, l1, held, holder, crashed>>

\* wait_for_memory(page_size): woken when there is a page, which may be gone
\* once free_page_ranges_lock is taken again
Woken(t) ==
    /\ At(t, "wait") /\ ranges > 0
    /\ Go(t, "woken")
    /\ UNCHANGED <<ranges, stack, nr, l1, held, holder, crashed>>

l2_refillWoken(t) == At(t, "woken") /\ TakeBatch(t)

l2_refillPush(t) ==
    /\ At(t, "l2push")
    /\ IF stack < L2Max
       THEN stack' = stack + 1 /\ Go(t, "l2pushed") /\ UNCHANGED ranges
       ELSE ranges' = ranges + Batch /\ Go(t, "l2refill") /\ UNCHANGED stack
    /\ UNCHANGED <<nr, l1, held, holder, crashed>>

l2_refillCount(t) ==
    /\ At(t, "l2pushed")
    /\ inc_nr /\ Go(t, "l2refill")
    /\ UNCHANGED <<ranges, stack, l1, held, holder, crashed>>

\* With a stack that is found empty the loop goes round.
l2_unfill(t) ==
    /\ At(t, "l2unfill")
    /\ \/ nr <= L2Max \div 2 /\ L2Return(t, "push")
       \/ /\ nr > L2Max \div 2 /\ stack > 0
          /\ stack' = stack - 1 /\ Go(t, "l2popped")
          /\ UNCHANGED <<ranges, nr, l1, held, holder, crashed>>

\* dec_nr() and free_batch()
l2_unfillFree(t) ==
    /\ At(t, "l2popped")
    /\ dec_nr /\ ranges' = ranges + Batch /\ Go(t, "l2unfill")
    /\ UNCHANGED <<stack, l1, held, holder, crashed>>

Next ==
    /\ ~crashed
    /\ \/ \E t \in Workers : alloc_page_local(t) \/ free_page_local(t)
       \/ \E c \in Cpus : l1_fill_thread(c)
       \/ l2_fill_thread
       \/ \E t \in AllThreads :
            \/ Called(t) \/ l1_take(t) \/ Again(t) \/ free_page_batch_end(t)
            \/ l2_refill(t) \/ Woken(t) \/ l2_refillWoken(t)
            \/ l2_refillPush(t) \/ l2_refillCount(t)
            \/ l2_unfill(t) \/ l2_unfillFree(t)

Spec == Init /\ [][Next]_vars

-----------------------------------------------------------------------------
Among(pcs) == Cardinality({t \in AllThreads : th[t].pc \in pcs})

\* Batches in the hands of threads: one that is moved, and the one with which a
\* thread of l1 waits for room while it empties l2.
InHand == Among({"push", "popped", "l2push", "l2popped"})
          + Cardinality({t \in AllThreads \ {L2Filler} : th[t].pc \in {"l2unfill", "l2popped"}})

\* alloc_page(), free_page() and the fill threads move pages and neither lose
\* nor duplicate one: all pages are in the ranges, in l2, in an l1 buffer, in
\* use, or in a batch that a thread is moving.  l2::_nr is updated after the
\* stack: it differs from the number of batches by the threads between the two,
\* and may wrap below zero, but never drifts.
PagesConserved ==
    /\ crashed \/ NPages = ranges + Batch * (stack + InHand) + held
                           + MapThenSumSet(LAMBDA c : l1[c], Cpus)
    /\ nr = (stack + Among({"popped", "l2popped"}) - Among({"pushed", "l2pushed"})) % Width

\* The asserts of l1::push() and l1::pop(): room and pages are there when they
\* are used, although other threads ran on the CPU since they were looked for.
L1Room == \A c \in Cpus : l1[c] \in 0..L1Max
=============================================================================
