----------------------------- MODULE PageRanges -----------------------------
(***************************************************************************)
(* The page-range allocator of core/mempool.cc, its waiters and the        *)
(* reclaimer thread.  Addresses and sizes are counted in pages.  All of it *)
(* runs under free_page_ranges_lock, so a section under the lock is one    *)
(* step.  There are no shrinkers in the repository: _shrinker_loop() only  *)
(* gives others the time to run.                                           *)
(***************************************************************************)
EXTENDS Integers, Sequences, FiniteSets, SequencesExt

CONSTANTS
    Threads,
    NPages,     \* the size of physical memory
    Chunks,     \* the ranges that free_initial_memory_range() is called with
    MaxOrder,   \* max_order; larger ranges are in the tree _free_huge
    Sizes,      \* sizes asked of malloc_large()
    Huge,       \* the size of a huge page
    Watermark   \* watermark_lo

page_range(s, n) == [start |-> s, size |-> n]
PagesOf(r) == r.start .. r.start + r.size - 1
Pages == 0 .. NPages - 1

VARIABLES
    fpr,          \* free_page_ranges: ranges, _bitmap and its size
    bitmapAt,     \* the page that holds _bitmap, or -1
    chunks,       \* initial ranges still to be added
    owned,        \* what was allocated and not freed
    free_memory,
    req,          \* the request of each thread, 0 when it has none
    waiters,      \* reclaimer_waiters: threads with what they wait for
    reclaimer,    \* where the reclaimer thread is
    aborted       \* oom()

vars == <<fpr, bitmapAt, chunks, owned, free_memory, req, waiters, reclaimer, aborted>>

(***************************************************************************)
(* The lists and the tree are one set, and which range of a list comes     *)
(* first is left open.                                                     *)
(***************************************************************************)
ilog2(n) == CHOOSE k \in 0..n : 2^k <= n /\ n < 2^(k + 1)
ilog2_roundup(n) == CHOOSE k \in 0..n : 2^k >= n /\ (k = 0 \/ 2^(k - 1) < n)
AtMost(k) == IF k > MaxOrder THEN MaxOrder ELSE k
Order(r) == AtMost(ilog2(r.size))

set_bits(a, r, v, fill) ==
    LET ends == IF fill THEN PagesOf(r) ELSE {r.start, r.start + r.size - 1}
    IN  [a EXCEPT !.bits = [p \in Pages |-> IF p \in ends THEN v ELSE @[p]]]

insert(a, r) == set_bits([a EXCEPT !.free = @ \cup {r}], r, TRUE, FALSE)
remove(a, r) == [a EXCEPT !.free = @ \ {r}]

\* alloc(): the ranges it may take
Fitting(a, n, contiguous) ==
    LET exact == AtMost(ilog2_roundup(n))
        orders == {Order(r) : r \in a.free} \cap (exact .. MaxOrder)
        order == CHOOSE k \in orders : \A j \in orders : k <= j
    IN  IF orders = {}
        THEN {r \in a.free : contiguous /\ exact # 0 /\ Order(r) = exact - 1 /\ r.size >= n}
        ELSE IF order = MaxOrder
        THEN {r \in a.free : /\ r.size >= n
                             /\ \A q \in a.free : q.size <= r.size}
        ELSE {r \in a.free : Order(r) = order}

\* The outcomes of alloc(): allocator and range; none stands for nullptr.
alloc(a, n, contiguous) ==
    {LET rest == page_range(r.start + n, r.size - n)
         b == IF r.size > n THEN insert(remove(a, r), rest) ELSE remove(a, r)
         got == page_range(r.start, n)
     IN  [a |-> set_bits(b, got, FALSE, FALSE), r |-> got]
     : r \in Fitting(a, n, contiguous)}

\* Only the ends of the range are cleared, whatever it is for.
alloc_alignedNoFill(a, n, offset, alignment, fill) ==
    LET shift(r) == (r.start + r.size - n + offset) % alignment
        low == IF n < 2 THEN 0 ELSE ilog2(n) - 1
    IN  {LET b == IF shift(r) = 0 THEN remove(a, r)
                  ELSE insert(remove(a, r), page_range(r.start + r.size - shift(r), shift(r)))
             at == r.start + r.size - shift(r) - n
             c == IF at = r.start THEN b ELSE insert(b, page_range(r.start, at - r.start))
         IN  [a |-> set_bits(c, page_range(at, n), FALSE, FALSE), r |-> page_range(at, n)]
         : r \in {q \in a.free : Order(q) >= low /\ q.size >= n + shift(q)}}

alloc_aligned(a, n, offset, alignment, fill) ==
    LET shift(r) == (r.start + r.size - n + offset) % alignment
        low == IF n < 2 THEN 0 ELSE ilog2(n) - 1
    IN  {LET b == IF shift(r) = 0 THEN remove(a, r)
                  ELSE insert(remove(a, r), page_range(r.start + r.size - shift(r), shift(r)))
             at == r.start + r.size - shift(r) - n
             c == IF at = r.start THEN b ELSE insert(b, page_range(r.start, at - r.start))
         IN  [a |-> set_bits(c, page_range(at, n), FALSE, fill), r |-> page_range(at, n)]
         : r \in {q \in a.free : Order(q) >= low /\ q.size >= n + shift(q)}}

\* A set bit on either side says that a free range ends or begins there.
free(a, r) ==
    LET left == {q \in a.free : /\ r.start > 0 /\ a.bits[r.start - 1]
                                /\ q.start + q.size = r.start}
        next == r.start + r.size
        right == {q \in a.free : next < a.bsize /\ a.bits[next] /\ q.start = next}
        from == IF left = {} THEN r.start ELSE (CHOOSE q \in left : TRUE).start
        to == IF right = {} THEN next ELSE next + (CHOOSE q \in right : TRUE).size
    IN  insert([a EXCEPT !.free = @ \ (left \cup right)], page_range(from, to - from))

\* A range that ends where the bitmap ends makes it grow: its bits are set anew
\* from the free ranges, and when its page moves the old one is freed last.
initial_add(a, at, r) ==
    IF r.start + r.size > a.bsize
    THEN LET left == {q \in a.free : /\ r.start > 0 /\ a.bits[r.start - 1]
                                     /\ q.start + q.size = r.start}
             from == IF left = {} THEN r.start ELSE (CHOOSE q \in left : TRUE).start
             b == [free |-> (a.free \ left) \cup {page_range(from, r.start + r.size - from)},
                   bits |-> a.bits, bsize |-> r.start + r.size]
             Marked(c) == [c EXCEPT !.bits = [p \in Pages |->
                             \E q \in c.free : p \in {q.start, q.start + q.size - 1}]]
             moved == {LET c == Marked(x.a)
                       IN  [a |-> IF at = -1 THEN c ELSE free(c, page_range(at, 1)),
                            at |-> x.r.start] : x \in alloc(b, 1, TRUE)}
         IN  moved \cup (IF at = -1 THEN {} ELSE {[a |-> Marked(b), at |-> at]})
    ELSE {[a |-> free(a, r), at |-> at]}

-----------------------------------------------------------------------------
Init ==
    /\ fpr = [free |-> {}, bits |-> [p \in Pages |-> FALSE], bsize |-> 0]
    /\ bitmapAt = -1
    /\ chunks = Chunks
    /\ owned = {}
    /\ free_memory = 0
    /\ req = [t \in Threads |-> 0]
    /\ waiters = <<>>
    /\ reclaimer = "blocked"
    /\ aborted = FALSE

\* reclaimer::wake() reaches the reclaimer only while it is in _blocked.wait().
wake == reclaimer' = IF reclaimer = "blocked" THEN "woken" ELSE reclaimer

on_alloc(n) ==
    /\ free_memory' = free_memory - n
    /\ IF free_memory - n < Watermark THEN wake ELSE UNCHANGED reclaimer

Take(x, fill) ==
    /\ fpr' = x.a
    /\ owned' = owned \cup {[start |-> x.r.start, size |-> x.r.size, fill |-> fill]}
    /\ on_alloc(x.r.size)
    /\ UNCHANGED <<bitmapAt, chunks, waiters, aborted>>

\* With a bitmap that stays in place the allocation of its page costs nothing.
free_initial_memory_range(r) ==
    /\ chunks' = chunks \ {r}
    /\ \E x \in initial_add(fpr, bitmapAt, r) :
          /\ fpr' = x.a
          /\ bitmapAt' = x.at
          /\ free_memory' = free_memory + r.size - (IF bitmapAt = -1 THEN 1 ELSE 0)
    /\ UNCHANGED <<owned, req, waiters, reclaimer, aborted>>

\* What malloc_large() tries: n pages, aligned to two pages behind the header
\* page when an alignment beyond a page is asked for.
Outcomes(n, aligned, contiguous) ==
    IF aligned THEN alloc_aligned(fpr, n + 1, 1, 2, FALSE) ELSE alloc(fpr, n, contiguous)

Need(n, aligned) == IF aligned THEN n + 1 ELSE n

Runnable(t) == \A i \in DOMAIN waiters : waiters[i].owner # t

\* A thread calls malloc_large(), or tries again once it was woken.
malloc_large(t, n, aligned, contiguous) ==
    /\ Runnable(t)
    /\ req[t] = 0 \/ (req[t] = Need(n, aligned) /\ contiguous)
    /\ \E x \in Outcomes(n, aligned, contiguous) : Take(x, FALSE)
    /\ req' = [req EXCEPT ![t] = 0]

\* The request cannot be met and must be contiguous: the thread becomes a waiter,
\* and a request beyond all of memory aborts.
wait_for_memory(t, n, aligned) ==
    /\ chunks = {}
    /\ Runnable(t)
    /\ req[t] \in {0, Need(n, aligned)}
    /\ Outcomes(n, aligned, TRUE) = {}
    /\ wake
    /\ waiters' = Append(waiters, [owner |-> t, bytes |-> Need(n, aligned)])
    /\ req' = [req EXCEPT ![t] = Need(n, aligned)]
    /\ aborted' = (Need(n, aligned) > Cardinality(UNION {PagesOf(r) : r \in Chunks}))
    /\ UNCHANGED <<fpr, bitmapAt, chunks, owned, free_memory>>

alloc_huge_page(t) ==
    /\ Runnable(t)
    /\ req[t] = 0
    /\ LET found == alloc_aligned(fpr, Huge, 0, Huge, TRUE)
       IN  IF found # {}
           THEN \E x \in found : Take(x, TRUE)
           ELSE wake /\ UNCHANGED <<fpr, bitmapAt, chunks, owned, free_memory, waiters, aborted>>
    /\ UNCHANGED req

\* The page tables split a huge page and from then on free it page by page.
split_huge_page(o) ==
    /\ o.fill /\ o.size > 1
    /\ owned' = (owned \ {o}) \cup {[start |-> p, size |-> 1, fill |-> TRUE] : p \in PagesOf(o)}
    /\ UNCHANGED <<fpr, bitmapAt, chunks, free_memory, req, waiters, reclaimer, aborted>>

\* What is given back is not counted.
free_page_rangeUncounted(o) ==
    /\ owned' = owned \ {o}
    /\ fpr' = free(fpr, page_range(o.start, o.size))
    /\ UNCHANGED <<free_memory, bitmapAt, chunks, req, waiters, reclaimer, aborted>>

\* free_large(), free_huge_page(), and a page that leaves the page pools
free_page_range(o) ==
    /\ owned' = owned \ {o}
    /\ free_memory' = free_memory + o.size
    /\ fpr' = free(fpr, page_range(o.start, o.size))
    /\ UNCHANGED <<bitmapAt, chunks, req, waiters, reclaimer, aborted>>

-----------------------------------------------------------------------------
\* wake_waiters(): one range serves, in their order, the waiters that fit.
ServeFrom(acc, r) ==
    LET Serve(s, w) == IF s.left >= w.bytes
                       THEN [s EXCEPT !.left = @ - w.bytes]
                       ELSE [s EXCEPT !.rest = Append(@, w)]
        done == FoldLeft(Serve, [left |-> r.size, rest |-> <<>>], acc.waiters)
    IN  [waiters |-> done.rest,
         woken |-> acc.woken \/ acc.waiters = <<>> \/ done.rest # acc.waiters]

wake_waiters == {FoldLeft(ServeFrom, [waiters |-> waiters, woken |-> FALSE], s)
                 : s \in SetToSeqs(fpr.free)}

\* _do_reclaim(): _blocked.wait() returns and the lock is dropped
ReclaimTarget ==
    /\ reclaimer = "woken"
    /\ reclaimer' = "shrink"
    /\ UNCHANGED <<fpr, bitmapAt, chunks, owned, free_memory, req, waiters, aborted>>

\* The target is never negative, so this is done every time.
ReclaimServe ==
    /\ reclaimer = "shrink"
    /\ \E x \in wake_waiters :
          /\ waiters' = x.waiters
          /\ aborted' = ~x.woken
    /\ reclaimer' = "loop"
    /\ UNCHANGED <<fpr, bitmapAt, chunks, owned, free_memory, req>>

\* The lock is taken again and _blocked.wait() entered.
ReclaimWait ==
    /\ reclaimer = "loop"
    /\ reclaimer' = "blocked"
    /\ UNCHANGED <<fpr, bitmapAt, chunks, owned, free_memory, req, waiters, aborted>>

Reclaim == ReclaimTarget \/ ReclaimServe \/ ReclaimWait

Next ==
    /\ ~aborted
    /\ \/ \E r \in chunks : free_initial_memory_range(r)
       \/ \E t \in Threads, n \in Sizes, aligned, contiguous \in BOOLEAN :
             malloc_large(t, n, aligned, contiguous)
       \/ \E t \in Threads, n \in Sizes, aligned \in BOOLEAN : wait_for_memory(t, n, aligned)
       \/ \E t \in Threads : alloc_huge_page(t)
       \/ \E o \in owned : split_huge_page(o) \/ free_page_range(o)
       \/ Reclaim

Spec == Init /\ [][Next]_vars

\* The reclaimer is a thread of its own, which the scheduler runs.
FairSpec == Spec /\ WF_vars(~aborted /\ Reclaim)

-----------------------------------------------------------------------------
Regions == fpr.free \cup {page_range(o.start, o.size) : o \in owned}
           \cup (IF bitmapAt = -1 THEN {} ELSE {page_range(bitmapAt, 1)})

\* insert()/remove()/free()/initial_add(): every page that was handed to the
\* allocator is in exactly one free range, one allocation or the bitmap's own
\* page, and free_memory is what the free ranges add up to.
MemoryAccounted ==
    LET known == UNION {PagesOf(r) : r \in Chunks \ chunks}
        inFree == UNION {PagesOf(r) : r \in fpr.free}
    IN  /\ \A p \in known : Cardinality({r \in Regions : p \in PagesOf(r)}) = 1
        /\ UNION {PagesOf(r) : r \in Regions} = known
        /\ free_memory = Cardinality(inFree)

\* free() trusts the bit of the page before and of the page after a range.  The
\* bits are set at both ends of a free range, clear at both ends of an allocated
\* one and on every page of a huge page, which may come back in pieces; and free
\* ranges that touch are merged, whatever the order in which they were freed.
BitmapTellsEnds ==
    /\ \A r \in fpr.free : fpr.bits[r.start] /\ fpr.bits[r.start + r.size - 1]
    /\ \A o \in owned :
          \A p \in IF o.fill THEN PagesOf(o) ELSE {o.start, o.start + o.size - 1} : ~fpr.bits[p]
    /\ \A r, q \in fpr.free : r.start + r.size # q.start

\* "At this point the reclaimer thread already knows there are waiters": while
\* the system runs, a waiter whose request fits a free range is not left waiting.
WaitersServed ==
    \A t \in Threads :
      ~ <>[](/\ ~aborted
             /\ \E i \in DOMAIN waiters : /\ waiters[i].owner = t
                                        /\ \E r \in fpr.free : r.size >= waiters[i].bytes)
=============================================================================
