--------------------------- MODULE AddressSpace ---------------------------
(***************************************************************************)
(* The address space of core/mmu.cc: the list of VMAs, the two lowest      *)
(* levels of the page table below them, and what the TLBs remember of it.  *)
(*                                                                         *)
(* mmap, munmap, mprotect and madvise hold vma_list_mutex for write and    *)
(* are one step each.  Page faults hold it for read, so that several of    *)
(* them walk the page table at the same time: there every access to an     *)
(* entry is a step, except that a test which only an empty entry fails is  *)
(* one with the test behind it: under the read lock an entry goes from     *)
(* empty to large or to a table and from large to a table, never back.     *)
(* Addresses are page numbers, and memory is counted in pages.             *)
(*                                                                         *)
(* An entry for a page is the set of what its bits say: the permissions,   *)
(* and "valid".  A page that is populated with PROT_NONE has neither, but  *)
(* its entry is not empty; mprotect(PROT_NONE) leaves the valid bit set.   *)
(***************************************************************************)
EXTENDS Integers, Sequences, FiniteSets, SequencesExt

CONSTANTS
    Threads,    \* the threads that can fault
    NPages,     \* upper_vma_limit, the first page that cannot be mapped
    Huge,       \* pages of a huge page
    Width,      \* bits of a size_t that counts pages
    Setups      \* the threads that fault, what they access and how, the last page, the
                \* permissions, the size of pages and the use of MAP_POPULATE in the
                \* program's calls, and whether the TLBs are looked at

\* No permissions because there is no page
None == {"no page"}

\* The page of the lower edge marker is not used.
Pages == 1 .. NPages - 1
Regions == 0 .. (NPages - 2) \div Huge
Region(p) == (p - 1) \div Huge
First(h) == h * Huge + 1
PagesOf(h) == {p \in Pages : Region(p) = h}

VARIABLES
    setup,          \* the member of Setups that is the case
    vmas,           \* vma_list without its edge markers
    pde,            \* the entries of level 1, one for each region
    pte,            \* the entries of level 0, in the tables that pde names
    frames, tables, \* pages in use as memory and as page tables
    tlb,            \* a translation that some CPU remembers
    fault,          \* the page faults being handled
    corrupted,      \* a walk took a huge page for a page table, or a table for one
    lost,           \* page tables that a page fault replaced by its own
    asked           \* what the calls that succeeded asked for, page by page

space == [vmas |-> vmas, pde |-> pde, pte |-> pte, frames |-> frames,
          tables |-> tables, tlb |-> tlb, corrupted |-> corrupted]
vars == <<setup, vmas, pde, pte, frames, tables, tlb, fault, corrupted, lost, asked>>

NoFault == [pc |-> "none"]
NoTranslation == [page |-> 0, perm |-> {}]

Init ==
    /\ setup \in Setups
    /\ vmas = {}
    /\ pde = [h \in Regions |-> [kind |-> "empty"]]
    /\ pte = [p \in Pages |-> None]
    /\ frames = 0 /\ tables = 0
    /\ tlb = NoTranslation
    /\ fault = [t \in Threads |-> NoFault]
    /\ corrupted = FALSE
    /\ lost = 0
    /\ asked = [p \in Pages |-> None]

\* make_leaf_pte(); what is left without the valid bit; and valid(), for an entry
\* of level 1
make_leaf_pte(perm) == IF perm = {} THEN {} ELSE perm \cup {"valid"}
Perm(bits) == bits \ {"valid"}
valid(entry) == entry.kind = "table" \/ (entry.kind = "large" /\ "valid" \in entry.perm)

\* The entry that page p is mapped by
Mapped(x, p) ==
    CASE x.pde[Region(p)].kind = "large" -> x.pde[Region(p)].perm
      [] x.pde[Region(p)].kind = "table" -> x.pte[p]
      [] OTHER -> None

-----------------------------------------------------------------------------
(* Walks of the page table under the write lock.  A walk goes over the     *)
(* regions.  Where it covers one, it takes a huge page there as a whole.   *)
(* Where it does not, it ends at an entry that is not valid, unless it     *)
(* allocates tables, and splits a huge page.                               *)

Whole(h, s, e) == s <= First(h) /\ First(h) + Huge <= e
Clamped(h, s, e) == PagesOf(h) \cap s .. e - 1

\* allocate_intermediate_level(), for an empty entry and for a large one
NewTable(x, h) ==
    [x EXCEPT !.pde[h] = [kind |-> "table"],
              !.pte = [p \in Pages |-> IF p \in PagesOf(h) THEN None ELSE @[p]],
              !.tables = @ + 1]
split_large_page(x, h) ==
    [x EXCEPT !.pde[h] = [kind |-> "table"],
              !.pte = [p \in Pages |-> IF p \in PagesOf(h) THEN x.pde[h].perm ELSE @[p]],
              !.tables = @ + 1]
SplitIfLarge(x, h) ==
    IF valid(x.pde[h]) /\ x.pde[h].kind = "large" THEN split_large_page(x, h) ELSE x

\* The regions a walk over [s, e) enters, in the order of their addresses.
Entered(s, e) ==
    SelectSeq([i \in 1 .. Cardinality(Regions) |-> i - 1],
              LAMBDA h : Clamped(h, s, e) # {})

\* unpopulate: memory goes back after a flush of all TLBs, and the table of a
\* region that is unpopulated as a whole goes with it.
ClearSmall(x, ps) ==
    [x EXCEPT !.pte = [p \in Pages |-> IF p \in ps THEN None ELSE @[p]],
              !.frames = @ - Cardinality({p \in ps : x.pte[p] # None}),
              !.tlb = IF \E p \in ps : x.pte[p] # None THEN NoTranslation ELSE @]
DropTable(x, h) == [x EXCEPT !.pde[h] = [kind |-> "empty"], !.tables = @ - 1]

unpopulate(x, s, e) ==
    LET step(y, h) ==
            CASE Whole(h, s, e) /\ y.pde[h].kind = "large" ->
                    [y EXCEPT !.pde[h] = [kind |-> "empty"], !.frames = @ - Huge, !.tlb = NoTranslation]
              [] Whole(h, s, e) /\ y.pde[h].kind = "table" ->
                    DropTable(ClearSmall(y, PagesOf(h)), h)
              [] ~Whole(h, s, e) /\ valid(y.pde[h]) ->
                    ClearSmall(SplitIfLarge(y, h), Clamped(h, s, e))
              [] OTHER -> y
    IN  FoldLeft(step, x, Entered(s, e))

\* A flush only when nothing at all is left
LostAll(old, perm) == old # None /\ perm = {}

\* change_perm() makes the entry valid, and protection asks for a flush when a
\* permission is taken away.  An entry that was valid counts as readable.
change_perm(perm) == perm \cup {"valid"}
Lost(old, perm) ==
    old # None /\ (Perm(old) \cup (IF "valid" \in old THEN {"read"} ELSE {})) \ perm # {}

protection(x, s, e, perm) ==
    LET step(y, h) ==
            IF Whole(h, s, e) /\ y.pde[h].kind = "large"
            THEN [y EXCEPT !.pde[h].perm = change_perm(perm),
                           !.tlb = IF Lost(y.pde[h].perm, perm) THEN NoTranslation ELSE @]
            ELSE IF ~valid(y.pde[h]) THEN y
            ELSE LET z == SplitIfLarge(y, h)
                     ps == {p \in Clamped(h, s, e) : z.pte[p] # None}
                 IN  [z EXCEPT !.pte = [p \in Pages |-> IF p \in ps THEN change_perm(perm) ELSE @[p]],
                               !.tlb = IF \E p \in ps : Lost(z.pte[p], perm) THEN NoTranslation ELSE @]
    IN  FoldLeft(step, x, Entered(s, e))

splithugepages(x, s, e) == FoldLeft(SplitIfLarge, x, Entered(s, e))

\* populate and populate_small under the write lock; got is whether
\* alloc_huge_page() succeeds.  A huge page whose entry is not valid is not split:
\* the exchange for a new table fails, and the walk goes on into the page.
FillSmall(x, ps, perm) ==
    [x EXCEPT !.pte = [p \in Pages |-> IF p \in ps /\ @[p] = None THEN make_leaf_pte(perm) ELSE @[p]],
              !.frames = @ + Cardinality({p \in ps : x.pte[p] = None})]

populate(x, s, e, perm, small, got) ==
    LET step(y, h) ==
            IF Whole(h, s, e) /\ ~small /\ y.pde[h].kind = "large" THEN y
            ELSE IF Whole(h, s, e) /\ ~small /\ y.pde[h].kind = "empty" /\ got
            THEN [y EXCEPT !.pde[h] = [kind |-> "large", perm |-> make_leaf_pte(perm)],
                           !.frames = @ + Huge]
            ELSE IF y.pde[h].kind = "large" /\ ~valid(y.pde[h])
            THEN [y EXCEPT !.corrupted = TRUE]
            ELSE LET z == IF y.pde[h].kind = "empty" THEN NewTable(y, h) ELSE SplitIfLarge(y, h)
                 IN  FillSmall(z, Clamped(h, s, e), perm)
    IN  FoldLeft(step, x, Entered(s, e))

-----------------------------------------------------------------------------
(* The list of VMAs *)

\* find_intersecting_vmas(), in the order of the list
ByStart(vs) ==
    LET starts == SelectSeq([i \in 1 .. NPages + 1 |-> i - 1],
                            LAMBDA p : \E v \in vs : v.start = p)
    IN  [i \in DOMAIN starts |-> CHOOSE v \in vs : v.start = starts[i]]
find_intersecting_vmas(vs, s, e) == ByStart({v \in vs : v.start < e /\ v.end > s})

ismapped(vs, s, e) ==
    LET step(from, v) == IF v.start > from THEN from ELSE v.end
    IN  FoldLeft(step, s, find_intersecting_vmas(vs, s, e)) >= e

\* anon_vma::split() at both ends of a range: the piece of v in it, and the rest
Piece(v, s, e) == [v EXCEPT !.start = IF s > @ THEN s ELSE @, !.end = IF e < @ THEN e ELSE @]
Rest(v, s, e) ==
    {w \in {[v EXCEPT !.end = s], [v EXCEPT !.start = e]} : w.start < w.end}

\* What follows the range goes, too.
evacuateTail(x, s, e) ==
    LET step(y, v) ==
            LET dead == [Piece(v, s, e) EXCEPT !.end = v.end]
            IN  [unpopulate(y, dead.start, dead.end) EXCEPT
                     !.vmas = (@ \ {v}) \cup {w \in Rest(v, s, e) : w.start < s}]
    IN  FoldLeft(step, x, find_intersecting_vmas(x.vmas, s, e))

evacuate(x, s, e) ==
    LET step(y, v) ==
            LET dead == Piece(v, s, e)
            IN  [unpopulate(y, dead.start, dead.end) EXCEPT
                     !.vmas = (@ \ {v}) \cup Rest(v, s, e)]
    IN  FoldLeft(step, x, find_intersecting_vmas(x.vmas, s, e))

protect(x, s, e, perm) ==
    LET step(y, v) ==
            IF v.perm = perm THEN y
            ELSE LET w == [Piece(v, s, e) EXCEPT !.perm = perm]
                 IN  [protection(y, w.start, w.end, perm) EXCEPT
                          !.vmas = (@ \ {v}) \cup {w} \cup Rest(v, s, e)]
    IN  FoldLeft(step, x, find_intersecting_vmas(x.vmas, s, e))

\* depopulate() and nohugepage() go on by the size of each VMA, also from a
\* start in the middle of one, and with what size_t arithmetic leaves of the
\* length; operate_range() takes at least a page.
Wrap(n) == n % (2 ^ Width)
Size(v) == v.end - v.start
Until(y, v) ==
    LET n == IF y.length < Size(v) THEN y.length ELSE Size(v)
    IN  y.start + (IF n = 0 THEN 1 ELSE n)
Onward(y, v, x) == [x |-> x, start |-> y.start + Size(v), length |-> Wrap(y.length - Size(v))]

depopulate(x, s, e) ==
    LET step(y, v) == Onward(y, v, unpopulate(y.x, y.start, Until(y, v)))
    IN  FoldLeft(step, [x |-> x, start |-> s, length |-> e - s],
                 find_intersecting_vmas(x.vmas, s, e)).x

nohugepage(x, s, e) ==
    LET step(y, v) ==
            Onward(y, v, IF v.small THEN y.x
                         ELSE [splithugepages(y.x, y.start, Until(y, v)) EXCEPT
                                   !.vmas = (@ \ {v}) \cup {[v EXCEPT !.small = TRUE]}])
    IN  FoldLeft(step, [x |-> x, start |-> s, length |-> e - s],
                 find_intersecting_vmas(x.vmas, s, e)).x

\* find_hole(): p runs over the ranges from the last one that starts before s, n
\* is the one behind it.  The search ends with the first gap in which s itself
\* fits, or which is large enough behind p (for a large mapping, with the
\* alignment of a huge page), and falls back on the last gap without alignment;
\* 0 is ENOMEM.
align_up(p) == IF p = First(Region(p)) THEN p ELSE First(Region(p) + 1)
find_hole(vs, s, size) ==
    LET edges == ByStart(vs \cup {[start |-> 0, end |-> 0], [start |-> NPages, end |-> NPages]})
        from == CHOOSE i \in DOMAIN edges : edges[i].start < s /\ edges[i + 1].start >= s
        gaps == {i \in from .. Len(edges) - 1 : edges[i].end >= s /\ edges[i + 1].start - edges[i].end >= size}
        fits == {i \in from .. Len(edges) - 1 : s >= edges[i].end /\ s + size <= edges[i + 1].start}
        good == {i \in gaps : size < Huge \/ edges[i + 1].start - align_up(edges[i].end) >= size}
        least(is) == CHOOSE i \in is : \A j \in is : i <= j
        most(is) == CHOOSE i \in is : \A j \in is : j <= i
    IN  IF fits \cup good # {}
        THEN LET i == least(fits \cup good)
             IN  IF i \in fits THEN s
                 ELSE IF size < Huge THEN edges[i].end ELSE align_up(edges[i].end)
        ELSE IF gaps # {} THEN edges[most(gaps)].end
        ELSE 0

-----------------------------------------------------------------------------
(* System calls, under the write lock *)

\* What comes of a corrupted page table is not modelled, nor what comes after a
\* table was lost.
WriteLocked == ~corrupted /\ lost = 0 /\ \A t \in Threads : fault[t].pc = "none"
Becomes(x) ==
    /\ vmas' = x.vmas /\ pde' = x.pde /\ pte' = x.pte
    /\ frames' = x.frames /\ tables' = x.tables /\ tlb' = x.tlb /\ corrupted' = x.corrupted
Asked(s, e, perm) == asked' = [p \in Pages |-> IF p \in s .. e - 1 THEN perm ELSE asked[p]]

\* allocate() at the given place, whatever is there, or in a hole near to it,
\* and populate_vma() if the caller wants it
allocate(x, s, e, v) == [x EXCEPT !.vmas = @ \cup {[v EXCEPT !.start = s, !.end = e]}]

map_anon(hint, size, fixed, pop, perm, small, got) ==
    LET s == IF fixed THEN hint ELSE find_hole(vmas, hint, size)
        e == s + size
        v == [start |-> 0, end |-> 0, perm |-> perm, small |-> small]
        x == allocate(IF fixed THEN evacuate(space, s, e) ELSE space, s, e, v)
    IN  /\ WriteLocked
        /\ s # 0
        /\ Becomes(IF pop THEN populate(x, s, e, perm, small, got) ELSE x)
        /\ Asked(s, e, perm)
        /\ UNCHANGED <<setup, fault, lost>>

munmap(s, e) ==
    /\ WriteLocked
    /\ ismapped(vmas, s, e)
    /\ Becomes(evacuate(space, s, e))
    /\ Asked(s, e, None)
    /\ UNCHANGED <<setup, fault, lost>>

mprotect(s, e, perm) ==
    /\ WriteLocked
    /\ ismapped(vmas, s, e)
    /\ Becomes(protect(space, s, e, perm))
    /\ Asked(s, e, perm)
    /\ UNCHANGED <<setup, fault, lost>>

advise(s, e, advice) ==
    /\ WriteLocked
    /\ ismapped(vmas, s, e)
    /\ Becomes(IF advice = "dontneed" THEN depopulate(space, s, e) ELSE nohugepage(space, s, e))
    /\ UNCHANGED <<setup, fault, lost, asked>>

\* A CPU uses a page, and remembers its translation.
Access(p) ==
    /\ setup.tlb
    /\ Perm(Mapped(space, p)) \notin {None, {}}
    /\ tlb' = [page |-> p, perm |-> Perm(Mapped(space, p))]
    /\ UNCHANGED <<setup, vmas, pde, pte, frames, tables, fault, corrupted, lost, asked>>

-----------------------------------------------------------------------------
(* Page faults, under the read lock *)

Allows(perm, write) == perm # None /\ (IF write THEN "write" ELSE "read") \in perm
Skip(perm, write) == perm # None /\ (~write \/ "write" \in perm)

\* vm_fault() and vma::fault(): a huge page is tried where the VMA covers one.
vm_fault(t, p, write) ==
    /\ fault[t].pc = "none" /\ t \in setup.threads /\ ~corrupted /\ lost = 0
    /\ ~Allows(Mapped(space, p), write)
    /\ \E v \in vmas :
        /\ v.start <= p /\ p < v.end
        /\ Allows(v.perm, write)
        /\ LET huge == ~v.small /\ Whole(Region(p), v.start, v.end)
           IN  fault' = [fault EXCEPT ![t] =
                    [pc |-> IF huge THEN "descend" ELSE "parent", region |-> Region(p),
                     todo |-> IF huge THEN PagesOf(Region(p)) ELSE {p},
                     perm |-> v.perm, write |-> write, orig |-> None]]
    /\ UNCHANGED <<setup, vmas, pde, pte, frames, tables, tlb, corrupted, lost, asked>>

Go(t, p) == fault' = [fault EXCEPT ![t].pc = p]
Done(t) == fault' = [fault EXCEPT ![t] = NoFault]
Entry(t) == pde[fault[t].region]
PutEntry(t, x) == pde' = [pde EXCEPT ![fault[t].region] = x]
PutTable(t, bits) ==
    /\ PutEntry(t, [kind |-> "table"])
    /\ pte' = [p \in Pages |-> IF Region(p) = fault[t].region THEN bits ELSE pte[p]]

\* map_level, at level 1: descend()
faultDescend(t) ==
    /\ fault[t].pc = "descend"
    /\ Go(t, IF Entry(t).kind = "table" THEN "parent" ELSE "page")
    /\ UNCHANGED <<pde, pte, frames, tables, corrupted, lost>>

\* populate::page() for a huge page; an entry that names a table is writable.
faultHuge(t) ==
    /\ fault[t].pc = "page"
    /\ \/ /\ Entry(t).kind = "table" \/ (Entry(t).kind = "large" /\ Skip(Entry(t).perm, fault[t].write))
          /\ Done(t) /\ UNCHANGED frames
       \/ /\ Entry(t).kind = "empty" \/ (Entry(t).kind = "large" /\ ~Skip(Entry(t).perm, fault[t].write))
          /\ \/ frames' = frames + Huge /\ Go(t, "set")
             \/ UNCHANGED frames /\ Go(t, "parent")
    /\ UNCHANGED <<pde, pte, tables, corrupted, lost>>

\* Who comes late keeps its page.
faultSetHugeKeep(t) ==
    /\ fault[t].pc = "set"
    /\ IF Entry(t).kind = "empty"
       THEN PutEntry(t, [kind |-> "large", perm |-> make_leaf_pte(fault[t].perm)])
       ELSE UNCHANGED pde
    /\ Done(t)
    /\ UNCHANGED <<pte, frames, tables, corrupted, lost>>

\* set_pte(): who comes late gives its page back.
faultSetHuge(t) ==
    /\ fault[t].pc = "set"
    /\ IF Entry(t).kind = "empty"
       THEN PutEntry(t, [kind |-> "large", perm |-> make_leaf_pte(fault[t].perm)]) /\ UNCHANGED frames
       ELSE frames' = frames - Huge /\ UNCHANGED pde
    /\ Done(t)
    /\ UNCHANGED <<pte, tables, corrupted, lost>>

\* map_level::operator(): a table below the entry.  A large entry that is not valid
\* is dealt with like an empty one.
faultParent(t) ==
    /\ fault[t].pc = "parent"
    /\ \/ ~valid(Entry(t)) /\ tables' = tables + 1 /\ Go(t, "table")
       \/ valid(Entry(t)) /\ Entry(t).kind = "large" /\ Go(t, "large") /\ UNCHANGED tables
       \/ Entry(t).kind = "table" /\ Go(t, "follow") /\ UNCHANGED tables
    /\ UNCHANGED <<pde, pte, frames, corrupted, lost>>

\* allocate_intermediate_level() for an empty entry: an exchange
faultTable(t) ==
    /\ fault[t].pc = "table"
    /\ IF Entry(t).kind = "empty"
       THEN PutTable(t, None) /\ UNCHANGED tables
       ELSE tables' = tables - 1 /\ UNCHANGED <<pde, pte>>
    /\ Go(t, "follow")
    /\ UNCHANGED <<frames, corrupted, lost>>

\* split_large_page() reads the entry again.  If another fault has split the page
\* since, the new table will be made of pieces of the other's table.
faultSplitRead(t) ==
    /\ fault[t].pc = "large"
    /\ tables' = tables + 1
    /\ fault' = [fault EXCEPT ![t].pc = "split",
                             ![t].orig = IF Entry(t).kind = "large" THEN Entry(t).perm ELSE None]
    /\ UNCHANGED <<pde, pte, frames, corrupted, lost>>

\* allocate_intermediate_level() for the pieces of a large entry: a store, also in
\* the place of a table
faultSplit(t) ==
    /\ fault[t].pc = "split"
    /\ IF fault[t].orig # None
       THEN PutTable(t, fault[t].orig) /\ UNCHANGED corrupted
       ELSE corrupted' = TRUE /\ UNCHANGED <<pde, pte>>
    /\ lost' = lost + (IF Entry(t).kind = "table" THEN 1 ELSE 0)
    /\ fault' = [fault EXCEPT ![t].pc = "follow", ![t].orig = None]
    /\ UNCHANGED <<frames, tables>>

\* follow() takes the entry for the address of a table.  What comes of it when it
\* is none is not modelled.
faultFollow(t) ==
    /\ fault[t].pc = "follow"
    /\ IF Entry(t).kind = "table"
       THEN Go(t, "leaf") /\ UNCHANGED corrupted
       ELSE Done(t) /\ corrupted' = TRUE
    /\ UNCHANGED <<pde, pte, frames, tables, lost>>

\* populate::page() and set_pte() for each small page
Next1(t) == CHOOSE p \in fault[t].todo : \A q \in fault[t].todo : p <= q
Rest1(t) ==
    IF Cardinality(fault[t].todo) = 1 THEN Done(t)
    ELSE fault' = [fault EXCEPT ![t].pc = "leaf", ![t].todo = @ \ {Next1(t)}]

faultSmall(t) ==
    /\ fault[t].pc = "leaf"
    /\ \/ Skip(pte[Next1(t)], fault[t].write) /\ Rest1(t) /\ UNCHANGED frames
       \/ ~Skip(pte[Next1(t)], fault[t].write) /\ Go(t, "setleaf") /\ frames' = frames + 1
    /\ UNCHANGED <<pde, pte, tables, corrupted, lost>>

faultSetSmall(t) ==
    /\ fault[t].pc = "setleaf"
    /\ IF pte[Next1(t)] = None
       THEN pte' = [pte EXCEPT ![Next1(t)] = make_leaf_pte(fault[t].perm)] /\ UNCHANGED frames
       ELSE frames' = frames - 1 /\ UNCHANGED pte
    /\ Rest1(t)
    /\ UNCHANGED <<pde, tables, corrupted, lost>>

Handle(t) ==
    /\ ~corrupted
    /\ \/ faultDescend(t) \/ faultHuge(t) \/ faultSetHuge(t) \/ faultParent(t) \/ faultTable(t)
       \/ faultSplitRead(t) \/ faultSplit(t) \/ faultFollow(t) \/ faultSmall(t) \/ faultSetSmall(t)
    /\ UNCHANGED <<setup, vmas, tlb, asked>>

Next ==
    \/ \E s \in 1 .. setup.last : \E e \in s + 1 .. setup.last + 1 :
        \/ munmap(s, e)
        \/ \E perm \in setup.perms : mprotect(s, e, perm)
        \/ \E advice \in {"dontneed", "nohugepage"} : advise(s, e, advice)
        \/ \E fixed \in BOOLEAN, small \in setup.small, perm \in setup.perms, pop \in setup.pop :
           \E got \in IF pop /\ ~small THEN BOOLEAN ELSE {FALSE} :
               map_anon(s, e - s, fixed, pop, perm, small, got)
    \/ \E p \in Pages : Access(p)
    \/ \E t \in Threads : Handle(t) \/ \E a \in setup.accesses : vm_fault(t, a[1], a[2])

Spec == Init /\ [][Next]_vars

-----------------------------------------------------------------------------
\* mmap, munmap and mprotect change exactly the pages they name, however VMAs are
\* split, replaced and found a place: no two VMAs overlap, and page by page they
\* say what was asked for last.
MappingsExact ==
    /\ \A v, w \in vmas : v # w => v.end <= w.start \/ w.end <= v.start
    /\ \A v \in vmas : v.start < v.end
    /\ \A p \in Pages :
        asked[p] = IF \E v \in vmas : v.start <= p /\ p < v.end
                   THEN (CHOOSE v \in vmas : v.start <= p /\ p < v.end).perm
                   ELSE None

\* The page table agrees with the VMAs, and memory is accounted for: every page that
\* is mapped has the permissions of its VMA, and as many pages are in use as are
\* mapped, are tables, or are in the hands of a page fault.  There are two
\* exceptions, both in huge pages.  One that was populated with PROT_NONE has an
\* entry that is not valid, at which munmap() and mprotect() of a part of it return
\* without doing anything; it stays as it was until a call covers all of it.  And
\* when two page faults split the same huge page, the table of one is lost.
Stuck(h) == pde[h].kind = "large" /\ ~valid(pde[h])
Count(S(_)) == Cardinality({t \in Threads : S(fault[t].pc)})
PtesMatch ==
    /\ \A p \in Pages : Perm(Mapped(space, p)) \in {None, asked[p]} \/ Stuck(Region(p))
    /\ frames = Cardinality({p \in Pages : Mapped(space, p) # None})
                + Huge * Count(LAMBDA c : c = "set") + Count(LAMBDA c : c = "setleaf")
    /\ tables = Cardinality({h \in Regions : pde[h].kind = "table"})
                + Count(LAMBDA c : c \in {"table", "split"}) + lost

\* No CPU goes on with a translation that grants more than the page table does:
\* what was unmapped, given back or protected is flushed before the call returns.
TlbCurrent ==
    tlb # NoTranslation =>
        Mapped(space, tlb.page) # None /\ tlb.perm \subseteq Perm(Mapped(space, tlb.page))

\* "two instances can operate over the same linear address (therefore all the
\* cmpxcghs)": a walk finds a table where it goes on to the next level, and a huge
\* page where it splits one.
TablesFollowed == ~corrupted
=============================================================================
