----------------------------- MODULE SmallPool -----------------------------
(***************************************************************************)
(* One pool of small objects of core/mempool.cc.  Every page belongs to    *)
(* the CPU that set it up; an object freed on another CPU goes through a   *)
(* garbage sink to the worker item of its page's CPU.  Each section under  *)
(* preempt_lock touches the lists of one CPU only and is one step.         *)
(***************************************************************************)
EXTENDS Integers, Sequences, FiniteSets, Functions

CONSTANTS
    Cpus,
    Pages,
    Slots,          \* the objects of a page
    Threshold,      \* garbage_sink::signal_threshold
    Adders          \* at most so many threads are in add_page()

None == "none"
AllObjects == Pages \X Slots
to_header(obj) == obj[1]

VARIABLES
    cpu_id,         \* page_header::cpu_id, None for a page outside of the pool
    nalloc,         \* page_header::nalloc
    local_free,     \* page_header::local_free
    free,           \* free[c]: the list of pages with free objects
    user,           \* objects in use
    sink,           \* sink[c][d]: pcpu_free_list, freed on d for CPU c
    pushed,         \* garbage_sink::pushed_since_last_signal
    collecting,     \* collecting[c]: the worker item of c has been signalled
    adding          \* the number of threads in add_page()

page_header == <<cpu_id, nalloc, local_free>>
sinks == <<sink, pushed, collecting>>
vars == <<page_header, free, user, sinks, adding>>

Init ==
    /\ cpu_id = [p \in Pages |-> None]
    /\ nalloc = [p \in Pages |-> 0]
    /\ local_free = [p \in Pages |-> {}]
    /\ free = [c \in Cpus |-> <<>>]
    /\ user = {}
    /\ sink = [c \in Cpus |-> [d \in Cpus |-> {}]]
    /\ pushed = [c \in Cpus |-> [d \in Cpus |-> 0]]
    /\ collecting = [c \in Cpus |-> FALSE]
    /\ adding = 0

\* alloc() finds no page and gives up preemption for add_page().
EnterAddPage(c) ==
    /\ free[c] = <<>> /\ adding < Adders
    /\ adding' = adding + 1
    /\ UNCHANGED <<page_header, free, user, sinks>>

\* It may have been moved to another CPU meanwhile.
add_page(c, p) ==
    /\ adding > 0 /\ cpu_id[p] = None
    /\ adding' = adding - 1
    /\ cpu_id' = [cpu_id EXCEPT ![p] = c]
    /\ nalloc' = [nalloc EXCEPT ![p] = 0]
    /\ local_free' = [local_free EXCEPT ![p] = {p} \X Slots]
    /\ free' = [free EXCEPT ![c] = Append(@, p)]
    /\ UNCHANGED <<user, sinks>>

alloc(c, obj) ==
    /\ free[c] # <<>>
    /\ LET p == Head(free[c])
       IN  /\ obj \in local_free[p]
           /\ nalloc' = [nalloc EXCEPT ![p] = @ + 1]
           /\ local_free' = [local_free EXCEPT ![p] = @ \ {obj}]
           /\ free' = IF local_free[p] = {obj} THEN [free EXCEPT ![c] = Tail(@)] ELSE free
    /\ user' = user \cup {obj}
    /\ UNCHANGED <<cpu_id, sinks, adding>>

\* The last page of the list, which may be the page itself
have_full_pages(c, count) == free[c] # <<>> /\ count[free[c][Len(free[c])]] = 0

Erase(list, i) == SubSeq(list, 1, i - 1) \o SubSeq(list, i + 1, Len(list))

free_same_cpu(obj, c) ==
    LET p == to_header(obj)
        left == [nalloc EXCEPT ![p] = @ - 1]
        first == local_free[p] = {}
    IN  /\ nalloc' = left
        /\ IF left[p] = 0 /\ have_full_pages(c, left)
           THEN /\ IF first THEN UNCHANGED free
                   ELSE \E i \in DOMAIN free[c] :
                          free[c][i] = p /\ free' = [free EXCEPT ![c] = Erase(@, i)]
                /\ cpu_id' = [cpu_id EXCEPT ![p] = None]
                /\ local_free' = [local_free EXCEPT ![p] = {}]
           ELSE /\ free' = IF ~first THEN free
                           ELSE [free EXCEPT ![c] = IF left[p] # 0 THEN <<p>> \o @ ELSE Append(@, p)]
                /\ local_free' = [local_free EXCEPT ![p] = @ \cup {obj}]
                /\ UNCHANGED cpu_id

\* The two CPUs are mixed up.
free_different_cpuSwapped(obj, obj_cpu, cur_cpu) ==
    /\ sink' = [sink EXCEPT ![cur_cpu][obj_cpu] = @ \cup {obj}]
    /\ UNCHANGED <<pushed, collecting>>

\* garbage_sink::free(): only every so many objects signal the worker item.
free_different_cpu(obj, obj_cpu, cur_cpu) ==
    /\ sink' = [sink EXCEPT ![obj_cpu][cur_cpu] = @ \cup {obj}]
    /\ IF pushed[obj_cpu][cur_cpu] + 1 > Threshold
       THEN /\ pushed' = [pushed EXCEPT ![obj_cpu][cur_cpu] = 0]
            /\ collecting' = [collecting EXCEPT ![obj_cpu] = TRUE]
       ELSE /\ pushed' = [pushed EXCEPT ![obj_cpu][cur_cpu] = @ + 1]
            /\ UNCHANGED collecting

Free(cur_cpu, obj) ==
    /\ obj \in user
    /\ user' = user \ {obj}
    /\ LET obj_cpu == cpu_id[to_header(obj)]
       IN  \/ obj_cpu = cur_cpu /\ free_same_cpu(obj, cur_cpu) /\ UNCHANGED sinks
           \/ /\ obj_cpu # cur_cpu /\ free_different_cpu(obj, obj_cpu, cur_cpu)
              /\ UNCHANGED <<page_header, free>>
    /\ UNCHANGED adding

\* collect_garbage(): one object after the other, and preemption is possible
\* wherever a page is given back
Collect(c, d, obj) ==
    /\ collecting[c] /\ obj \in sink[c][d]
    /\ sink' = [sink EXCEPT ![c][d] = @ \ {obj}]
    /\ free_same_cpu(obj, c)
    /\ UNCHANGED <<user, pushed, collecting, adding>>

CollectEnd(c) ==
    /\ collecting[c] /\ \A d \in Cpus : sink[c][d] = {}
    /\ collecting' = [collecting EXCEPT ![c] = FALSE]
    /\ UNCHANGED <<page_header, free, user, sink, pushed, adding>>

Next ==
    \/ \E c \in Cpus : EnterAddPage(c) \/ CollectEnd(c)
    \/ \E c \in Cpus, p \in Pages : add_page(c, p)
    \/ \E c \in Cpus, obj \in AllObjects : alloc(c, obj) \/ Free(c, obj)
    \/ \E c, d \in Cpus, obj \in AllObjects : Collect(c, d, obj)

Spec == Init /\ [][Next]_vars

-----------------------------------------------------------------------------
InSinks(c) == UNION {sink[c][d] : d \in Cpus}
Out(o) == o \in user \/ \E c \in Cpus : o \in InSinks(c)
ObjectsOf(p) == {p} \X Slots

\* alloc(), free() and the collector: an object of a page of CPU c is either in
\* use, or in the page's list, or in a sink of c, and nalloc counts the first and
\* the last: a page goes back to the page pool only with all objects returned.
ObjectsAccounted ==
    \A p \in Pages :
      IF cpu_id[p] = None
      THEN \A o \in ObjectsOf(p) : ~Out(o)
      ELSE /\ nalloc[p] = Cardinality(ObjectsOf(p) \ local_free[p])
           /\ \A o \in ObjectsOf(p) : o \in local_free[p] <=> ~Out(o)
           /\ \A c \in Cpus \ {cpu_id[p]} : ObjectsOf(p) \cap InSinks(c) = {}

\* _free: the list of a CPU has exactly its pages with a free object, each once,
\* so alloc() finds them and never sees a page that was given back.
FreeListExact ==
    \A c \in Cpus : /\ \A i, j \in DOMAIN free[c] : i # j => free[c][i] # free[c][j]
                    /\ Range(free[c]) = {p \in Pages : cpu_id[p] = c /\ local_free[p] # {}}
=============================================================================
