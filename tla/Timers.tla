------------------------------- MODULE Timers -------------------------------
(***************************************************************************)
(* The timers of core/sched.cc over the timer_set of                       *)
(* include/osv/timer-set.hh: one set of buckets and one clock event per    *)
(* CPU, and the timers of a thread, which leave the set of one CPU and     *)
(* enter that of another when the thread migrates.  All of it runs with    *)
(* interrupts disabled, so each call is one step.  The order within a      *)
(* bucket plays no role and is left out.                                   *)
(***************************************************************************)
EXTENDS Integers, FiniteSets

CONSTANTS
    Cpus,
    Threads,
    TimerIds,
    Client,     \* Client[x]: the thread that timer x belongs to
    Bits,       \* the width of a timestamp
    Timeouts    \* the timeouts that are set

MaxTime == 2^Bits - 1           \* max_timestamp
Buckets == 0..Bits              \* the last one for timeouts up to _last
Off == "off"

VARIABLES
    now,        \* the uptime clock
    set,        \* set[c]: _last, _next and _buckets of timer_set
    last,       \* timer_list::_last: the programmed clock event, or MaxTime
    state,      \* timer_base::_state
    time,       \* timer_base::_time, which matters while the timer is armed
    cpu         \* the CPU of a thread, Off between two (_timers_need_reload)

vars == <<now, set, last, state, time, cpu>>

Init ==
    /\ now = 0
    /\ set = [c \in Cpus |-> [last |-> 0, next |-> MaxTime, buckets |-> [i \in Buckets |-> {}]]]
    /\ last = [c \in Cpus |-> MaxTime]
    /\ state = [x \in TimerIds |-> "free"]
    /\ time = [x \in TimerIds |-> 0]
    /\ cpu \in [Threads -> Cpus]

-----------------------------------------------------------------------------
\* get_index(): the leading bits that a timestamp has in common with _last
get_index(s, timestamp) ==
    IF timestamp <= s.last THEN Bits
    ELSE CHOOSE i \in 0 .. Bits - 1 :
           /\ timestamp \div 2^(Bits - 1 - i) # s.last \div 2^(Bits - 1 - i)
           /\ timestamp \div 2^(Bits - i) = s.last \div 2^(Bits - i)

Min2(a, b) == IF a < b THEN a ELSE b
Max2(a, b) == IF a < b THEN b ELSE a
Least(S) == CHOOSE m \in S : \A n \in S : m <= n

\* insert() at timeout at, and whether it is the next to expire
insert(s, x, at) ==
    [s EXCEPT !.buckets[get_index(s, at)] = @ \cup {x}, !.next = Min2(@, at)]
is_next(s, at) == at < s.next

remove(s, x) == [s EXCEPT !.buckets[get_index(s, time[x])] = @ \ {x}]

Active(s) == UNION {s.buckets[i] : i \in Buckets}

\* The bucket of now is left as it is when the reference moves.
expireNoRehash(s, t) ==
    LET index == get_index(s, t)
        past == UNION {s.buckets[i] : i \in index + 1 .. Bits}
                \cup {x \in s.buckets[index] : time[x] <= t}
        kept == [i \in Buckets |-> s.buckets[i] \ past]
    IN  [set |-> [last |-> t, buckets |-> kept,
                  next |-> Least({MaxTime} \cup {time[x] : x \in UNION {kept[i] : i \in Buckets}})],
         expired |-> past]

\* expire(now): the buckets behind that of now, and what has expired of that one,
\* the rest of which is inserted again relative to the new _last
expire(s, t) ==
    LET index == get_index(s, t)
        past == UNION {s.buckets[i] : i \in index + 1 .. Bits}
                \cup {x \in s.buckets[index] : time[x] <= t}
        again == s.buckets[index] \ past
        moved == [s EXCEPT !.last = t]
        filled == [i \in Buckets |->
                     (IF i < index THEN s.buckets[i] ELSE {})
                     \cup {x \in again : get_index(moved, time[x]) = i}]
        lastFilled == {i \in Buckets : filled[i] # {} /\ \A j \in i + 1 .. Bits : filled[j] = {}}
        nearest == IF again # {} THEN again ELSE UNION {filled[i] : i \in lastFilled}
    IN  [set |-> [last |-> t, buckets |-> filled,
                  next |-> Least({MaxTime} \cup {time[x] : x \in nearest})],
         expired |-> past]

get_next_timeout(s) == Max2(s.last, s.next)

-----------------------------------------------------------------------------
\* rearm(), called with the set as it is after insert()
rearm(c, s) ==
    IF get_next_timeout(s) < last[c]
    THEN last' = [last EXCEPT ![c] = get_next_timeout(s)]
    ELSE UNCHANGED last

Enter(c, s, x, at) ==
    /\ set' = [set EXCEPT ![c] = insert(s, x, at)]
    /\ IF is_next(s, at) THEN rearm(c, insert(s, x, at)) ELSE UNCHANGED last

Tick == now < MaxTime - 1 /\ now' = now + 1 /\ UNCHANGED <<set, last, state, time, cpu>>

Running(x) == cpu[Client[x]] # Off

\* timer_base::set(), by the thread on its CPU
Set(x, at) ==
    /\ Running(x) /\ state[x] # "armed"
    /\ state' = [state EXCEPT ![x] = "armed"]
    /\ time' = [time EXCEPT ![x] = at]
    /\ Enter(cpu[Client[x]], set[cpu[Client[x]]], x, at)
    /\ UNCHANGED <<now, cpu>>

cancel(x) ==
    /\ Running(x) /\ state[x] # "free"
    /\ LET c == cpu[Client[x]]
       IN  set' = IF state[x] = "armed" THEN [set EXCEPT ![c] = remove(@, x)] ELSE set
    /\ state' = [state EXCEPT ![x] = "free"]
    /\ time' = [time EXCEPT ![x] = 0]
    /\ UNCHANGED <<now, last, cpu>>

\* reset() takes the timers of its CPU before it disables interrupts: this is the
\* step of a caller that is not preempted between the two.
reset(x, at) ==
    /\ Running(x)
    /\ LET c == cpu[Client[x]]
           s == IF state[x] = "armed" THEN remove(set[c], x) ELSE set[c]
       IN  Enter(c, s, x, at)
    /\ state' = [state EXCEPT ![x] = "armed"]
    /\ time' = [time EXCEPT ![x] = at]
    /\ UNCHANGED <<now, cpu>>

\* The interrupt: timer_list::fired()
fired(c) ==
    /\ last[c] <= now
    /\ LET e == expire(set[c], now)
           t == get_next_timeout(e.set)
       IN  /\ set' = [set EXCEPT ![c] = e.set]
           /\ state' = [x \in TimerIds |-> IF x \in e.expired THEN "expired" ELSE state[x]]
           /\ time' = [x \in TimerIds |-> IF x \in e.expired THEN 0 ELSE time[x]]
           /\ last' = [last EXCEPT ![c] = IF Active(e.set) = {} THEN MaxTime ELSE t]
    /\ UNCHANGED <<now, cpu>>

ArmedOf(th) == {x \in TimerIds : Client[x] = th /\ state[x] = "armed"}

\* suspend(), on the CPU that gives the thread away
suspend(th) ==
    /\ cpu[th] # Off
    /\ set' = [set EXCEPT ![cpu[th]].buckets = [i \in Buckets |-> @[i] \
                 {x \in ArmedOf(th) : get_index(set[cpu[th]], time[x]) = i}]]
    /\ cpu' = [cpu EXCEPT ![th] = Off]
    /\ UNCHANGED <<now, last, state, time>>

\* The clock event is left as it was.
resumeNoRearm(th, c) ==
    /\ cpu[th] = Off
    /\ LET s == set[c]
       IN  set' = [set EXCEPT ![c] =
             [s EXCEPT !.buckets = [i \in Buckets |-> @[i] \cup
                                     {x \in ArmedOf(th) : get_index(s, time[x]) = i}],
                       !.next = Least({@} \cup {time[x] : x \in ArmedOf(th)})]]
    /\ cpu' = [cpu EXCEPT ![th] = c]
    /\ UNCHANGED <<now, state, time, last>>

\* resume(), on the CPU that gets it
resume(th, c) ==
    /\ cpu[th] = Off
    /\ LET s == set[c]
           r == [s EXCEPT !.buckets = [i \in Buckets |-> @[i] \cup
                                        {x \in ArmedOf(th) : get_index(s, time[x]) = i}],
                          !.next = Least({@} \cup {time[x] : x \in ArmedOf(th)})]
       IN  /\ set' = [set EXCEPT ![c] = r]
           /\ IF \E x \in ArmedOf(th) : is_next(s, time[x])
              THEN rearm(c, r) ELSE UNCHANGED last
    /\ cpu' = [cpu EXCEPT ![th] = c]
    /\ UNCHANGED <<now, state, time>>

Next ==
    \/ Tick
    \/ \E x \in TimerIds, at \in Timeouts : Set(x, at) \/ reset(x, at)
    \/ \E x \in TimerIds : cancel(x)
    \/ \E c \in Cpus : fired(c)
    \/ \E th \in Threads : suspend(th) \/ \E c \in Cpus : resume(th, c)

Spec == Init /\ [][Next]_vars

-----------------------------------------------------------------------------
\* remove(): an armed timer is in the bucket that its timeout and the _last of
\* its CPU's set name now, however often _last has moved since it was inserted,
\* and in no other bucket of any CPU.
BucketsFound ==
    \A x \in TimerIds : \A c \in Cpus, i \in Buckets :
      x \in set[c].buckets[i] <=> /\ state[x] = "armed" /\ cpu[Client[x]] = c
                                  /\ get_index(set[c], time[x]) = i

\* rearm(): an armed timer that is in a set has a clock event that comes in time,
\* or is due, so that no timeout is missed.
EventInTime ==
    \A x \in TimerIds : state[x] = "armed" /\ Running(x) =>
      last[cpu[Client[x]]] <= Max2(time[x], now)
=============================================================================
