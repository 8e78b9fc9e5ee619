------------------------------- MODULE Sched -------------------------------
(***************************************************************************)
(* The per-CPU scheduler of core/sched.cc: thread::start(), wait_until()   *)
(* and wake(), the queues of incoming wake-ups that CPUs fill for each     *)
(* other without locks, the idle loop that polls them before it halts the  *)
(* CPU, and the context switch.                                            *)
(*                                                                         *)
(* One action is one access to state that another CPU can see.  What a CPU *)
(* does with interrupts disabled is still a sequence of such steps, since  *)
(* only its own interrupts are held off.  The run queue is a set: which of *)
(* its threads has the lowest virtual runtime is left open.  The idle      *)
(* thread of a CPU, which has the lowest priority and is always runnable,  *)
(* is the value Idle of current[c] and is not kept in runqueue[c].         *)
(***************************************************************************)
EXTENDS Integers, Sequences, FiniteSets

CONSTANTS
    Cpus,
    Threads,
    Boot, BootCpu,  \* the thread that runs first, and where
    Pinned,         \* attr._pinned_cpu of each thread, or NoCpu
    NoCpu,
    Idle            \* the idle thread of any CPU

ASSUME SchedAssumption ==
    /\ IsFiniteSet(Cpus) /\ IsFiniteSet(Threads)
    /\ Boot \in Threads /\ BootCpu \in Cpus
    /\ NoCpu \notin Cpus
    /\ Pinned \in [Threads -> Cpus \cup {NoCpu}]
    /\ Idle \notin Threads

VARIABLES
    st,         \* status of each thread (detached_state::st)
    cpu,        \* the CPU each thread belongs to (detached_state::_cpu)
    flag,       \* the condition that the thread's wait_until() tests
    pc,         \* where each thread is in its own code
    who, dest,  \* locals of wake_impl(): the thread it wakes, its CPU
    current,    \* the thread that runs on each CPU
    runqueue,   \* the threads queued on each CPU
    incoming,   \* incoming[c][s]: threads woken on c by code running on s
    mask,       \* incoming_wakeups_mask of each CPU
    draining,   \* local of handle_incoming_wakeups(): queues still to look at
    cpc, after, \* where the CPU is in scheduler code, where it goes next
    ipi,        \* a wakeup_ipi is pending
    need,       \* need_reschedule of the thread current on each CPU
    idle_poll

tvars == <<st, cpu, flag, pc, who, dest>>
qvars == <<incoming, mask>>
cvars == <<current, runqueue, draining, cpc, after>>
ivars == <<ipi, need, idle_poll>>
vars  == <<tvars, qvars, cvars, ivars>>

\* Elsewhere the thread has preemption disabled.
Preemptable == {"work", "wt_loop", "wt_spin", "wt_qspin"}

Init ==
    /\ st = [t \in Threads |-> IF t = Boot THEN "running" ELSE "unstarted"]
    /\ cpu = [t \in Threads |-> BootCpu]
    /\ flag = [t \in Threads |-> FALSE]
    /\ pc = [t \in Threads |-> "work"]
    /\ who = [t \in Threads |-> t]
    /\ dest = [t \in Threads |-> BootCpu]
    /\ current = [c \in Cpus |-> IF c = BootCpu THEN Boot ELSE Idle]
    /\ runqueue = [c \in Cpus |-> {}]
    /\ incoming = [c \in Cpus |-> [s \in Cpus |-> <<>>]]
    /\ mask = [c \in Cpus |-> {}]
    /\ draining = [c \in Cpus |-> {}]
    /\ cpc = [c \in Cpus |-> IF c = BootCpu THEN "run" ELSE "id_start"]
    /\ after = [c \in Cpus |-> "pick"]
    /\ ipi = [c \in Cpus |-> FALSE]
    /\ need = [c \in Cpus |-> FALSE]
    /\ idle_poll = [c \in Cpus |-> FALSE]

\* Thread t executes its own code, at l, on CPU c.
At(c, t, l) == current[c] = t /\ cpc[c] = "run" /\ pc[t] = l
Goto(t, l) == pc' = [pc EXCEPT ![t] = l]

\* CPU c enters handle_incoming_wakeups(), to continue at next.
Poll(c, next) ==
    /\ cpc' = [cpc EXCEPT ![c] = "clear"]
    /\ after' = [after EXCEPT ![c] = next]

\* reschedule_from_interrupt() begins.
Reschedule(c) ==
    /\ need' = [need EXCEPT ![c] = FALSE]
    /\ Poll(c, "pick")

\* The last preempt_enable() of a section: reschedule now if that was asked for
\* in the meantime, or is by this step.
PreemptEnable(c, asked) ==
    IF need[c] \/ asked
    THEN Reschedule(c) /\ UNCHANGED <<current, runqueue, draining>>
    ELSE UNCHANGED <<cvars, need>>

(***************************************************************************)
(* wait_until(): prepare_wait(), the predicate, wait(), stop_wait(), and   *)
(* again unless the predicate was true.                                    *)
(***************************************************************************)
PrepareWait(c, t) ==
    /\ At(c, t, "work") \/ At(c, t, "wt_loop")
    /\ st' = [st EXCEPT ![t] = "waiting"]
    /\ Goto(t, "wt_pred")
    /\ UNCHANGED <<cpu, flag, who, dest, qvars, cvars, ivars>>

PredicateTrue(c, t) ==
    /\ At(c, t, "wt_pred")
    /\ flag[t]
    /\ Goto(t, "wt_quit")
    /\ UNCHANGED <<st, cpu, flag, who, dest, qvars, cvars, ivars>>

\* The predicate is false: wait() calls schedule().
Wait(c, t) ==
    /\ At(c, t, "wt_pred")
    /\ ~ flag[t]
    /\ Goto(t, "wt_stop")
    /\ Reschedule(c)
    /\ UNCHANGED <<st, cpu, flag, who, dest, qvars, current, runqueue, draining,
                   ipi, idle_poll>>

\* wait_until() returns if the predicate was true, and its caller uses up the
\* condition; otherwise it goes round its loop.
Resume(t) ==
    LET returns == pc[t] \in {"wt_quit", "wt_qspin"}
    IN  /\ Goto(t, IF returns THEN "work" ELSE "wt_loop")
        /\ flag' = [flag EXCEPT ![t] = @ /\ ~ returns]

\* A bug: a store instead of the compare-and-exchange.
StopWaitStore(c, t) ==
    /\ At(c, t, "wt_stop") \/ At(c, t, "wt_quit")
    /\ st' = [st EXCEPT ![t] = "running"]
    /\ Resume(t)
    /\ PreemptEnable(c, FALSE)
    /\ UNCHANGED <<cpu, who, dest, qvars, ipi, idle_poll>>

\* stop_wait(): the thread was not woken yet, or was and has run since.
StopWait(c, t) ==
    /\ At(c, t, "wt_stop") \/ At(c, t, "wt_quit")
    /\ st[t] # "waking"
    /\ st' = [st EXCEPT ![t] = IF @ = "waiting" THEN "running" ELSE @]
    /\ Resume(t)
    /\ PreemptEnable(c, FALSE)
    /\ UNCHANGED <<cpu, who, dest, qvars, ipi, idle_poll>>

\* It is being woken: it must be taken out of the incoming queue first.
StopWaitWaking(c, t) ==
    /\ At(c, t, "wt_stop") \/ At(c, t, "wt_quit")
    /\ st[t] = "waking"
    /\ Goto(t, IF pc[t] = "wt_quit" THEN "wt_qspin" ELSE "wt_spin")
    /\ PreemptEnable(c, FALSE)
    /\ UNCHANGED <<st, cpu, flag, who, dest, qvars, ipi, idle_poll>>

SpinSchedule(c, t) ==
    /\ At(c, t, "wt_spin") \/ At(c, t, "wt_qspin")
    /\ st[t] = "waking"
    /\ Reschedule(c)
    /\ UNCHANGED <<tvars, qvars, current, runqueue, draining, ipi, idle_poll>>

SpinEnd(c, t) ==
    /\ At(c, t, "wt_spin") \/ At(c, t, "wt_qspin")
    /\ st[t] # "waking"
    /\ Resume(t)
    /\ UNCHANGED <<st, cpu, who, dest, qvars, cvars, ivars>>

(***************************************************************************)
(* start() and wake_with(): the caller sets u's status, or the condition u *)
(* waits for, and calls wake_impl().                                       *)
(***************************************************************************)
Start(c, t, u) ==
    /\ At(c, t, "work")
    /\ st[u] = "unstarted"
    /\ cpu' = [cpu EXCEPT ![u] = IF Pinned[u] # NoCpu THEN Pinned[u] ELSE cpu[t]]
    /\ st' = [st EXCEPT ![u] = "waiting"]
    /\ who' = [who EXCEPT ![t] = u]
    /\ Goto(t, "wk_cas")
    /\ UNCHANGED <<flag, dest, qvars, cvars, ivars>>

WakeWith(c, t, u) ==
    /\ At(c, t, "work")
    /\ u # t /\ st[u] # "unstarted"
    /\ flag' = [flag EXCEPT ![u] = TRUE]
    /\ who' = [who EXCEPT ![t] = u]
    /\ Goto(t, "wk_cas")
    /\ UNCHANGED <<st, cpu, dest, qvars, cvars, ivars>>

\* wake_impl() returns, and with it the sections that disabled preemption.
WakeReturn(c, t, asked) ==
    /\ Goto(t, "work")
    /\ who' = [who EXCEPT ![t] = t]
    /\ dest' = [dest EXCEPT ![t] = BootCpu]
    /\ PreemptEnable(c, asked)

\* wake() on any state except waiting is discarded.
WakeDiscarded(c, t) ==
    /\ At(c, t, "wk_cas")
    /\ st[who[t]] # "waiting"
    /\ WakeReturn(c, t, FALSE)
    /\ UNCHANGED <<st, cpu, flag, qvars, ipi, idle_poll>>

\* A bug: a running thread is accepted as well.
WakeCasRunning(c, t) ==
    /\ At(c, t, "wk_cas")
    /\ st[who[t]] \in {"waiting", "running"}
    /\ st' = [st EXCEPT ![who[t]] = "waking"]
    /\ Goto(t, "wk_cpu")
    /\ UNCHANGED <<cpu, flag, who, dest, qvars, cvars, ivars>>

WakeCas(c, t) ==
    /\ At(c, t, "wk_cas")
    /\ st[who[t]] = "waiting"
    /\ st' = [st EXCEPT ![who[t]] = "waking"]
    /\ Goto(t, "wk_cpu")
    /\ UNCHANGED <<cpu, flag, who, dest, qvars, cvars, ivars>>

WakeLoadCpu(c, t) ==
    /\ At(c, t, "wk_cpu")
    /\ dest' = [dest EXCEPT ![t] = cpu[who[t]]]
    /\ Goto(t, "wk_push")
    /\ UNCHANGED <<st, cpu, flag, who, qvars, cvars, ivars>>

\* cpu::current() is the CPU the thread believes to be on.
WakePush(c, t) ==
    /\ At(c, t, "wk_push")
    /\ incoming' = [incoming EXCEPT ![dest[t]][cpu[t]] = Append(@, who[t])]
    /\ Goto(t, "wk_mask")
    /\ UNCHANGED <<st, cpu, flag, who, dest, mask, cvars, ivars>>

\* Whoever finds the mask empty tells the target CPU about it: another CPU by
\* an interrupt, its own by need_reschedule.
WakeMaskFirst(c, t) ==
    /\ At(c, t, "wk_mask")
    /\ mask[dest[t]] = {} /\ dest[t] # cpu[t]
    /\ mask' = [mask EXCEPT ![dest[t]] = {cpu[t]}]
    /\ Goto(t, "wk_ipi")
    /\ UNCHANGED <<st, cpu, flag, who, dest, incoming, cvars, ivars>>

WakeMask(c, t) ==
    /\ At(c, t, "wk_mask")
    /\ mask[dest[t]] # {} \/ dest[t] = cpu[t]
    /\ mask' = [mask EXCEPT ![dest[t]] = @ \cup {cpu[t]}]
    /\ WakeReturn(c, t, mask[dest[t]] = {})
    /\ UNCHANGED <<st, cpu, flag, incoming, ipi, idle_poll>>

\* runqueue.size() counts the idle thread while it is not running.
Size(c) == Cardinality(runqueue[c]) + (IF current[c] = Idle THEN 0 ELSE 1)

\* send_wakeup_ipi()
WakeIpi(c, t) ==
    /\ At(c, t, "wk_ipi")
    /\ ipi' = [ipi EXCEPT ![dest[t]] =
                  @ \/ (~ idle_poll[dest[t]] /\ Size(dest[t]) <= 1)]
    /\ WakeReturn(c, t, FALSE)
    /\ UNCHANGED <<st, cpu, flag, qvars, idle_poll>>

(***************************************************************************)
(* handle_incoming_wakeups()                                               *)
(***************************************************************************)
\* Continue with what handle_incoming_wakeups() was called for.
Handled(c, next) ==
    /\ cpc' = [cpc EXCEPT ![c] = next]
    /\ after' = [after EXCEPT ![c] = "pick"]

NothingIncoming(c) ==
    /\ cpc[c] = "clear"
    /\ mask[c] = {}
    /\ Handled(c, after[c])
    /\ UNCHANGED <<tvars, qvars, current, runqueue, draining, ivars>>

ClearMask(c) ==
    /\ cpc[c] = "clear"
    /\ mask[c] # {}
    /\ draining' = [draining EXCEPT ![c] = mask[c]]
    /\ mask' = [mask EXCEPT ![c] = {}]
    /\ cpc' = [cpc EXCEPT ![c] = "drain"]
    /\ UNCHANGED <<tvars, incoming, current, runqueue, after, ivars>>

\* A bug: the special case of the current thread is forgotten.
IncomingAlways(c, s) ==
    LET t == Head(incoming[c][s])
    IN  /\ cpc[c] = "drain"
        /\ s \in draining[c]
        /\ incoming[c][s] # <<>>
        /\ incoming' = [incoming EXCEPT ![c][s] = Tail(@)]
        /\ st' = [st EXCEPT ![t] = "queued"]
        /\ runqueue' = [runqueue EXCEPT ![c] = @ \cup {t}]
        /\ UNCHANGED <<cpu, flag, pc, who, dest, mask, current, draining, cpc,
                       after, ivars>>

\* Take one thread out of the queue that CPU s filled.  The current thread may
\* find itself there, woken before it was switched out.
Incoming(c, s) ==
    LET t == Head(incoming[c][s])
    IN  /\ cpc[c] = "drain"
        /\ s \in draining[c]
        /\ incoming[c][s] # <<>>
        /\ incoming' = [incoming EXCEPT ![c][s] = Tail(@)]
        /\ st' = [st EXCEPT ![t] = CASE t = current[c] -> "running"
                                     [] t # current[c] /\ cpu[t] # c -> @
                                     [] OTHER -> "queued"]
        /\ runqueue' = [runqueue EXCEPT ![c] =
                           IF t # current[c] /\ cpu[t] = c THEN @ \cup {t} ELSE @]
        /\ UNCHANGED <<cpu, flag, pc, who, dest, mask, current, draining, cpc,
                       after, ivars>>

QueueEmpty(c, s) ==
    /\ cpc[c] = "drain"
    /\ s \in draining[c]
    /\ incoming[c][s] = <<>>
    /\ draining' = [draining EXCEPT ![c] = @ \ {s}]
    /\ IF draining[c] = {s} THEN Handled(c, after[c]) ELSE UNCHANGED <<cpc, after>>
    /\ UNCHANGED <<tvars, qvars, current, runqueue, ivars>>

(***************************************************************************)
(* The rest of reschedule_from_interrupt().                                *)
(***************************************************************************)
\* The current thread is runnable and nobody else is, or nobody else has a
\* lower runtime.
KeepRunning(c) ==
    /\ cpc[c] = "pick"
    /\ current[c] # Idle /\ st[current[c]] = "running"
    /\ cpc' = [cpc EXCEPT ![c] = "run"]
    /\ UNCHANGED <<tvars, qvars, current, runqueue, draining, after, ivars>>

\* Switch to a queued thread.
SwitchTo(c, n) ==
    LET p == current[c]
        requeue == IF p # Idle /\ st[p] = "running" THEN {p} ELSE {}
    IN  /\ cpc[c] = "pick"
        /\ n \in runqueue[c]
        /\ runqueue' = [runqueue EXCEPT ![c] = (@ \ {n}) \cup requeue]
        /\ st' = [t \in Threads |-> IF t = n THEN "running"
                                    ELSE IF t \in requeue THEN "queued"
                                    ELSE st[t]]
        /\ current' = [current EXCEPT ![c] = n]
        /\ cpc' = [cpc EXCEPT ![c] = "run"]
        /\ UNCHANGED <<cpu, flag, pc, who, dest, qvars, draining, after, ivars>>

\* Only the idle thread is runnable.
SwitchToIdle(c) ==
    /\ cpc[c] = "pick"
    /\ runqueue[c] = {}
    /\ current[c] # Idle /\ st[current[c]] # "running"
    /\ current' = [current EXCEPT ![c] = Idle]
    /\ cpc' = [cpc EXCEPT ![c] = "id_start"]
    /\ UNCHANGED <<tvars, qvars, runqueue, draining, after, ivars>>

(***************************************************************************)
(* do_idle(), and the call of schedule() that follows it.                  *)
(***************************************************************************)
IdleStart(c) ==
    /\ cpc[c] = "id_start"
    /\ idle_poll' = [idle_poll EXCEPT ![c] = TRUE]
    /\ Poll(c, "id_polled")
    /\ UNCHANGED <<tvars, qvars, current, runqueue, draining, ipi, need>>

IdlePollAgain(c) ==
    /\ cpc[c] = "id_polled"
    /\ runqueue[c] = {}
    /\ Poll(c, "id_polled")
    /\ UNCHANGED <<tvars, qvars, current, runqueue, draining, ivars>>

\* Bugs: no last look at the queues; idle_poll is left set.
IdlePollEndNoLook(c) ==
    /\ cpc[c] = "id_polled"
    /\ runqueue[c] = {}
    /\ idle_poll' = [idle_poll EXCEPT ![c] = FALSE]
    /\ Handled(c, "id_checked")
    /\ UNCHANGED <<tvars, qvars, current, runqueue, draining, ipi, need>>

IdlePollEndKeep(c) ==
    /\ cpc[c] = "id_polled"
    /\ runqueue[c] = {}
    /\ Poll(c, "id_checked")
    /\ UNCHANGED <<tvars, qvars, current, runqueue, draining, ivars>>

\* Enough polling: interrupts are disabled for a last look.
IdlePollEnd(c) ==
    /\ cpc[c] = "id_polled"
    /\ runqueue[c] = {}
    /\ idle_poll' = [idle_poll EXCEPT ![c] = FALSE]
    /\ Poll(c, "id_checked")
    /\ UNCHANGED <<tvars, qvars, current, runqueue, draining, ipi, need>>

IdleHalt(c) ==
    /\ cpc[c] = "id_checked"
    /\ runqueue[c] = {}
    /\ cpc' = [cpc EXCEPT ![c] = "id_halt"]
    /\ UNCHANGED <<tvars, qvars, current, runqueue, draining, after, ivars>>

\* wait_for_interrupt() returns when an interrupt arrives.
IdleInterrupt(c) ==
    /\ cpc[c] = "id_halt"
    /\ ipi[c]
    /\ ipi' = [ipi EXCEPT ![c] = FALSE]
    /\ need' = [need EXCEPT ![c] = TRUE]
    /\ Poll(c, "id_awake")
    /\ UNCHANGED <<tvars, qvars, current, runqueue, draining, idle_poll>>

IdleAgain(c) ==
    /\ cpc[c] = "id_awake"
    /\ runqueue[c] = {}
    /\ cpc' = [cpc EXCEPT ![c] = "id_start"]
    /\ UNCHANGED <<tvars, qvars, current, runqueue, draining, after, ivars>>

IdleEnd(c) ==
    /\ cpc[c] \in {"id_polled", "id_checked", "id_awake"}
    /\ runqueue[c] # {}
    /\ idle_poll' = [idle_poll EXCEPT ![c] = FALSE]
    /\ Reschedule(c)
    /\ UNCHANGED <<tvars, qvars, current, runqueue, draining, ipi>>

(***************************************************************************)
(* Interrupts end in preempt(), which reschedules or leaves a note.        *)
(***************************************************************************)
Preempt(c) ==
    IF current[c] # Idle /\ pc[current[c]] \in Preemptable
    THEN Reschedule(c)
    ELSE need' = [need EXCEPT ![c] = TRUE] /\ UNCHANGED <<cpc, after>>

\* Scheduler code runs with interrupts disabled, but the idle loop disables
\* them only for its last look at the queues.
Interruptible(c) ==
    \/ cpc[c] \in {"run", "id_start", "id_polled", "id_awake"}
    \/ cpc[c] \in {"clear", "drain"} /\ after[c] \in {"id_polled", "id_awake"}

WakeupInterrupt(c) ==
    /\ ipi[c]
    /\ Interruptible(c)
    /\ ipi' = [ipi EXCEPT ![c] = FALSE]
    /\ Preempt(c)
    /\ UNCHANGED <<tvars, qvars, current, runqueue, draining, idle_poll>>

\* The preemption timer, which is armed while another thread is queued.
TimerInterrupt(c) ==
    /\ cpc[c] = "run"
    /\ runqueue[c] # {}
    /\ Preempt(c)
    /\ UNCHANGED <<tvars, qvars, current, runqueue, draining, ipi, idle_poll>>

Yield(c, t) ==
    /\ At(c, t, "work")
    /\ Reschedule(c)
    /\ UNCHANGED <<tvars, qvars, current, runqueue, draining, ipi, idle_poll>>

(***************************************************************************)
(* The specification.                                                      *)
(***************************************************************************)
\* A step inside the wait or wake code.
ThreadStep(c, t) ==
    \/ pc[t] = "wt_loop" /\ PrepareWait(c, t)
    \/ PredicateTrue(c, t) \/ Wait(c, t) \/ StopWait(c, t)
    \/ StopWaitWaking(c, t) \/ SpinSchedule(c, t) \/ SpinEnd(c, t)
    \/ WakeDiscarded(c, t) \/ WakeCas(c, t) \/ WakeLoadCpu(c, t)
    \/ WakePush(c, t) \/ WakeMaskFirst(c, t) \/ WakeMask(c, t) \/ WakeIpi(c, t)

\* A call that the thread is free to make.
ThreadCall(c, t) ==
    \/ pc[t] = "work" /\ PrepareWait(c, t)
    \/ Yield(c, t)
    \/ \E u \in Threads : Start(c, t, u) \/ WakeWith(c, t, u)

CpuStep(c) ==
    \/ NothingIncoming(c) \/ ClearMask(c)
    \/ \E s \in Cpus : Incoming(c, s) \/ QueueEmpty(c, s)
    \/ KeepRunning(c) \/ SwitchToIdle(c) \/ \E n \in Threads : SwitchTo(c, n)
    \/ IdleStart(c) \/ IdlePollAgain(c) \/ IdlePollEnd(c) \/ IdleHalt(c)
    \/ IdleInterrupt(c) \/ IdleAgain(c) \/ IdleEnd(c)

Next ==
    \E c \in Cpus :
        \/ CpuStep(c) \/ WakeupInterrupt(c) \/ TimerInterrupt(c)
        \/ \E t \in Threads : ThreadStep(c, t) \/ ThreadCall(c, t)

Spec == Init /\ [][Next]_vars

\* CPUs execute, interrupts are delivered, and among the queued threads the
\* lowest runtime, which only grows by running, wins in turn.
Fairness ==
    \A c \in Cpus :
        /\ WF_vars(CpuStep(c) \/ \E t \in Threads : ThreadStep(c, t))
        /\ WF_vars(WakeupInterrupt(c))
        /\ SF_vars(TimerInterrupt(c))
        /\ \A t \in Threads : SF_vars(SwitchTo(c, t))

FairSpec == Spec /\ Fairness

(***************************************************************************)
(* What the scheduler guarantees.                                          *)
(***************************************************************************)
\* Somewhere between the CAS to "waking" and the push into a queue of CPU d.
Pushing(t) ==
    \E w \in Threads :
        /\ who[w] = t
        /\ pc[w] = "wk_cpu" \/ (pc[w] = "wk_push" /\ dest[w] = cpu[t])

Queued(t) == \E s \in Cpus : \E i \in DOMAIN incoming[cpu[t]][s] :
                 incoming[cpu[t]][s][i] = t

\* A thread is on one CPU at a time: it never runs on two, and it is in no run
\* queue while it runs.
OneCpu ==
    \A t \in Threads, c, d \in Cpus :
        (current[c] = t \/ t \in runqueue[c]) /\ (current[d] = t \/ t \in runqueue[d])
            => c = d /\ ~ (current[c] = t /\ t \in runqueue[c])

\* The status of a thread says where the thread is, and a thread that is being
\* woken is on its way to the queues of its CPU exactly once.
StatusAgrees ==
    \A t \in Threads :
        /\ st[t] = "running" => current[cpu[t]] = t
        /\ st[t] = "queued" <=> \E c \in Cpus : t \in runqueue[c]
        /\ st[t] = "waking" <=> Pushing(t) \/ Queued(t)
        /\ ~ (Pushing(t) /\ Queued(t))

\* The asserts of prepare_wait(), stop_wait() and reschedule_from_interrupt().
AssertionsHold ==
    /\ \A t \in Threads, c \in Cpus :
        /\ At(c, t, "work") \/ At(c, t, "wt_loop") => st[t] = "running"
        /\ (At(c, t, "wt_spin") \/ At(c, t, "wt_qspin")) /\ st[t] # "waking"
               => st[t] = "running"
        /\ t \in runqueue[c] => st[t] = "queued"
        /\ cpc[c] = "pick" /\ current[c] = t => st[t] # "queued"

\* A CPU does not halt on a wake-up: when it has halted and a queue holds a
\* thread, an interrupt is pending or the CPU that filled it will send one.
HaltNoticed ==
    \A c, s \in Cpus :
        cpc[c] = "id_halt" /\ incoming[c][s] # <<>> =>
            \/ ipi[c]
            \/ \E t \in Threads :
                   pc[t] \in {"wk_mask", "wk_ipi"} /\ dest[t] = c

\* No wake-up is lost: a thread that is in wait_until() when wake_with() makes
\* its condition true, which only the return from it resets, does return.
WakeupsDelivered ==
    \A t \in Threads :
        []<>~(flag[t] /\ pc[t] \in {"wt_loop", "wt_pred", "wt_stop", "wt_spin", "wt_quit", "wt_qspin"})

=============================================================================
