------------------------------ MODULE SchedPin ------------------------------
(***************************************************************************)
(* The pin() of core/sched.cc by which the current thread moves itself to  *)
(* another CPU.  It starts an ad-hoc thread, wakeme, on the CPU it leaves; *)
(* with interrupts disabled it then changes its CPU, marks itself waiting, *)
(* tells wakeme to wake it up and reschedules.                             *)
(***************************************************************************)
EXTENDS Sched

VARIABLES
    target,  \* local of pin() until the thread has moved itself, else NoCpu
    job      \* the thread that a wakeme thread is to wake, else the thread itself

pinvars == <<target, job>>

PinInit ==
    /\ Init
    /\ target = [t \in Threads |-> NoCpu]
    /\ job = [t \in Threads |-> t]

\* t calls pin(d), and there starts wakeme thread h.
PinBegin(c, t, h, d) ==
    /\ At(c, t, "work")
    /\ target[t] = NoCpu /\ job[t] = t
    /\ st[h] = "unstarted"
    /\ d # cpu[t]
    /\ target' = [target EXCEPT ![t] = d]
    /\ job' = [job EXCEPT ![h] = t]
    /\ cpu' = [cpu EXCEPT ![h] = cpu[t]]
    /\ st' = [st EXCEPT ![h] = "waiting"]
    /\ who' = [who EXCEPT ![t] = h]
    /\ Goto(t, "wk_cas")
    /\ UNCHANGED <<flag, dest, qvars, cvars, ivars>>

\* t leaves its CPU.  The note in need[c] stands for the reschedule that follows
\* the wake-up of wakeme.
PinMove(c, t) ==
    LET h == CHOOSE w \in Threads \ {t} : job[w] = t
    IN  /\ At(c, t, "work")
        /\ target[t] # NoCpu
        /\ cpu' = [cpu EXCEPT ![t] = target[t]]
        /\ st' = [st EXCEPT ![t] = "waiting"]
        /\ flag' = [flag EXCEPT ![h] = TRUE]
        /\ who' = [who EXCEPT ![t] = h]
        /\ target' = [target EXCEPT ![t] = NoCpu]
        /\ need' = [need EXCEPT ![c] = TRUE]
        /\ Goto(t, "wk_cas")
        /\ UNCHANGED <<job, dest, qvars, cvars, ipi, idle_poll>>

\* wakeme waits to be told, and wakes its thread up.
WakemeWait(c, h) ==
    /\ job[h] # h
    /\ target[job[h]] # NoCpu \/ flag[h]
    /\ PrepareWait(c, h)
    /\ UNCHANGED pinvars

WakemeWake(c, h) ==
    /\ At(c, h, "work")
    /\ job[h] # h
    /\ target[job[h]] = NoCpu /\ ~ flag[h]
    /\ who' = [who EXCEPT ![h] = job[h]]
    /\ job' = [job EXCEPT ![h] = h]
    /\ Goto(h, "wk_cas")
    /\ UNCHANGED <<st, cpu, flag, dest, target, qvars, cvars, ivars>>

PinNext ==
    \E c \in Cpus :
        \/ /\ \/ CpuStep(c) \/ WakeupInterrupt(c) \/ TimerInterrupt(c)
              \/ \E t \in Threads :
                     \/ ThreadStep(c, t)
                     \/ target[t] = NoCpu /\ job[t] = t /\ ThreadCall(c, t)
           /\ UNCHANGED pinvars
        \/ \E t \in Threads :
              \/ PinMove(c, t) \/ WakemeWait(c, t) \/ WakemeWake(c, t)
              \/ \E h \in Threads, d \in Cpus : PinBegin(c, t, h, d)

PinSpec == PinInit /\ [][PinNext]_<<vars, pinvars>>

\* What pin() says of itself: the thread must not be woken on the target CPU
\* while it is still running on the CPU it leaves.
NotWokenWhileRunning ==
    \A t \in Threads, c \in Cpus :
        current[c] = t /\ cpu[t] # c => t \notin runqueue[cpu[t]] /\ current[cpu[t]] # t

=============================================================================
