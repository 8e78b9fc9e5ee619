----------------------------- MODULE MCThreads ------------------------------
(***************************************************************************)
(* What threads wait for, checked in one run: a behaviour is one of        *)
(* ThreadLife, whose variables are those of the module, or of one of the   *)
(* other modules below, as the value of which says, and leaves the         *)
(* variables of the others as they were.                                   *)
(*                                                                         *)
(* Sched: two CPUs, a thread that boots on the first and starts another on *)
(* the second.                                                             *)
(* Rcu: two CPUs, a thread that disposes of an object and calls            *)
(* rcu_flush(), buffers of one callback.  Crowd is Rcu with one CPU, on    *)
(* which two threads compete for the room of such a buffer: each can be    *)
(* overtaken by calls of the other after it was woken.                     *)
(* ThreadLife: two CPUs, a thread that starts another.                     *)
(* Barrier: three rounds of a barrier of two, with three threads, or with  *)
(* two of which one can be late with the wake-ups of an unlock().          *)
(***************************************************************************)
EXTENDS ThreadLife, TLC

CONSTANTS c1, c2, t1, t2, t3, o1, o2, IdleThread, NoCpu, NoObject

MCPinned == t1 :> NoCpu @@ t2 :> c2
MCOwner == t1 :> Main @@ t2 :> t1
MCSetups == {[threads |-> {t1, t2, t3}, prompt |-> TRUE],
             [threads |-> {t1, t2}, prompt |-> FALSE]}

VARIABLES
    which,      \* the component of this behaviour
    sched_st, sched_cpu, sched_flag, sched_pc, sched_who, sched_dest, sched_current,
    sched_runqueue, sched_incoming, sched_mask, sched_draining, sched_cpc, sched_after,
    sched_ipi, sched_need, sched_idle_poll,
    rcu_reader, rcu_done, rcu_deferred, rcu_buf, rcu_callbacks, rcu_waiting_defers,
    rcu_next_generation, rcu_generation, rcu_request, rcu_requested, rcu_qst, rcu_asleep,
    rcu_thread,
    bar_setup, bar_state, bar_calls, bar_entered, bar_left, bar_holder, bar_queue, bar_count,
    bar_fifo, bar_wr, bar_mr, bar_st, bar_lock_sent, bar_pc, bar_place, bar_waking

sched_vars == <<
    sched_st, sched_cpu, sched_flag, sched_pc, sched_who, sched_dest, sched_current,
    sched_runqueue, sched_incoming, sched_mask, sched_draining, sched_cpc, sched_after,
    sched_ipi, sched_need, sched_idle_poll>>
rcu_vars == <<
    rcu_reader, rcu_done, rcu_deferred, rcu_buf, rcu_callbacks, rcu_waiting_defers,
    rcu_next_generation, rcu_generation, rcu_request, rcu_requested, rcu_qst, rcu_asleep,
    rcu_thread>>
bar_vars == <<
    bar_setup, bar_state, bar_calls, bar_entered, bar_left, bar_holder, bar_queue, bar_count,
    bar_fifo, bar_wr, bar_mr, bar_st, bar_lock_sent, bar_pc, bar_place, bar_waking>>
all_vars == <<which, sched_vars, rcu_vars, vars, bar_vars>>

Sched == INSTANCE Sched WITH
    Cpus <- Cpus, Threads <- {t1, t2}, Boot <- t1, BootCpu <- c1, Pinned <- MCPinned,
    NoCpu <- NoCpu, Idle <- IdleThread, st <- sched_st, cpu <- sched_cpu, flag <- sched_flag,
    pc <- sched_pc, who <- sched_who, dest <- sched_dest, current <- sched_current,
    runqueue <- sched_runqueue, incoming <- sched_incoming, mask <- sched_mask,
    draining <- sched_draining, cpc <- sched_cpc, after <- sched_after, ipi <- sched_ipi,
    need <- sched_need, idle_poll <- sched_idle_poll

Rcu == INSTANCE Rcu WITH
    Cpus <- Cpus, Threads <- {t1, t2}, Objects <- {o1}, QueueSize <- 1, Null <- NoObject,
    reader <- rcu_reader, done <- rcu_done, deferred <- rcu_deferred, buf <- rcu_buf,
    callbacks <- rcu_callbacks, waiting_defers <- rcu_waiting_defers,
    next_generation <- rcu_next_generation, generation <- rcu_generation,
    request <- rcu_request, requested <- rcu_requested, qst <- rcu_qst, asleep <- rcu_asleep,
    thread <- rcu_thread

Crowd == INSTANCE Rcu WITH
    Cpus <- {c1}, Threads <- {t1, t2}, Objects <- {o1, o2}, QueueSize <- 1, Null <- NoObject,
    reader <- rcu_reader, done <- rcu_done, deferred <- rcu_deferred, buf <- rcu_buf,
    callbacks <- rcu_callbacks, waiting_defers <- rcu_waiting_defers,
    next_generation <- rcu_next_generation, generation <- rcu_generation,
    request <- rcu_request, requested <- rcu_requested, qst <- rcu_qst, asleep <- rcu_asleep,
    thread <- rcu_thread

Bar == INSTANCE Barrier WITH
    Threads <- {t1, t2, t3}, Count <- 2, MaxCalls <- 6, Setups <- MCSetups, setup <- bar_setup,
    state <- bar_state, calls <- bar_calls, entered <- bar_entered, left <- bar_left,
    holder <- bar_holder, queue <- bar_queue, count <- bar_count, fifo <- bar_fifo,
    wr <- bar_wr, mr <- bar_mr, st <- bar_st, lock_sent <- bar_lock_sent, pc <- bar_pc,
    place <- bar_place, waking <- bar_waking

ThreadsInit ==
    /\ which \in {"sched", "rcu", "crowd", "life", "barrier"}
    /\ Sched!Init /\ Init /\ Bar!Init
    /\ IF which = "crowd" THEN Crowd!Init ELSE Rcu!Init
    /\ which # "life" => \A t \in Threads : ~detached[t]
    /\ which # "barrier" => bar_setup.prompt

OnlySched == which = "sched" /\ UNCHANGED <<which, rcu_vars, vars, bar_vars>>
OnlyRcu == which = "rcu" /\ UNCHANGED <<which, sched_vars, vars, bar_vars>>
OnlyCrowd == which = "crowd" /\ UNCHANGED <<which, sched_vars, vars, bar_vars>>
OnlyLife == which = "life" /\ UNCHANGED <<which, sched_vars, rcu_vars, bar_vars>>
OnlyBar == which = "barrier" /\ UNCHANGED <<which, sched_vars, rcu_vars, vars>>

ThreadsNext ==
    \/ OnlySched /\ Sched!Next
    \/ OnlyRcu /\ Rcu!Next /\ rcu_thread'[t2] = rcu_thread[t2]
    \/ OnlyCrowd /\ Crowd!Next
    \/ OnlyLife /\ Next
    \/ OnlyBar /\ Bar!Next

\* The fairness of the modules.  Since which does not change, a disjunction
\* of actions of different modules is fair when the one that is meant is.
\* With one thread on each CPU the strong fairness of Sched, which is about whose
\* turn it is among queued threads, asks for nothing more and is left out.
CpuRuns(c) == Sched!CpuStep(c) \/ \E t \in {t1, t2} : Sched!ThreadStep(c, t)

ThreadsSpec ==
    /\ ThreadsInit /\ [][ThreadsNext]_all_vars
    /\ SF_all_vars((OnlyRcu /\ Rcu!do_work(c1)) \/ (OnlyCrowd /\ Crowd!do_work(c1)))
    /\ SF_all_vars((OnlyRcu /\ Rcu!do_work(c2)) \/ (OnlyCrowd /\ Crowd!Proceed(t2)))
    /\ SF_all_vars((OnlyRcu /\ Rcu!Proceed(t1)) \/ (OnlyCrowd /\ Crowd!Proceed(t1)))
    /\ WF_all_vars(\/ OnlyRcu /\ Rcu!rcu_read_unlock(c1)
                   \/ OnlyCrowd /\ Crowd!rcu_read_unlock(c1)
                   \/ OnlyLife /\ Destroying(c1)
                   \/ OnlyBar /\ Bar!Proceed(t1)
                   \/ OnlySched /\ CpuRuns(c1))
    /\ WF_all_vars(\/ OnlyRcu /\ Rcu!rcu_read_unlock(c2)
                   \/ OnlyLife /\ Destroying(c2)
                   \/ OnlyBar /\ Bar!Proceed(t2)
                   \/ OnlySched /\ CpuRuns(c2))
    /\ WF_all_vars((OnlyLife /\ Reaping) \/ (OnlyBar /\ Bar!Proceed(t3)))
    /\ WF_all_vars((OnlyLife /\ Ending(t1)) \/ (OnlySched /\ Sched!WakeupInterrupt(c1)))
    /\ WF_all_vars((OnlyLife /\ Ending(t2)) \/ (OnlySched /\ Sched!WakeupInterrupt(c2)))
    /\ \A t \in {t1, t2} : WF_all_vars(OnlyLife /\ Returning(t))

\* Sched: a thread whose condition wake_with() made true returns from wait_until().
WakeupsDelivered == Sched!WakeupsDelivered

\* Rcu, Crowd: rcu_synchronize(), rcu_flush() and a rcu_defer() that waits for room
\* return, when the other thread's calls of rcu_defer() come to an end.
WaitsEnd == Rcu!WaitsEnd

\* Barrier: nobody passes before all of its round have come.
BarrierHolds == Bar!BarrierHolds

\* Barrier: all of a complete round pass, and early comers get into the next.
BarrierPasses == Bar!BarrierPasses
=============================================================================
