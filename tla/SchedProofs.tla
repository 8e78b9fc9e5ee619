---------------------------- MODULE SchedProofs ----------------------------
(***************************************************************************)
(* The safety invariants of Sched, for any finite sets of CPUs and threads *)
(* and any pinning.  Place says where a thread is: with a CPU that runs    *)
(* it, in one run queue, or on its way to one, with a waker or in an       *)
(* incoming queue.  Look says what a CPU relies on when it takes its last  *)
(* look at the queues of incoming wake-ups before it halts.                *)
(***************************************************************************)
EXTENDS Sched, FiniteSetTheorems, TLAPS

\* A step is left to Zenon, unless it names SMT or the temporal prover.
USE ZenonT(40)

Waiting == {"wt_loop", "wt_pred", "wt_quit", "wt_stop", "wt_spin", "wt_qspin"}
Waking == {"wk_cas", "wk_cpu", "wk_push", "wk_mask", "wk_ipi"}
IdleAt == {"id_start", "id_polled", "id_checked", "id_halt", "id_awake"}

\* flag and need only occur in guards.
TypeInv ==
    /\ st \in [Threads -> {"unstarted", "waiting", "waking", "queued", "running"}]
    /\ cpu \in [Threads -> Cpus]
    /\ pc \in [Threads -> {"work"} \cup Waiting \cup Waking]
    /\ who \in [Threads -> Threads]
    /\ dest \in [Threads -> Cpus]
    /\ current \in [Cpus -> Threads \cup {Idle}]
    /\ runqueue \in [Cpus -> SUBSET Threads]
    /\ incoming \in [Cpus -> [Cpus -> Seq(Threads)]]
    /\ mask \in [Cpus -> SUBSET Cpus]
    /\ draining \in [Cpus -> SUBSET Cpus]
    /\ cpc \in [Cpus -> {"run", "clear", "drain", "pick"} \cup IdleAt]
    /\ after \in [Cpus -> {"pick", "id_polled", "id_checked", "id_awake"}]
    /\ ipi \in [Cpus -> BOOLEAN]
    /\ idle_poll \in [Cpus -> BOOLEAN]

Holds(q, t) == \E i \in 1..Len(q) : q[i] = t
Once(q) == \A i, j \in 1..Len(q) : q[i] = q[j] => i = j

\* Thread w has to push t.
Pushes(w, t) == who[w] = t /\ pc[w] \in {"wk_cpu", "wk_push"}

\* A thread that a CPU runs belongs to it, and has not yet gone to sleep.
CurrentInv ==
    \A c \in Cpus, t \in Threads : current[c] = t =>
        /\ cpu[t] = c
        /\ st[t] \in {"running", "waiting", "waking"}
        /\ pc[t] \in {"work", "wt_loop"} \cup Waking => st[t] = "running"
        /\ pc[t] \in {"wt_spin", "wt_qspin"} => st[t] # "waiting"

RunningInv == \A t \in Threads : st[t] = "running" => current[cpu[t]] = t

RunqueueInv ==
    \A t \in Threads, c \in Cpus : t \in runqueue[c] <=> st[t] = "queued" /\ cpu[t] = c

UnstartedInv == \A t \in Threads : st[t] = "unstarted" => pc[t] = "work"

WakingInv ==
    \A t \in Threads : st[t] = "waking" =>
        (\E w \in Threads : Pushes(w, t)) \/ (\E s \in Cpus : Holds(incoming[cpu[t]][s], t))

\* A thread has one waker, which pushes it to its CPU once.
PushInv ==
    \A w, t \in Threads : Pushes(w, t) =>
        /\ st[t] = "waking"
        /\ pc[w] = "wk_push" => dest[w] = cpu[t]
        /\ \A v \in Threads : Pushes(v, t) => v = w
        /\ \A c, s \in Cpus : ~Holds(incoming[c][s], t)

IncomingInv ==
    \A c, s \in Cpus :
        /\ Once(incoming[c][s])
        /\ \A t \in Threads : Holds(incoming[c][s], t) =>
               /\ st[t] = "waking" /\ cpu[t] = c
               /\ \A r \in Cpus : Holds(incoming[c][r], t) => r = s

Place ==
    /\ TypeInv /\ CurrentInv /\ RunningInv /\ RunqueueInv /\ UnstartedInv
    /\ WakingInv /\ PushInv /\ IncomingInv

-----------------------------------------------------------------------------
\* CPU c runs its idle thread.
Idles(c) == cpc[c] \in IdleAt \/ (cpc[c] \in {"clear", "drain"} /\ after[c] \in IdleAt)

\* Interrupts are off and CPU c takes its last look at the queues, or is done with it.
LastLook(c) ==
    \/ cpc[c] \in {"id_checked", "id_halt"}
    \/ cpc[c] \in {"clear", "drain"} /\ after[c] = "id_checked"

IdleInv(c) ==
    /\ Idles(c) => current[c] = Idle
    /\ LastLook(c) => ~idle_poll[c]
    /\ cpc[c] = "id_halt" => runqueue[c] = {}
    /\ draining[c] # {} => cpc[c] = "drain"

\* A queue that is not empty is in the mask, or on its way into it or out of it.
NotedInv(c) ==
    \A s \in Cpus : incoming[c][s] # <<>> =>
        \/ s \in mask[c] \cup draining[c]
        \/ \E t \in Threads : pc[t] = "wk_mask" /\ dest[t] = c /\ cpu[t] = s

\* What enters the mask after the last look comes with an interrupt.
ToldInv(c) ==
    LastLook(c) /\ cpc[c] # "clear" /\ runqueue[c] = {} /\ mask[c] # {} =>
        ipi[c] \/ \E t \in Threads : pc[t] = "wk_ipi" /\ dest[t] = c

Look(c) == IdleInv(c) /\ NotedInv(c) /\ ToldInv(c)

SchedInv == Place /\ \A c \in Cpus : Look(c)

-----------------------------------------------------------------------------
\* What append to a queue changes.
LEMMA HoldsAppend ==
    ASSUME NEW q \in Seq(Threads), NEW u \in Threads
    PROVE  /\ \A t \in Threads : Holds(Append(q, u), t) <=> Holds(q, t) \/ t = u
           /\ Once(q) /\ ~Holds(q, u) => Once(Append(q, u))
<1>1. /\ Append(q, u) \in Seq(Threads) /\ Len(q) \in Nat /\ Len(Append(q, u)) = Len(q) + 1
      /\ \A i \in 1..Len(q) : Append(q, u)[i] = q[i]
      /\ Append(q, u)[Len(q) + 1] = u
  BY SMT
<1>2. 1..Len(q) + 1 = 1..Len(q) \cup {Len(q) + 1}
  BY <1>1, SMT
<1> QED BY <1>1, <1>2, SMT DEF Holds, Once

\* What taking the head off a queue without duplicates changes.
LEMMA HoldsTail ==
    ASSUME NEW q \in Seq(Threads), q # <<>>, Once(q)
    PROVE  /\ Head(q) \in Threads /\ Holds(q, Head(q))
           /\ \A t \in Threads : Holds(Tail(q), t) <=> Holds(q, t) /\ t # Head(q)
           /\ Once(Tail(q))
<1>1. /\ Len(q) \in Nat \ {0} /\ Head(q) = q[1] /\ Head(q) \in Threads
      /\ Len(Tail(q)) = Len(q) - 1
      /\ \A i \in 1..Len(q) - 1 : Tail(q)[i] = q[i + 1]
  BY SMT
<1>2. Holds(q, Head(q))
  BY <1>1, SMT DEF Holds
<1>3. Once(Tail(q))
  <2> SUFFICES ASSUME NEW i \in 1..Len(q) - 1, NEW j \in 1..Len(q) - 1, q[i + 1] = q[j + 1]
               PROVE  i = j
    BY <1>1 DEF Once
  <2>1. i + 1 \in 1..Len(q) /\ j + 1 \in 1..Len(q)
    BY <1>1, SMT
  <2> QED BY <2>1, SMT DEF Once
<1>4. ASSUME NEW t \in Threads, Holds(Tail(q), t)
      PROVE  Holds(q, t) /\ t # Head(q)
  <2>1. PICK i \in 1..Len(q) - 1 : q[i + 1] = t
    BY <1>1, <1>4 DEF Holds
  <2>2. i + 1 \in 1..Len(q) /\ 1 \in 1..Len(q) /\ i + 1 # 1
    BY <1>1, SMT
  <2> QED BY <1>1, <2>1, <2>2 DEF Holds, Once
<1>5. ASSUME NEW t \in Threads, Holds(q, t), t # Head(q)
      PROVE  Holds(Tail(q), t)
  <2>1. PICK i \in 1..Len(q) : q[i] = t
    BY <1>5 DEF Holds
  <2>2. i - 1 \in 1..Len(q) - 1 /\ Tail(q)[i - 1] = t
    BY <1>1, <1>5, <2>1, SMT
  <2> QED BY <1>1, <2>2 DEF Holds
<1> QED BY <1>1, <1>2, <1>3, <1>4, <1>5

-----------------------------------------------------------------------------
\* What the last preempt_enable() of a section can do.
PreemptEnabled(c) ==
    /\ UNCHANGED <<current, runqueue, draining>>
    /\ \/ UNCHANGED <<cpc, after>>
       \/ /\ cpc' = [cpc EXCEPT ![c] = "clear"]
          /\ after' = [after EXCEPT ![c] = "pick"]

\* preempt_enable() keeps the CPU with its thread, or starts a reschedule().
LEMMA PreemptEnableEffect ==
    ASSUME TypeInv, NEW c \in Cpus, NEW asked \in BOOLEAN, PreemptEnable(c, asked)
    PROVE  PreemptEnabled(c) /\ (asked => cpc'[c] = "clear")
<1>1. CASE need[c] \/ asked
  BY <1>1 DEF TypeInv, PreemptEnable, PreemptEnabled, Reschedule, Poll
<1>2. CASE ~(need[c] \/ asked)
  BY <1>2 DEF PreemptEnable, PreemptEnabled, cvars
<1> QED BY <1>1, <1>2

\* Scheduler code of CPU c keeps the types of its own variables.
LEMMA TypeCpu ==
    ASSUME TypeInv, NEW c \in Cpus, CpuStep(c) \/ WakeupInterrupt(c) \/ TimerInterrupt(c)
    PROVE  TypeInv'
<1> USE DEF TypeInv, IdleAt
<1>1. ASSUME Preempt(c)
      PROVE  /\ cpc' \in [Cpus -> {"run", "clear", "drain", "pick"} \cup IdleAt]
             /\ after' \in [Cpus -> {"pick", "id_polled", "id_checked", "id_awake"}]
  BY <1>1 DEF Preempt, Reschedule, Poll
<1>2. CASE WakeupInterrupt(c)
  BY <1>1, <1>2 DEF WakeupInterrupt, tvars, qvars
<1>3. CASE TimerInterrupt(c)
  BY <1>1, <1>3 DEF TimerInterrupt, tvars, qvars
<1>4. CASE NothingIncoming(c)
  BY <1>4 DEF NothingIncoming, Handled, tvars, qvars, ivars
<1>5. CASE ClearMask(c)
  BY <1>5 DEF ClearMask, tvars, ivars
<1>6. ASSUME NEW s \in Cpus, Incoming(c, s)
      PROVE  TypeInv'
  <2>1. Head(incoming[c][s]) \in Threads /\ Tail(incoming[c][s]) \in Seq(Threads)
    BY <1>6, SMT DEF Incoming
  <2> QED BY <1>6, <2>1 DEF Incoming, ivars
<1>7. ASSUME NEW s \in Cpus, QueueEmpty(c, s)
      PROVE  TypeInv'
  <2>1. CASE draining[c] = {s}
    BY <1>7, <2>1 DEF QueueEmpty, Handled, tvars, qvars, ivars
  <2>2. CASE draining[c] # {s}
    BY <1>7, <2>2 DEF QueueEmpty, tvars, qvars, ivars
  <2> QED BY <2>1, <2>2
<1>8. CASE KeepRunning(c)
  BY <1>8 DEF KeepRunning, tvars, qvars, ivars
<1>9. CASE SwitchToIdle(c)
  BY <1>9 DEF SwitchToIdle, tvars, qvars, ivars
<1>10. ASSUME NEW n \in Threads, SwitchTo(c, n)
      PROVE  TypeInv'
  <2>1. /\ st' \in [Threads -> {"unstarted", "waiting", "waking", "queued", "running"}]
        /\ runqueue' \in [Cpus -> SUBSET Threads]
    BY <1>10, SMT DEF SwitchTo
  <2>2. /\ current' \in [Cpus -> Threads \cup {Idle}]
        /\ cpc' \in [Cpus -> {"run", "clear", "drain", "pick"} \cup IdleAt]
    BY <1>10 DEF SwitchTo
  <2> QED BY <1>10, <2>1, <2>2 DEF SwitchTo, qvars, ivars
<1>11. CASE IdleStart(c)
  BY <1>11 DEF IdleStart, Poll, tvars, qvars
<1>12. CASE IdlePollAgain(c)
  BY <1>12 DEF IdlePollAgain, Poll, tvars, qvars, ivars
<1>13. CASE IdlePollEnd(c)
  BY <1>13 DEF IdlePollEnd, Poll, tvars, qvars
<1>14. CASE IdleHalt(c)
  BY <1>14 DEF IdleHalt, tvars, qvars, ivars
<1>15. CASE IdleInterrupt(c)
  BY <1>15 DEF IdleInterrupt, Poll, tvars, qvars
<1>16. CASE IdleAgain(c)
  BY <1>16 DEF IdleAgain, tvars, qvars, ivars
<1>17. CASE IdleEnd(c)
  BY <1>17 DEF IdleEnd, Reschedule, Poll, tvars, qvars
<1> QED
  BY <1>2, <1>3, <1>4, <1>5, <1>6, <1>7, <1>8, <1>9, <1>10, <1>11, <1>12,
     <1>13, <1>14, <1>15,
     <1>16, <1>17 DEF CpuStep

\* ... and keeps the types of what belongs to the CPU.
LEMMA PreemptTypes ==
    ASSUME TypeInv, NEW c \in Cpus, PreemptEnabled(c)
    PROVE  /\ current' \in [Cpus -> Threads \cup {Idle}]
           /\ runqueue' \in [Cpus -> SUBSET Threads]
           /\ draining' \in [Cpus -> SUBSET Cpus]
           /\ cpc' \in [Cpus -> {"run", "clear", "drain", "pick"} \cup IdleAt]
           /\ after' \in [Cpus -> {"pick", "id_polled", "id_checked", "id_awake"}]
<1>1. CASE UNCHANGED <<cpc, after>>
  BY <1>1 DEF TypeInv, PreemptEnabled
<1>2. CASE /\ cpc' = [cpc EXCEPT ![c] = "clear"]
           /\ after' = [after EXCEPT ![c] = "pick"]
  BY <1>2 DEF TypeInv, PreemptEnabled
<1> QED BY <1>1, <1>2 DEF PreemptEnabled

\* Every step of a thread keeps the types.
LEMMA TypeThread ==
    ASSUME TypeInv, NEW c \in Cpus, NEW t \in Threads, ThreadStep(c, t) \/ ThreadCall(c, t)
    PROVE  TypeInv'
<1> USE DEF TypeInv, Waiting, Waking, Goto
<1>1. CASE PrepareWait(c, t)
  BY <1>1 DEF PrepareWait, qvars, cvars, ivars
<1>2. CASE PredicateTrue(c, t)
  BY <1>2 DEF PredicateTrue, qvars, cvars, ivars
<1>3. CASE Wait(c, t)
  BY <1>3 DEF Wait, Reschedule, Poll, qvars
<1>4. CASE SpinSchedule(c, t)
  BY <1>4 DEF SpinSchedule, Reschedule, Poll, tvars, qvars
<1>17. CASE Yield(c, t)
  BY <1>17 DEF Yield, Reschedule, Poll, tvars, qvars
<1>5. CASE SpinEnd(c, t)
  BY <1>5 DEF SpinEnd, Resume, qvars, cvars, ivars
<1>6. CASE StopWait(c, t)
  <2>1. PreemptEnabled(c)
    BY <1>6, PreemptEnableEffect DEF StopWait
  <2> QED BY <1>6, <2>1, PreemptTypes DEF StopWait, Resume, qvars
<1>7. CASE StopWaitWaking(c, t)
  <2>1. PreemptEnabled(c)
    BY <1>7, PreemptEnableEffect DEF StopWaitWaking
  <2> QED BY <1>7, <2>1, PreemptTypes DEF StopWaitWaking, qvars
<1>8. ASSUME NEW u \in Threads, Start(c, t, u)
      PROVE  TypeInv'
  BY <1>8, SchedAssumption DEF Start, qvars, cvars, ivars
<1>9. ASSUME NEW u \in Threads, WakeWith(c, t, u)
      PROVE  TypeInv'
  BY <1>9 DEF WakeWith, qvars, cvars, ivars
<1>10. CASE WakeCas(c, t)
  BY <1>10 DEF WakeCas, qvars, cvars, ivars
<1>11. CASE WakeLoadCpu(c, t)
  BY <1>11 DEF WakeLoadCpu, qvars, cvars, ivars
<1>12. CASE WakePush(c, t)
  <2>1. dest[t] \in Cpus /\ cpu[t] \in Cpus /\ who[t] \in Threads
    OBVIOUS
  <2>2. Append(incoming[dest[t]][cpu[t]], who[t]) \in Seq(Threads)
    BY <2>1, SMT
  <2>3. incoming' \in [Cpus -> [Cpus -> Seq(Threads)]]
    BY <1>12, <2>1, <2>2 DEF WakePush
  <2> QED BY <1>12, <2>3 DEF WakePush, cvars, ivars
<1>13. CASE WakeMaskFirst(c, t)
  BY <1>13, SMT DEF WakeMaskFirst, cvars, ivars
<1>14. CASE WakeMask(c, t)
  <2>1. PreemptEnabled(c)
    BY <1>14, PreemptEnableEffect DEF WakeMask, WakeReturn
  <2>2. mask' \in [Cpus -> SUBSET Cpus]
    BY <1>14, SMTT(40) DEF WakeMask
  <2>3. who' \in [Threads -> Threads] /\ dest' \in [Threads -> Cpus]
    BY <1>14, SchedAssumption DEF WakeMask, WakeReturn
  <2> QED BY <1>14, <2>1, <2>2, <2>3, PreemptTypes DEF WakeMask, WakeReturn
<1>15. CASE WakeIpi(c, t)
  <2>1. PreemptEnabled(c)
    BY <1>15, PreemptEnableEffect DEF WakeIpi, WakeReturn
  <2> QED BY <1>15, <2>1, PreemptTypes, SchedAssumption DEF WakeIpi, WakeReturn, qvars
<1>16. CASE WakeDiscarded(c, t)
  <2>1. PreemptEnabled(c)
    BY <1>16, PreemptEnableEffect DEF WakeDiscarded, WakeReturn
  <2> QED BY <1>16, <2>1, PreemptTypes, SchedAssumption DEF WakeDiscarded, WakeReturn, qvars
<1> QED
  BY <1>1, <1>2, <1>3, <1>4, <1>5, <1>6, <1>7, <1>8, <1>9, <1>10, <1>11,
     <1>12, <1>13, <1>14,
     <1>15, <1>16, <1>17 DEF ThreadStep, ThreadCall

-----------------------------------------------------------------------------
\* Nobody moves when no thread and no queue changes.
LEMMA PlaceUnmoved ==
    ASSUME Place, TypeInv', UNCHANGED <<st, cpu, pc, who, dest, current, runqueue, incoming>>
    PROVE  Place'
BY SMT DEF Place, CurrentInv, RunningInv, RunqueueInv, UnstartedInv, WakingInv,
   PushInv, IncomingInv,
       Pushes

\* The current thread of a CPU goes from one place in its code to another, neither
\* of them in the middle of a wake-up, and may go to sleep or stop to.
Moves(c, t, x, l) ==
    /\ current[c] = t
    /\ st' = [st EXCEPT ![t] = x]
    /\ pc' = [pc EXCEPT ![t] = l]
    /\ x # st[t] => st[t] \in {"running", "waiting"} /\ x \in {"running", "waiting"}
    /\ pc[t] \notin {"wk_cpu", "wk_push"} /\ l \notin {"wk_cpu", "wk_push"}
    /\ l \in {"work", "wt_loop"} \cup Waking => x = "running"
    /\ l \in {"wt_spin", "wt_qspin"} => x # "waiting"
    /\ UNCHANGED <<cpu, current, runqueue, incoming>>
    /\ \A w \in Threads \ {t} : who'[w] = who[w] /\ dest'[w] = dest[w]

\* Such a step keeps everybody in their place.
LEMMA PlaceMoves ==
    ASSUME Place, TypeInv', NEW c \in Cpus, NEW t \in Threads, NEW x, NEW l, Moves(c, t, x, l)
    PROVE  Place'
<1>1. /\ CurrentInv /\ RunningInv /\ RunqueueInv /\ UnstartedInv /\ WakingInv /\ PushInv
      /\ IncomingInv
  BY DEF Place
<1>2. /\ st \in [Threads -> {"unstarted", "waiting", "waking", "queued", "running"}]
      /\ pc \in [Threads -> {"work"} \cup Waiting \cup Waking]
  BY DEF Place, TypeInv
<1>3. UNCHANGED <<cpu, current, runqueue, incoming>> /\ current[c] = t
  BY DEF Moves
<1>4. st[t] \in {"running", "waiting", "waking"} /\ cpu[t] = c
  BY <1>1, <1>3 DEF CurrentInv
<1>5. /\ \A u \in Threads : u # t => st'[u] = st[u] /\ pc'[u] = pc[u]
      /\ st'[t] = x /\ pc'[t] = l
      /\ st'[t] = st[t] \/ {st[t], st'[t]} \subseteq {"running", "waiting"}
  BY <1>2 DEF Moves
<1>6. \A w, u \in Threads : Pushes(w, u) => w # t
  BY DEF Moves, Pushes
<1>7. \A w, u \in Threads : Pushes(w, u)' <=> Pushes(w, u)
  BY <1>5, <1>6 DEF Moves, Pushes
<1>8. \A u \in Threads : st'[u] = "waking" <=> st[u] = "waking"
  BY <1>5
<1>9. \A u \in Threads : st'[u] = "queued" <=> st[u] = "queued"
  BY <1>5
<1>10. CurrentInv'
  BY <1>1, <1>3, <1>4, <1>5, SMT DEF CurrentInv, Moves
<1>11. RunningInv'
  BY <1>1, <1>3, <1>4, <1>5 DEF RunningInv
<1>12. RunqueueInv'
  BY <1>1, <1>3, <1>9 DEF RunqueueInv
<1>13. UnstartedInv'
  BY <1>1, <1>4, <1>5 DEF UnstartedInv
<1>14. WakingInv'
  BY <1>1, <1>3, <1>7, <1>8 DEF WakingInv
<1>15. PushInv'
  <2>1. \A w \in Threads : w # t => dest'[w] = dest[w]
    BY DEF Moves
  <2> QED BY <1>1, <1>3, <1>5, <1>6, <1>7, <1>8, <2>1, SMT DEF PushInv
<1>16. IncomingInv'
  BY <1>1, <1>3, <1>8 DEF IncomingInv
<1> QED BY <1>10, <1>11, <1>12, <1>13, <1>14, <1>15, <1>16 DEF Place

\* start() makes a new thread waking, with the caller as its waker.
LEMMA PlaceStart ==
    ASSUME Place, TypeInv', NEW c \in Cpus, NEW t \in Threads, NEW u \in Threads, Start(c, t, u)
    PROVE  Place'
<1>1. /\ CurrentInv /\ RunningInv /\ RunqueueInv /\ UnstartedInv /\ WakingInv /\ PushInv
      /\ IncomingInv
  BY DEF Place
<1>2. /\ st \in [Threads -> {"unstarted", "waiting", "waking", "queued", "running"}]
      /\ pc \in [Threads -> {"work"} \cup Waiting \cup Waking]
      /\ who \in [Threads -> Threads] /\ cpu \in [Threads -> Cpus] /\ dest \in [Threads -> Cpus]
  BY DEF Place, TypeInv
<1>3. UNCHANGED <<current, runqueue, incoming, dest>> /\ current[c] = t /\ pc[t] = "work"
  BY DEF Start, At, cvars, qvars
<1>4. st[t] = "running" /\ cpu[t] = c /\ st[u] = "unstarted" /\ u # t
  BY <1>1, <1>3 DEF CurrentInv, Start
<1>5. /\ \A v \in Threads : v # u => st'[v] = st[v] /\ cpu'[v] = cpu[v]
      /\ \A v \in Threads : v # t => pc'[v] = pc[v] /\ who'[v] = who[v]
      /\ st'[u] = "waiting" /\ pc'[t] = "wk_cas"
  BY <1>2 DEF Start, Goto
<1>6. \A w, v \in Threads : Pushes(w, v)' <=> Pushes(w, v)
  BY <1>3, <1>5 DEF Pushes
<1>7. \A w \in Threads : ~Pushes(w, u)
  BY <1>1, <1>4 DEF PushInv
<1>8. \A d, s \in Cpus : ~Holds(incoming[d][s], u) /\ current[d] # u /\ u \notin runqueue[d]
  BY <1>1, <1>4 DEF IncomingInv, CurrentInv, RunqueueInv
<1>9. CurrentInv'
  BY <1>1, <1>3, <1>4, <1>5, <1>8, SMT DEF CurrentInv
<1>10. RunningInv'
  BY <1>1, <1>3, <1>5 DEF RunningInv
<1>11. RunqueueInv'
  BY <1>1, <1>3, <1>5, <1>8, SMT DEF RunqueueInv
<1>12. UnstartedInv'
  BY <1>1, <1>4, <1>5 DEF UnstartedInv
<1>13. WakingInv'
  BY <1>1, <1>3, <1>5, <1>6 DEF WakingInv
<1>14. PushInv'
  <2>1. \A w \in Threads : pc'[w] = "wk_push" <=> pc[w] = "wk_push"
    BY <1>3, <1>5
  <2> QED BY <1>1, <1>3, <1>5, <1>6, <1>7, <2>1, SMT DEF PushInv
<1>15. IncomingInv'
  BY <1>1, <1>3, <1>5, <1>8, SMT DEF IncomingInv
<1> QED BY <1>9, <1>10, <1>11, <1>12, <1>13, <1>14, <1>15 DEF Place

\* wake_impl() that wins the compare-and-swap becomes the one waker.
LEMMA PlaceWakeCas ==
    ASSUME Place, TypeInv', NEW c \in Cpus, NEW t \in Threads, WakeCas(c, t)
    PROVE  Place'
<1>1. /\ CurrentInv /\ RunningInv /\ RunqueueInv /\ UnstartedInv /\ WakingInv /\ PushInv
      /\ IncomingInv
  BY DEF Place
<1>2. /\ st \in [Threads -> {"unstarted", "waiting", "waking", "queued", "running"}]
      /\ pc \in [Threads -> {"work"} \cup Waiting \cup Waking]
      /\ who \in [Threads -> Threads] /\ cpu \in [Threads -> Cpus] /\ dest \in [Threads -> Cpus]
  BY DEF Place, TypeInv
<1> DEFINE v == who[t]
<1>3. UNCHANGED <<current, runqueue, incoming, cpu, who, dest>> /\ current[c] = t /\ pc[t] = "wk_cas"
  BY DEF WakeCas, At, cvars, qvars
<1>4. v \in Threads /\ st[v] = "waiting" /\ st[t] = "running" /\ v # t
  BY <1>1, <1>2, <1>3 DEF CurrentInv, WakeCas, Waking
<1>5. /\ \A u \in Threads : u # v => st'[u] = st[u]
      /\ \A u \in Threads : u # t => pc'[u] = pc[u]
      /\ st'[v] = "waking" /\ pc'[t] = "wk_cpu"
  BY <1>2, <1>4 DEF WakeCas, Goto
<1>6. \A w, u \in Threads : Pushes(w, u)' <=> Pushes(w, u) \/ (w = t /\ u = v)
  BY <1>3, <1>5 DEF Pushes
<1>7. \A w \in Threads : ~Pushes(w, v)
  BY <1>1, <1>4 DEF PushInv
<1>8. \A d, s \in Cpus : ~Holds(incoming[d][s], v) /\ v \notin runqueue[d]
  BY <1>1, <1>4 DEF IncomingInv, RunqueueInv
<1> HIDE DEF v
<1>9. CurrentInv'
  BY <1>1, <1>3, <1>4, <1>5, SMT DEF CurrentInv
<1>10. RunningInv'
  BY <1>1, <1>3, <1>5 DEF RunningInv
<1>11. RunqueueInv'
  BY <1>1, <1>3, <1>5, <1>8, SMT DEF RunqueueInv
<1>12. UnstartedInv'
  BY <1>1, <1>4, <1>5 DEF UnstartedInv
<1>13. WakingInv'
  BY <1>1, <1>3, <1>5, <1>6 DEF WakingInv
<1>14. PushInv'
  <2>1. \A w, u \in Threads : Pushes(w, u) => w # t
    BY <1>3 DEF Pushes
  <2>2. \A w, u \in Threads : Pushes(w, u)' => st'[u] = "waking"
    BY <1>1, <1>5, <1>6 DEF PushInv
  <2>3. \A w, u \in Threads : Pushes(w, u)' /\ pc'[w] = "wk_push" => dest'[w] = cpu'[u]
    BY <1>1, <1>3, <1>5, <1>6, SMT DEF PushInv
  <2>4. \A w, u, z \in Threads : Pushes(w, u)' /\ Pushes(z, u)' => z = w
    BY <1>1, <1>6, <1>7, SMT DEF PushInv
  <2>5. \A w, u \in Threads : Pushes(w, u)' => \A d, s \in Cpus : ~Holds(incoming[d][s], u)'
    BY <1>1, <1>3, <1>6, <1>8, SMT DEF PushInv
  <2> QED BY <2>2, <2>3, <2>4, <2>5 DEF PushInv
<1>15. IncomingInv'
  BY <1>1, <1>3, <1>5, <1>8, SMT DEF IncomingInv
<1> QED BY <1>9, <1>10, <1>11, <1>12, <1>13, <1>14, <1>15 DEF Place

\* The waker reads the CPU of the thread it will push; nobody changes that
\* while the thread is waking.
LEMMA PlaceWakeLoadCpu ==
    ASSUME Place, TypeInv', NEW c \in Cpus, NEW t \in Threads, WakeLoadCpu(c, t)
    PROVE  Place'
<1>1. /\ CurrentInv /\ RunningInv /\ RunqueueInv /\ UnstartedInv /\ WakingInv /\ PushInv
      /\ IncomingInv
  BY DEF Place
<1>2. /\ st \in [Threads -> {"unstarted", "waiting", "waking", "queued", "running"}]
      /\ pc \in [Threads -> {"work"} \cup Waiting \cup Waking]
      /\ who \in [Threads -> Threads] /\ cpu \in [Threads -> Cpus] /\ dest \in [Threads -> Cpus]
  BY DEF Place, TypeInv
<1>3. UNCHANGED <<st, current, runqueue, incoming, cpu, who>> /\ current[c] = t /\ pc[t] = "wk_cpu"
  BY DEF WakeLoadCpu, At, cvars, qvars
<1>4. /\ \A u \in Threads : u # t => pc'[u] = pc[u] /\ dest'[u] = dest[u]
      /\ pc'[t] = "wk_push" /\ dest'[t] = cpu[who[t]]
  BY <1>2 DEF WakeLoadCpu, Goto
<1>5. \A w, u \in Threads : Pushes(w, u)' <=> Pushes(w, u)
  BY <1>3, <1>4 DEF Pushes
<1>6. CurrentInv'
  BY <1>1, <1>3, <1>4, SMT DEF CurrentInv, Waking
<1>7. RunningInv' /\ RunqueueInv' /\ IncomingInv'
  BY <1>1, <1>3, SMT DEF RunningInv, RunqueueInv, IncomingInv
<1>8. UnstartedInv'
  BY <1>1, <1>3, <1>4 DEF UnstartedInv
<1>9. WakingInv'
  BY <1>1, <1>3, <1>5 DEF WakingInv
<1>10. PushInv'
  <2>1. \A w, u \in Threads : Pushes(w, u) /\ pc'[w] = "wk_push" => dest'[w] = cpu[u]
    BY <1>1, <1>4 DEF PushInv, Pushes
  <2> QED BY <1>1, <1>3, <1>5, <2>1, SMT DEF PushInv
<1> QED BY <1>6, <1>7, <1>8, <1>9, <1>10 DEF Place

\* The waker pushes the thread, which then is in that one queue.
LEMMA PlaceWakePush ==
    ASSUME Place, TypeInv', NEW c \in Cpus, NEW t \in Threads, WakePush(c, t)
    PROVE  Place'
<1>1. /\ CurrentInv /\ RunningInv /\ RunqueueInv /\ UnstartedInv /\ WakingInv /\ PushInv
      /\ IncomingInv
  BY DEF Place
<1>2. /\ st \in [Threads -> {"unstarted", "waiting", "waking", "queued", "running"}]
      /\ pc \in [Threads -> {"work"} \cup Waiting \cup Waking]
      /\ who \in [Threads -> Threads] /\ cpu \in [Threads -> Cpus] /\ dest \in [Threads -> Cpus]
      /\ incoming \in [Cpus -> [Cpus -> Seq(Threads)]]
  BY DEF Place, TypeInv
<1> DEFINE v == who[t]
           d == dest[t]
           r == cpu[t]
<1>3. UNCHANGED <<st, current, runqueue, cpu, who, dest>> /\ current[c] = t /\ pc[t] = "wk_push"
  BY DEF WakePush, At, cvars
<1>4. v \in Threads /\ d \in Cpus /\ r \in Cpus
  BY <1>2
<1>5. /\ \A u \in Threads : u # t => pc'[u] = pc[u]
      /\ pc'[t] = "wk_mask"
  BY <1>2 DEF WakePush, Goto
<1>6. Pushes(t, v)
  BY <1>3 DEF Pushes
<1>7. st[v] = "waking" /\ d = cpu[v] /\ \A a, b \in Cpus : ~Holds(incoming[a][b], v)
  BY <1>1, <1>3, <1>4, <1>6 DEF PushInv
<1>8. \A w, u \in Threads : Pushes(w, u)' <=> Pushes(w, u) /\ u # v
  <2>1. \A w, u \in Threads : Pushes(w, u)' <=> Pushes(w, u) /\ w # t
    BY <1>3, <1>5 DEF Pushes
  <2>2. \A w, u \in Threads : Pushes(w, u) => (w = t <=> u = v)
    BY <1>1, <1>4, <1>6, SMT DEF PushInv, Pushes
  <2> QED BY <2>1, <2>2
<1>9. /\ incoming'[d][r] = Append(incoming[d][r], v)
      /\ \A a, b \in Cpus : a # d \/ b # r => incoming'[a][b] = incoming[a][b]
  BY <1>2, <1>4 DEF WakePush
<1> HIDE DEF v, d, r
<1>10. \A a, b \in Cpus, u \in Threads :
           Holds(incoming'[a][b], u) <=> Holds(incoming[a][b], u) \/ (a = d /\ b = r /\ u = v)
  <2>1. incoming[d][r] \in Seq(Threads)
    BY <1>2, <1>4
  <2>2. \A u \in Threads : Holds(incoming'[d][r], u) <=> Holds(incoming[d][r], u) \/ u = v
    BY <1>4, <1>9, <2>1, HoldsAppend, SMT
  <2> QED BY <1>9, <2>2
<1>11. \A a, b \in Cpus : Once(incoming'[a][b])
  <2>1. incoming[d][r] \in Seq(Threads)
    BY <1>2, <1>4
  <2>2. Once(incoming'[d][r])
    BY <1>1, <1>4, <1>7, <1>9, <2>1, HoldsAppend, SMT DEF IncomingInv
  <2>3. \A a, b \in Cpus : Once(incoming[a][b])
    BY <1>1 DEF IncomingInv
  <2> QED BY <1>9, <2>2, <2>3
<1>12. CurrentInv'
  BY <1>1, <1>3, <1>5, SMT DEF CurrentInv, Waking
<1>13. RunningInv' /\ RunqueueInv'
  BY <1>1, <1>3 DEF RunningInv, RunqueueInv
<1>14. UnstartedInv'
  BY <1>1, <1>3, <1>5 DEF UnstartedInv
<1>15. WakingInv'
  <2> SUFFICES ASSUME NEW u \in Threads, st[u] = "waking"
               PROVE  \/ \E w \in Threads : Pushes(w, u)'
                      \/ \E b \in Cpus : Holds(incoming'[cpu[u]][b], u)
    BY <1>3 DEF WakingInv
  <2>1. CASE u = v
    BY <1>4, <1>7, <1>10, <2>1
  <2>2. CASE u # v
    BY <1>1, <1>2, <1>8, <1>10, <2>2 DEF WakingInv
  <2> QED BY <2>1, <2>2
<1>16. PushInv'
  <2>1. \A w \in Threads : pc'[w] = "wk_push" => pc[w] = "wk_push"
    BY <1>5
  <2>2. \A w, u \in Threads : Pushes(w, u)' => \A a, b \in Cpus : ~Holds(incoming'[a][b], u)
    BY <1>1, <1>8, <1>10, SMT DEF PushInv
  <2> QED BY <1>1, <1>3, <1>8, <2>1, <2>2 DEF PushInv
<1>17. IncomingInv'
  <2>1. \A a, b \in Cpus, u \in Threads : Holds(incoming'[a][b], u) => st[u] = "waking" /\ cpu[u] = a
    BY <1>1, <1>7, <1>10, SMT DEF IncomingInv
  <2>2. \A a, b, e \in Cpus, u \in Threads :
            Holds(incoming'[a][b], u) /\ Holds(incoming'[a][e], u) => e = b
    BY <1>1, <1>7, <1>10, SMT DEF IncomingInv
  <2> QED BY <1>3, <1>11, <2>1, <2>2, SMT DEF IncomingInv
<1> QED BY <1>12, <1>13, <1>14, <1>15, <1>16, <1>17 DEF Place

\* handle_incoming_wakeups() moves a thread from a queue to the run queue.
LEMMA PlaceIncoming ==
    ASSUME Place, TypeInv', NEW c \in Cpus, NEW s \in Cpus, Incoming(c, s)
    PROVE  Place'
<1>1. /\ CurrentInv /\ RunningInv /\ RunqueueInv /\ UnstartedInv /\ WakingInv /\ PushInv
      /\ IncomingInv
  BY DEF Place
<1>2. /\ st \in [Threads -> {"unstarted", "waiting", "waking", "queued", "running"}]
      /\ pc \in [Threads -> {"work"} \cup Waiting \cup Waking]
      /\ who \in [Threads -> Threads] /\ cpu \in [Threads -> Cpus] /\ dest \in [Threads -> Cpus]
      /\ incoming \in [Cpus -> [Cpus -> Seq(Threads)]]
      /\ current \in [Cpus -> Threads \cup {Idle}] /\ runqueue \in [Cpus -> SUBSET Threads]
  BY DEF Place, TypeInv
<1> DEFINE v == Head(incoming[c][s])
<1>3. UNCHANGED <<current, pc, cpu, who, dest>> /\ incoming[c][s] # <<>>
  BY DEF Incoming
<1>4. /\ v \in Threads /\ Holds(incoming[c][s], v)
      /\ \A u \in Threads : Holds(Tail(incoming[c][s]), u) <=> Holds(incoming[c][s], u) /\ u # v
      /\ Once(Tail(incoming[c][s]))
  <2>1. incoming[c][s] \in Seq(Threads) /\ Once(incoming[c][s])
    BY <1>1, <1>2, SMT DEF IncomingInv
  <2> QED BY <1>3, <2>1, HoldsTail
<1>5. /\ st[v] = "waking" /\ cpu[v] = c
      /\ \A r \in Cpus : Holds(incoming[c][r], v) => r = s
      /\ \A a, b \in Cpus : Holds(incoming[a][b], v) => a = c /\ b = s
  BY <1>1, <1>4, SMT DEF IncomingInv
<1>6. /\ incoming'[c][s] = Tail(incoming[c][s])
      /\ \A a, b \in Cpus : a # c \/ b # s => incoming'[a][b] = incoming[a][b]
  <2>1. incoming' = [incoming EXCEPT ![c][s] = Tail(@)]
    BY DEF Incoming
  <2> QED BY <1>2, <2>1
<1>7. /\ \A u \in Threads : u # v => st'[u] = st[u]
      /\ st'[v] = IF v = current[c] THEN "running" ELSE "queued"
      /\ \A a \in Cpus : runqueue'[a] =
             IF a = c /\ v # current[c] THEN runqueue[a] \cup {v} ELSE runqueue[a]
  BY <1>2, <1>4, <1>5 DEF Incoming
<1> HIDE DEF v
<1>8. \A a, b \in Cpus, u \in Threads :
          Holds(incoming'[a][b], u) <=> Holds(incoming[a][b], u) /\ u # v
  BY <1>4, <1>5, <1>6, SMT
<1>9. \A w, u \in Threads : (Pushes(w, u)' <=> Pushes(w, u)) /\ (Pushes(w, u) => u # v)
  <2>1. \A w, u \in Threads : Pushes(w, u)' <=> Pushes(w, u)
    BY <1>3 DEF Pushes
  <2>2. \A w \in Threads : ~Pushes(w, v)
    BY <1>1, <1>4 DEF PushInv
  <2> QED BY <2>1, <2>2
<1>10. CurrentInv'
  BY <1>1, <1>3, <1>5, <1>7, SMT DEF CurrentInv
<1>11. RunningInv'
  BY <1>1, <1>3, <1>5, <1>7 DEF RunningInv
<1>12. RunqueueInv'
  <2>1. \A u \in Threads, a \in Cpus :
            u # v => (u \in runqueue'[a] <=> st'[u] = "queued" /\ cpu[u] = a)
    <3>1. \A u \in Threads, a \in Cpus : u # v => (u \in runqueue'[a] <=> u \in runqueue[a])
      BY <1>7
    <3> QED BY <1>1, <1>7, <3>1, SMT DEF RunqueueInv
  <2>2. \A a \in Cpus : v \notin runqueue[a]
    BY <1>1, <1>4, <1>5 DEF RunqueueInv
  <2>3. \A a \in Cpus : v \in runqueue'[a] <=> st'[v] = "queued" /\ a = c
    BY <1>7, <2>2
  <2> QED BY <1>3, <1>5, <2>1, <2>3, SMT DEF RunqueueInv
<1>13. UnstartedInv'
  BY <1>1, <1>3, <1>7 DEF UnstartedInv
<1>14. WakingInv'
  <2> SUFFICES ASSUME NEW u \in Threads, st'[u] = "waking"
               PROVE  \/ \E w \in Threads : Pushes(w, u)
                      \/ \E b \in Cpus : Holds(incoming'[cpu[u]][b], u)
    BY <1>3, <1>9 DEF WakingInv
  <2>1. u # v /\ st[u] = "waking"
    BY <1>7
  <2> QED BY <1>1, <1>2, <1>8, <2>1 DEF WakingInv
<1>15. PushInv'
  BY <1>1, <1>3, <1>7, <1>8, <1>9 DEF PushInv
<1>16. IncomingInv'
  <2>1. \A a, b \in Cpus : Once(incoming'[a][b])
    BY <1>1, <1>4, <1>6, SMT DEF IncomingInv
  <2> QED BY <1>1, <1>3, <1>7, <1>8, <2>1, SMT DEF IncomingInv
<1> QED BY <1>10, <1>11, <1>12, <1>13, <1>14, <1>15, <1>16 DEF Place

\* reschedule_from_interrupt() switches to a thread of the run queue.
LEMMA PlaceSwitchTo ==
    ASSUME Place, TypeInv', NEW c \in Cpus, NEW n \in Threads, SwitchTo(c, n)
    PROVE  Place'
<1>1. /\ CurrentInv /\ RunningInv /\ RunqueueInv /\ UnstartedInv /\ WakingInv /\ PushInv
      /\ IncomingInv
  BY DEF Place
<1>2. /\ st \in [Threads -> {"unstarted", "waiting", "waking", "queued", "running"}]
      /\ pc \in [Threads -> {"work"} \cup Waiting \cup Waking]
      /\ who \in [Threads -> Threads] /\ cpu \in [Threads -> Cpus] /\ dest \in [Threads -> Cpus]
      /\ incoming \in [Cpus -> [Cpus -> Seq(Threads)]]
      /\ current \in [Cpus -> Threads \cup {Idle}] /\ runqueue \in [Cpus -> SUBSET Threads]
  BY DEF Place, TypeInv
<1> DEFINE p == current[c]
<1>3. UNCHANGED <<pc, cpu, who, dest, incoming>> /\ n \in runqueue[c]
  BY DEF SwitchTo, qvars
<1>4. st[n] = "queued" /\ cpu[n] = c /\ p # n
  BY <1>1, <1>3 DEF RunqueueInv, CurrentInv
<1>5. /\ st'[n] = "running"
      /\ \A u \in Threads : u # n =>
             st'[u] = IF u = p /\ st[u] = "running" THEN "queued" ELSE st[u]
      /\ current'[c] = n /\ \A d \in Cpus : d # c => current'[d] = current[d]
  BY <1>2, SchedAssumption DEF SwitchTo
<1>6. \A d \in Cpus, u \in Threads : u \in runqueue'[d] <=>
          \/ u \in runqueue[d] /\ (d = c => u # n)
          \/ d = c /\ u = p /\ st[u] = "running"
  BY <1>2, SchedAssumption DEF SwitchTo
<1>7. \A u \in Threads : st'[u] = "waking" <=> st[u] = "waking"
  BY <1>4, <1>5
<1>8. \A w, u \in Threads : Pushes(w, u)' <=> Pushes(w, u)
  BY <1>3 DEF Pushes
<1>9. \A d \in Cpus, u \in Threads : d # c /\ current[d] = u => u # p /\ u # n /\ cpu[u] = d
  BY <1>1, <1>4, SMT DEF CurrentInv
<1>10. p \in Threads => cpu[p] = c
  BY <1>1 DEF CurrentInv
<1> HIDE DEF p
<1>11. CurrentInv'
  BY <1>1, <1>3, <1>4, <1>5, <1>9, SMT DEF CurrentInv
<1>12. RunningInv'
  <2>1. \A u \in Threads : st[u] = "running" /\ cpu[u] = c => u = p
    BY <1>1 DEF RunningInv, p
  <2> SUFFICES ASSUME NEW u \in Threads, st'[u] = "running"
               PROVE  current'[cpu[u]] = u
    BY <1>3 DEF RunningInv
  <2>2. u = n \/ (st[u] = "running" /\ u # p)
    BY <1>5
  <2> QED BY <1>1, <1>2, <1>4, <1>5, <2>1, <2>2 DEF RunningInv
<1>13. RunqueueInv'
  BY <1>1, <1>3, <1>4, <1>5, <1>6, <1>10, SMT DEF RunqueueInv
<1>14. UnstartedInv'
  BY <1>1, <1>3, <1>5 DEF UnstartedInv
<1>15. WakingInv'
  BY <1>1, <1>3, <1>7, <1>8 DEF WakingInv
<1>16. PushInv'
  BY <1>1, <1>3, <1>7, <1>8 DEF PushInv
<1>17. IncomingInv'
  BY <1>1, <1>3, <1>7 DEF IncomingInv
<1> QED BY <1>11, <1>12, <1>13, <1>14, <1>15, <1>16, <1>17 DEF Place

\* ... or to the idle thread.
LEMMA PlaceSwitchToIdle ==
    ASSUME Place, TypeInv', NEW c \in Cpus, SwitchToIdle(c)
    PROVE  Place'
<1>1. UNCHANGED <<st, pc, cpu, who, dest, runqueue, incoming>>
  BY DEF SwitchToIdle, tvars, qvars
<1>2. /\ st[current[c]] # "running"
      /\ current'[c] = Idle /\ \A d \in Cpus : d # c => current'[d] = current[d]
  BY DEF SwitchToIdle, Place, TypeInv
<1>3. CurrentInv'
  BY <1>1, <1>2, SchedAssumption, SMT DEF Place, CurrentInv
<1>4. RunningInv'
  BY <1>1, <1>2 DEF Place, TypeInv, RunningInv
<1> QED
  BY <1>1, <1>3, <1>4, SMT DEF Place, RunqueueInv, UnstartedInv, WakingInv,
     PushInv, IncomingInv, Pushes

\* Every step of a thread keeps everybody in their place.
LEMMA PlaceThread ==
    ASSUME Place, TypeInv', NEW c \in Cpus, NEW t \in Threads, ThreadStep(c, t) \/ ThreadCall(c, t)
    PROVE  Place'
<1>1. TypeInv /\ CurrentInv
  BY DEF Place
<1>2. /\ st[t] = "running" => st = [st EXCEPT ![t] = "running"]
      /\ st = [st EXCEPT ![t] = st[t]]
  BY <1>1 DEF TypeInv
<1>3. \A l : At(c, t, l) => current[c] = t /\ pc[t] = l
  BY DEF At
<1>4. /\ \A x : \A w \in Threads \ {t} : [who EXCEPT ![t] = x][w] = who[w]
      /\ \A x : \A w \in Threads \ {t} : [dest EXCEPT ![t] = x][w] = dest[w]
  BY <1>1 DEF TypeInv
<1>5. CASE PrepareWait(c, t)
  <2>1. Moves(c, t, "waiting", "wt_pred")
    BY <1>1, <1>3, <1>5, SMT DEF PrepareWait, Moves, CurrentInv, Waking, Goto,
       qvars, cvars
  <2> QED BY <2>1, PlaceMoves
<1>6. CASE PredicateTrue(c, t)
  <2>1. Moves(c, t, st[t], "wt_quit")
    BY <1>2, <1>3, <1>6, SMT DEF PredicateTrue, Moves, Waking, Goto, qvars, cvars
  <2> QED BY <2>1, PlaceMoves
<1>7. CASE Wait(c, t)
  <2>1. Moves(c, t, st[t], "wt_stop")
    BY <1>2, <1>3, <1>7, SMT DEF Wait, Moves, Waking, Goto, qvars
  <2> QED BY <2>1, PlaceMoves
<1>8. CASE StopWait(c, t)
  <2>1. PreemptEnabled(c)
    BY <1>1, <1>8, PreemptEnableEffect DEF StopWait
  <2>2. st[t] \in {"running", "waiting"} /\ current[c] = t /\ pc[t] \in {"wt_stop", "wt_quit"}
    BY <1>1, <1>3, <1>8, SMT DEF StopWait, CurrentInv
  <2>3. st' = [st EXCEPT ![t] = "running"]
    BY <1>1, <1>8, <2>2 DEF StopWait, TypeInv
  <2>4. \E l \in {"work", "wt_loop"} : pc' = [pc EXCEPT ![t] = l]
    BY <1>8 DEF StopWait, Resume, Goto
  <2>5. PICK l \in {"work", "wt_loop"} : Moves(c, t, "running", l)
    BY <1>8, <2>1, <2>2, <2>3, <2>4 DEF StopWait, PreemptEnabled, Moves, qvars
  <2> QED BY <2>5, PlaceMoves
<1>9. CASE StopWaitWaking(c, t)
  <2>1. PreemptEnabled(c)
    BY <1>1, <1>9, PreemptEnableEffect DEF StopWaitWaking
  <2>2. \E l \in {"wt_spin", "wt_qspin"} : pc' = [pc EXCEPT ![t] = l]
    BY <1>9 DEF StopWaitWaking, Goto
  <2>3. current[c] = t /\ st[t] = "waking" /\ pc[t] \in {"wt_stop", "wt_quit"}
    BY <1>3, <1>9 DEF StopWaitWaking
  <2>4. PICK l \in {"wt_spin", "wt_qspin"} : pc' = [pc EXCEPT ![t] = l]
    BY <2>2
  <2>5. UNCHANGED <<st, cpu, who, dest, current, runqueue, incoming>>
    BY <1>9, <2>1 DEF StopWaitWaking, PreemptEnabled, qvars
  <2>6. Moves(c, t, "waking", l)
    BY <1>2, <2>3, <2>4, <2>5 DEF Moves, Waking
  <2> QED BY <2>6, PlaceMoves
<1>10. CASE SpinEnd(c, t)
  <2>1. st[t] = "running" /\ current[c] = t /\ pc[t] \in {"wt_spin", "wt_qspin"}
    BY <1>1, <1>3, <1>10, SMT DEF SpinEnd, CurrentInv
  <2>2. \E l \in {"work", "wt_loop"} : pc' = [pc EXCEPT ![t] = l]
    BY <1>10 DEF SpinEnd, Resume, Goto
  <2>3. PICK l \in {"work", "wt_loop"} : Moves(c, t, "running", l)
    BY <1>2, <1>10, <2>1, <2>2 DEF SpinEnd, Moves, qvars, cvars
  <2> QED BY <2>3, PlaceMoves
<1>11. CASE SpinSchedule(c, t)
  BY <1>11, PlaceUnmoved DEF SpinSchedule, tvars, qvars
<1>12. CASE Yield(c, t)
  BY <1>12, PlaceUnmoved DEF Yield, tvars, qvars
<1>13. ASSUME NEW u \in Threads, WakeWith(c, t, u)
       PROVE  Place'
  <2>1. st[t] = "running" /\ current[c] = t /\ pc[t] = "work"
    BY <1>1, <1>3, <1>13, SMT DEF WakeWith, CurrentInv
  <2>2. Moves(c, t, "running", "wk_cas")
    BY <1>2, <1>4, <1>13, <2>1, SMT DEF WakeWith, Moves, Goto, qvars, cvars
  <2> QED BY <2>2, PlaceMoves
<1>14. ASSUME NEW l \in {"wk_cas", "wk_mask", "wk_ipi"}, At(c, t, l), PreemptEnabled(c),
              Goto(t, "work"), UNCHANGED <<st, cpu, incoming>>,
              who' = [who EXCEPT ![t] = t], dest' = [dest EXCEPT ![t] = BootCpu]
       PROVE  Place'
  <2>1. current[c] = t /\ pc[t] = l
    BY <1>3, <1>14
  <2>2. st[t] = "running"
    BY <1>1, <1>14, <2>1 DEF CurrentInv, Waking
  <2>3. Moves(c, t, "running", "work")
    BY <1>2, <1>4, <1>14, <2>1, <2>2, SMT DEF PreemptEnabled, Moves, Goto
  <2> QED BY <2>3, PlaceMoves
<1>15. CASE WakeDiscarded(c, t)
  <2>1. PreemptEnabled(c)
    BY <1>1, <1>15, PreemptEnableEffect DEF WakeDiscarded, WakeReturn
  <2> QED BY <1>14, <1>15, <2>1 DEF WakeDiscarded, WakeReturn, qvars
<1>16. CASE WakeMask(c, t)
  <2>1. PreemptEnabled(c)
    BY <1>1, <1>16, PreemptEnableEffect DEF WakeMask, WakeReturn
  <2> QED BY <1>14, <1>16, <2>1 DEF WakeMask, WakeReturn
<1>17. CASE WakeIpi(c, t)
  <2>1. PreemptEnabled(c)
    BY <1>1, <1>17, PreemptEnableEffect DEF WakeIpi, WakeReturn
  <2> QED BY <1>14, <1>17, <2>1 DEF WakeIpi, WakeReturn, qvars
<1>18. CASE WakeMaskFirst(c, t)
  <2>1. st[t] = "running" /\ current[c] = t /\ pc[t] = "wk_mask"
    BY <1>1, <1>3, <1>18 DEF WakeMaskFirst, CurrentInv, Waking
  <2>2. Moves(c, t, "running", "wk_ipi")
    BY <1>2, <1>18, <2>1 DEF WakeMaskFirst, Moves, Goto, cvars
  <2> QED BY <2>2, PlaceMoves
<1> QED
  BY <1>5, <1>6, <1>7, <1>8, <1>9, <1>10, <1>11, <1>12, <1>13, <1>15, <1>16,
     <1>17, <1>18,
     PlaceStart, PlaceWakeCas, PlaceWakeLoadCpu, PlaceWakePush DEF ThreadStep, ThreadCall

\* So does every step of a CPU's scheduler, and every interrupt.
LEMMA PlaceCpu ==
    ASSUME Place, TypeInv', NEW c \in Cpus,
           CpuStep(c) \/ WakeupInterrupt(c) \/ TimerInterrupt(c)
    PROVE  Place'
<1>1. CASE \/ NothingIncoming(c) \/ ClearMask(c) \/ \E s \in Cpus : QueueEmpty(c, s)
           \/ KeepRunning(c)
  BY <1>1, PlaceUnmoved DEF NothingIncoming, ClearMask, QueueEmpty,
     KeepRunning, tvars, qvars
<1>2. CASE \/ IdleStart(c) \/ IdlePollAgain(c) \/ IdlePollEnd(c) \/ IdleHalt(c)
           \/ IdleInterrupt(c) \/ IdleAgain(c) \/ IdleEnd(c)
  BY <1>2, PlaceUnmoved DEF IdleStart, IdlePollAgain, IdlePollEnd, IdleHalt,
     IdleInterrupt,
                            IdleAgain, IdleEnd, tvars, qvars
<1>3. CASE WakeupInterrupt(c) \/ TimerInterrupt(c)
  BY <1>3, PlaceUnmoved DEF WakeupInterrupt, TimerInterrupt, tvars, qvars
<1> QED
  BY <1>1, <1>2, <1>3, PlaceIncoming, PlaceSwitchTo, PlaceSwitchToIdle
     DEF CpuStep

-----------------------------------------------------------------------------
(***************************************************************************)
(* What a CPU may rely on before it halts.  A step of one CPU leaves the   *)
(* others as they are, up to the queues of which it is the waker.          *)
(***************************************************************************)
LEMMA LookElsewhere ==
    ASSUME NEW d \in Cpus, Look(d), UNCHANGED <<pc, dest, cpu>>,
           current'[d] = current[d], runqueue'[d] = runqueue[d], incoming'[d] = incoming[d],
           mask'[d] = mask[d], draining'[d] = draining[d], cpc'[d] = cpc[d],
           after'[d] = after[d], ipi'[d] = ipi[d], idle_poll'[d] = idle_poll[d]
    PROVE  Look(d)'
BY DEF Look, IdleInv, NotedInv, ToldInv, Idles, LastLook

\* A CPU that runs a thread stays where it is or starts to reschedule, so it is not
\* about to halt, and the others are about to if they were.
LEMMA IdleThread ==
    ASSUME TypeInv, NEW c \in Cpus, cpc[c] = "run", PreemptEnabled(c), UNCHANGED idle_poll,
           \A d \in Cpus : Look(d)
    PROVE  \A d \in Cpus : /\ IdleInv(d)'
                           /\ LastLook(d)' => d # c /\ LastLook(d) /\ cpc'[d] = cpc[d]
<1> TAKE d \in Cpus
<1>1. IdleInv(d)
  BY DEF Look
<1>2. UNCHANGED <<current, runqueue, draining>>
  BY DEF PreemptEnabled
<1>3. CASE UNCHANGED <<cpc, after>>
  BY <1>1, <1>2, <1>3 DEF IdleInv, Idles, LastLook, IdleAt
<1>4. CASE /\ cpc' = [cpc EXCEPT ![c] = "clear"]
           /\ after' = [after EXCEPT ![c] = "pick"]
  <2>1. CASE d = c
    <3>1. cpc'[d] = "clear" /\ after'[d] = "pick"
      BY <1>4, <2>1 DEF TypeInv
    <3>2. draining[d] = {}
      BY <1>1, <2>1 DEF IdleInv
    <3> QED BY <1>2, <3>1, <3>2 DEF IdleInv, Idles, LastLook, IdleAt
  <2>2. CASE d # c
    <3>1. cpc'[d] = cpc[d] /\ after'[d] = after[d]
      BY <1>4, <2>2 DEF TypeInv
    <3> QED BY <1>1, <1>2, <2>2, <3>1 DEF IdleInv, Idles, LastLook
  <2> QED BY <2>1, <2>2
<1> QED BY <1>3, <1>4 DEF PreemptEnabled

\* A step that does not touch the queues of incoming wake-ups.
LEMMA LookQuiet ==
    ASSUME TypeInv, NEW c \in Cpus, cpc[c] = "run", PreemptEnabled(c),
           \A d \in Cpus : Look(d), UNCHANGED <<incoming, mask, ipi, idle_poll>>,
           \A u \in Threads : pc[u] \in {"wk_mask", "wk_ipi"} =>
               pc'[u] = pc[u] /\ dest'[u] = dest[u] /\ cpu'[u] = cpu[u]
    PROVE  \A d \in Cpus : Look(d)'
<1> TAKE d \in Cpus
<1>1. IdleInv(d)' /\ (LastLook(d)' => LastLook(d) /\ cpc'[d] = cpc[d])
  BY IdleThread
<1>2. NotedInv(d) /\ ToldInv(d)
  BY DEF Look
<1>3. UNCHANGED <<runqueue, draining>>
  BY DEF PreemptEnabled
<1>4. NotedInv(d)'
  BY <1>2, <1>3, SMTT(40) DEF NotedInv
<1>5. ToldInv(d)'
  BY <1>1, <1>2, <1>3 DEF ToldInv
<1> QED BY <1>1, <1>4, <1>5 DEF Look

\* A push leaves its waker on the way to the mask.
LEMMA LookWakePush ==
    ASSUME SchedInv, NEW c \in Cpus, NEW t \in Threads, WakePush(c, t)
    PROVE  \A d \in Cpus : Look(d)'
<1>1. /\ cpc[c] = "run" /\ pc[t] = "wk_push" /\ pc' = [pc EXCEPT ![t] = "wk_mask"]
      /\ UNCHANGED <<cpu, dest, mask, ipi, idle_poll, runqueue, draining>> /\ PreemptEnabled(c)
      /\ incoming' = [incoming EXCEPT ![dest[t]][cpu[t]] = Append(@, who[t])]
  BY DEF WakePush, At, Goto, PreemptEnabled, cvars, ivars
<1>2. /\ pc \in [Threads -> {"work"} \cup Waiting \cup Waking]
      /\ dest \in [Threads -> Cpus] /\ cpu \in [Threads -> Cpus]
      /\ incoming \in [Cpus -> [Cpus -> Seq(Threads)]] /\ TypeInv
  BY DEF SchedInv, Place, TypeInv
<1>3. /\ pc'[t] = "wk_mask"
      /\ \A u \in Threads : u # t => pc'[u] = pc[u]
      /\ \A d, s \in Cpus : d # dest[t] \/ s # cpu[t] => incoming'[d][s] = incoming[d][s]
  BY <1>1, <1>2
<1> TAKE d \in Cpus
<1>4. IdleInv(d)' /\ (LastLook(d)' => LastLook(d) /\ cpc'[d] = cpc[d])
  BY <1>1, <1>2, IdleThread DEF SchedInv
<1>5. NotedInv(d) /\ ToldInv(d)
  BY DEF SchedInv, Look
<1>6. NotedInv(d)'
  <2>1. UNCHANGED <<cpu, dest, mask, draining>> /\ pc[t] # "wk_mask"
    BY <1>1
  <2> SUFFICES ASSUME NEW s \in Cpus, incoming'[d][s] # <<>>
               PROVE  \/ s \in mask[d] \cup draining[d]
                      \/ \E u \in Threads : pc'[u] = "wk_mask" /\ dest[u] = d /\ cpu[u] = s
    BY <2>1 DEF NotedInv
  <2>2. CASE d = dest[t] /\ s = cpu[t]
    BY <1>3, <2>2
  <2>3. CASE d # dest[t] \/ s # cpu[t]
    BY <1>3, <1>5, <2>1, <2>3 DEF NotedInv
  <2> QED BY <2>2, <2>3
<1>7. ToldInv(d)'
  BY <1>1, <1>3, <1>4, <1>5 DEF ToldInv
<1> QED BY <1>4, <1>6, <1>7 DEF Look

\* The waker that finds the mask empty goes on to the interrupt.
LEMMA LookWakeMaskFirst ==
    ASSUME SchedInv, NEW c \in Cpus, NEW t \in Threads, WakeMaskFirst(c, t)
    PROVE  \A d \in Cpus : Look(d)'
<1>1. /\ cpc[c] = "run" /\ pc[t] = "wk_mask" /\ pc' = [pc EXCEPT ![t] = "wk_ipi"]
      /\ UNCHANGED <<cpu, dest, incoming, ipi, idle_poll, runqueue, draining>>
      /\ PreemptEnabled(c)
      /\ mask[dest[t]] = {} /\ mask' = [mask EXCEPT ![dest[t]] = {cpu[t]}]
  BY DEF WakeMaskFirst, At, Goto, PreemptEnabled, cvars, ivars
<1>2. /\ pc \in [Threads -> {"work"} \cup Waiting \cup Waking]
      /\ dest \in [Threads -> Cpus] /\ mask \in [Cpus -> SUBSET Cpus] /\ TypeInv
  BY DEF SchedInv, Place, TypeInv
<1>3. /\ pc'[t] = "wk_ipi"
      /\ \A u \in Threads : u # t => pc'[u] = pc[u]
      /\ mask'[dest[t]] = {cpu[t]}
      /\ \A d \in Cpus : d # dest[t] => mask'[d] = mask[d]
  BY <1>1, <1>2
<1> TAKE d \in Cpus
<1>4. IdleInv(d)' /\ (LastLook(d)' => LastLook(d) /\ cpc'[d] = cpc[d])
  BY <1>1, <1>2, IdleThread DEF SchedInv
<1>5. NotedInv(d) /\ ToldInv(d)
  BY DEF SchedInv, Look
<1>6. NotedInv(d)'
  BY <1>1, <1>3, <1>5, SMT DEF NotedInv
<1>7. ToldInv(d)'
  BY <1>1, <1>3, <1>4, <1>5 DEF ToldInv
<1> QED BY <1>4, <1>6, <1>7 DEF Look

\* The waker finds others in the mask, who told the CPU, or the CPU is its own.
LEMMA LookWakeMask ==
    ASSUME SchedInv, NEW c \in Cpus, NEW t \in Threads, WakeMask(c, t)
    PROVE  \A d \in Cpus : Look(d)'
<1>1. /\ cpc[c] = "run" /\ pc[t] = "wk_mask" /\ current[c] = t
      /\ pc' = [pc EXCEPT ![t] = "work"]
      /\ dest' = [dest EXCEPT ![t] = BootCpu]
      /\ UNCHANGED <<cpu, incoming, ipi, idle_poll>>
      /\ mask[dest[t]] # {} \/ dest[t] = cpu[t]
      /\ mask' = [mask EXCEPT ![dest[t]] = @ \cup {cpu[t]}]
  BY DEF WakeMask, WakeReturn, At, Goto
<1>2. /\ pc \in [Threads -> {"work"} \cup Waiting \cup Waking]
      /\ dest \in [Threads -> Cpus] /\ mask \in [Cpus -> SUBSET Cpus] /\ TypeInv
  BY DEF SchedInv, Place, TypeInv
<1>3. PreemptEnabled(c) /\ UNCHANGED <<runqueue, draining>>
  <2>1. PreemptEnabled(c)
    BY <1>2, PreemptEnableEffect DEF WakeMask, WakeReturn
  <2> QED BY <2>1 DEF PreemptEnabled
<1>4. /\ pc'[t] = "work"
      /\ \A u \in Threads : u # t => pc'[u] = pc[u] /\ dest'[u] = dest[u]
      /\ mask'[dest[t]] = mask[dest[t]] \cup {cpu[t]}
      /\ \A d \in Cpus : d # dest[t] => mask'[d] = mask[d]
  BY <1>1, <1>2
<1>5. cpu[t] = c
  BY <1>1 DEF SchedInv, Place, CurrentInv
<1> TAKE d \in Cpus
<1>6. IdleInv(d)' /\ (LastLook(d)' => d # c /\ LastLook(d) /\ cpc'[d] = cpc[d])
  BY <1>1, <1>2, <1>3, IdleThread DEF SchedInv
<1>7. NotedInv(d) /\ ToldInv(d)
  BY DEF SchedInv, Look
<1>8. NotedInv(d)'
  <2>1. SUFFICES ASSUME NEW s \in Cpus, incoming[d][s] # <<>>
                 PROVE  \/ s \in mask'[d] \cup draining'[d]
                        \/ \E u \in Threads : pc'[u] = "wk_mask" /\ dest'[u] = d /\ cpu'[u] = s
    BY <1>1 DEF NotedInv
  <2>2. UNCHANGED <<draining, cpu>> /\ mask[d] \subseteq mask'[d]
    BY <1>1, <1>3, <1>4
  <2>3. CASE s \in mask[d] \cup draining[d]
    BY <2>2, <2>3
  <2>4. ASSUME NEW u \in Threads, pc[u] = "wk_mask", dest[u] = d, cpu[u] = s, u = t
        PROVE  s \in mask'[d]
    BY <1>4, <2>4
  <2>5. ASSUME NEW u \in Threads, pc[u] = "wk_mask", dest[u] = d, cpu[u] = s, u # t
        PROVE  pc'[u] = "wk_mask" /\ dest'[u] = d /\ cpu'[u] = s
    BY <1>4, <2>2, <2>5
  <2> QED BY <1>7, <2>1, <2>3, <2>4, <2>5 DEF NotedInv
<1>9. ToldInv(d)'
  BY <1>1, <1>3, <1>4, <1>5, <1>6, <1>7 DEF ToldInv
<1> QED BY <1>6, <1>8, <1>9 DEF Look

\* send_wakeup_ipi() does not leave out the interrupt that is needed.
LEMMA LookWakeIpi ==
    ASSUME SchedInv, NEW c \in Cpus, NEW t \in Threads, WakeIpi(c, t)
    PROVE  \A d \in Cpus : Look(d)'
<1>1. /\ cpc[c] = "run" /\ pc[t] = "wk_ipi"
      /\ pc' = [pc EXCEPT ![t] = "work"]
      /\ dest' = [dest EXCEPT ![t] = BootCpu]
      /\ UNCHANGED <<cpu, incoming, mask, idle_poll>>
  BY DEF WakeIpi, WakeReturn, At, Goto, qvars
<1>2. /\ pc \in [Threads -> {"work"} \cup Waiting \cup Waking]
      /\ dest \in [Threads -> Cpus] /\ TypeInv /\ ipi \in [Cpus -> BOOLEAN]
  BY DEF SchedInv, Place, TypeInv
<1>3. PreemptEnabled(c) /\ UNCHANGED <<runqueue, draining>>
  <2>1. PreemptEnabled(c)
    BY <1>2, PreemptEnableEffect DEF WakeIpi, WakeReturn
  <2> QED BY <2>1 DEF PreemptEnabled
<1>4. /\ pc'[t] = "work"
      /\ \A u \in Threads : u # t => pc'[u] = pc[u] /\ dest'[u] = dest[u]
  BY <1>1, <1>2
<1>5. /\ \A d \in Cpus : ipi[d] => ipi'[d]
      /\ ~idle_poll[dest[t]] /\ Size(dest[t]) <= 1 => ipi'[dest[t]]
  BY <1>2 DEF WakeIpi
<1> TAKE d \in Cpus
<1>6. IdleInv(d)' /\ (LastLook(d)' => d # c /\ LastLook(d) /\ cpc'[d] = cpc[d])
  BY <1>1, <1>2, <1>3, IdleThread DEF SchedInv
<1>7. NotedInv(d) /\ ToldInv(d) /\ IdleInv(d)
  BY DEF SchedInv, Look
<1>8. NotedInv(d)'
  BY <1>1, <1>3, <1>4, <1>7, SMT DEF NotedInv
<1>9. ASSUME LastLook(d), runqueue[d] = {}
      PROVE  ~idle_poll[d] /\ Size(d) <= 1
  <2>1. current[d] = Idle /\ ~idle_poll[d]
    BY <1>7, <1>9 DEF IdleInv, Idles, LastLook, IdleAt
  <2>2. Cardinality(runqueue[d]) = 0
    BY <1>9, FS_EmptySet
  <2> QED BY <2>1, <2>2, SMT DEF Size
<1>10. ToldInv(d)'
  BY <1>1, <1>3, <1>4, <1>5, <1>6, <1>7, <1>9 DEF ToldInv
<1> QED BY <1>6, <1>8, <1>10 DEF Look

\* No step of a thread spoils what a CPU relies on.
LEMMA LookThread ==
    ASSUME SchedInv, NEW c \in Cpus, NEW t \in Threads, ThreadStep(c, t) \/ ThreadCall(c, t)
    PROVE  \A d \in Cpus : Look(d)'
<1>1. TypeInv /\ UnstartedInv /\ \A d \in Cpus : Look(d)
  BY DEF SchedInv, Place
<1>2. /\ pc \in [Threads -> {"work"} \cup Waiting \cup Waking]
      /\ dest \in [Threads -> Cpus] /\ cpu \in [Threads -> Cpus]
  BY <1>1 DEF TypeInv
<1>3. \A l : At(c, t, l) => cpc[c] = "run" /\ pc[t] = l
  BY DEF At
<1>4. ASSUME PreemptEnabled(c), cpc[c] = "run", pc[t] \notin {"wk_mask", "wk_ipi"},
             \A u \in Threads : u # t => pc'[u] = pc[u],
             UNCHANGED <<dest, cpu, incoming, mask, ipi, idle_poll>>
      PROVE  \A d \in Cpus : Look(d)'
  BY <1>1, <1>4, LookQuiet
<1>5. ASSUME Reschedule(c), UNCHANGED <<current, runqueue, draining>>
      PROVE  PreemptEnabled(c)
  BY <1>5 DEF Reschedule, Poll, PreemptEnabled
<1>6. CASE PrepareWait(c, t)
  <2>1. PreemptEnabled(c)
    BY <1>6 DEF PrepareWait, PreemptEnabled, cvars
  <2>2. pc[t] \in {"work", "wt_loop"} /\ cpc[c] = "run"
    BY <1>3, <1>6 DEF PrepareWait
  <2>3. \A u \in Threads : u # t => pc'[u] = pc[u]
    BY <1>2, <1>6 DEF PrepareWait, Goto
  <2>4. UNCHANGED <<dest, cpu, incoming, mask, ipi, idle_poll>>
    BY <1>6 DEF PrepareWait, qvars, ivars
  <2> QED BY <1>4, <2>1, <2>2, <2>3, <2>4
<1>7. CASE PredicateTrue(c, t)
  <2>1. PreemptEnabled(c)
    BY <1>7 DEF PredicateTrue, PreemptEnabled, cvars
  <2>2. pc[t] = "wt_pred" /\ cpc[c] = "run"
    BY <1>3, <1>7 DEF PredicateTrue
  <2>3. \A u \in Threads : u # t => pc'[u] = pc[u]
    BY <1>2, <1>7 DEF PredicateTrue, Goto
  <2>4. UNCHANGED <<dest, cpu, incoming, mask, ipi, idle_poll>>
    BY <1>7 DEF PredicateTrue, qvars, ivars
  <2> QED BY <1>4, <2>1, <2>2, <2>3, <2>4
<1>8. CASE Wait(c, t)
  <2>1. PreemptEnabled(c)
    BY <1>5, <1>8 DEF Wait
  <2>2. pc[t] = "wt_pred" /\ cpc[c] = "run"
    BY <1>3, <1>8 DEF Wait
  <2>3. \A u \in Threads : u # t => pc'[u] = pc[u]
    BY <1>2, <1>8 DEF Wait, Goto
  <2>4. UNCHANGED <<dest, cpu, incoming, mask, ipi, idle_poll>>
    BY <1>8 DEF Wait, Reschedule, Poll, qvars
  <2> QED BY <1>4, <2>1, <2>2, <2>3, <2>4
<1>9. CASE StopWait(c, t)
  <2>1. PreemptEnabled(c)
    BY <1>1, <1>9, PreemptEnableEffect DEF StopWait
  <2>2. pc[t] \in {"wt_stop", "wt_quit"} /\ cpc[c] = "run"
    BY <1>3, <1>9 DEF StopWait
  <2>3. \A u \in Threads : u # t => pc'[u] = pc[u]
    BY <1>2, <1>9 DEF StopWait, Resume, Goto
  <2>4. UNCHANGED <<dest, cpu, incoming, mask, ipi, idle_poll>>
    BY <1>9 DEF StopWait, qvars
  <2> QED BY <1>4, <2>1, <2>2, <2>3, <2>4
<1>10. CASE StopWaitWaking(c, t)
  <2>1. PreemptEnabled(c)
    BY <1>1, <1>10, PreemptEnableEffect DEF StopWaitWaking
  <2>2. pc[t] \in {"wt_stop", "wt_quit"} /\ cpc[c] = "run"
    BY <1>3, <1>10 DEF StopWaitWaking
  <2>3. \A u \in Threads : u # t => pc'[u] = pc[u]
    BY <1>2, <1>10 DEF StopWaitWaking, Goto
  <2>4. UNCHANGED <<dest, cpu, incoming, mask, ipi, idle_poll>>
    BY <1>10 DEF StopWaitWaking, qvars
  <2> QED BY <1>4, <2>1, <2>2, <2>3, <2>4
<1>11. CASE SpinSchedule(c, t)
  <2>1. PreemptEnabled(c)
    BY <1>5, <1>11 DEF SpinSchedule
  <2>2. pc[t] \in {"wt_spin", "wt_qspin"} /\ cpc[c] = "run"
    BY <1>3, <1>11 DEF SpinSchedule
  <2>3. \A u \in Threads : u # t => pc'[u] = pc[u]
    BY <1>2, <1>11 DEF SpinSchedule, tvars
  <2>4. UNCHANGED <<dest, cpu, incoming, mask, ipi, idle_poll>>
    BY <1>11 DEF SpinSchedule, Reschedule, Poll, tvars, qvars
  <2> QED BY <1>4, <2>1, <2>2, <2>3, <2>4
<1>12. CASE SpinEnd(c, t)
  <2>1. PreemptEnabled(c)
    BY <1>12 DEF SpinEnd, PreemptEnabled, cvars
  <2>2. pc[t] \in {"wt_spin", "wt_qspin"} /\ cpc[c] = "run"
    BY <1>3, <1>12 DEF SpinEnd
  <2>3. \A u \in Threads : u # t => pc'[u] = pc[u]
    BY <1>2, <1>12 DEF SpinEnd, Resume, Goto
  <2>4. UNCHANGED <<dest, cpu, incoming, mask, ipi, idle_poll>>
    BY <1>12 DEF SpinEnd, qvars, ivars
  <2> QED BY <1>4, <2>1, <2>2, <2>3, <2>4
<1>13. CASE WakeDiscarded(c, t)
  <2>1. PreemptEnabled(c)
    BY <1>1, <1>13, PreemptEnableEffect DEF WakeDiscarded, WakeReturn
  <2>2. pc[t] = "wk_cas" /\ pc' = [pc EXCEPT ![t] = "work"]
    BY <1>3, <1>13 DEF WakeDiscarded, WakeReturn, Goto
  <2>3. \A u \in Threads : u # t => pc'[u] = pc[u] /\ dest'[u] = dest[u]
    BY <1>2, <1>13, <2>2 DEF WakeDiscarded, WakeReturn
  <2>4. UNCHANGED <<cpu, incoming, mask, ipi, idle_poll>> /\ cpc[c] = "run"
    BY <1>3, <1>13 DEF WakeDiscarded, qvars
  <2> QED BY <1>1, <2>1, <2>2, <2>3, <2>4, LookQuiet
<1>14. CASE WakeCas(c, t)
  <2>1. PreemptEnabled(c)
    BY <1>14 DEF WakeCas, PreemptEnabled, cvars
  <2>2. pc[t] = "wk_cas" /\ cpc[c] = "run"
    BY <1>3, <1>14 DEF WakeCas
  <2>3. \A u \in Threads : u # t => pc'[u] = pc[u]
    BY <1>2, <1>14 DEF WakeCas, Goto
  <2>4. UNCHANGED <<dest, cpu, incoming, mask, ipi, idle_poll>>
    BY <1>14 DEF WakeCas, qvars, ivars
  <2> QED BY <1>4, <2>1, <2>2, <2>3, <2>4
<1>15. CASE WakeLoadCpu(c, t)
  <2>1. PreemptEnabled(c)
    BY <1>15 DEF WakeLoadCpu, PreemptEnabled, cvars
  <2>2. pc[t] = "wk_cpu" /\ cpc[c] = "run"
    BY <1>3, <1>15 DEF WakeLoadCpu
  <2>3. \A u \in Threads : u # t => pc'[u] = pc[u] /\ dest'[u] = dest[u]
    BY <1>2, <1>15 DEF WakeLoadCpu, Goto
  <2>4. UNCHANGED <<cpu, incoming, mask, ipi, idle_poll>>
    BY <1>15 DEF WakeLoadCpu, qvars, ivars
  <2> QED BY <1>1, <2>1, <2>2, <2>3, <2>4, LookQuiet
<1>16. CASE Yield(c, t)
  <2>1. PreemptEnabled(c)
    BY <1>5, <1>16 DEF Yield
  <2>2. pc[t] = "work" /\ cpc[c] = "run"
    BY <1>3, <1>16 DEF Yield
  <2>3. \A u \in Threads : u # t => pc'[u] = pc[u]
    BY <1>2, <1>16 DEF Yield, tvars
  <2>4. UNCHANGED <<dest, cpu, incoming, mask, ipi, idle_poll>>
    BY <1>16 DEF Yield, Reschedule, Poll, tvars, qvars
  <2> QED BY <1>4, <2>1, <2>2, <2>3, <2>4
<1>17. ASSUME NEW u \in Threads, WakeWith(c, t, u)
       PROVE  \A d \in Cpus : Look(d)'
  <2>1. PreemptEnabled(c)
    BY <1>17 DEF WakeWith, PreemptEnabled, cvars
  <2>2. pc[t] = "work" /\ cpc[c] = "run"
    BY <1>3, <1>17 DEF WakeWith
  <2>3. \A x \in Threads : x # t => pc'[x] = pc[x]
    BY <1>2, <1>17 DEF WakeWith, Goto
  <2>4. UNCHANGED <<dest, cpu, incoming, mask, ipi, idle_poll>>
    BY <1>17 DEF WakeWith, qvars, ivars
  <2> QED BY <1>4, <2>1, <2>2, <2>3, <2>4
<1>18. ASSUME NEW u \in Threads, Start(c, t, u)
       PROVE  \A d \in Cpus : Look(d)'
  <2>1. PreemptEnabled(c)
    BY <1>18 DEF Start, PreemptEnabled, cvars
  <2>2. pc[t] = "work" /\ pc[u] = "work" /\ cpc[c] = "run"
    BY <1>1, <1>3, <1>18 DEF Start, UnstartedInv
  <2>3. /\ \A x \in Threads : x # t => pc'[x] = pc[x]
        /\ \A x \in Threads : x # u => cpu'[x] = cpu[x]
        /\ UNCHANGED <<dest, incoming, mask, ipi, idle_poll>>
    BY <1>2, <1>18 DEF Start, Goto, qvars, ivars
  <2> QED BY <1>1, <2>1, <2>2, <2>3, LookQuiet
<1> QED
  BY <1>6, <1>7, <1>8, <1>9, <1>10, <1>11, <1>12, <1>13, <1>14, <1>15, <1>16,
     <1>17, <1>18,
     LookWakePush, LookWakeMaskFirst, LookWakeMask, LookWakeIpi DEF ThreadStep, ThreadCall

-----------------------------------------------------------------------------
\* The state of CPU d, as its scheduler code knows it.
Same(d) ==
    /\ current'[d] = current[d] /\ runqueue'[d] = runqueue[d] /\ incoming'[d] = incoming[d]
    /\ mask'[d] = mask[d] /\ draining'[d] = draining[d] /\ cpc'[d] = cpc[d]
    /\ after'[d] = after[d] /\ ipi'[d] = ipi[d] /\ idle_poll'[d] = idle_poll[d]

\* A step of CPU c leaves the others what they rely on.
LEMMA LookHere ==
    ASSUME \A d \in Cpus : Look(d), NEW c \in Cpus, UNCHANGED <<pc, dest, cpu>>,
           \A d \in Cpus \ {c} : Same(d), Look(c)'
    PROVE  \A d \in Cpus : Look(d)'
<1> TAKE d \in Cpus
<1>1. CASE d = c
  BY <1>1
<1>2. CASE d # c
  BY <1>2, LookElsewhere DEF Same
<1> QED BY <1>1, <1>2

\* handle_incoming_wakeups() takes what the mask says and looks at every queue that it names.
LEMMA LookDrain ==
    ASSUME SchedInv, NEW c \in Cpus,
           \/ NothingIncoming(c) \/ ClearMask(c)
           \/ \E s \in Cpus : Incoming(c, s) \/ QueueEmpty(c, s)
    PROVE  \A d \in Cpus : Look(d)'
<1>1. TypeInv /\ (\A d \in Cpus : Look(d)) /\ IdleInv(c) /\ NotedInv(c) /\ ToldInv(c)
  BY DEF SchedInv, Place, Look
<1>2. CASE NothingIncoming(c)
  <2>1. /\ UNCHANGED <<pc, dest, cpu, incoming, mask, current, runqueue, draining, ipi, idle_poll>>
        /\ \A d \in Cpus \ {c} : cpc'[d] = cpc[d] /\ after'[d] = after[d]
        /\ cpc[c] = "clear" /\ mask[c] = {} /\ cpc'[c] = after[c]
    BY <1>1, <1>2 DEF NothingIncoming, Handled, TypeInv, tvars, qvars, ivars
  <2>2. after[c] \in {"pick", "id_polled", "id_checked", "id_awake"}
    BY <1>1 DEF TypeInv
  <2>3. IdleInv(c)' /\ NotedInv(c)' /\ ToldInv(c)'
    BY <1>1, <2>1, <2>2 DEF IdleInv, NotedInv, ToldInv, Idles, LastLook, IdleAt
  <2>4. Look(c)' /\ \A d \in Cpus \ {c} : Same(d)
    BY <2>1, <2>3 DEF Look, Same
  <2> QED BY <1>1, <2>1, <2>4, LookHere
<1>3. CASE ClearMask(c)
  <2>1. /\ UNCHANGED <<pc, dest, cpu, incoming, current, runqueue, after, ipi, idle_poll>>
        /\ \A d \in Cpus \ {c} :
               cpc'[d] = cpc[d] /\ mask'[d] = mask[d] /\ draining'[d] = draining[d]
        /\ cpc[c] = "clear" /\ cpc'[c] = "drain" /\ mask'[c] = {} /\ draining'[c] = mask[c]
    BY <1>1, <1>3 DEF ClearMask, TypeInv, tvars, ivars
  <2>2. IdleInv(c)' /\ NotedInv(c)' /\ ToldInv(c)'
    BY <1>1, <2>1 DEF IdleInv, NotedInv, ToldInv, Idles, LastLook, IdleAt
  <2>3. Look(c)' /\ \A d \in Cpus \ {c} : Same(d)
    BY <2>1, <2>2 DEF Look, Same
  <2> QED BY <1>1, <2>1, <2>3, LookHere
<1>4. ASSUME NEW s \in Cpus, Incoming(c, s)
      PROVE  \A d \in Cpus : Look(d)'
  <2>1. /\ UNCHANGED <<pc, dest, cpu, mask, current, draining, cpc, after, ipi, idle_poll>>
        /\ cpc[c] = "drain" /\ s \in draining[c]
        /\ incoming' = [incoming EXCEPT ![c][s] = Tail(@)]
    BY <1>4 DEF Incoming, ivars
  <2>2. /\ \A d \in Cpus \ {c} : runqueue'[d] = runqueue[d]
        /\ runqueue[c] \subseteq runqueue'[c]
    BY <1>1, <1>4 DEF Incoming, TypeInv
  <2>3. /\ \A d \in Cpus \ {c} : incoming'[d] = incoming[d]
        /\ \A b \in Cpus : b # s => incoming'[c][b] = incoming[c][b]
    BY <1>1, <2>1 DEF TypeInv
  <2>4. IdleInv(c)'
    BY <1>1, <2>1 DEF IdleInv, Idles, LastLook
  <2>5. NotedInv(c)'
    <3>1. UNCHANGED <<pc, dest, cpu, mask, draining>> /\ s \in draining[c]
      BY <2>1
    <3> QED BY <1>1, <2>3, <3>1 DEF NotedInv
  <2>6. ToldInv(c)'
    BY <1>1, <2>1, <2>2 DEF ToldInv, LastLook
  <2>7. Look(c)' /\ \A d \in Cpus \ {c} : Same(d)
    BY <2>1, <2>2, <2>3, <2>4, <2>5, <2>6 DEF Look, Same
  <2> QED BY <1>1, <2>1, <2>7, LookHere
<1>5. ASSUME NEW s \in Cpus, QueueEmpty(c, s)
      PROVE  \A d \in Cpus : Look(d)'
  <2>1. /\ UNCHANGED <<pc, dest, cpu, incoming, mask, current, runqueue, ipi, idle_poll>>
        /\ cpc[c] = "drain" /\ incoming[c][s] = <<>>
        /\ draining'[c] = draining[c] \ {s}
        /\ \A d \in Cpus \ {c} : draining'[d] = draining[d]
    BY <1>1, <1>5 DEF QueueEmpty, TypeInv, tvars, qvars, ivars
  <2>2. NotedInv(c)'
    BY <1>1, <2>1 DEF NotedInv
  <2>3. CASE draining[c] = {s}
    <3>1. /\ cpc'[c] = after[c] /\ draining'[c] = {}
          /\ \A d \in Cpus \ {c} : cpc'[d] = cpc[d] /\ after'[d] = after[d]
      BY <1>1, <1>5, <2>1, <2>3, SMT DEF QueueEmpty, Handled, TypeInv
    <3>2. after[c] \in {"pick", "id_polled", "id_checked", "id_awake"}
      BY <1>1 DEF TypeInv
    <3>3. IdleInv(c)' /\ ToldInv(c)'
      BY <1>1, <2>1, <3>1, <3>2 DEF IdleInv, ToldInv, Idles, LastLook, IdleAt
    <3>4. Look(c)' /\ \A d \in Cpus \ {c} : Same(d)
      BY <2>1, <2>2, <3>1, <3>3 DEF Look, Same
    <3> QED BY <1>1, <2>1, <3>4, LookHere
  <2>4. CASE draining[c] # {s}
    <3>1. UNCHANGED <<cpc, after>>
      BY <1>5, <2>4 DEF QueueEmpty
    <3>2. IdleInv(c)' /\ ToldInv(c)'
      BY <1>1, <2>1, <3>1 DEF IdleInv, ToldInv, Idles, LastLook
    <3>3. Look(c)' /\ \A d \in Cpus \ {c} : Same(d)
      BY <2>1, <2>2, <3>1, <3>2 DEF Look, Same
    <3> QED BY <1>1, <2>1, <3>3, LookHere
  <2> QED BY <2>3, <2>4
<1> QED BY <1>2, <1>3, <1>4, <1>5

\* CPU c goes on to another place of its scheduler code, to look at the queues
\* again or not, and is not about to halt.
LEMMA LookOn ==
    ASSUME \A d \in Cpus : Look(d), NEW c \in Cpus,
           UNCHANGED <<pc, dest, cpu, incoming, mask>>, draining[c] = {},
           \A d \in Cpus \ {c} : Same(d),
           draining'[c] = {}, Idles(c)' => current'[c] = Idle, ~LastLook(c)'
    PROVE  \A d \in Cpus : Look(d)'
<1>1. NotedInv(c)
  BY DEF Look
<1>2. IdleInv(c)' /\ NotedInv(c)' /\ ToldInv(c)'
  BY <1>1 DEF IdleInv, NotedInv, ToldInv, LastLook
<1> QED BY <1>2, LookHere DEF Look

\* A context switch leaves nothing undrained.
LEMMA LookSwitch ==
    ASSUME SchedInv, NEW c \in Cpus,
           KeepRunning(c) \/ SwitchToIdle(c) \/ \E n \in Threads : SwitchTo(c, n)
    PROVE  \A d \in Cpus : Look(d)'
<1>1. TypeInv /\ (\A d \in Cpus : Look(d)) /\ IdleInv(c)
  BY DEF SchedInv, Place, Look
<1>2. cpc[c] = "pick" /\ draining[c] = {}
  BY <1>1 DEF KeepRunning, SwitchToIdle, SwitchTo, IdleInv
<1>3. /\ UNCHANGED <<pc, dest, cpu, incoming, mask, draining, after, ipi, idle_poll>>
      /\ \A d \in Cpus \ {c} : current'[d] = current[d] /\ runqueue'[d] = runqueue[d]
  <2>1. CASE KeepRunning(c)
    BY <2>1 DEF KeepRunning, tvars, qvars, ivars
  <2>2. CASE SwitchToIdle(c)
    BY <1>1, <2>2 DEF SwitchToIdle, TypeInv, tvars, qvars, ivars
  <2>3. CASE \E n \in Threads : SwitchTo(c, n)
    BY <1>1, <2>3, SMTT(40) DEF SwitchTo, TypeInv, qvars, ivars
  <2> QED BY <2>1, <2>2, <2>3
<1>4. /\ \A d \in Cpus \ {c} : cpc'[d] = cpc[d]
      /\ cpc'[c] = "run" \/ (cpc'[c] = "id_start" /\ current'[c] = Idle)
  BY <1>1, SMT DEF KeepRunning, SwitchToIdle, SwitchTo, TypeInv
<1>5. \A d \in Cpus \ {c} : Same(d)
  BY <1>3, <1>4 DEF Same
<1>6. (Idles(c)' => current'[c] = Idle) /\ ~LastLook(c)'
  BY <1>4 DEF Idles, LastLook, IdleAt
<1> QED BY <1>1, <1>2, <1>3, <1>5, <1>6, LookOn

\* do_idle(): idle_poll is cleared before the last look.
LEMMA LookIdle ==
    ASSUME SchedInv, NEW c \in Cpus,
           \/ IdleStart(c) \/ IdlePollAgain(c) \/ IdlePollEnd(c) \/ IdleHalt(c)
           \/ IdleInterrupt(c) \/ IdleAgain(c) \/ IdleEnd(c)
    PROVE  \A d \in Cpus : Look(d)'
<1>1. TypeInv /\ (\A d \in Cpus : Look(d)) /\ IdleInv(c) /\ NotedInv(c) /\ ToldInv(c)
  BY DEF SchedInv, Place, Look
<1>2. cpc[c] \in IdleAt
  BY DEF IdleStart, IdlePollAgain, IdlePollEnd, IdleHalt, IdleInterrupt,
     IdleAgain, IdleEnd, IdleAt
<1>3. draining[c] = {} /\ current[c] = Idle
  BY <1>1, <1>2 DEF IdleInv, Idles, IdleAt
<1>4. UNCHANGED <<pc, dest, cpu, incoming, mask, current, runqueue, draining>>
  BY DEF IdleStart, IdlePollAgain, IdlePollEnd, IdleHalt, IdleInterrupt,
     IdleAgain, IdleEnd,
         tvars, qvars
<1>5. CASE IdlePollEnd(c)
  <2>1. /\ \A d \in Cpus \ {c} :
               cpc'[d] = cpc[d] /\ after'[d] = after[d] /\ idle_poll'[d] = idle_poll[d]
        /\ cpc'[c] = "clear" /\ after'[c] = "id_checked" /\ ~idle_poll'[c] /\ UNCHANGED ipi
    BY <1>1, <1>5 DEF IdlePollEnd, Poll, TypeInv
  <2>2. IdleInv(c)' /\ NotedInv(c)' /\ ToldInv(c)'
    BY <1>1, <1>3, <1>4, <2>1 DEF IdleInv, NotedInv, ToldInv, Idles, LastLook,
       IdleAt
  <2>3. Look(c)' /\ \A d \in Cpus \ {c} : Same(d)
    BY <1>4, <2>1, <2>2 DEF Look, Same
  <2> QED BY <1>1, <1>4, <2>3, LookHere
<1>6. CASE IdleHalt(c)
  <2>1. /\ \A d \in Cpus \ {c} : cpc'[d] = cpc[d]
        /\ cpc[c] = "id_checked" /\ cpc'[c] = "id_halt" /\ runqueue[c] = {}
        /\ UNCHANGED <<after, ipi, idle_poll>>
    BY <1>1, <1>6 DEF IdleHalt, TypeInv, ivars
  <2>2. IdleInv(c)' /\ NotedInv(c)' /\ ToldInv(c)'
    BY <1>1, <1>3, <1>4, <2>1 DEF IdleInv, NotedInv, ToldInv, Idles, LastLook,
       IdleAt
  <2>3. Look(c)' /\ \A d \in Cpus \ {c} : Same(d)
    BY <1>4, <2>1, <2>2 DEF Look, Same
  <2> QED BY <1>1, <1>4, <2>3, LookHere
<1>7. ASSUME /\ \A d \in Cpus \ {c} : /\ cpc'[d] = cpc[d] /\ after'[d] = after[d]
                                      /\ ipi'[d] = ipi[d] /\ idle_poll'[d] = idle_poll[d]
             /\ \/ cpc'[c] = "id_start"
                \/ cpc'[c] = "clear" /\ after'[c] # "id_checked"
      PROVE  \A d \in Cpus : Look(d)'
  <2>1. (Idles(c)' => current'[c] = Idle) /\ ~LastLook(c)'
    BY <1>3, <1>4, <1>7 DEF LastLook
  <2>2. \A d \in Cpus \ {c} : Same(d)
    BY <1>4, <1>7 DEF Same
  <2> QED BY <1>1, <1>3, <1>4, <2>1, <2>2, LookOn
<1>8. CASE IdleStart(c)
  BY <1>1, <1>7, <1>8 DEF IdleStart, Poll, TypeInv
<1>9. CASE IdlePollAgain(c)
  BY <1>1, <1>7, <1>9 DEF IdlePollAgain, Poll, TypeInv, ivars
<1>10. CASE IdleInterrupt(c)
  BY <1>1, <1>7, <1>10 DEF IdleInterrupt, Poll, TypeInv
<1>11. CASE IdleAgain(c)
  BY <1>1, <1>7, <1>11 DEF IdleAgain, TypeInv, ivars
<1>12. CASE IdleEnd(c)
  BY <1>1, <1>7, <1>12 DEF IdleEnd, Reschedule, Poll, TypeInv
<1> QED BY <1>5, <1>6, <1>8, <1>9, <1>10, <1>11, <1>12

\* An interrupt is not taken between the last look and the halt.
LEMMA LookInterrupt ==
    ASSUME SchedInv, NEW c \in Cpus, WakeupInterrupt(c) \/ TimerInterrupt(c)
    PROVE  \A d \in Cpus : Look(d)'
<1>1. TypeInv /\ (\A d \in Cpus : Look(d)) /\ IdleInv(c) /\ NotedInv(c)
  BY DEF SchedInv, Place, Look
<1>2. /\ UNCHANGED <<pc, dest, cpu, incoming, mask, current, runqueue, draining, idle_poll>>
      /\ \A d \in Cpus \ {c} : ipi'[d] = ipi[d]
      /\ Interruptible(c) /\ Preempt(c)
  BY <1>1 DEF WakeupInterrupt, TimerInterrupt, TypeInv, Interruptible, tvars,
     qvars
<1>3. ~LastLook(c)
  BY <1>2 DEF LastLook, Interruptible
<1>4. CASE current[c] # Idle /\ pc[current[c]] \in Preemptable
  <2>1. cpc[c] = "run" /\ draining[c] = {}
    BY <1>1, <1>2, <1>4 DEF Interruptible, IdleInv, Idles, IdleAt
  <2>2. /\ \A d \in Cpus \ {c} : cpc'[d] = cpc[d] /\ after'[d] = after[d]
        /\ cpc'[c] = "clear" /\ after'[c] = "pick"
    BY <1>1, <1>2, <1>4, SMT DEF Preempt, Reschedule, Poll, TypeInv
  <2>3. \A d \in Cpus \ {c} : Same(d)
    BY <1>2, <2>2 DEF Same
  <2>4. ~Idles(c)'
    BY <2>2 DEF Idles, IdleAt
  <2>5. ~LastLook(c)'
    BY <2>2 DEF LastLook
  <2> QED BY <1>1, <1>2, <2>1, <2>3, <2>4, <2>5, LookOn
<1>5. CASE ~(current[c] # Idle /\ pc[current[c]] \in Preemptable)
  <2>1. UNCHANGED <<cpc, after>>
    BY <1>2, <1>5 DEF Preempt
  <2>2. IdleInv(c)' /\ NotedInv(c)' /\ ToldInv(c)'
    BY <1>1, <1>2, <1>3, <2>1 DEF IdleInv, NotedInv, ToldInv, Idles, LastLook
  <2>3. Look(c)' /\ \A d \in Cpus \ {c} : Same(d)
    BY <1>2, <2>1, <2>2 DEF Look, Same
  <2> QED BY <1>1, <1>2, <2>3, LookHere
<1> QED BY <1>4, <1>5

-----------------------------------------------------------------------------
\* The invariant holds initially.
LEMMA SchedInitially == Init => SchedInv
<1> SUFFICES ASSUME Init
             PROVE  SchedInv
  OBVIOUS
<1>1. /\ \A t \in Threads : /\ st[t] = IF t = Boot THEN "running" ELSE "unstarted"
                            /\ cpu[t] = BootCpu /\ pc[t] = "work"
      /\ \A c \in Cpus : /\ current[c] = IF c = BootCpu THEN Boot ELSE Idle
                         /\ cpc[c] = IF c = BootCpu THEN "run" ELSE "id_start"
                         /\ runqueue[c] = {} /\ mask[c] = {} /\ draining[c] = {}
                         /\ after[c] = "pick" /\ ~idle_poll[c]
      /\ \A c, s \in Cpus : incoming[c][s] = <<>>
  BY SchedAssumption DEF Init
<1>2. TypeInv
  <2>1. incoming \in [Cpus -> [Cpus -> Seq(Threads)]]
    BY SMTT(40) DEF Init
  <2>2. /\ st \in [Threads -> {"unstarted", "waiting", "waking", "queued", "running"}]
        /\ cpu \in [Threads -> Cpus] /\ dest \in [Threads -> Cpus]
        /\ pc \in [Threads -> {"work"} \cup Waiting \cup Waking]
        /\ who \in [Threads -> Threads]
        /\ current \in [Cpus -> Threads \cup {Idle}]
    BY SchedAssumption DEF Init
  <2>3. /\ runqueue \in [Cpus -> SUBSET Threads] /\ mask \in [Cpus -> SUBSET Cpus]
        /\ draining \in [Cpus -> SUBSET Cpus]
        /\ cpc \in [Cpus -> {"run", "clear", "drain", "pick"} \cup IdleAt]
        /\ after \in [Cpus -> {"pick", "id_polled", "id_checked", "id_awake"}]
    BY DEF Init, IdleAt
  <2>4. ipi \in [Cpus -> BOOLEAN] /\ idle_poll \in [Cpus -> BOOLEAN]
    BY DEF Init
  <2> QED BY <2>1, <2>2, <2>3, <2>4 DEF TypeInv
<1>3. CurrentInv /\ RunningInv /\ RunqueueInv /\ UnstartedInv
  <2>1. CurrentInv
    BY <1>1, SchedAssumption, SMTT(40) DEF CurrentInv, Waking
  <2>2. RunningInv /\ RunqueueInv /\ UnstartedInv
    BY <1>1, SchedAssumption DEF RunningInv, RunqueueInv, UnstartedInv
  <2> QED BY <2>1, <2>2
<1>4. /\ \A c, s \in Cpus, t \in Threads : ~Holds(incoming[c][s], t)
      /\ \A c, s \in Cpus : Once(incoming[c][s])
      /\ \A w, t \in Threads : ~Pushes(w, t)
  <2>1. \A c, s \in Cpus : Len(incoming[c][s]) = 0
    BY <1>1, SMT
  <2>2. \A w, t \in Threads : ~Pushes(w, t)
    BY <1>1 DEF Pushes
  <2> QED BY <2>1, <2>2, SMTT(40) DEF Holds, Once
<1>5. WakingInv /\ PushInv /\ IncomingInv
  BY <1>1, <1>4 DEF WakingInv, PushInv, IncomingInv
<1>6. \A c \in Cpus : Look(c)
  BY <1>1 DEF Look, IdleInv, NotedInv, ToldInv, Idles, LastLook, IdleAt
<1> QED BY <1>2, <1>3, <1>5, <1>6 DEF SchedInv, Place

\* Every step keeps it.
LEMMA SchedStep == SchedInv /\ [Next]_vars => SchedInv'
<1> SUFFICES ASSUME SchedInv, [Next]_vars
             PROVE  SchedInv'
  OBVIOUS
<1>1. TypeInv /\ Place /\ \A c \in Cpus : Look(c)
  BY DEF SchedInv, Place
<1>2. ASSUME NEW c \in Cpus, CpuStep(c) \/ WakeupInterrupt(c) \/ TimerInterrupt(c)
      PROVE  SchedInv'
  <2>1. TypeInv'
    BY <1>1, <1>2, TypeCpu
  <2>2. Place'
    BY <1>1, <1>2, <2>1, PlaceCpu
  <2>3. \A d \in Cpus : Look(d)'
    BY <1>2, LookDrain, LookSwitch, LookIdle, LookInterrupt DEF CpuStep
  <2> QED BY <2>2, <2>3 DEF SchedInv
<1>3. ASSUME NEW c \in Cpus, NEW t \in Threads, ThreadStep(c, t) \/ ThreadCall(c, t)
      PROVE  SchedInv'
  <2>1. TypeInv'
    BY <1>1, <1>3, TypeThread
  <2>2. Place' /\ \A d \in Cpus : Look(d)'
    BY <1>1, <1>3, <2>1, PlaceThread, LookThread
  <2> QED BY <2>2 DEF SchedInv
<1>4. CASE UNCHANGED vars
  <2>1. TypeInv'
    BY <1>1, <1>4 DEF TypeInv, vars, tvars, qvars, cvars, ivars
  <2>2. Place'
    BY <1>1, <1>4, <2>1, PlaceUnmoved DEF vars, tvars, qvars, cvars
  <2>3. \A d \in Cpus : Look(d)'
    BY <1>1, <1>4, LookElsewhere DEF vars, tvars, qvars, cvars, ivars
  <2> QED BY <2>2, <2>3 DEF SchedInv
<1> QED BY <1>2, <1>3, <1>4 DEF Next

\* Every thread is where its status says, and a CPU that takes its last look at the
\* incoming queues before it halts is told of what it may have missed.
THEOREM SchedInvariant == Spec => []SchedInv
BY SchedInitially, SchedStep, PTL DEF Spec

\* thread::_detached_state and the run queues: a thread runs on, or is queued on,
\* one CPU at a time, and never both.
THEOREM OneCpuHolds == Spec => []OneCpu
<1>1. SchedInv => OneCpu
  BY SMT DEF SchedInv, Place, CurrentInv, RunqueueInv, OneCpu
<1> QED BY <1>1, SchedInvariant, PTL

\* detached_state::st against the queues: the status of a thread says where the thread
\* is, and a thread that is being woken is on its way to its CPU exactly once.
THEOREM StatusAgreesHolds == Spec => []StatusAgrees
<1>1. ASSUME SchedInv, NEW t \in Threads
      PROVE  /\ Pushing(t) <=> \E w \in Threads : Pushes(w, t)
             /\ Queued(t) <=> \E s \in Cpus : Holds(incoming[cpu[t]][s], t)
             /\ cpu[t] \in Cpus
  <2>1. PushInv /\ cpu[t] \in Cpus /\ \A s \in Cpus : incoming[cpu[t]][s] \in Seq(Threads)
    BY <1>1 DEF SchedInv, Place, TypeInv
  <2>2. Pushing(t) <=> \E w \in Threads : Pushes(w, t)
    BY <2>1 DEF PushInv, Pushing, Pushes
  <2>3. \A s \in Cpus : DOMAIN incoming[cpu[t]][s] = 1..Len(incoming[cpu[t]][s])
    BY <2>1, SMT
  <2> QED BY <2>1, <2>2, <2>3 DEF Queued, Holds
<1>2. SchedInv => StatusAgrees
  <2> SUFFICES ASSUME SchedInv, NEW t \in Threads
               PROVE  /\ st[t] = "running" => current[cpu[t]] = t
                      /\ st[t] = "queued" <=> \E c \in Cpus : t \in runqueue[c]
                      /\ st[t] = "waking" <=> Pushing(t) \/ Queued(t)
                      /\ ~(Pushing(t) /\ Queued(t))
    BY DEF StatusAgrees
  <2>1. RunningInv /\ RunqueueInv /\ WakingInv /\ PushInv /\ IncomingInv
    BY DEF SchedInv, Place
  <2> QED BY <1>1, <2>1 DEF RunningInv, RunqueueInv, WakingInv, PushInv, IncomingInv
<1> QED BY <1>2, SchedInvariant, PTL

\* The asserts of prepare_wait(), stop_wait() and reschedule_from_interrupt() never fail.
THEOREM AssertionsHoldAlways == Spec => []AssertionsHold
<1>1. SchedInv => AssertionsHold
  <2> SUFFICES ASSUME SchedInv PROVE AssertionsHold
    OBVIOUS
  <2> SUFFICES ASSUME NEW t \in Threads, NEW c \in Cpus
               PROVE  /\ At(c, t, "work") \/ At(c, t, "wt_loop") => st[t] = "running"
                      /\ (At(c, t, "wt_spin") \/ At(c, t, "wt_qspin")) /\ st[t] # "waking"
                             => st[t] = "running"
                      /\ t \in runqueue[c] => st[t] = "queued"
                      /\ cpc[c] = "pick" /\ current[c] = t => st[t] # "queued"
    BY DEF AssertionsHold
  <2>1. CurrentInv /\ RunqueueInv
    BY DEF SchedInv, Place
  <2>2. current[c] = t =>
            /\ st[t] \in {"running", "waiting", "waking"}
            /\ pc[t] \in {"work", "wt_loop"} => st[t] = "running"
            /\ pc[t] \in {"wt_spin", "wt_qspin"} => st[t] # "waiting"
    BY <2>1 DEF CurrentInv
  <2>3. t \in runqueue[c] => st[t] = "queued"
    BY <2>1 DEF RunqueueInv
  <2> QED BY <2>2, <2>3 DEF At
<1> QED BY <1>1, SchedInvariant, PTL

\* do_idle() against wake_impl(): a CPU that has halted with a thread in an incoming
\* queue has a pending interrupt, or a waker that is about to send one.
THEOREM HaltNoticedHolds == Spec => []HaltNoticed
<1>1. SchedInv => HaltNoticed
  <2> SUFFICES ASSUME SchedInv, NEW c \in Cpus, NEW s \in Cpus, cpc[c] = "id_halt",
                      incoming[c][s] # <<>>
               PROVE  \/ ipi[c]
                      \/ \E t \in Threads : pc[t] \in {"wk_mask", "wk_ipi"} /\ dest[t] = c
    BY DEF HaltNoticed
  <2>1. IdleInv(c) /\ NotedInv(c) /\ ToldInv(c)
    BY DEF SchedInv, Look
  <2>2. runqueue[c] = {} /\ draining[c] = {} /\ LastLook(c)
    BY <2>1 DEF IdleInv, LastLook
  <2>3. mask[c] # {} \/ \E t \in Threads : pc[t] = "wk_mask" /\ dest[t] = c
    BY <2>1, <2>2 DEF NotedInv
  <2> QED BY <2>1, <2>2, <2>3 DEF ToldInv
<1> QED BY <1>1, SchedInvariant, PTL
=============================================================================
