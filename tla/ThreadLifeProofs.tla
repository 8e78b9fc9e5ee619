-------------------------- MODULE ThreadLifeProofs --------------------------
(***************************************************************************)
(* The memory of a thread outlives its users, and a detached thread is     *)
(* deleted by one of those who could, for any number of threads and CPUs:  *)
(* MemoryOutlivesUse and OneReleaser of ThreadLife.                        *)
(*                                                                         *)
(* Neither is inductive.  LifeInv adds what each party knows of the        *)
(* others: which CPU has still to store "terminated" for a thread, what    *)
(* the value of _joiner says about join() and destroy(), what              *)
(* detach_state says about detach() and complete(), and that a ds that a   *)
(* CPU uses is alive or disposed with that CPU in its grace period.        *)
(***************************************************************************)
EXTENDS ThreadLife, TLAPS


\* A step is left to Zenon, unless it names SMT or the temporal prover.
USE ZenonT(40)

Others == Threads \cup {Main, Reaper, None}
Steps == {"own", "wait", "joined", "detach", "zombie", "done"}
Stages == {"none", "cas", "store", "storeWake", "wake"}

TypeOK ==
    /\ st \in [Threads -> {"unstarted", "running", "terminating", "terminated"}]
    /\ detach_state \in [Threads -> {"attached", "detached", "attached_complete"}]
    /\ detached \in [Threads -> BOOLEAN]
    /\ joiner \in [Threads -> Others]
    /\ object \in [Threads -> BOOLEAN]
    /\ ds \in [Threads -> {"alive", "disposed", "freed"}]
    /\ grace \in [Threads -> SUBSET Cpus]
    /\ pc \in [Threads -> {"run", "zombie", "exit", "displace", "off"}]
    /\ client \in [Threads -> [at : Steps, by : Threads \cup {Main}]]
    /\ terminating_thread \in [Cpus -> Threads \cup {None}]
    /\ destroying \in [Cpus -> [at : Stages, of : Others]]
    /\ zombies \in Seq(Threads)
    /\ reap \in [at : {"none", "next", "join", "wait", "cleanup"}, of : Threads \cup {None}]

\* Where a thread is and what its status says.
Status(t) ==
    /\ st[t] = "unstarted" => pc[t] = "run"
    /\ pc[t] \in {"zombie", "exit"} => st[t] = "running"
    /\ st[t] = "terminating" => pc[t] \in {"displace", "off"}
    /\ st[t] = "terminated" => pc[t] = "off" /\ joiner[t] # None
    /\ pc[t] \in {"displace", "off"} => st[t] \in {"terminating", "terminated"}

\* Who has put itself into _joiner, and what has come of it.
Joined(t) ==
    /\ joiner[t] \in {None, t, Owner[t], Reaper}
    /\ joiner[t] = t => pc[t] = "off"
    /\ joiner[t] = Owner[t] => ~detached[t] /\ client[t].at \in {"wait", "joined", "done"}
    /\ joiner[t] = Owner[t] /\ client[t].at # "wait" => st[t] = "terminated"
    /\ joiner[t] = Reaper =>
         \/ reap.of = t /\ reap.at = "wait"
         \/ reap.of = t /\ reap.at = "cleanup" /\ st[t] = "terminated"
         \/ ~object[t] /\ st[t] = "terminated"
    /\ client[t].at = "wait" => joiner[t] = Owner[t] /\ st[t] # "unstarted"
    /\ client[t].at = "joined" => st[t] \in {"unstarted", "terminated"} \/ joiner[t] = t

\* detach() and complete() agree on who of them has come first.
Detached(t) ==
    /\ client[t].at \in {"own", "wait", "joined"} => client[t].by = Owner[t]
    /\ client[t].at = "own" /\ detached[t] => st[t] = "unstarted"
    /\ client[t].at \in {"wait", "joined"} => ~detached[t]
    /\ client[t].at = "detach" => detached[t] /\ st[t] # "unstarted"
    /\ client[t].at = "zombie" => detached[t] /\ detach_state[t] = "attached_complete"
    /\ detach_state[t] = "detached" => detached[t]
    /\ detach_state[t] = "detached" /\ client[t].at # "done" =>
         client[t].at = "own" /\ st[t] = "unstarted"
    /\ detach_state[t] = "attached_complete" => pc[t] \notin {"run", "zombie"}
    /\ pc[t] = "zombie" => detach_state[t] = "detached"

\* A thread that is deleted has left its stack, and nobody is to call anything on it.
Gone(t) ==
    /\ object[t] <=> ds[t] = "alive"
    /\ ~object[t] => /\ client[t].at = "done"
                     /\ st[t] = "unstarted" \/ pc[t] = "off"
                     /\ st[t] \in {"unstarted", "terminated"} \/ joiner[t] = t

\* What the reaper can rely on.
Reaped(t) ==
    /\ Queued(t) \/ reap.of = t =>
         /\ object[t] /\ detached[t] /\ client[t].at = "done"
         /\ detach_state[t] # "attached" /\ pc[t] \notin {"run", "zombie"}
    /\ Queued(t) => joiner[t] \in {None, t} /\ reap.of # t
    /\ reap.of = t => /\ reap.at = "join" => joiner[t] \in {None, t}
                      /\ reap.at = "wait" => joiner[t] = Reaper
                      /\ reap.at = "cleanup" => st[t] = "terminated" \/ joiner[t] = t

ThreadInv(t) == Status(t) /\ Joined(t) /\ Detached(t) /\ Gone(t) /\ Reaped(t)

\* A thread inside a call on t has not ended.
CallerInv(t) ==
    client[t].at \notin {"own", "done"} /\ client[t].by \in Threads =>
      st[client[t].by] = "running" /\ pc[client[t].by] = "run"

\* The CPU c has still to say that t is terminated.
Settles(c, t) == destroying[c].at \in {"cas", "store", "storeWake"} /\ destroying[c].of = t

\* What a CPU knows of the thread it is about to destroy or destroys.
SlotInv(c, t) ==
    /\ terminating_thread[c] = t =>
         /\ st[t] = "terminating" /\ joiner[t] # t
         /\ pc[t] = "off" \/ destroying[c].at # "none"
    /\ Settles(c, t) => st[t] = "terminating" /\ pc[t] = "off" /\ terminating_thread[c] # t
    /\ destroying[c].of = t =>
         /\ destroying[c].at = "cas" => joiner[t] # t
         /\ destroying[c].at = "store" => joiner[t] = t
         /\ destroying[c].at = "storeWake" => joiner[t] \notin {t, None}
         /\ object[t] \/ (ds[t] = "disposed" /\ c \in grace[t])

\* A thread is destroyed by one CPU.
ApartInv(c, d, t) ==
    c # d => /\ terminating_thread[c] = t => terminating_thread[d] # t /\ ~Settles(d, t)
             /\ Settles(c, t) => ~Settles(d, t)

CpuInv(c) ==
    /\ destroying[c].at = "none" <=> destroying[c].of = None
    /\ destroying[c].at \in {"cas", "store", "storeWake"} => destroying[c].of \in Threads

QueueInv ==
    /\ \A i, j \in DOMAIN zombies : zombies[i] = zombies[j] => i = j
    /\ reap.of = None <=> reap.at \in {"none", "next"}

LifeInv ==
    /\ TypeOK
    /\ \A t \in Threads : ThreadInv(t) /\ CallerInv(t)
    /\ \A c \in Cpus : CpuInv(c)
    /\ \A c \in Cpus, t \in Threads : SlotInv(c, t)
    /\ \A c, d \in Cpus, t \in Threads : ApartInv(c, d, t)
    /\ QueueInv

-----------------------------------------------------------------------------
\* Nothing that ThreadInv(x) is about has changed.
SameThread(x) ==
    /\ st'[x] = st[x] /\ detach_state'[x] = detach_state[x] /\ detached'[x] = detached[x]
    /\ joiner'[x] = joiner[x] /\ object'[x] = object[x] /\ ds'[x] = ds[x] /\ pc'[x] = pc[x]
    /\ client'[x].at = client[x].at /\ client'[x].by = client[x].by
    /\ Queued(x)' <=> Queued(x)
    /\ reap'.of = x <=> reap.of = x
    /\ reap.of = x => reap'.at = reap.at

\* What is known of a thread that a step leaves alone stays true.
LEMMA ThreadFrame ==
    ASSUME NEW x \in Threads, ThreadInv(x), SameThread(x)
    PROVE  ThreadInv(x)'
<1>1. Status(x)'
  BY DEF ThreadInv, SameThread, Status
<1>2. Joined(x)'
  BY DEF ThreadInv, SameThread, Joined
<1>3. Detached(x)'
  BY DEF ThreadInv, SameThread, Detached
<1>4. Gone(x)'
  BY DEF ThreadInv, SameThread, Gone
<1>5. Reaped(x)'
  BY DEF ThreadInv, SameThread, Reaped
<1>6. QED
  BY <1>1, <1>2, <1>3, <1>4, <1>5 DEF ThreadInv

\* The same for what a CPU knows of it, if no CPU leaves a grace period.
LEMMA SlotFrame ==
    ASSUME NEW c \in Cpus, NEW x \in Threads, SlotInv(c, x), SameThread(x),
           destroying'[c] = destroying[c], terminating_thread'[c] = terminating_thread[c],
           c \in grace[x] => c \in grace'[x]
    PROVE  SlotInv(c, x)'
  BY DEF SlotInv, SameThread, Settles

\* Steps that leave the CPUs alone
LEMMA CpusFrame ==
    ASSUME UNCHANGED cpus, \A c \in Cpus : CpuInv(c),
           \A c, d \in Cpus, x \in Threads : ApartInv(c, d, x)
    PROVE  /\ (\A c \in Cpus : CpuInv(c))'
           /\ (\A c, d \in Cpus, x \in Threads : ApartInv(c, d, x))'
<1>1. destroying' = destroying /\ terminating_thread' = terminating_thread
  BY DEF cpus
<1>2. ASSUME NEW c \in Cpus
      PROVE  CpuInv(c)'
  <2>1. CpuInv(c)
    OBVIOUS
  <2>2. QED
    BY <1>1, <2>1 DEF CpuInv
<1>3. ASSUME NEW c \in Cpus, NEW d \in Cpus, NEW x \in Threads
      PROVE  ApartInv(c, d, x)'
  <2>1. ApartInv(c, d, x)
    OBVIOUS
  <2>2. QED
    BY <1>1, <2>1 DEF ApartInv, Settles
<1>4. QED
  BY <1>2, <1>3

\* Steps that leave the reaper alone
LEMMA ReaperFrame ==
    ASSUME UNCHANGED reaper
    PROVE  /\ QueueInv => QueueInv'
           /\ \A x : (Queued(x)' <=> Queued(x)) /\ (reap'.of = x <=> reap.of = x)
           /\ reap'.at = reap.at
  BY DEF reaper, QueueInv, Queued

\* What Client(t, at) writes
LEMMA ClientWrites ==
    ASSUME TypeOK, NEW t \in Threads, NEW a \in Steps, Client(t, a)
    PROVE  /\ client' \in [Threads -> [at : Steps, by : Threads \cup {Main}]]
           /\ \A x \in Threads : /\ client'[x].by = client[x].by
                                 /\ client'[x].at = IF x = t THEN a ELSE client[x].at
<1>1. client' = [client EXCEPT ![t].at = a]
  BY DEF Client
<1>2. client \in [Threads -> [at : Steps, by : Threads \cup {Main}]]
  BY DEF TypeOK
<1>3. QED
  BY <1>1, <1>2

\* A thread that is added to the queue of the reaper
LEMMA QueueAppend ==
    ASSUME zombies \in Seq(Threads), NEW t \in Threads, zombies' = Append(zombies, t)
    PROVE  /\ zombies' \in Seq(Threads)
           /\ \A x : Queued(x)' <=> Queued(x) \/ x = t
           /\ ~Queued(t) /\ (\A i, j \in DOMAIN zombies : zombies[i] = zombies[j] => i = j) =>
                (\A i, j \in DOMAIN zombies : zombies[i] = zombies[j] => i = j)'
<1>1. /\ zombies' \in Seq(Threads) /\ DOMAIN zombies' = 1 .. Len(zombies) + 1
      /\ DOMAIN zombies = 1 .. Len(zombies) /\ Len(zombies) \in Nat
      /\ \A i \in 1 .. Len(zombies) : zombies'[i] = zombies[i]
      /\ zombies'[Len(zombies) + 1] = t
  BY SMT
<1>2. \A x : Queued(x)' <=> Queued(x) \/ x = t
  BY <1>1, SMT DEF Queued
<1>3. QED
  BY <1>1, <1>2, SMT DEF Queued

\* A thread that the reaper takes
LEMMA QueueTail ==
    ASSUME zombies \in Seq(Threads), zombies # <<>>, zombies' = Tail(zombies),
           \A i, j \in DOMAIN zombies : zombies[i] = zombies[j] => i = j
    PROVE  /\ zombies' \in Seq(Threads) /\ Head(zombies) \in Threads /\ Queued(Head(zombies))
           /\ \A x : Queued(x)' <=> Queued(x) /\ x # Head(zombies)
           /\ (\A i, j \in DOMAIN zombies : zombies[i] = zombies[j] => i = j)'
<1>1. /\ zombies' \in Seq(Threads) /\ Len(zombies) \in Nat /\ Len(zombies) > 0
      /\ DOMAIN zombies' = 1 .. Len(zombies) - 1
      /\ DOMAIN zombies = 1 .. Len(zombies)
      /\ \A i \in 1 .. Len(zombies) - 1 : zombies'[i] = zombies[i + 1]
      /\ Head(zombies) = zombies[1] /\ Head(zombies) \in Threads
  BY SMT
<1>2. ASSUME NEW x
      PROVE  Queued(x)' <=> Queued(x) /\ x # Head(zombies)
  <2>1. ASSUME Queued(x)'
        PROVE  Queued(x) /\ x # Head(zombies)
    BY <1>1, <2>1, SMT DEF Queued
  <2>2. ASSUME Queued(x), x # Head(zombies)
        PROVE  Queued(x)'
    <3>1. PICK i \in DOMAIN zombies : zombies[i] = x
      BY <2>2 DEF Queued
    <3>2. i # 1 /\ i - 1 \in 1 .. Len(zombies) - 1 /\ zombies'[i - 1] = x
      BY <1>1, <2>2, <3>1, SMT
    <3>3. QED
      BY <1>1, <3>2 DEF Queued
  <2>3. QED
    BY <2>1, <2>2
<1>3. Queued(Head(zombies))
  BY <1>1, SMT DEF Queued
<1>4. (\A i, j \in DOMAIN zombies : zombies[i] = zombies[j] => i = j)'
  BY <1>1, SMT
<1>5. QED
  BY <1>1, <1>2, <1>3, <1>4

\* A step about one thread: what has to be shown is about that thread.
LEMMA OneThread ==
    ASSUME LifeInv, TypeOK', NEW t \in Threads, UNCHANGED cpus,
           \A x \in Threads \ {t} : SameThread(x) /\ grace'[x] = grace[x],
           ThreadInv(t)', \A x \in Threads : CallerInv(x)',
           \A c \in Cpus : SlotInv(c, t)', QueueInv'
    PROVE  LifeInv'
<1>1. ASSUME NEW x \in Threads
      PROVE  ThreadInv(x)'
  <2>1. CASE x = t
    BY <2>1
  <2>2. CASE x # t
    <3>1. SameThread(x) /\ ThreadInv(x)
      BY <2>2 DEF LifeInv
    <3>2. QED
      BY <3>1, ThreadFrame
  <2>3. QED
    BY <2>1, <2>2
<1>2. ASSUME NEW c \in Cpus, NEW x \in Threads
      PROVE  SlotInv(c, x)'
  <2>1. CASE x = t
    BY <2>1
  <2>2. CASE x # t
    <3>1. SameThread(x) /\ grace'[x] = grace[x] /\ SlotInv(c, x)
      BY <2>2 DEF LifeInv
    <3>2. destroying'[c] = destroying[c] /\ terminating_thread'[c] = terminating_thread[c]
      BY DEF cpus
    <3>3. c \in grace[x] => c \in grace'[x]
      BY <3>1
    <3>4. QED
      BY <3>1, <3>2, <3>3, SlotFrame
  <2>3. QED
    BY <2>1, <2>2
<1>3. /\ (\A c \in Cpus : CpuInv(c))'
      /\ (\A c, d \in Cpus, x \in Threads : ApartInv(c, d, x))'
  BY CpusFrame DEF LifeInv
<1>4. QED
  BY <1>1, <1>2, <1>3 DEF LifeInv

\* start(): a thread that has not been joined or detached begins to run.
LEMMA StartKeeps ==
    ASSUME LifeInv, NEW t \in Threads, start(t)
    PROVE  LifeInv'
<1>1. TypeOK /\ ThreadInv(t) /\ UNCHANGED cpus /\ UNCHANGED reaper /\ UNCHANGED memory
  BY DEF LifeInv, start
<1>2. /\ st[t] = "unstarted" /\ object[t] /\ Calls(Owner[t]) = {}
      /\ st' = [st EXCEPT ![t] = "running"]
      /\ client' = [client EXCEPT ![t].at = IF detached[t] THEN "done" ELSE @]
      /\ UNCHANGED <<detach_state, detached, joiner, pc>>
      /\ UNCHANGED <<object, ds, grace>>
  BY <1>1 DEF start, memory
<1>3. /\ client' \in [Threads -> [at : Steps, by : Threads \cup {Main}]]
      /\ \A x \in Threads : /\ client'[x].by = client[x].by
                            /\ x # t => client'[x].at = client[x].at
      /\ client'[t].at = IF detached[t] THEN "done" ELSE client[t].at
  BY <1>1, <1>2, SMT DEF TypeOK, Steps
<1>4. /\ st' \in [Threads -> {"unstarted", "running", "terminating", "terminated"}]
      /\ st'[t] = "running" /\ \A x \in Threads : x # t => st'[x] = st[x]
  BY <1>1, <1>2 DEF TypeOK
<1>5. TypeOK'
  BY <1>1, <1>2, <1>3, <1>4 DEF TypeOK, cpus, reaper
<1>6. \A x \in Threads \ {t} : SameThread(x) /\ grace'[x] = grace[x]
  BY <1>1, <1>2, <1>3, <1>4, ReaperFrame DEF SameThread
<1>7. client[t].at \in {"own", "done"}
  <2>1. client[t].at \in {"wait", "joined"} => t \in Calls(Owner[t])
    BY <1>1 DEF ThreadInv, Detached, Calls
  <2>2. client[t].at \notin {"detach", "zombie"}
    BY <1>1, <1>2 DEF ThreadInv, Status, Detached
  <2>3. QED
    BY <1>1, <1>2, <2>1, <2>2 DEF TypeOK, Steps
<1>8. ThreadInv(t)'
  <2>1. (Queued(t)' <=> Queued(t)) /\ (reap'.of = t <=> reap.of = t) /\ reap'.at = reap.at
    BY <1>1, ReaperFrame
  <2>2. QED
    <3>1. Status(t)'
      BY <1>1, <1>2, <1>3, <1>4, <1>7, <2>1 DEF ThreadInv, Status
    <3>2. Joined(t)'
      BY <1>1, <1>2, <1>3, <1>4, <1>7, <2>1, SMT DEF ThreadInv, Joined
    <3>3. Detached(t)'
      BY <1>1, <1>2, <1>3, <1>4, <1>7, <2>1, SMT DEF ThreadInv, Detached
    <3>4. Gone(t)'
      BY <1>1, <1>2, <1>3, <1>4, <1>7, <2>1 DEF ThreadInv, Gone
    <3>5. Reaped(t)'
      BY <1>1, <1>2, <1>3, <1>4, <1>7, <2>1 DEF ThreadInv, Reaped
    <3>6. QED
      BY <3>1, <3>2, <3>3, <3>4, <3>5 DEF ThreadInv
<1>9. ASSUME NEW x \in Threads
      PROVE  CallerInv(x)'
  <2>1. CallerInv(x)
    BY DEF LifeInv
  <2>2. QED
    BY <1>2, <1>3, <1>4, <1>7, <2>1 DEF CallerInv
<1>10. ASSUME NEW c \in Cpus
       PROVE  SlotInv(c, t)'
  <2>1. SlotInv(c, t)
    BY DEF LifeInv
  <2>2. QED
    BY <1>1, <1>2, <1>4, <2>1 DEF SlotInv, Settles, cpus
<1>11. QueueInv'
  BY <1>1, ReaperFrame DEF LifeInv
<1>12. QED
  BY <1>1, <1>5, <1>6, <1>8, <1>9, <1>10, <1>11, OneThread

\* join(): the compare-and-swap on _joiner, which destroy() may have won.
LEMMA JoinKeeps ==
    ASSUME LifeInv, NEW t \in Threads, join(t)
    PROVE  LifeInv'
<1>1. TypeOK /\ ThreadInv(t) /\ UNCHANGED cpus /\ UNCHANGED reaper /\ UNCHANGED memory
  BY DEF LifeInv, join
<1>2. /\ client[t].at \in {"own", "joined"} /\ ~detached[t] /\ client[t].by = Owner[t]
      /\ Runs(Owner[t])
      /\ UNCHANGED <<st, detach_state, detached, pc>>
      /\ UNCHANGED <<object, ds, grace>>
  BY <1>1 DEF join, memory
<1>3. Owner[t] \notin {t, None, Reaper} /\ Owner[t] \in Others /\ t # None
  BY OwnerAssumption DEF Others
<1>4. PICK a \in {"wait", "joined"} :
        /\ Client(t, a)
        /\ a = "wait" => /\ st[t] # "unstarted" /\ joiner[t] = None
                         /\ joiner' = [joiner EXCEPT ![t] = Owner[t]]
        /\ a = "joined" => (st[t] = "unstarted" \/ joiner[t] # None) /\ joiner' = joiner
  BY DEF join
<1>5. /\ client' \in [Threads -> [at : Steps, by : Threads \cup {Main}]]
      /\ \A x \in Threads : /\ client'[x].by = client[x].by
                            /\ client'[x].at = IF x = t THEN a ELSE client[x].at
  <2>1. a \in Steps
    BY <1>4 DEF Steps
  <2>2. QED
    BY <1>1, <1>4, <2>1, ClientWrites
<1>6. /\ joiner' \in [Threads -> Others]
      /\ joiner'[t] = IF a = "wait" THEN Owner[t] ELSE joiner[t]
      /\ \A x \in Threads : x # t => joiner'[x] = joiner[x]
  <2>1. joiner \in [Threads -> Others]
    BY <1>1 DEF TypeOK
  <2>2. CASE a = "wait"
    BY <1>3, <1>4, <2>1, <2>2
  <2>3. CASE a = "joined"
    BY <1>4, <2>1, <2>3
  <2>4. QED
    BY <1>4, <2>2, <2>3
<1>7. TypeOK'
  BY <1>1, <1>2, <1>5, <1>6 DEF TypeOK, cpus, reaper
<1>8. \A x \in Threads \ {t} : SameThread(x) /\ grace'[x] = grace[x]
  BY <1>1, <1>2, <1>5, <1>6, ReaperFrame DEF SameThread
<1>9. ThreadInv(t)'
  <2>1. (Queued(t)' <=> Queued(t)) /\ (reap'.of = t <=> reap.of = t) /\ reap'.at = reap.at
    BY <1>1, ReaperFrame
  <2>2. QED
    <3>1. Status(t)'
      BY <1>1, <1>2, <1>3, <1>4, <1>5, <1>6, <2>1 DEF ThreadInv, Status
    <3>2. Joined(t)'
      BY <1>1, <1>2, <1>3, <1>4, <1>5, <1>6, <2>1 DEF ThreadInv, Joined, Reaped
    <3>3. Detached(t)'
      BY <1>1, <1>2, <1>3, <1>4, <1>5, <1>6, <2>1 DEF ThreadInv, Detached
    <3>4. Gone(t)'
      BY <1>1, <1>2, <1>3, <1>4, <1>5, <1>6, <2>1 DEF ThreadInv, Gone
    <3>5. Reaped(t)'
      BY <1>1, <1>2, <1>3, <1>4, <1>5, <1>6, <2>1 DEF ThreadInv, Reaped
    <3>6. QED
      BY <3>1, <3>2, <3>3, <3>4, <3>5 DEF ThreadInv
<1>10. ASSUME NEW x \in Threads
       PROVE  CallerInv(x)'
  <2>1. CallerInv(x)
    BY DEF LifeInv
  <2>2. QED
    BY <1>2, <1>5, <2>1 DEF CallerInv, Runs
<1>11. ASSUME NEW c \in Cpus
       PROVE  SlotInv(c, t)'
  <2>1. SlotInv(c, t)
    BY DEF LifeInv
  <2>2. QED
    BY <1>1, <1>2, <1>3, <1>4, <1>6, <2>1 DEF SlotInv, Settles, cpus
<1>12. QueueInv'
  BY <1>1, ReaperFrame DEF LifeInv
<1>13. QED
  BY <1>1, <1>7, <1>8, <1>9, <1>10, <1>11, <1>12, OneThread

\* join() returns when the status says terminated.
LEMMA JoinWaitKeeps ==
    ASSUME LifeInv, NEW t \in Threads, joinWait(t)
    PROVE  LifeInv'
<1>1. TypeOK /\ ThreadInv(t) /\ UNCHANGED cpus /\ UNCHANGED reaper
  BY DEF LifeInv, joinWait
<1>2. /\ client[t].at = "wait" /\ Runs(Owner[t])
      /\ UNCHANGED <<st, detach_state, detached, joiner, pc>>
      /\ UNCHANGED <<object, ds, grace>>
  BY DEF joinWait, life, memory
<1>3. /\ client' \in [Threads -> [at : Steps, by : Threads \cup {Main}]]
      /\ \A x \in Threads : /\ client'[x].by = client[x].by
                            /\ x # t => client'[x].at = client[x].at
      /\ client'[t].at = IF st[t] = "terminated" THEN "joined" ELSE client[t].at
  <2>1. CASE st[t] = "terminated"
    <3>1. Client(t, "joined") /\ "joined" \in Steps
      BY <2>1 DEF joinWait, Steps
    <3>2. QED
      BY <1>1, <2>1, <3>1, ClientWrites
  <2>2. CASE st[t] # "terminated"
    <3>1. client' = client
      BY <2>2 DEF joinWait
    <3>2. QED
      BY <1>1, <2>2, <3>1 DEF TypeOK
  <2>3. QED
    BY <2>1, <2>2
<1>4. TypeOK'
  BY <1>1, <1>2, <1>3 DEF TypeOK, cpus, reaper
<1>5. \A x \in Threads \ {t} : SameThread(x) /\ grace'[x] = grace[x]
  BY <1>1, <1>2, <1>3, ReaperFrame DEF SameThread
<1>6. ThreadInv(t)'
  <2>1. (Queued(t)' <=> Queued(t)) /\ (reap'.of = t <=> reap.of = t) /\ reap'.at = reap.at
    BY <1>1, ReaperFrame
  <2>2. QED
    <3>1. Status(t)'
      BY <1>1, <1>2, <1>3, <2>1 DEF ThreadInv, Status
    <3>2. Joined(t)'
      BY <1>1, <1>2, <1>3, <2>1 DEF ThreadInv, Joined
    <3>3. Detached(t)'
      BY <1>1, <1>2, <1>3, <2>1 DEF ThreadInv, Detached
    <3>4. Gone(t)'
      BY <1>1, <1>2, <1>3, <2>1 DEF ThreadInv, Gone
    <3>5. Reaped(t)'
      BY <1>1, <1>2, <1>3, <2>1 DEF ThreadInv, Reaped
    <3>6. QED
      BY <3>1, <3>2, <3>3, <3>4, <3>5 DEF ThreadInv
<1>7. ASSUME NEW x \in Threads
      PROVE  CallerInv(x)'
  <2>1. CallerInv(x)
    BY DEF LifeInv
  <2>2. QED
    BY <1>2, <1>3, <2>1 DEF CallerInv
<1>8. ASSUME NEW c \in Cpus
      PROVE  SlotInv(c, t)'
  <2>1. SlotInv(c, t)
    BY DEF LifeInv
  <2>2. QED
    BY <1>1, <1>2, <2>1 DEF SlotInv, Settles, cpus
<1>9. QueueInv'
  BY <1>1, ReaperFrame DEF LifeInv
<1>10. QED
  BY <1>1, <1>4, <1>5, <1>6, <1>7, <1>8, <1>9, OneThread

\* The rest of ~thread() leaves ds to the grace periods of the CPUs that may use it.
LEMMA DeleteWrites ==
    ASSUME LifeInv, NEW t \in Threads, Delete(t)
    PROVE  /\ object' \in [Threads -> BOOLEAN] /\ ds' \in [Threads -> {"alive", "disposed", "freed"}]
           /\ grace' \in [Threads -> SUBSET Cpus]
           /\ ~object'[t] /\ ds'[t] = "disposed"
           /\ \A c \in Cpus : destroying[c].of = t => c \in grace'[t]
           /\ \A x \in Threads \ {t} : object'[x] = object[x] /\ ds'[x] = ds[x] /\ grace'[x] = grace[x]
<1>1. TypeOK /\ t # None
  BY OwnerAssumption DEF LifeInv
<1>2. InSection \in SUBSET Cpus
  BY DEF InSection
<1>3. ASSUME NEW c \in Cpus, destroying[c].of = t
      PROVE  c \in InSection
  <2>1. CpuInv(c) /\ destroying[c].at \in Stages
    BY <1>1 DEF LifeInv, TypeOK
  <2>2. destroying[c].at # "none"
    BY <1>1, <1>3, <2>1 DEF CpuInv
  <2>3. QED
    BY <2>1, <2>2 DEF InSection, Stages
<1>4. /\ object' = [object EXCEPT ![t] = FALSE]
      /\ ds' = [ds EXCEPT ![t] = "disposed"]
      /\ grace' = [grace EXCEPT ![t] = InSection]
  BY DEF Delete
<1>5. grace' \in [Threads -> SUBSET Cpus] /\ grace'[t] = InSection
  BY <1>1, <1>2, <1>4 DEF TypeOK
<1>6. QED
  BY <1>1, <1>3, <1>4, <1>5 DEF TypeOK

\* ~thread(), when join() has returned
LEMMA DeleteKeeps ==
    ASSUME LifeInv, NEW t \in Threads, delete(t)
    PROVE  LifeInv'
<1>1. TypeOK /\ ThreadInv(t) /\ UNCHANGED cpus /\ UNCHANGED reaper
  BY DEF LifeInv, delete
<1>2. /\ client[t].at = "joined" /\ Delete(t) /\ Client(t, "done") /\ "done" \in Steps
      /\ UNCHANGED <<st, detach_state, detached, joiner, pc>>
  BY DEF delete, life, Steps
<1>3. /\ client' \in [Threads -> [at : Steps, by : Threads \cup {Main}]]
      /\ \A x \in Threads : /\ client'[x].by = client[x].by
                            /\ client'[x].at = IF x = t THEN "done" ELSE client[x].at
  BY <1>1, <1>2, ClientWrites
<1>4. /\ object' \in [Threads -> BOOLEAN] /\ ds' \in [Threads -> {"alive", "disposed", "freed"}]
      /\ grace' \in [Threads -> SUBSET Cpus]
      /\ ~object'[t] /\ ds'[t] = "disposed"
      /\ \A c \in Cpus : destroying[c].of = t => c \in grace'[t]
      /\ \A x \in Threads \ {t} : object'[x] = object[x] /\ ds'[x] = ds[x] /\ grace'[x] = grace[x]
  BY <1>2, DeleteWrites
<1>5. TypeOK'
  BY <1>1, <1>2, <1>3, <1>4 DEF TypeOK, cpus, reaper
<1>6. \A x \in Threads \ {t} : SameThread(x) /\ grace'[x] = grace[x]
  BY <1>1, <1>2, <1>3, <1>4, ReaperFrame DEF SameThread
<1>7. ThreadInv(t)'
  <2>1. (Queued(t)' <=> Queued(t)) /\ (reap'.of = t <=> reap.of = t) /\ reap'.at = reap.at
    BY <1>1, ReaperFrame
  <2>2. Owner[t] \notin {t, None, Reaper} /\ t # None
    BY OwnerAssumption
  <2>3. QED
    <3>1. Status(t)'
      BY <1>1, <1>2, <1>3, <1>4, <2>1, <2>2 DEF ThreadInv, Status
    <3>2. Joined(t)'
      BY <1>1, <1>2, <1>3, <1>4, <2>1, <2>2 DEF ThreadInv, Joined
    <3>3. Detached(t)'
      BY <1>1, <1>2, <1>3, <1>4, <2>1, <2>2 DEF ThreadInv, Detached
    <3>4. Gone(t)'
      BY <1>1, <1>2, <1>3, <1>4, <2>1, <2>2 DEF ThreadInv, Gone, Status, Joined
    <3>5. Reaped(t)'
      BY <1>1, <1>2, <1>3, <1>4, <2>1, <2>2 DEF ThreadInv, Reaped
    <3>6. QED
      BY <3>1, <3>2, <3>3, <3>4, <3>5 DEF ThreadInv
<1>8. ASSUME NEW x \in Threads
      PROVE  CallerInv(x)'
  <2>1. CallerInv(x)
    BY DEF LifeInv
  <2>2. QED
    BY <1>2, <1>3, <2>1 DEF CallerInv
<1>9. ASSUME NEW c \in Cpus
      PROVE  SlotInv(c, t)'
  <2>1. SlotInv(c, t)
    BY DEF LifeInv
  <2>2. QED
    BY <1>1, <1>2, <1>4, <2>1 DEF SlotInv, Settles, cpus
<1>10. QueueInv'
  BY <1>1, ReaperFrame DEF LifeInv
<1>11. QED
  BY <1>1, <1>5, <1>6, <1>7, <1>8, <1>9, <1>10, OneThread

\* The grace period of a ds is over: no CPU uses it any more.
LEMMA DisposeKeeps ==
    ASSUME LifeInv, NEW t \in Threads, rcu_dispose(t)
    PROVE  LifeInv'
<1>1. TypeOK /\ ThreadInv(t) /\ UNCHANGED cpus /\ UNCHANGED reaper
  BY DEF LifeInv, rcu_dispose
<1>2. /\ ds[t] = "disposed" /\ grace[t] = {} /\ ds' = [ds EXCEPT ![t] = "freed"]
      /\ UNCHANGED <<st, detach_state, detached, joiner, pc, client, object, grace>>
  BY DEF rcu_dispose, life
<1>3. /\ ds' \in [Threads -> {"alive", "disposed", "freed"}] /\ ds'[t] = "freed"
      /\ \A x \in Threads : x # t => ds'[x] = ds[x]
  BY <1>1, <1>2 DEF TypeOK
<1>4. TypeOK'
  BY <1>1, <1>2, <1>3 DEF TypeOK, cpus, reaper
<1>5. \A x \in Threads \ {t} : SameThread(x) /\ grace'[x] = grace[x]
  BY <1>1, <1>2, <1>3, ReaperFrame DEF SameThread
<1>6. ThreadInv(t)'
  <2>1. (Queued(t)' <=> Queued(t)) /\ (reap'.of = t <=> reap.of = t) /\ reap'.at = reap.at
    BY <1>1, ReaperFrame
  <2>2. QED
    <3>1. Status(t)'
      BY <1>1, <1>2, <1>3, <2>1 DEF ThreadInv, Status
    <3>2. Joined(t)'
      BY <1>1, <1>2, <1>3, <2>1 DEF ThreadInv, Joined
    <3>3. Detached(t)'
      BY <1>1, <1>2, <1>3, <2>1 DEF ThreadInv, Detached
    <3>4. Gone(t)'
      BY <1>1, <1>2, <1>3, <2>1 DEF ThreadInv, Gone
    <3>5. Reaped(t)'
      BY <1>1, <1>2, <1>3, <2>1 DEF ThreadInv, Reaped
    <3>6. QED
      BY <3>1, <3>2, <3>3, <3>4, <3>5 DEF ThreadInv
<1>7. ASSUME NEW x \in Threads
      PROVE  CallerInv(x)'
  <2>1. CallerInv(x)
    BY DEF LifeInv
  <2>2. QED
    BY <1>2, <2>1 DEF CallerInv
<1>8. ASSUME NEW c \in Cpus
      PROVE  SlotInv(c, t)'
  <2>1. SlotInv(c, t) /\ Gone(t)
    BY <1>1 DEF LifeInv, ThreadInv
  <2>2. QED
    BY <1>1, <1>2, <1>3, <2>1 DEF SlotInv, Settles, Gone, cpus
<1>9. QueueInv'
  BY <1>1, ReaperFrame DEF LifeInv
<1>10. QED
  BY <1>1, <1>4, <1>5, <1>6, <1>7, <1>8, <1>9, OneThread

\* detach() of a thread that nobody joins
LEMMA DetachKeeps ==
    ASSUME LifeInv, NEW t \in Threads, NEW o \in {t, Owner[t]}, detach(t, o)
    PROVE  LifeInv'
<1>1. TypeOK /\ ThreadInv(t) /\ UNCHANGED cpus /\ UNCHANGED reaper
  BY DEF LifeInv, detach
<1>2. /\ client[t].at = "own" /\ st[t] # "unstarted" /\ Runs(o)
      /\ detached' = [detached EXCEPT ![t] = TRUE]
      /\ client' = [client EXCEPT ![t] = [at |-> "detach", by |-> o]]
      /\ UNCHANGED <<st, detach_state, joiner, pc, object, ds, grace>>
  BY DEF detach, memory
<1>3. /\ client' \in [Threads -> [at : Steps, by : Threads \cup {Main}]]
      /\ \A x \in Threads : x # t => client'[x] = client[x]
      /\ client'[t].at = "detach" /\ client'[t].by = o
  <2>1. o \in Threads \cup {Main} /\ "detach" \in Steps
    BY OwnerAssumption DEF Steps
  <2>2. QED
    BY <1>1, <1>2, <2>1 DEF TypeOK
<1>4. /\ detached' \in [Threads -> BOOLEAN] /\ detached'[t]
      /\ \A x \in Threads : x # t => detached'[x] = detached[x]
  BY <1>1, <1>2 DEF TypeOK
<1>5. TypeOK'
  BY <1>1, <1>2, <1>3, <1>4 DEF TypeOK, cpus, reaper
<1>6. \A x \in Threads \ {t} : SameThread(x) /\ grace'[x] = grace[x]
  BY <1>1, <1>2, <1>3, <1>4, ReaperFrame DEF SameThread
<1>7. ThreadInv(t)'
  <2>1. (Queued(t)' <=> Queued(t)) /\ (reap'.of = t <=> reap.of = t) /\ reap'.at = reap.at
    BY <1>1, ReaperFrame
  <2>2. QED
    <3>1. Status(t)'
      BY <1>1, <1>2, <1>3, <1>4, <2>1 DEF ThreadInv, Status
    <3>2. Joined(t)'
      BY <1>1, <1>2, <1>3, <1>4, <2>1 DEF ThreadInv, Joined
    <3>3. Detached(t)'
      BY <1>1, <1>2, <1>3, <1>4, <2>1 DEF ThreadInv, Detached
    <3>4. Gone(t)'
      BY <1>1, <1>2, <1>3, <1>4, <2>1 DEF ThreadInv, Gone
    <3>5. Reaped(t)'
      BY <1>1, <1>2, <1>3, <1>4, <2>1 DEF ThreadInv, Reaped
    <3>6. QED
      BY <3>1, <3>2, <3>3, <3>4, <3>5 DEF ThreadInv
<1>8. ASSUME NEW x \in Threads
      PROVE  CallerInv(x)'
  <2>1. CallerInv(x)
    BY DEF LifeInv
  <2>2. QED
    BY <1>2, <1>3, <2>1 DEF CallerInv, Runs
<1>9. ASSUME NEW c \in Cpus
      PROVE  SlotInv(c, t)'
  <2>1. SlotInv(c, t)
    BY DEF LifeInv
  <2>2. QED
    BY <1>1, <1>2, <2>1 DEF SlotInv, Settles, cpus
<1>10. QueueInv'
  BY <1>1, ReaperFrame DEF LifeInv
<1>11. QED
  BY <1>1, <1>5, <1>6, <1>7, <1>8, <1>9, <1>10, OneThread

\* detach(): either complete() will see the thread detached, or detach() sees that
\* it is complete.
LEMMA DetachCasKeeps ==
    ASSUME LifeInv, NEW t \in Threads, detachCas(t)
    PROVE  LifeInv'
<1>1. TypeOK /\ ThreadInv(t) /\ UNCHANGED cpus /\ UNCHANGED reaper
  BY DEF LifeInv, detachCas
<1>2. /\ client[t].at = "detach" /\ Runs(client[t].by)
      /\ detach_state' = [detach_state EXCEPT ![t] = IF @ = "attached" THEN "detached" ELSE @]
      /\ Client(t, IF detach_state[t] = "attached_complete" THEN "zombie" ELSE "done")
      /\ UNCHANGED <<st, detached, joiner, pc, object, ds, grace>>
  BY DEF detachCas, memory
<1>3. /\ client' \in [Threads -> [at : Steps, by : Threads \cup {Main}]]
      /\ \A x \in Threads : /\ client'[x].by = client[x].by
                            /\ x # t => client'[x].at = client[x].at
      /\ client'[t].at = IF detach_state[t] = "attached_complete" THEN "zombie" ELSE "done"
  <2>1. (IF detach_state[t] = "attached_complete" THEN "zombie" ELSE "done") \in Steps
    BY DEF Steps
  <2>2. QED
    BY <1>1, <1>2, <2>1, ClientWrites
<1>4. /\ detach_state' \in [Threads -> {"attached", "detached", "attached_complete"}]
      /\ detach_state'[t] = IF detach_state[t] = "attached" THEN "detached" ELSE detach_state[t]
      /\ \A x \in Threads : x # t => detach_state'[x] = detach_state[x]
  BY <1>1, <1>2 DEF TypeOK
<1>5. TypeOK'
  BY <1>1, <1>2, <1>3, <1>4 DEF TypeOK, cpus, reaper
<1>6. \A x \in Threads \ {t} : SameThread(x) /\ grace'[x] = grace[x]
  BY <1>1, <1>2, <1>3, <1>4, ReaperFrame DEF SameThread
<1>7. ThreadInv(t)'
  <2>1. (Queued(t)' <=> Queued(t)) /\ (reap'.of = t <=> reap.of = t) /\ reap'.at = reap.at
    BY <1>1, ReaperFrame
  <2>2. detach_state[t] \in {"attached", "attached_complete"}
    BY <1>1, <1>2 DEF TypeOK, ThreadInv, Detached
  <2>3. QED
    <3>1. Status(t)'
      BY <1>1, <1>2, <1>3, <1>4, <2>1, <2>2 DEF ThreadInv, Status
    <3>2. Joined(t)'
      BY <1>1, <1>2, <1>3, <1>4, <2>1, <2>2 DEF ThreadInv, Joined
    <3>3. Detached(t)'
      BY <1>1, <1>2, <1>3, <1>4, <2>1, <2>2 DEF ThreadInv, Detached
    <3>4. Gone(t)'
      BY <1>1, <1>2, <1>3, <1>4, <2>1, <2>2 DEF ThreadInv, Gone
    <3>5. Reaped(t)'
      BY <1>1, <1>2, <1>3, <1>4, <2>1, <2>2 DEF ThreadInv, Reaped
    <3>6. QED
      BY <3>1, <3>2, <3>3, <3>4, <3>5 DEF ThreadInv
<1>8. ASSUME NEW x \in Threads
      PROVE  CallerInv(x)'
  <2>1. CallerInv(x)
    BY DEF LifeInv
  <2>2. QED
    BY <1>2, <1>3, <2>1 DEF CallerInv
<1>9. ASSUME NEW c \in Cpus
      PROVE  SlotInv(c, t)'
  <2>1. SlotInv(c, t)
    BY DEF LifeInv
  <2>2. QED
    BY <1>1, <1>2, <2>1 DEF SlotInv, Settles, cpus
<1>10. QueueInv'
  BY <1>1, ReaperFrame DEF LifeInv
<1>11. QED
  BY <1>1, <1>5, <1>6, <1>7, <1>8, <1>9, <1>10, OneThread

\* add_zombie(t), called by whoever has to: t gets into the queue, once.
LEMMA AddZombie ==
    ASSUME LifeInv, NEW t \in Threads, add_zombie(t), client[t].at = "zombie" \/ pc[t] = "zombie"
    PROVE  /\ zombies' \in Seq(Threads) /\ reap' = reap /\ reap.of = None
           /\ \A x : Queued(x)' <=> Queued(x) \/ x = t
           /\ QueueInv'
           /\ ~Queued(t) /\ joiner[t] \in {None, t} /\ object[t] /\ detached[t]
<1>1. TypeOK /\ ThreadInv(t) /\ QueueInv
  BY DEF LifeInv
<1>2. reap = Nobody /\ zombies' = Append(zombies, t) /\ reap' = reap
  BY DEF add_zombie
<1>3. reap.of = None /\ t # None
  BY <1>2, OwnerAssumption DEF Nobody
<1>4. ~Queued(t)
  BY <1>1 DEF ThreadInv, Reaped, Detached
<1>5. object[t] /\ detached[t]
  BY <1>1 DEF ThreadInv, Detached, Gone, Status
<1>6. joiner[t] \in {None, t}
  BY <1>1, <1>3, <1>5 DEF ThreadInv, Joined
<1>7. zombies \in Seq(Threads)
  BY <1>1 DEF TypeOK
<1>8. /\ zombies' \in Seq(Threads) /\ \A x : Queued(x)' <=> Queued(x) \/ x = t
      /\ ~Queued(t) /\ (\A i, j \in DOMAIN zombies : zombies[i] = zombies[j] => i = j) =>
           (\A i, j \in DOMAIN zombies : zombies[i] = zombies[j] => i = j)'
  BY <1>2, <1>7, QueueAppend
<1>9. QueueInv'
  BY <1>1, <1>2, <1>4, <1>8 DEF QueueInv
<1>10. QED
  BY <1>2, <1>3, <1>4, <1>5, <1>6, <1>8, <1>9

\* detach() of a thread that is complete leaves it to the reaper.
LEMMA DetachZombieKeeps ==
    ASSUME LifeInv, NEW t \in Threads, detachZombie(t)
    PROVE  LifeInv'
<1>1. TypeOK /\ ThreadInv(t) /\ UNCHANGED cpus
  BY DEF LifeInv, detachZombie
<1>2. /\ client[t].at = "zombie" /\ add_zombie(t) /\ Client(t, "done") /\ "done" \in Steps
      /\ UNCHANGED <<st, detach_state, detached, joiner, pc, object, ds, grace>>
  BY DEF detachZombie, life, memory, Steps
<1>3. /\ client' \in [Threads -> [at : Steps, by : Threads \cup {Main}]]
      /\ \A x \in Threads : /\ client'[x].by = client[x].by
                            /\ client'[x].at = IF x = t THEN "done" ELSE client[x].at
  BY <1>1, <1>2, ClientWrites
<1>4. /\ zombies' \in Seq(Threads) /\ reap' = reap /\ reap.of = None
      /\ \A x : Queued(x)' <=> Queued(x) \/ x = t
      /\ QueueInv'
      /\ ~Queued(t) /\ joiner[t] \in {None, t} /\ object[t] /\ detached[t]
  BY <1>2, AddZombie
<1>5. TypeOK'
  BY <1>1, <1>2, <1>3, <1>4 DEF TypeOK, cpus
<1>6. \A x \in Threads \ {t} : SameThread(x) /\ grace'[x] = grace[x]
  BY <1>1, <1>2, <1>3, <1>4 DEF SameThread
<1>7. ThreadInv(t)'
  <2>1. t # None
    BY OwnerAssumption
  <2>2. QED
    <3>1. Status(t)'
      BY <1>1, <1>2, <1>3, <1>4, <2>1 DEF ThreadInv, Status
    <3>2. Joined(t)'
      BY <1>1, <1>2, <1>3, <1>4, <2>1 DEF ThreadInv, Joined
    <3>3. Detached(t)'
      BY <1>1, <1>2, <1>3, <1>4, <2>1 DEF ThreadInv, Detached
    <3>4. Gone(t)'
      BY <1>1, <1>2, <1>3, <1>4, <2>1 DEF ThreadInv, Gone
    <3>5. Reaped(t)'
      BY <1>1, <1>2, <1>3, <1>4, <2>1 DEF ThreadInv, Reaped, Detached
    <3>6. QED
      BY <3>1, <3>2, <3>3, <3>4, <3>5 DEF ThreadInv
<1>8. ASSUME NEW x \in Threads
      PROVE  CallerInv(x)'
  <2>1. CallerInv(x)
    BY DEF LifeInv
  <2>2. QED
    BY <1>2, <1>3, <2>1 DEF CallerInv
<1>9. ASSUME NEW c \in Cpus
      PROVE  SlotInv(c, t)'
  <2>1. SlotInv(c, t)
    BY DEF LifeInv
  <2>2. QED
    BY <1>1, <1>2, <2>1 DEF SlotInv, Settles, cpus
<1>10. QED
  BY <1>1, <1>4, <1>5, <1>6, <1>7, <1>8, <1>9, OneThread

\* complete(): either detach() will see the thread complete, or complete() sees that
\* it is detached.
LEMMA CompleteKeeps ==
    ASSUME LifeInv, NEW t \in Threads, complete(t)
    PROVE  LifeInv'
<1>1. TypeOK /\ ThreadInv(t) /\ UNCHANGED cpus /\ UNCHANGED reaper
  BY DEF LifeInv, complete
<1>2. /\ st[t] = "running" /\ Runs(t) /\ Calls(t) = {}
      /\ detach_state' = [detach_state EXCEPT ![t] = IF @ = "attached" THEN "attached_complete" ELSE @]
      /\ pc' = [pc EXCEPT ![t] = IF detach_state[t] = "detached" THEN "zombie" ELSE "exit"]
      /\ UNCHANGED <<st, detached, joiner, client, object, ds, grace>>
  BY DEF complete, Go, memory
<1>3. /\ detach_state' \in [Threads -> {"attached", "detached", "attached_complete"}]
      /\ detach_state'[t] = IF detach_state[t] = "attached" THEN "attached_complete" ELSE detach_state[t]
      /\ \A x \in Threads : x # t => detach_state'[x] = detach_state[x]
  BY <1>1, <1>2 DEF TypeOK
<1>4. /\ pc' \in [Threads -> {"run", "zombie", "exit", "displace", "off"}]
      /\ pc'[t] = IF detach_state[t] = "detached" THEN "zombie" ELSE "exit"
      /\ \A x \in Threads : x # t => pc'[x] = pc[x]
  BY <1>1, <1>2 DEF TypeOK
<1>5. TypeOK'
  BY <1>1, <1>2, <1>3, <1>4 DEF TypeOK, cpus, reaper
<1>6. \A x \in Threads \ {t} : SameThread(x) /\ grace'[x] = grace[x]
  BY <1>1, <1>2, <1>3, <1>4, ReaperFrame DEF SameThread
<1>7. pc[t] = "run"
  BY <1>2 DEF Runs
<1>8. ThreadInv(t)'
  <2>1. (Queued(t)' <=> Queued(t)) /\ (reap'.of = t <=> reap.of = t) /\ reap'.at = reap.at
    BY <1>1, ReaperFrame
  <2>2. detach_state[t] \in {"attached", "detached"}
    BY <1>1, <1>7 DEF TypeOK, ThreadInv, Detached
  <2>3. QED
    <3>1. Status(t)'
      BY <1>1, <1>2, <1>3, <1>4, <1>7, <2>1, <2>2 DEF ThreadInv, Status
    <3>2. Joined(t)'
      BY <1>1, <1>2, <1>3, <1>4, <1>7, <2>1, <2>2 DEF ThreadInv, Joined
    <3>3. Detached(t)'
      BY <1>1, <1>2, <1>3, <1>4, <1>7, <2>1, <2>2 DEF ThreadInv, Detached
    <3>4. Gone(t)'
      BY <1>1, <1>2, <1>3, <1>4, <1>7, <2>1, <2>2 DEF ThreadInv, Gone
    <3>5. Reaped(t)'
      BY <1>1, <1>2, <1>3, <1>4, <1>7, <2>1, <2>2 DEF ThreadInv, Reaped
    <3>6. QED
      BY <3>1, <3>2, <3>3, <3>4, <3>5 DEF ThreadInv
<1>9. ASSUME NEW x \in Threads
      PROVE  CallerInv(x)'
  <2>1. CallerInv(x)
    BY DEF LifeInv
  <2>2. client[x].by = t => client[x].at \in {"own", "done"}
    BY <1>2 DEF Calls
  <2>3. QED
    BY <1>2, <1>4, <2>1, <2>2 DEF CallerInv
<1>10. ASSUME NEW c \in Cpus
       PROVE  SlotInv(c, t)'
  <2>1. SlotInv(c, t)
    BY DEF LifeInv
  <2>2. QED
    BY <1>1, <1>2, <2>1 DEF SlotInv, Settles, cpus
<1>11. QueueInv'
  BY <1>1, ReaperFrame DEF LifeInv
<1>12. QED
  BY <1>1, <1>5, <1>6, <1>8, <1>9, <1>10, <1>11, OneThread

\* complete() of a detached thread leaves it to the reaper.
LEMMA CompleteZombieKeeps ==
    ASSUME LifeInv, NEW t \in Threads, completeZombie(t)
    PROVE  LifeInv'
<1>1. TypeOK /\ ThreadInv(t) /\ UNCHANGED cpus
  BY DEF LifeInv, completeZombie
<1>2. /\ pc[t] = "zombie" /\ add_zombie(t) /\ pc' = [pc EXCEPT ![t] = "exit"]
      /\ UNCHANGED <<st, detach_state, detached, joiner, client, object, ds, grace>>
  BY DEF completeZombie, At, Go, life, memory
<1>3. /\ pc' \in [Threads -> {"run", "zombie", "exit", "displace", "off"}] /\ pc'[t] = "exit"
      /\ \A x \in Threads : x # t => pc'[x] = pc[x]
  BY <1>1, <1>2 DEF TypeOK
<1>4. /\ zombies' \in Seq(Threads) /\ reap' = reap /\ reap.of = None
      /\ \A x : Queued(x)' <=> Queued(x) \/ x = t
      /\ QueueInv'
      /\ ~Queued(t) /\ joiner[t] \in {None, t} /\ object[t] /\ detached[t]
  BY <1>2, AddZombie
<1>5. TypeOK'
  BY <1>1, <1>2, <1>3, <1>4 DEF TypeOK, cpus
<1>6. \A x \in Threads \ {t} : SameThread(x) /\ grace'[x] = grace[x]
  BY <1>1, <1>2, <1>3, <1>4 DEF SameThread
<1>7. ThreadInv(t)'
  <2>1. t # None
    BY OwnerAssumption
  <2>2. client[t].at = "done" /\ st[t] = "running"
    BY <1>1, <1>2 DEF ThreadInv, Status, Detached
  <2>3. QED
    <3>1. Status(t)'
      BY <1>1, <1>2, <1>3, <1>4, <2>1, <2>2 DEF ThreadInv, Status
    <3>2. Joined(t)'
      BY <1>1, <1>2, <1>3, <1>4, <2>1, <2>2 DEF ThreadInv, Joined
    <3>3. Detached(t)'
      BY <1>1, <1>2, <1>3, <1>4, <2>1, <2>2 DEF ThreadInv, Detached
    <3>4. Gone(t)'
      BY <1>1, <1>2, <1>3, <1>4, <2>1, <2>2 DEF ThreadInv, Gone
    <3>5. Reaped(t)'
      BY <1>1, <1>2, <1>3, <1>4, <2>1, <2>2 DEF ThreadInv, Reaped, Detached
    <3>6. QED
      BY <3>1, <3>2, <3>3, <3>4, <3>5 DEF ThreadInv
<1>8. ASSUME NEW x \in Threads
      PROVE  CallerInv(x)'
  <2>1. CallerInv(x)
    BY DEF LifeInv
  <2>2. QED
    BY <1>2, <1>3, <2>1 DEF CallerInv
<1>9. ASSUME NEW c \in Cpus
      PROVE  SlotInv(c, t)'
  <2>1. SlotInv(c, t)
    BY DEF LifeInv
  <2>2. st[t] = "running"
    BY <1>1, <1>2 DEF ThreadInv, Status
  <2>3. QED
    BY <1>1, <1>2, <2>1, <2>2 DEF SlotInv, Settles, cpus
<1>10. QED
  BY <1>1, <1>4, <1>5, <1>6, <1>7, <1>8, <1>9, OneThread

-----------------------------------------------------------------------------
\* The reaper takes the oldest zombie, or sleeps.
LEMMA ReapNextKeeps ==
    ASSUME LifeInv, reapNext
    PROVE  LifeInv'
<1>1. TypeOK /\ QueueInv /\ UNCHANGED cpus /\ reap.at \in {"none", "next"}
  BY DEF LifeInv, reapNext
<1>2. UNCHANGED <<st, detach_state, detached, joiner, pc, client, object, ds, grace>>
  BY DEF reapNext, life, memory
<1>3. reap.of = None /\ \A x \in Threads : x # None
  BY <1>1, OwnerAssumption DEF QueueInv
<1>4. \A x \in Threads : CallerInv(x)'
  <2>1. \A x \in Threads : CallerInv(x)
    BY DEF LifeInv
  <2>2. QED
    BY <1>2, <2>1 DEF CallerInv
<1>5. CASE zombies = <<>>
  <2>1. reap' = Nobody /\ zombies' = zombies
    BY <1>5 DEF reapNext
  <2>2. reap' = [at |-> "none", of |-> None]
    BY <2>1 DEF Nobody
  <2>3. TypeOK'
    BY <1>1, <1>2, <2>1, <2>2, SMT DEF TypeOK, cpus
  <2>4. \A x \in Threads : SameThread(x) /\ grace'[x] = grace[x]
    BY <1>2, <1>3, <2>1, <2>2, SMT DEF SameThread, Queued
  <2>5. QueueInv'
    BY <1>1, <2>1, <2>2, SMT DEF QueueInv
  <2>6. \A x \in Threads : ThreadInv(x)'
    BY <2>4, ThreadFrame DEF LifeInv
  <2>7. ASSUME NEW c \in Cpus, NEW x \in Threads
        PROVE  SlotInv(c, x)'
    <3>1. SlotInv(c, x) /\ SameThread(x) /\ (c \in grace[x] => c \in grace'[x])
      BY <2>4 DEF LifeInv
    <3>2. destroying'[c] = destroying[c] /\ terminating_thread'[c] = terminating_thread[c]
      BY <1>1 DEF cpus
    <3>3. QED
      BY <3>1, <3>2, SlotFrame
  <2>8. /\ (\A c \in Cpus : CpuInv(c))'
        /\ (\A c, d \in Cpus, x \in Threads : ApartInv(c, d, x))'
    BY <1>1, CpusFrame DEF LifeInv
  <2>9. QED
    BY <1>4, <2>3, <2>5, <2>6, <2>7, <2>8 DEF LifeInv
<1>6. CASE zombies # <<>>
  <2>1. zombies \in Seq(Threads) /\ \A i, j \in DOMAIN zombies : zombies[i] = zombies[j] => i = j
    BY <1>1 DEF TypeOK, QueueInv
  <2>2. PICK t \in Threads : t = Head(zombies)
    BY <1>6, <2>1, SMT
  <2>3. reap' = [at |-> "join", of |-> t] /\ zombies' = Tail(zombies)
    BY <1>6, <2>2 DEF reapNext, Reap
  <2>4. /\ zombies' \in Seq(Threads) /\ t \in Threads /\ Queued(t)
        /\ \A x : Queued(x)' <=> Queued(x) /\ x # t
        /\ (\A i, j \in DOMAIN zombies : zombies[i] = zombies[j] => i = j)'
    BY <1>6, <2>1, <2>3, <2>2, QueueTail
  <2>5. reap'.at = "join" /\ reap'.of = t
    BY <2>3
  <2>6. TypeOK'
    BY <1>1, <1>2, <2>3, <2>4 DEF TypeOK, cpus
  <2>7. \A x \in Threads \ {t} : SameThread(x) /\ grace'[x] = grace[x]
    BY <1>2, <1>3, <2>4, <2>5 DEF SameThread
  <2>8. ThreadInv(t)'
    <3>1. ThreadInv(t)
      BY <2>4 DEF LifeInv
    <3>2. QED
      <4>1. Status(t)'
        BY <1>2, <1>3, <2>4, <2>5, <3>1 DEF ThreadInv, Status
      <4>2. Joined(t)'
        BY <1>2, <1>3, <2>4, <2>5, <3>1 DEF ThreadInv, Joined
      <4>3. Detached(t)'
        BY <1>2, <1>3, <2>4, <2>5, <3>1 DEF ThreadInv, Detached
      <4>4. Gone(t)'
        BY <1>2, <1>3, <2>4, <2>5, <3>1 DEF ThreadInv, Gone
      <4>5. Reaped(t)'
        BY <1>2, <1>3, <2>4, <2>5, <3>1 DEF ThreadInv, Reaped
      <4>6. QED
        BY <4>1, <4>2, <4>3, <4>4, <4>5 DEF ThreadInv
  <2>9. ASSUME NEW c \in Cpus
        PROVE  SlotInv(c, t)'
    <3>1. SlotInv(c, t)
      BY <2>4 DEF LifeInv
    <3>2. QED
      BY <1>1, <1>2, <3>1 DEF SlotInv, Settles, cpus
  <2>10. QueueInv'
    BY <1>3, <2>4, <2>5 DEF QueueInv
  <2>11. QED
    BY <1>1, <1>4, <2>4, <2>6, <2>7, <2>8, <2>9, <2>10, OneThread
<1>7. QED
  BY <1>5, <1>6

\* The reaper joins it: the compare-and-swap on _joiner, as in join().
LEMMA ReapJoinKeeps ==
    ASSUME LifeInv, reapJoin
    PROVE  LifeInv'
<1>1. TypeOK /\ QueueInv /\ UNCHANGED cpus /\ reap.at = "join" /\ zombies' = zombies
  BY DEF LifeInv, reapJoin
<1>2. UNCHANGED <<st, detach_state, detached, pc, client, object, ds, grace>>
  BY DEF reapJoin, memory
<1>3. PICK t \in Threads : t = reap.of
  BY <1>1 DEF TypeOK, QueueInv
<1>4. t \in Threads /\ t # None /\ Reaper \notin {t, None}
  BY OwnerAssumption
<1>5. ThreadInv(t)
  BY <1>4 DEF LifeInv
<1>6. joiner[t] \in {None, t}
  BY <1>1, <1>5, <1>3 DEF ThreadInv, Reaped
<1>7. /\ joiner' \in [Threads -> Others]
      /\ joiner'[t] = IF joiner[t] = None THEN Reaper ELSE t
      /\ \A x \in Threads : x # t => joiner'[x] = joiner[x]
      /\ reap' = [at |-> IF joiner[t] = None THEN "wait" ELSE "cleanup", of |-> t]
  BY <1>1, <1>4, <1>6, <1>3 DEF reapJoin, Reap, TypeOK, Others
<1>8. reap'.of = t /\ reap'.at = IF joiner[t] = None THEN "wait" ELSE "cleanup"
  BY <1>7
<1>9. TypeOK'
  BY <1>1, <1>2, <1>4, <1>7 DEF TypeOK, cpus
<1>10. \A x \in Threads \ {t} : SameThread(x) /\ grace'[x] = grace[x]
  BY <1>1, <1>2, <1>7, <1>8, <1>3 DEF SameThread, Queued
<1>11. ThreadInv(t)'
  <2>1. Queued(t)' <=> Queued(t)
    BY <1>1 DEF Queued
  <2>2. Owner[t] \notin {Reaper, t, None}
    BY <1>4, OwnerAssumption
  <2>3. QED
    <3>1. Status(t)'
      BY <1>1, <1>2, <1>4, <1>5, <1>6, <1>7, <1>8, <1>3, <2>1, <2>2 DEF ThreadInv, Status
    <3>2. Joined(t)'
      BY <1>1, <1>2, <1>4, <1>5, <1>6, <1>7, <1>8, <1>3, <2>1, <2>2 DEF ThreadInv, Joined
    <3>3. Detached(t)'
      BY <1>1, <1>2, <1>4, <1>5, <1>6, <1>7, <1>8, <1>3, <2>1, <2>2 DEF ThreadInv, Detached
    <3>4. Gone(t)'
      BY <1>1, <1>2, <1>4, <1>5, <1>6, <1>7, <1>8, <1>3, <2>1, <2>2 DEF ThreadInv, Gone
    <3>5. Reaped(t)'
      BY <1>1, <1>2, <1>4, <1>5, <1>6, <1>7, <1>8, <1>3, <2>1, <2>2 DEF ThreadInv, Reaped
    <3>6. QED
      BY <3>1, <3>2, <3>3, <3>4, <3>5 DEF ThreadInv
<1>12. \A x \in Threads : CallerInv(x)'
  <2>1. \A x \in Threads : CallerInv(x)
    BY DEF LifeInv
  <2>2. QED
    BY <1>2, <2>1 DEF CallerInv
<1>13. ASSUME NEW c \in Cpus
       PROVE  SlotInv(c, t)'
  <2>1. SlotInv(c, t)
    BY <1>4 DEF LifeInv
  <2>2. QED
    BY <1>1, <1>2, <1>4, <1>6, <1>7, <2>1 DEF SlotInv, Settles, cpus
<1>14. QueueInv'
  BY <1>1, <1>4, <1>8 DEF QueueInv
<1>15. QED
  BY <1>1, <1>4, <1>9, <1>10, <1>11, <1>12, <1>13, <1>14, OneThread

\* The reaper waits until it is terminated.
LEMMA ReapWaitKeeps ==
    ASSUME LifeInv, reapWait
    PROVE  LifeInv'
<1>1. TypeOK /\ QueueInv /\ UNCHANGED cpus /\ reap.at = "wait" /\ zombies' = zombies
  BY DEF LifeInv, reapWait
<1>2. UNCHANGED <<st, detach_state, detached, joiner, pc, client, object, ds, grace>>
  BY DEF reapWait, life, memory
<1>3. PICK t \in Threads : t = reap.of
  BY <1>1 DEF TypeOK, QueueInv
<1>4. t \in Threads /\ t # None
  BY OwnerAssumption
<1>5. ThreadInv(t)
  BY <1>4 DEF LifeInv
<1>6. /\ reap'.of = t /\ reap'.at = IF st[t] = "terminated" THEN "cleanup" ELSE "wait"
      /\ reap' \in [at : {"none", "next", "join", "wait", "cleanup"}, of : Threads \cup {None}]
  BY <1>1, <1>4, <1>3, SMT DEF reapWait, Reap, TypeOK
<1>7. TypeOK'
  BY <1>1, <1>2, <1>6 DEF TypeOK, cpus
<1>8. \A x \in Threads \ {t} : SameThread(x) /\ grace'[x] = grace[x]
  BY <1>1, <1>2, <1>6, <1>3 DEF SameThread, Queued
<1>9. ThreadInv(t)'
  <2>1. Queued(t)' <=> Queued(t)
    BY <1>1 DEF Queued
  <2>2. QED
    <3>1. Status(t)'
      BY <1>1, <1>2, <1>4, <1>5, <1>6, <1>3, <2>1 DEF ThreadInv, Status
    <3>2. Joined(t)'
      BY <1>1, <1>2, <1>4, <1>5, <1>6, <1>3, <2>1 DEF ThreadInv, Joined
    <3>3. Detached(t)'
      BY <1>1, <1>2, <1>4, <1>5, <1>6, <1>3, <2>1 DEF ThreadInv, Detached
    <3>4. Gone(t)'
      BY <1>1, <1>2, <1>4, <1>5, <1>6, <1>3, <2>1 DEF ThreadInv, Gone
    <3>5. Reaped(t)'
      BY <1>1, <1>2, <1>4, <1>5, <1>6, <1>3, <2>1 DEF ThreadInv, Reaped
    <3>6. QED
      BY <3>1, <3>2, <3>3, <3>4, <3>5 DEF ThreadInv
<1>10. \A x \in Threads : CallerInv(x)'
  <2>1. \A x \in Threads : CallerInv(x)
    BY DEF LifeInv
  <2>2. QED
    BY <1>2, <2>1 DEF CallerInv
<1>11. ASSUME NEW c \in Cpus
       PROVE  SlotInv(c, t)'
  <2>1. SlotInv(c, t)
    BY <1>4 DEF LifeInv
  <2>2. QED
    BY <1>1, <1>2, <2>1 DEF SlotInv, Settles, cpus
<1>12. QueueInv'
  BY <1>1, <1>4, <1>6 DEF QueueInv
<1>13. QED
  BY <1>1, <1>4, <1>7, <1>8, <1>9, <1>10, <1>11, <1>12, OneThread

\* The reaper deletes it.
LEMMA ReapCleanupKeeps ==
    ASSUME LifeInv, reapCleanup
    PROVE  LifeInv'
<1>1. TypeOK /\ QueueInv /\ UNCHANGED cpus /\ reap.at = "cleanup" /\ zombies' = zombies
  BY DEF LifeInv, reapCleanup
<1>2. PICK t \in Threads : t = reap.of
  BY <1>1 DEF TypeOK, QueueInv
<1>3. UNCHANGED <<st, detach_state, detached, joiner, pc, client>> /\ Delete(t)
  BY <1>2 DEF reapCleanup, life
<1>4. t \in Threads /\ t # None /\ \A x \in Threads : x # None
  BY OwnerAssumption
<1>5. ThreadInv(t)
  BY <1>4 DEF LifeInv
<1>6. reap' = [at |-> "next", of |-> None]
  BY DEF reapCleanup, Reap
<1>7. t = reap.of /\ reap'.of = None /\ reap'.at = "next"
  BY <1>6, <1>2
<1>8. /\ object' \in [Threads -> BOOLEAN] /\ ds' \in [Threads -> {"alive", "disposed", "freed"}]
      /\ grace' \in [Threads -> SUBSET Cpus]
      /\ ~object'[t] /\ ds'[t] = "disposed"
      /\ \A c \in Cpus : destroying[c].of = t => c \in grace'[t]
      /\ \A x \in Threads \ {t} : object'[x] = object[x] /\ ds'[x] = ds[x] /\ grace'[x] = grace[x]
  BY <1>3, <1>4, DeleteWrites
<1>9. TypeOK'
  BY <1>1, <1>3, <1>6, <1>8 DEF TypeOK, cpus
<1>10. \A x \in Threads \ {t} : SameThread(x) /\ grace'[x] = grace[x]
  BY <1>1, <1>3, <1>4, <1>7, <1>8 DEF SameThread, Queued
<1>11. ThreadInv(t)'
  <2>1. Queued(t)' <=> Queued(t)
    BY <1>1 DEF Queued
  <2>2. Owner[t] \notin {Reaper, t, None}
    BY <1>4, OwnerAssumption
  <2>3. QED
    <3>1. Status(t)'
      BY <1>1, <1>3, <1>4, <1>5, <1>7, <1>8, <2>1, <2>2 DEF ThreadInv, Status
    <3>2. Joined(t)'
      BY <1>1, <1>3, <1>4, <1>5, <1>7, <1>8, <2>1, <2>2 DEF ThreadInv, Joined
    <3>3. Detached(t)'
      BY <1>1, <1>3, <1>4, <1>5, <1>7, <1>8, <2>1, <2>2 DEF ThreadInv, Detached
    <3>4. Gone(t)'
      BY <1>1, <1>3, <1>4, <1>5, <1>7, <1>8, <2>1, <2>2 DEF ThreadInv, Gone, Status, Joined, Detached, Reaped
    <3>5. Reaped(t)'
      BY <1>1, <1>3, <1>4, <1>5, <1>7, <1>8, <2>1, <2>2 DEF ThreadInv, Reaped
    <3>6. QED
      BY <3>1, <3>2, <3>3, <3>4, <3>5 DEF ThreadInv
<1>12. \A x \in Threads : CallerInv(x)'
  <2>1. \A x \in Threads : CallerInv(x)
    BY DEF LifeInv
  <2>2. QED
    BY <1>3, <2>1 DEF CallerInv
<1>13. ASSUME NEW c \in Cpus
       PROVE  SlotInv(c, t)'
  <2>1. SlotInv(c, t)
    BY <1>4 DEF LifeInv
  <2>2. QED
    BY <1>1, <1>3, <1>8, <2>1 DEF SlotInv, Settles, cpus
<1>14. QueueInv'
  BY <1>1, <1>7 DEF QueueInv
<1>15. QED
  BY <1>1, <1>4, <1>9, <1>10, <1>11, <1>12, <1>13, <1>14, OneThread

-----------------------------------------------------------------------------
\* The thread in the slot of a CPU still has its object.
LEMMA SlotObject ==
    ASSUME LifeInv, NEW c \in Cpus, NEW x \in Threads, terminating_thread[c] = x
    PROVE  object[x] /\ st[x] = "terminating" /\ joiner[x] # x
<1>1. SlotInv(c, x) /\ Gone(x)
  BY DEF LifeInv, ThreadInv
<1>2. QED
  BY <1>1 DEF SlotInv, Gone

\* complete(): the thread gets into the slot of its CPU, and destroys whom it finds
\* there.
LEMMA CompleteTerminatingKeeps ==
    ASSUME LifeInv, NEW t \in Threads, NEW c \in Cpus, completeTerminating(t, c)
    PROVE  LifeInv'
<1>1. TypeOK /\ ThreadInv(t) /\ UNCHANGED reaper
  BY DEF LifeInv, completeTerminating
<1>2. PICK u \in Threads \cup {None} : u = terminating_thread[c]
  BY <1>1 DEF TypeOK
<1>3. /\ pc[t] = "exit" /\ destroying[c].at = "none" /\ destroying[c].of = None
      /\ UNCHANGED <<detach_state, detached, joiner, client, object, ds, grace>>
  BY SMT DEF completeTerminating, At, memory, Nobody
<1>4. st[t] = "running" /\ t # None /\ joiner[t] # t
  BY <1>1, <1>3, OwnerAssumption DEF ThreadInv, Status, Joined
<1>5. /\ st' \in [Threads -> {"unstarted", "running", "terminating", "terminated"}]
      /\ st'[t] = "terminating" /\ \A x \in Threads : x # t => st'[x] = st[x]
  BY <1>1 DEF completeTerminating, TypeOK
<1>6. /\ pc' \in [Threads -> {"run", "zombie", "exit", "displace", "off"}]
      /\ pc'[t] = IF u = None THEN "off" ELSE "displace"
      /\ \A x \in Threads : x # t => pc'[x] = pc[x]
  <2>1. pc' = [pc EXCEPT ![t] = IF u = None THEN "off" ELSE "displace"]
    BY <1>2 DEF completeTerminating, Go
  <2>2. QED
    BY <1>1, <2>1 DEF TypeOK
<1>7. /\ terminating_thread' \in [Cpus -> Threads \cup {None}] /\ terminating_thread'[c] = t
      /\ \A d \in Cpus : d # c => terminating_thread'[d] = terminating_thread[d]
  BY <1>1 DEF completeTerminating, TypeOK
<1>8. /\ destroying' \in [Cpus -> [at : Stages, of : Others]]
      /\ destroying'[c].of = u /\ destroying'[c].at = IF u = None THEN "none" ELSE "cas"
      /\ \A d \in Cpus : d # c => destroying'[d] = destroying[d]
  <2>1. destroying \in [Cpus -> [at : Stages, of : Others]] /\ u \in Others /\ "cas" \in Stages
    BY <1>1 DEF TypeOK, Others, Stages
  <2>2. CASE u = None
    <3>1. destroying' = destroying
      BY <1>2, <2>2 DEF completeTerminating
    <3>2. QED
      BY <1>3, <2>1, <2>2, <3>1
  <2>3. CASE u # None
    <3>1. destroying' = [destroying EXCEPT ![c] = [at |-> "cas", of |-> u]]
      BY <1>2, <2>3 DEF completeTerminating
    <3>2. QED
      BY <2>1, <2>3, <3>1
  <2>4. QED
    BY <2>2, <2>3
<1>9. u \in Threads => object[u] /\ st[u] = "terminating" /\ joiner[u] # u /\ pc[u] = "off"
  <2>1. u \in Threads => SlotInv(c, u) /\ object[u] /\ st[u] = "terminating" /\ joiner[u] # u
    BY <1>2, SlotObject DEF LifeInv
  <2>2. QED
    BY <1>3, <1>2, <2>1 DEF SlotInv
<1>10. TypeOK'
  BY <1>1, <1>3, <1>5, <1>6, <1>7, <1>8 DEF TypeOK, reaper
<1>11. \A x \in Threads \ {t} : SameThread(x) /\ grace'[x] = grace[x]
  BY <1>1, <1>3, <1>5, <1>6, ReaperFrame DEF SameThread
<1>12. ASSUME NEW x \in Threads
       PROVE  ThreadInv(x)'
  <2>1. CASE x = t
    <3>1. (Queued(t)' <=> Queued(t)) /\ (reap'.of = t <=> reap.of = t) /\ reap'.at = reap.at
      BY <1>1, ReaperFrame
    <3>2. ThreadInv(t)'
      <4>1. Status(t)'
        BY <1>1, <1>3, <1>4, <1>5, <1>6, <3>1 DEF ThreadInv, Status
      <4>2. Joined(t)'
        BY <1>1, <1>3, <1>4, <1>5, <1>6, <3>1 DEF ThreadInv, Joined
      <4>3. Detached(t)'
        BY <1>1, <1>3, <1>4, <1>5, <1>6, <3>1 DEF ThreadInv, Detached
      <4>4. Gone(t)'
        BY <1>1, <1>3, <1>4, <1>5, <1>6, <3>1 DEF ThreadInv, Gone
      <4>5. Reaped(t)'
        BY <1>1, <1>3, <1>4, <1>5, <1>6, <3>1 DEF ThreadInv, Reaped
      <4>6. QED
        BY <4>1, <4>2, <4>3, <4>4, <4>5 DEF ThreadInv
    <3>3. QED
      BY <2>1, <3>2
  <2>2. CASE x # t
    BY <1>11, <2>2, ThreadFrame DEF LifeInv
  <2>3. QED
    BY <2>1, <2>2
<1>13. ASSUME NEW x \in Threads
       PROVE  CallerInv(x)'
  <2>1. CallerInv(x)
    BY DEF LifeInv
  <2>2. QED
    BY <1>3, <1>5, <1>6, <2>1 DEF CallerInv
<1>14. ASSUME NEW d \in Cpus
       PROVE  CpuInv(d)'
  <2>1. CpuInv(d)
    BY DEF LifeInv
  <2>2. QED
    BY <1>1, <1>8, <2>1 DEF CpuInv
<1>15. ASSUME NEW d \in Cpus, NEW x \in Threads
       PROVE  SlotInv(d, x)'
  <2>1. SlotInv(d, x) /\ x # None
    BY OwnerAssumption DEF LifeInv
  <2>2. CASE d = c
    <3>1. CASE x = t
      <4>1. u # t
        BY <1>4, <1>9
      <4>2. QED
        BY <1>3, <1>4, <1>5, <1>6, <1>7, <1>8, <2>2, <3>1, <4>1 DEF SlotInv, Settles
    <3>2. CASE x = u
      <4>1. x # t /\ object[x] /\ st[x] = "terminating" /\ joiner[x] # x /\ pc[x] = "off"
        BY <1>4, <1>9, <3>2
      <4>2. QED
        BY <1>3, <1>4, <1>5, <1>6, <1>7, <1>8, <2>2, <3>2, <4>1 DEF SlotInv, Settles
    <3>3. CASE x # t /\ x # u
      BY <1>7, <1>8, <2>2, <3>3 DEF SlotInv, Settles
    <3>4. QED
      BY <3>1, <3>2, <3>3
  <2>3. CASE d # c
    BY <1>3, <1>4, <1>5, <1>6, <1>7, <1>8, <2>1, <2>3 DEF SlotInv, Settles
  <2>4. QED
    BY <2>2, <2>3
<1>16. ASSUME NEW d \in Cpus, NEW e \in Cpus, NEW x \in Threads
       PROVE  ApartInv(d, e, x)'
  <2>1. ApartInv(d, e, x) /\ ApartInv(e, d, x) /\ SlotInv(d, x) /\ SlotInv(e, x) /\ x # None
    BY OwnerAssumption DEF LifeInv
  <2>2. QED
    BY <1>4, <1>7, <1>8, <1>2, <2>1, SMT DEF ApartInv, SlotInv, Settles
<1>17. QueueInv'
  BY <1>1, ReaperFrame DEF LifeInv
<1>18. QED
  BY <1>10, <1>12, <1>13, <1>14, <1>15, <1>16, <1>17 DEF LifeInv

\* The next thread of the CPU begins to destroy the one in the slot.
LEMMA DestroyCurrentKeeps ==
    ASSUME LifeInv, NEW c \in Cpus, destroy_current_cpu_terminating_thread(c)
    PROVE  LifeInv'
<1>1. TypeOK /\ UNCHANGED reaper
  BY DEF LifeInv, destroy_current_cpu_terminating_thread
<1>2. PICK u \in Threads : u = terminating_thread[c]
  BY <1>1 DEF destroy_current_cpu_terminating_thread, TypeOK
<1>3. TypeOK /\ UNCHANGED reaper /\ u \in Threads /\ u # None
  BY <1>1, OwnerAssumption
<1>4. /\ destroying[c].at = "none" /\ destroying[c].of = None
      /\ UNCHANGED <<st, detach_state, detached, joiner, pc, client, object, ds, grace>>
  BY SMT DEF destroy_current_cpu_terminating_thread, life, memory, Nobody
<1>5. /\ terminating_thread' \in [Cpus -> Threads \cup {None}] /\ terminating_thread'[c] = None
      /\ \A d \in Cpus : d # c => terminating_thread'[d] = terminating_thread[d]
  BY <1>3 DEF destroy_current_cpu_terminating_thread, TypeOK
<1>6. /\ destroying' \in [Cpus -> [at : Stages, of : Others]]
      /\ destroying'[c].of = u /\ destroying'[c].at = "cas"
      /\ \A d \in Cpus : d # c => destroying'[d] = destroying[d]
  <2>1. destroying \in [Cpus -> [at : Stages, of : Others]] /\ u \in Others /\ "cas" \in Stages
    BY <1>3 DEF TypeOK, Others, Stages
  <2>2. destroying' = [destroying EXCEPT ![c] = [at |-> "cas", of |-> u]]
    BY <1>2 DEF destroy_current_cpu_terminating_thread
  <2>3. QED
    BY <2>1, <2>2
<1>7. object[u] /\ st[u] = "terminating" /\ joiner[u] # u /\ pc[u] = "off"
  <2>1. SlotInv(c, u) /\ object[u] /\ st[u] = "terminating" /\ joiner[u] # u
    BY <1>3, <1>2, SlotObject DEF LifeInv
  <2>2. QED
    BY <1>4, <1>2, <2>1 DEF SlotInv
<1>8. TypeOK'
  BY <1>3, <1>4, <1>5, <1>6 DEF TypeOK, reaper
<1>9. \A x \in Threads : SameThread(x)
  BY <1>3, <1>4, ReaperFrame DEF SameThread
<1>10. \A x \in Threads : ThreadInv(x)' /\ CallerInv(x)'
  <2>1. \A x \in Threads : ThreadInv(x) /\ CallerInv(x)
    BY DEF LifeInv
  <2>2. \A x \in Threads : CallerInv(x)'
    BY <1>4, <2>1 DEF CallerInv
  <2>3. QED
    BY <1>9, <2>1, <2>2, ThreadFrame
<1>11. ASSUME NEW d \in Cpus
       PROVE  CpuInv(d)'
  <2>1. CpuInv(d)
    BY DEF LifeInv
  <2>2. QED
    BY <1>3, <1>6, <2>1 DEF CpuInv
<1>12. ASSUME NEW d \in Cpus, NEW x \in Threads
       PROVE  SlotInv(d, x)'
  <2>1. SlotInv(d, x) /\ x # None
    BY OwnerAssumption DEF LifeInv
  <2>2. QED
    BY <1>4, <1>5, <1>6, <1>7, <2>1 DEF SlotInv, Settles
<1>13. ASSUME NEW d \in Cpus, NEW e \in Cpus, NEW x \in Threads
       PROVE  ApartInv(d, e, x)'
  <2>1. ApartInv(d, e, x) /\ ApartInv(e, d, x) /\ x # None
    BY OwnerAssumption DEF LifeInv
  <2>2. QED
    BY <1>5, <1>6, <1>2, <2>1 DEF ApartInv, Settles
<1>14. QueueInv'
  BY <1>3, ReaperFrame DEF LifeInv
<1>15. QED
  BY <1>8, <1>10, <1>11, <1>12, <1>13, <1>14 DEF LifeInv

\* The thread that a CPU settles is settled by no other, and is in nobody's slot.
LEMMA SettlesAlone ==
    ASSUME LifeInv, NEW c \in Cpus, destroying[c].at \in {"cas", "store", "storeWake"}
    PROVE  /\ destroying[c].of \in Threads
           /\ st[destroying[c].of] = "terminating" /\ pc[destroying[c].of] = "off"
           /\ \A d \in Cpus : /\ terminating_thread[d] # destroying[c].of
                              /\ d # c => ~Settles(d, destroying[c].of)
<1> DEFINE t == destroying[c].of
<1>1. t \in Threads
  BY DEF LifeInv, CpuInv
<1>2. Settles(c, t)
  BY DEF Settles
<1>3. SlotInv(c, t)
  BY <1>1 DEF LifeInv
<1>4. ASSUME NEW d \in Cpus
      PROVE  terminating_thread[d] # t /\ (d # c => ~Settles(d, t))
  <2>1. ApartInv(c, d, t) /\ ApartInv(d, c, t)
    BY <1>1 DEF LifeInv
  <2>2. CASE d = c
    BY <1>2, <1>3, <2>2 DEF SlotInv
  <2>3. CASE d # c
    BY <1>2, <2>1, <2>3 DEF ApartInv
  <2>4. QED
    BY <2>2, <2>3
<1>5. QED
  BY <1>1, <1>2, <1>3, <1>4 DEF SlotInv

\* destroy(): the compare-and-swap on _joiner, which join() may have won.
LEMMA DestroyKeeps ==
    ASSUME LifeInv, NEW c \in Cpus, destroy(c)
    PROVE  LifeInv'
<1>1. TypeOK /\ UNCHANGED reaper /\ destroying[c].at = "cas"
  BY DEF LifeInv, destroy
<1>2. PICK t \in Threads : t = destroying[c].of
  BY <1>1, SettlesAlone
<1>3. UNCHANGED <<st, detach_state, detached, pc, client, object, ds, grace, terminating_thread>>
  BY DEF destroy, memory
<1>4. /\ t \in Threads /\ st[t] = "terminating" /\ pc[t] = "off"
      /\ \A d \in Cpus : terminating_thread[d] # t /\ (d # c => ~Settles(d, t))
  BY <1>1, <1>2, SettlesAlone
<1>5. /\ joiner' \in [Threads -> Others]
      /\ joiner'[t] = IF joiner[t] = None THEN t ELSE joiner[t]
      /\ \A x \in Threads : x # t => joiner'[x] = joiner[x]
  BY <1>1, <1>4, <1>2 DEF destroy, TypeOK, Others
<1>6. /\ destroying' \in [Cpus -> [at : Stages, of : Others]]
      /\ destroying'[c].of = t
      /\ destroying'[c].at = IF joiner[t] = None THEN "store" ELSE "storeWake"
      /\ \A d \in Cpus : d # c => destroying'[d] = destroying[d]
  <2>1. destroying \in [Cpus -> [at : Stages, of : Others]]
    BY <1>1 DEF TypeOK
  <2>2. destroying' = [destroying EXCEPT ![c].at = IF joiner[t] = None THEN "store" ELSE "storeWake"]
    BY <1>2 DEF destroy
  <2>3. QED
    BY <1>2, <2>1, <2>2 DEF Stages
<1>7. t # None /\ joiner[t] # t /\ ThreadInv(t)
  <2>1. SlotInv(c, t) /\ ThreadInv(t)
    BY <1>4 DEF LifeInv
  <2>2. QED
    BY <1>1, <1>4, <1>2, <2>1, OwnerAssumption DEF SlotInv
<1>8. TypeOK'
  BY <1>1, <1>3, <1>5, <1>6 DEF TypeOK, reaper
<1>9. \A x \in Threads \ {t} : SameThread(x) /\ grace'[x] = grace[x]
  BY <1>1, <1>3, <1>5, ReaperFrame DEF SameThread
<1>10. ASSUME NEW x \in Threads
       PROVE  ThreadInv(x)'
  <2>1. CASE x = t
    <3>1. (Queued(t)' <=> Queued(t)) /\ (reap'.of = t <=> reap.of = t) /\ reap'.at = reap.at
      BY <1>1, ReaperFrame
    <3>2. Owner[t] \notin {t, None, Reaper} /\ Reaper \notin {t, None}
      BY <1>4, OwnerAssumption
    <3>3. ThreadInv(t)'
      <4>1. Status(t)'
        BY <1>3, <1>4, <1>5, <1>7, <3>1, <3>2 DEF ThreadInv, Status
      <4>2. Joined(t)'
        BY <1>3, <1>4, <1>5, <1>7, <3>1, <3>2 DEF ThreadInv, Joined
      <4>3. Detached(t)'
        BY <1>3, <1>4, <1>5, <1>7, <3>1, <3>2 DEF ThreadInv, Detached
      <4>4. Gone(t)'
        BY <1>3, <1>4, <1>5, <1>7, <3>1, <3>2 DEF ThreadInv, Gone
      <4>5. Reaped(t)'
        BY <1>3, <1>4, <1>5, <1>7, <3>1, <3>2 DEF ThreadInv, Reaped
      <4>6. QED
        BY <4>1, <4>2, <4>3, <4>4, <4>5 DEF ThreadInv
    <3>4. QED
      BY <2>1, <3>3
  <2>2. CASE x # t
    BY <1>9, <2>2, ThreadFrame DEF LifeInv
  <2>3. QED
    BY <2>1, <2>2
<1>11. \A x \in Threads : CallerInv(x)'
  <2>1. \A x \in Threads : CallerInv(x)
    BY DEF LifeInv
  <2>2. QED
    BY <1>3, <2>1 DEF CallerInv
<1>12. ASSUME NEW d \in Cpus
       PROVE  CpuInv(d)'
  <2>1. CpuInv(d)
    BY DEF LifeInv
  <2>2. QED
    BY <1>4, <1>6, <1>7, <2>1 DEF CpuInv
<1>13. ASSUME NEW d \in Cpus, NEW x \in Threads
       PROVE  SlotInv(d, x)'
  <2>1. SlotInv(d, x)
    BY DEF LifeInv
  <2>2. CASE d = c
    BY <1>1, <1>3, <1>4, <1>5, <1>6, <1>7, <1>2, <2>1, <2>2 DEF SlotInv, Settles
  <2>3. CASE d # c
    BY <1>3, <1>4, <1>5, <1>6, <2>1, <2>3 DEF SlotInv, Settles
  <2>4. QED
    BY <2>2, <2>3
<1>14. ASSUME NEW d \in Cpus, NEW e \in Cpus, NEW x \in Threads
       PROVE  ApartInv(d, e, x)'
  <2>1. ApartInv(d, e, x)
    BY DEF LifeInv
  <2>2. QED
    BY <1>1, <1>3, <1>6, <1>2, <2>1 DEF ApartInv, Settles
<1>15. QueueInv'
  BY <1>1, ReaperFrame DEF LifeInv
<1>16. QED
  BY <1>8, <1>10, <1>11, <1>12, <1>13, <1>14, <1>15 DEF LifeInv

\* destroy(): the status says terminated, and the joiner is to be woken.  It waits
\* inside join(), so that its own ds is still there.
LEMMA DestroyStoreWakeKeeps ==
    ASSUME LifeInv, NEW c \in Cpus, destroyStoreWake(c)
    PROVE  LifeInv'
<1>1. TypeOK /\ UNCHANGED reaper /\ destroying[c].at = "storeWake"
  BY DEF LifeInv, destroyStoreWake
<1>2. PICK t \in Threads : t = destroying[c].of
  BY <1>1, SettlesAlone
<1>3. PICK j \in Others : j = joiner[t]
  BY <1>1 DEF TypeOK
<1>4. UNCHANGED <<detach_state, detached, joiner, pc, client, object, ds, grace, terminating_thread>>
  BY DEF destroyStoreWake, memory
<1>5. /\ t \in Threads /\ st[t] = "terminating" /\ pc[t] = "off"
      /\ \A d \in Cpus : terminating_thread[d] # t /\ (d # c => ~Settles(d, t))
  BY <1>1, <1>2, SettlesAlone
<1>6. j \notin {t, None} /\ j \in Others /\ ThreadInv(t) /\ CallerInv(t)
  <2>1. SlotInv(c, t) /\ ThreadInv(t) /\ CallerInv(t)
    BY <1>5 DEF LifeInv
  <2>2. QED
    BY <1>1, <1>5, <1>2, <1>3, <2>1 DEF SlotInv
<1>7. /\ st' \in [Threads -> {"unstarted", "running", "terminating", "terminated"}]
      /\ st'[t] = "terminated" /\ \A x \in Threads : x # t => st'[x] = st[x]
  BY <1>1, <1>5, <1>2 DEF destroyStoreWake, TypeOK
<1>8. /\ destroying' \in [Cpus -> [at : Stages, of : Others]]
      /\ destroying'[c].of = j /\ destroying'[c].at = "wake"
      /\ \A d \in Cpus : d # c => destroying'[d] = destroying[d]
  <2>1. destroying \in [Cpus -> [at : Stages, of : Others]]
    BY <1>1 DEF TypeOK
  <2>2. destroying' = [destroying EXCEPT ![c] = [at |-> "wake", of |-> j]]
    BY <1>2, <1>3 DEF destroyStoreWake
  <2>3. QED
    BY <1>6, <2>1, <2>2 DEF Stages
<1>9. j \in Threads => object[j]
  <2>1. ASSUME j \in Threads
        PROVE  object[j]
    <3>1. j = Owner[t]
      BY <1>5, <1>6, <1>3, <2>1, OwnerAssumption DEF ThreadInv, Joined
    <3>2. client[t].at = "wait" /\ client[t].by = Owner[t]
      BY <1>5, <1>6, <1>3, <3>1 DEF ThreadInv, Joined, Detached
    <3>3. st[j] = "running" /\ pc[j] = "run"
      BY <1>6, <2>1, <3>1, <3>2 DEF CallerInv
    <3>4. Gone(j)
      BY <2>1 DEF LifeInv, ThreadInv
    <3>5. QED
      BY <3>3, <3>4 DEF Gone
  <2>2. QED
    BY <2>1
<1>10. t = destroying[c].of /\ j = joiner[t]
  BY <1>2, <1>3
<1>11. TypeOK'
  BY <1>1, <1>4, <1>7, <1>8 DEF TypeOK, reaper
<1>12. \A x \in Threads \ {t} : SameThread(x) /\ grace'[x] = grace[x]
  BY <1>1, <1>4, <1>7, ReaperFrame DEF SameThread
<1>13. ASSUME NEW x \in Threads
       PROVE  ThreadInv(x)'
  <2>1. CASE x = t
    <3>1. (Queued(t)' <=> Queued(t)) /\ (reap'.of = t <=> reap.of = t) /\ reap'.at = reap.at
      BY <1>1, ReaperFrame
    <3>2. ThreadInv(t)'
      <4>1. Status(t)'
        BY <1>4, <1>5, <1>6, <1>7, <1>10, <3>1 DEF ThreadInv, Status
      <4>2. Joined(t)'
        BY <1>4, <1>5, <1>6, <1>7, <1>10, <3>1 DEF ThreadInv, Joined
      <4>3. Detached(t)'
        BY <1>4, <1>5, <1>6, <1>7, <1>10, <3>1 DEF ThreadInv, Detached
      <4>4. Gone(t)'
        BY <1>4, <1>5, <1>6, <1>7, <1>10, <3>1 DEF ThreadInv, Gone
      <4>5. Reaped(t)'
        BY <1>4, <1>5, <1>6, <1>7, <1>10, <3>1 DEF ThreadInv, Reaped
      <4>6. QED
        BY <4>1, <4>2, <4>3, <4>4, <4>5 DEF ThreadInv
    <3>3. QED
      BY <2>1, <3>2
  <2>2. CASE x # t
    BY <1>12, <2>2, ThreadFrame DEF LifeInv
  <2>3. QED
    BY <2>1, <2>2
<1>14. ASSUME NEW x \in Threads
       PROVE  CallerInv(x)'
  <2>1. CallerInv(x)
    BY DEF LifeInv
  <2>2. QED
    BY <1>4, <1>5, <1>7, <2>1 DEF CallerInv
<1>15. ASSUME NEW d \in Cpus
       PROVE  CpuInv(d)'
  <2>1. CpuInv(d)
    BY DEF LifeInv
  <2>2. QED
    BY <1>6, <1>8, <2>1 DEF CpuInv
<1>16. ASSUME NEW d \in Cpus, NEW x \in Threads
       PROVE  SlotInv(d, x)'
  <2>1. SlotInv(d, x)
    BY DEF LifeInv
  <2>2. CASE d = c
    BY <1>1, <1>4, <1>5, <1>6, <1>7, <1>8, <1>9, <1>10, <2>1, <2>2, SMT DEF SlotInv, Settles
  <2>3. CASE d # c
    BY <1>4, <1>5, <1>7, <1>8, <2>1, <2>3 DEF SlotInv, Settles
  <2>4. QED
    BY <2>2, <2>3
<1>17. ASSUME NEW d \in Cpus, NEW e \in Cpus, NEW x \in Threads
       PROVE  ApartInv(d, e, x)'
  <2>1. ApartInv(d, e, x)
    BY DEF LifeInv
  <2>2. QED
    BY <1>4, <1>8, <2>1 DEF ApartInv, Settles
<1>18. QueueInv'
  BY <1>1, ReaperFrame DEF LifeInv
<1>19. QED
  BY <1>11, <1>13, <1>14, <1>15, <1>16, <1>17, <1>18 DEF LifeInv

\* destroy() is over on CPU c, with or without a joiner to wake: the grace periods
\* no longer wait for c, and a thread whose complete() called it goes on.
LEMMA LeftKeeps ==
    ASSUME LifeInv, NEW c \in Cpus, Left(c), destroying[c].at \in {"store", "wake"},
           UNCHANGED <<detach_state, detached, joiner, object, ds, client, terminating_thread>>,
           UNCHANGED reaper,
           destroying[c].at = "store" => st' = [st EXCEPT ![destroying[c].of] = "terminated"],
           destroying[c].at = "wake" => st' = st
    PROVE  LifeInv'
<1>1. TypeOK
  BY DEF LifeInv
<1>2. PICK t \in Others : t = destroying[c].of
  BY <1>1 DEF TypeOK
<1>3. PICK stores \in BOOLEAN : stores <=> destroying[c].at = "store"
  OBVIOUS
<1>4. stores => /\ t \in Threads /\ st[t] = "terminating" /\ pc[t] = "off" /\ joiner[t] = t /\ t # None
                /\ \A d \in Cpus : terminating_thread[d] # t /\ (d # c => ~Settles(d, t))
  <2>1. ASSUME stores
        PROVE  /\ t \in Threads /\ st[t] = "terminating" /\ pc[t] = "off"
               /\ \A d \in Cpus : terminating_thread[d] # t /\ (d # c => ~Settles(d, t))
    BY <1>2, <1>3, <2>1, SettlesAlone
  <2>2. ASSUME stores
        PROVE  joiner[t] = t /\ t # None
    BY <1>2, <1>3, <2>1, <2>2, OwnerAssumption DEF LifeInv, SlotInv
  <2>3. QED
    BY <2>1, <2>2
<1>5. /\ st' \in [Threads -> {"unstarted", "running", "terminating", "terminated"}]
      /\ stores => st'[t] = "terminated"
      /\ \A x \in Threads : ~stores \/ x # t => st'[x] = st[x]
  <2>1. CASE stores
    BY <1>1, <1>4, <1>3, <1>2, <2>1 DEF TypeOK
  <2>2. CASE ~stores
    BY <1>1, <1>3, <2>2 DEF TypeOK
  <2>3. QED
    BY <2>1, <2>2
<1>6. /\ destroying' \in [Cpus -> [at : Stages, of : Others]]
      /\ destroying'[c].of = None /\ destroying'[c].at = "none"
      /\ \A d \in Cpus : d # c => destroying'[d] = destroying[d]
  <2>1. destroying' = [destroying EXCEPT ![c] = [at |-> "none", of |-> None]]
    BY DEF Left, Nobody
  <2>2. QED
    BY <1>1, <2>1, SMT DEF TypeOK, Stages, Others
<1>7. /\ grace' \in [Threads -> SUBSET Cpus]
      /\ \A x \in Threads, d \in Cpus : d # c /\ d \in grace[x] => d \in grace'[x]
  <2>1. grace' = [x \in Threads |-> grace[x] \ {c}]
    BY DEF Left
  <2>2. QED
    BY <1>1, <2>1 DEF TypeOK
<1>8. /\ pc' \in [Threads -> {"run", "zombie", "exit", "displace", "off"}]
      /\ \A x \in Threads : pc'[x] = IF pc[x] = "displace" /\ terminating_thread[c] = x THEN "off" ELSE pc[x]
  <2>1. pc' = [x \in Threads |-> IF pc[x] = "displace" /\ terminating_thread[c] = x THEN "off" ELSE pc[x]]
    BY DEF Left, At
  <2>2. QED
    BY <1>1, <2>1 DEF TypeOK
<1>9. TypeOK'
  BY <1>1, <1>5, <1>6, <1>7, <1>8 DEF TypeOK, reaper
<1>10. ASSUME NEW x \in Threads
      PROVE  ThreadInv(x)'
  <2>1. (Queued(x)' <=> Queued(x)) /\ (reap'.of = x <=> reap.of = x) /\ reap'.at = reap.at
    BY ReaperFrame
  <2>2. ThreadInv(x)
    BY DEF LifeInv
  <2>3. CASE stores /\ x = t
    <3>1. Status(x)'
      BY <1>4, <1>5, <1>8, <2>1, <2>2, <2>3 DEF ThreadInv, Status
    <3>2. Joined(x)'
      BY <1>4, <1>5, <1>8, <2>1, <2>2, <2>3 DEF ThreadInv, Joined
    <3>3. Detached(x)'
      BY <1>4, <1>5, <1>8, <2>1, <2>2, <2>3 DEF ThreadInv, Detached
    <3>4. Gone(x)'
      BY <1>4, <1>5, <1>8, <2>1, <2>2, <2>3 DEF ThreadInv, Gone
    <3>5. Reaped(x)'
      BY <1>4, <1>5, <1>8, <2>1, <2>2, <2>3 DEF ThreadInv, Reaped
    <3>6. QED
      BY <3>1, <3>2, <3>3, <3>4, <3>5 DEF ThreadInv
  <2>4. CASE ~(stores /\ x = t)
    <3>1. st'[x] = st[x]
      BY <1>5, <2>4
    <3>2. QED
      <4>1. Status(x)'
        BY <1>8, <2>1, <2>2, <3>1 DEF ThreadInv, Status
      <4>2. Joined(x)'
        BY <1>8, <2>1, <2>2, <3>1 DEF ThreadInv, Joined
      <4>3. Detached(x)'
        BY <1>8, <2>1, <2>2, <3>1 DEF ThreadInv, Detached
      <4>4. Gone(x)'
        BY <1>8, <2>1, <2>2, <3>1 DEF ThreadInv, Gone
      <4>5. Reaped(x)'
        BY <1>8, <2>1, <2>2, <3>1 DEF ThreadInv, Reaped
      <4>6. QED
        BY <4>1, <4>2, <4>3, <4>4, <4>5 DEF ThreadInv
  <2>5. QED
    BY <2>3, <2>4
<1>11. ASSUME NEW x \in Threads
       PROVE  CallerInv(x)'
  <2>1. CallerInv(x)
    BY DEF LifeInv
  <2>2. QED
    BY <1>4, <1>5, <1>8, <2>1 DEF CallerInv
<1>12. ASSUME NEW d \in Cpus
       PROVE  CpuInv(d)'
  <2>1. CpuInv(d)
    BY DEF LifeInv
  <2>2. QED
    BY <1>6, <2>1 DEF CpuInv
<1>13. ASSUME NEW d \in Cpus, NEW x \in Threads
       PROVE  SlotInv(d, x)'
  <2>1. SlotInv(d, x) /\ Status(x) /\ x # None
    BY OwnerAssumption DEF LifeInv, ThreadInv
  <2>2. terminating_thread[d] = x \/ (d # c /\ Settles(d, x)) => st'[x] = st[x]
    BY <1>4, <1>5
  <2>3. CASE d = c
    BY <1>6, <1>8, <2>1, <2>2, <2>3 DEF SlotInv, Settles, Status
  <2>4. CASE d # c
    BY <1>6, <1>7, <1>8, <2>1, <2>2, <2>4 DEF SlotInv, Settles
  <2>5. QED
    BY <2>3, <2>4
<1>14. ASSUME NEW d \in Cpus, NEW e \in Cpus, NEW x \in Threads
       PROVE  ApartInv(d, e, x)'
  <2>1. ApartInv(d, e, x)
    BY DEF LifeInv
  <2>2. QED
    BY <1>6, <2>1 DEF ApartInv, Settles
<1>15. QueueInv'
  BY ReaperFrame DEF LifeInv
<1>16. QED
  BY <1>9, <1>10, <1>11, <1>12, <1>13, <1>14, <1>15 DEF LifeInv

-----------------------------------------------------------------------------
\* LifeInv holds before any thread is started.
LEMMA InitHolds ==
    Init => LifeInv
<1> SUFFICES ASSUME Init PROVE LifeInv
  OBVIOUS
<1>1. /\ detached \in [Threads -> BOOLEAN]
      /\ st = [t \in Threads |-> "unstarted"]
      /\ detach_state = [t \in Threads |-> IF detached[t] THEN "detached" ELSE "attached"]
      /\ joiner = [t \in Threads |-> None]
      /\ object = [t \in Threads |-> TRUE]
      /\ ds = [t \in Threads |-> "alive"]
      /\ grace = [t \in Threads |-> {}]
      /\ pc = [t \in Threads |-> "run"]
      /\ client = [t \in Threads |-> [at |-> "own", by |-> Owner[t]]]
      /\ terminating_thread = [c \in Cpus |-> None]
      /\ destroying = [c \in Cpus |-> [at |-> "none", of |-> None]]
      /\ zombies = <<>> /\ reap = [at |-> "none", of |-> None]
  BY DEF Init, Nobody
<1>2. \A t \in Threads : Owner[t] \in Threads \cup {Main} /\ Owner[t] \notin {t, None, Reaper}
                        /\ t \notin {None, Reaper} /\ Reaper # None
  BY OwnerAssumption
<1>3. TypeOK
  <2>1. detach_state \in [Threads -> {"attached", "detached", "attached_complete"}]
    BY <1>1
  <2>2. client \in [Threads -> [at : Steps, by : Threads \cup {Main}]]
    BY <1>1, <1>2 DEF Steps
  <2>3. destroying \in [Cpus -> [at : Stages, of : Others]]
    BY <1>1 DEF Stages, Others
  <2>4. joiner \in [Threads -> Others] /\ grace \in [Threads -> SUBSET Cpus]
    BY <1>1 DEF Others
  <2>5. zombies \in Seq(Threads)
    BY <1>1, SMT
  <2>6. reap \in [at : {"none", "next", "join", "wait", "cleanup"}, of : Threads \cup {None}]
    BY <1>1
  <2>7. QED
    BY <1>1, <2>1, <2>2, <2>3, <2>4, <2>5, <2>6 DEF TypeOK
<1>4. \A x : ~Queued(x)
  BY <1>1, SMT DEF Queued
<1>5. ASSUME NEW t \in Threads
      PROVE  ThreadInv(t) /\ CallerInv(t)
  <2>1. /\ st[t] = "unstarted" /\ joiner[t] = None /\ object[t] /\ ds[t] = "alive" /\ pc[t] = "run"
        /\ client[t].at = "own" /\ client[t].by = Owner[t] /\ reap.of = None
        /\ detach_state[t] = IF detached[t] THEN "detached" ELSE "attached"
    BY <1>1
  <2>2. CallerInv(t)
    BY <2>1 DEF CallerInv
  <2>3. Status(t) /\ Joined(t)
    BY <1>2, <2>1, SMT DEF Status, Joined
  <2>4. Detached(t)
    <3>1. CASE detached[t]
      BY <2>1, <3>1 DEF Detached
    <3>2. CASE ~detached[t]
      BY <2>1, <3>2 DEF Detached
    <3>3. QED
      BY <3>1, <3>2
  <2>5. Gone(t) /\ Reaped(t)
    BY <1>2, <1>4, <2>1 DEF Gone, Reaped
  <2>6. QED
    BY <2>2, <2>3, <2>4, <2>5 DEF ThreadInv
<1>6. \A c \in Cpus : /\ terminating_thread[c] = None
                      /\ destroying[c].at = "none" /\ destroying[c].of = None
  BY <1>1
<1>7. \A c \in Cpus : CpuInv(c)
  BY <1>6 DEF CpuInv
<1>8. \A c \in Cpus, t \in Threads : SlotInv(c, t)
  BY <1>2, <1>6 DEF SlotInv, Settles
<1>9. \A c, d \in Cpus, t \in Threads : ApartInv(c, d, t)
  BY <1>2, <1>6 DEF ApartInv, Settles
<1>10. QueueInv
  BY <1>1, SMT DEF QueueInv
<1>11. QED
  BY <1>3, <1>5, <1>7, <1>8, <1>9, <1>10 DEF LifeInv

\* Every step keeps LifeInv.
LEMMA NextKeeps ==
    LifeInv /\ [Next]_vars => LifeInv'
<1> SUFFICES ASSUME LifeInv, [Next]_vars PROVE LifeInv'
  OBVIOUS
<1>1. CASE \E t \in Threads : start(t) \/ join(t) \/ rcu_dispose(t) \/ complete(t)
  BY <1>1, StartKeeps, JoinKeeps, DisposeKeeps, CompleteKeeps
<1>2. CASE \E t \in Threads : \E o \in {t, Owner[t]} : detach(t, o)
  BY <1>2, DetachKeeps
<1>3. CASE \E t \in Threads : Ending(t)
  BY <1>3, CompleteZombieKeeps, CompleteTerminatingKeeps DEF Ending
<1>4. CASE \E t \in Threads : Returning(t)
  BY <1>4, JoinWaitKeeps, DeleteKeeps, DetachCasKeeps, DetachZombieKeeps DEF Returning
<1>5. ASSUME NEW c \in Cpus, destroyStore(c)
      PROVE  LifeInv'
  <2>1. /\ Left(c) /\ destroying[c].at = "store" /\ UNCHANGED reaper
        /\ st' = [st EXCEPT ![destroying[c].of] = "terminated"]
        /\ UNCHANGED <<detach_state, detached, joiner, object, ds, client, terminating_thread>>
    BY <1>5 DEF destroyStore
  <2>2. QED
    BY <2>1, LeftKeeps
<1>6. ASSUME NEW c \in Cpus, destroyWake(c)
      PROVE  LifeInv'
  <2>1. /\ Left(c) /\ destroying[c].at = "wake" /\ UNCHANGED reaper /\ st' = st
        /\ UNCHANGED <<detach_state, detached, joiner, object, ds, client, terminating_thread>>
    BY <1>6 DEF destroyWake, life
  <2>2. QED
    BY <2>1, LeftKeeps
<1>7. CASE \E c \in Cpus : Destroying(c)
  BY <1>5, <1>6, <1>7, DestroyCurrentKeeps, DestroyKeeps, DestroyStoreWakeKeeps DEF Destroying
<1>8. CASE Reaping
  BY <1>8, ReapNextKeeps, ReapJoinKeeps, ReapWaitKeeps, ReapCleanupKeeps DEF Reaping
<1>9. CASE UNCHANGED vars
  <2>1. UNCHANGED cpus /\ UNCHANGED reaper
    BY <1>9 DEF vars
  <2>2. UNCHANGED <<st, detach_state, detached, joiner, pc, client, object, ds, grace>>
    BY <1>9 DEF vars, life, memory
  <2>3. TypeOK'
    BY <2>1, <2>2 DEF LifeInv, TypeOK, cpus, reaper
  <2>4. \A x \in Threads : SameThread(x)
    BY <2>1, <2>2, ReaperFrame DEF SameThread
  <2>5. \A x \in Threads : ThreadInv(x)'
    BY <2>4, ThreadFrame DEF LifeInv
  <2>6. \A x \in Threads : CallerInv(x)'
    BY <2>2 DEF LifeInv, CallerInv
  <2>7. ASSUME NEW c \in Cpus, NEW x \in Threads
        PROVE  SlotInv(c, x)'
    <3>1. SlotInv(c, x) /\ SameThread(x)
      BY <2>4 DEF LifeInv
    <3>2. destroying'[c] = destroying[c] /\ terminating_thread'[c] = terminating_thread[c]
      BY <2>1 DEF cpus
    <3>3. c \in grace[x] => c \in grace'[x]
      BY <2>2
    <3>4. QED
      BY <3>1, <3>2, <3>3, SlotFrame
  <2>8. /\ (\A c \in Cpus : CpuInv(c))'
        /\ (\A c, d \in Cpus, x \in Threads : ApartInv(c, d, x))'
    BY <2>1, CpusFrame DEF LifeInv
  <2>9. QueueInv'
    BY <2>1, ReaperFrame DEF LifeInv
  <2>10. QED
    BY <2>3, <2>5, <2>6, <2>7, <2>8, <2>9 DEF LifeInv
<1>10. QED
  BY <1>1, <1>2, <1>3, <1>4, <1>7, <1>8, <1>9 DEF Next

\* LifeInv is an invariant: what join(), detach(), complete(), destroy() and the
\* reaper rely on about each other always holds.
THEOREM LifeInvariant ==
    Spec => []LifeInv
  BY InitHolds, NextKeeps, PTL DEF Spec

\* LifeInv says enough for MemoryOutlivesUse ...
LEMMA InvImpliesMemory ==
    LifeInv => MemoryOutlivesUse
<1> SUFFICES ASSUME LifeInv PROVE MemoryOutlivesUse
  OBVIOUS
<1>1. ASSUME NEW t \in Threads
      PROVE  /\ ~object[t] => st[t] = "unstarted" \/ pc[t] = "off"
             /\ client[t].at \in {"wait", "joined", "zombie"} => object[t]
  <2>1. Gone(t)
    BY DEF LifeInv, ThreadInv
  <2>2. QED
    BY <2>1 DEF Gone
<1>2. ASSUME NEW c \in Cpus
      PROVE  /\ destroying[c].at = "cas" => object[destroying[c].of]
             /\ destroying[c].at \in {"store", "storeWake", "wake"} => Usable(destroying[c].of)
  <2> DEFINE t == destroying[c].of
  <2>1. t \in Threads => SlotInv(c, t) /\ Gone(t)
    BY DEF LifeInv, ThreadInv
  <2>2. destroying[c].at = "cas" => t \in Threads
    BY DEF LifeInv, CpuInv
  <2>3. t \in Threads => ds[t] # "freed"
    BY <2>1 DEF SlotInv, Gone
  <2>4. destroying[c].at = "cas" => object[t]
    BY <2>1, <2>2 DEF SlotInv, Gone, Settles
  <2>5. QED
    BY <2>3, <2>4 DEF Usable
<1>3. QED
  BY <1>1, <1>2 DEF MemoryOutlivesUse

\* destroy(), join() and the reaper never touch a thread object, a stack or a ds
\* that ~thread() and RCU have freed, with any number of threads and CPUs.
THEOREM MemorySafe ==
    Spec => []MemoryOutlivesUse
  BY LifeInvariant, InvImpliesMemory, PTL

\* ... and for OneReleaser.
LEMMA InvImpliesOneReleaser ==
    LifeInv => OneReleaser
<1> SUFFICES ASSUME LifeInv PROVE OneReleaser
  OBVIOUS
<1>1. \A i, j \in DOMAIN zombies : zombies[i] = zombies[j] => i = j
  BY DEF LifeInv, QueueInv
<1>2. ASSUME NEW t \in Threads
      PROVE  /\ Hands(t) # {} => object[t] /\ detached[t]
             /\ \A x, y \in Hands(t) : x = y
  <2>1. ThreadInv(t)
    BY DEF LifeInv
  <2>2. /\ Queued(t) \/ reap.of = t => object[t] /\ detached[t] /\ client[t].at = "done" /\ pc[t] # "zombie"
        /\ Queued(t) => reap.of # t
    BY <2>1 DEF ThreadInv, Reaped
  <2>3. /\ pc[t] = "zombie" => object[t] /\ detached[t] /\ client[t].at # "zombie"
        /\ client[t].at = "zombie" => object[t] /\ detached[t]
    BY <2>1 DEF ThreadInv, Status, Detached, Gone
  <2>4. QED
    BY <2>2, <2>3 DEF Hands
<1>3. QED
  BY <1>1, <1>2 DEF OneReleaser

\* A detached thread is handed to the reaper by one of complete() and detach(), is
\* in its queue or its hands once, and nobody who joins it has deleted it.
THEOREM ReleasedOnce ==
    Spec => []OneReleaser
  BY LifeInvariant, InvImpliesOneReleaser, PTL
=============================================================================
