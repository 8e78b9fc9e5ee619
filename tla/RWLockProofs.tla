---------------------------- MODULE RWLockProofs ----------------------------
(***************************************************************************)
(* Exclusion, exact counts and that nobody is stranded, for the rwlock of  *)
(* module RWLock and any finite set of threads.                            *)
(*                                                                         *)
(* The word _readers is written by everybody, so the proof is about who    *)
(* may change which part of it.  The flags belong to the owner of _wmtx,   *)
(* and OwnerInv says that it is alone: FlagsInv reads off its location     *)
(* which flags are set.  The counts belong to the readers, and CountsExact *)
(* says whose they are.  WaitInv is the meeting of the two: while the      *)
(* owner has set PENDING_WRITER no reader gets in, so once it has seen no  *)
(* owning reader there is none, and _writer_wait is cleared only by the    *)
(* last one to leave.  QueueInv says that who sleeps in rlock() is in the  *)
(* queue, or was taken from it, exactly once.                              *)
(***************************************************************************)
EXTENDS RWLock, FiniteSetTheorems, TLAPS

\* A step is left to Zenon, unless it names SMT or the temporal prover.
USE ZenonT(40)

\* Between the lock() and the unlock() of _wmtx
Inside ==
    {"wl_store", "wl_or", "wl_cas", "wl_wait", "wl_add", "writing", "tr_load", "tr_cas",
     "tr_fail", "dg_load", "wk_loop", "wk_store", "wk_wake"}
Outside ==
    {"run", "reading", "rl_add", "rl_retry", "rl_push", "rl_wait", "ru_owner", "ru_store",
     "ru_wake", "wl_lock"}

\* The values of _readers
Words == [flags : SUBSET {W, P}, owning : Nat, waiting : Nat]

TypeInv ==
    /\ readers \in Words
    /\ writer_wait \in BOOLEAN
    /\ waiters \in Seq(Threads)
    /\ wm \in Seq(Threads)
    /\ depth \in Nat
    /\ pc \in [Threads -> Inside \cup Outside]
    /\ back \in [Threads -> {"run", "reading"}]
    /\ granted \in SUBSET Threads
    /\ pending \in [Threads -> Nat]
    /\ prev \in [Threads -> Words]
    /\ who \in [Threads -> Threads \cup {NoThread}]

In(q, t) == \E i \in DOMAIN q : q[i] = t

\* An operation that holds _wmtx and will give it back without the lock, or as a reader
Trying == {"tr_load", "tr_cas", "tr_fail", "dg_load", "wk_loop", "wk_store", "wk_wake"}

\* Whoever is inside owns _wmtx, and it is owned by nobody else.
OwnerInv ==
    /\ \A t \in Threads :
        /\ pc[t] = "wl_lock" => In(wm, t)
        /\ pc[t] \in Inside => wm # <<>> /\ Head(wm) = t /\ depth > 0
        /\ back[t] = "reading" => pc[t] \in Trying
    /\ depth > 0 => \E t \in Threads : pc[t] \in Inside

\* The flags are those that the owner of _wmtx has set.
FlagsInv ==
    /\ \A t \in Threads :
        /\ pc[t] = "writing" => readers.flags = {W} /\ readers.owning = 0
        /\ pc[t] \in {"wl_cas", "wl_wait", "wl_add"} => readers.flags = {P}
    /\ readers.flags # {} =>
        \E t \in Threads : pc[t] \in {"writing", "wl_cas", "wl_wait", "wl_add"}

\* What wlock() knows of the owning readers and of _writer_wait, and what the
\* compare-and-exchange of try_wlock() and try_upgrade() expects
WaitInv ==
    \A t \in Threads :
        /\ pc[t] \in {"wl_or", "wl_cas"} => writer_wait
        /\ pc[t] \in {"wl_cas", "wl_add"} => readers.owning = 0
        /\ pc[t] = "wl_wait" => writer_wait \/ readers.owning = 0
        /\ pc[t] = "tr_cas" => prev[t].owning = IF back[t] = "run" THEN 0 ELSE 1

\* In the queue are sleeping readers, each once; who was given the lock sleeps.
QueueInv ==
    /\ \A i \in DOMAIN waiters : At(waiters[i], "rl_wait") /\ ~ Given(waiters[i])
    /\ \A i, j \in DOMAIN waiters : waiters[i] = waiters[j] => i = j
    /\ \A t \in granted : pc[t] = "rl_wait"
    /\ \A u \in Threads : pc[u] = "wk_store" =>
        who[u] \in Threads /\ pc[who[u]] = "rl_wait" /\ who[u] \notin granted

\* The inductive invariant
RWLockInv ==
    /\ TypeInv /\ OwnerInv /\ FlagsInv /\ WaitInv /\ QueueInv
    /\ CountsExact /\ PendingWriterWoken /\ NoReaderStranded

-----------------------------------------------------------------------------
\* Only thread t has moved.
Moves(t) == \A u \in Threads \ {t} : pc'[u] = pc[u]

\* Only thread t can have become or ceased to be counted.
CountedAlike(t) ==
    \A u \in Threads \ {t} : (Owning(u)' <=> Owning(u)) /\ (Waiting(u)' <=> Waiting(u))

\* The threads that own or wait for the flags of a writer
Flagging == {"writing", "wl_cas", "wl_wait", "wl_add"}

\* One thread at a time is between lock() and unlock() of _wmtx.
LEMMA Alone ==
    ASSUME OwnerInv, NEW t \in Threads, NEW u \in Threads,
           pc[t] \in Inside, pc[u] \in Inside
    PROVE  t = u
BY DEF OwnerInv

\* The flags are clear while the owner of _wmtx has not set them.
LEMMA FlagsClear ==
    ASSUME OwnerInv, FlagsInv, NEW t \in Threads, pc[t] \in Inside \ Flagging
    PROVE  readers.flags = {}
<1>1. Flagging \subseteq Inside
  BY DEF Flagging, Inside
<1>2. ASSUME NEW u \in Threads, pc[u] \in Flagging PROVE FALSE
  BY <1>1, <1>2, Alone
<1> QED BY <1>2 DEF FlagsInv, Flagging

\* Who acts on _wmtx meets no reader that looks for the pending writer.
LEMMA NobodyLooks ==
    ASSUME OwnerInv, PendingWriterWoken, NEW t \in Threads, pc[t] \in Inside,
           pc[t] = "wl_wait" => ~ writer_wait
    PROVE  \A v \in Threads : pc[v] \notin {"ru_owner", "ru_store"}
<1> SUFFICES ASSUME NEW v \in Threads, pc[v] \in {"ru_owner", "ru_store"} PROVE FALSE
  OBVIOUS
<1>1. pc[Owner] = "wl_wait" /\ writer_wait
  BY DEF PendingWriterWoken
<1>2. Owner = t
  BY SMT DEF OwnerInv, Owner
<1> QED BY <1>1, <1>2

\* Where no thread looks for the pending writer none has to be found.
LEMMA NobodyLooksNow ==
    ASSUME NEW t \in Threads, Moves(t), pc'[t] \notin {"ru_owner", "ru_store"},
           \A v \in Threads : pc[v] \notin {"ru_owner", "ru_store"}
    PROVE  PendingWriterWoken'
BY DEF Moves, PendingWriterWoken

\* A thread that is counted makes the count positive.
LEMMA CountsPositive ==
    ASSUME CountsExact, readers \in Words, NEW t \in Threads
    PROVE  /\ Owning(t) => readers.owning > 0
           /\ Waiting(t) => readers.waiting > 0
           /\ Owning(t) /\ readers.owning = 1 => \A u \in Threads \ {t} : ~ Owning(u)
<1> DEFINE O == {u \in Threads : Owning(u)}
           N == {u \in Threads : Waiting(u)}
<1>1. IsFiniteSet(O) /\ IsFiniteSet(N)
  BY RWLockAssumption, FS_Subset
<1>2. readers.owning = Cardinality(O) /\ readers.waiting = Cardinality(N)
  BY DEF CountsExact
<1>3. readers.owning \in Nat /\ readers.waiting \in Nat
  BY DEF Words
<1>4. Owning(t) => readers.owning > 0
  <2> SUFFICES ASSUME Owning(t) PROVE readers.owning > 0
    OBVIOUS
  <2>1. t \in O
    OBVIOUS
  <2>2. Cardinality(O) # 0
    BY <1>1, <2>1, FS_EmptySet
  <2> HIDE DEF O, N
  <2> QED BY <1>2, <1>3, <2>2, SMT
<1>5. Waiting(t) => readers.waiting > 0
  <2> SUFFICES ASSUME Waiting(t) PROVE readers.waiting > 0
    OBVIOUS
  <2>1. t \in N
    OBVIOUS
  <2>2. Cardinality(N) # 0
    BY <1>1, <2>1, FS_EmptySet
  <2> HIDE DEF O, N
  <2> QED BY <1>2, <1>3, <2>2, SMT
<1>6. ASSUME Owning(t), readers.owning = 1, NEW u \in Threads \ {t}, Owning(u) PROVE FALSE
  <2>1. t \in O /\ u \in O /\ u # t
    BY <1>6
  <2> HIDE DEF O, N
  <2>2. PICK x : O = {x}
    BY <1>1, <1>2, <1>6, FS_Singleton
  <2> QED BY <2>1, <2>2
<1> QED BY <1>4, <1>5, <1>6

\* The counts follow one thread that becomes or ceases to be an owner or pending.
LEMMA CountsFollow ==
    ASSUME CountsExact, readers \in Words, NEW x \in Threads, CountedAlike(x),
           \/ (Owning(x)' <=> Owning(x)) /\ readers'.owning = readers.owning
           \/ ~ Owning(x) /\ Owning(x)' /\ readers'.owning = readers.owning + 1
           \/ Owning(x) /\ ~ Owning(x)' /\ readers'.owning = readers.owning - 1,
           \/ (Waiting(x)' <=> Waiting(x)) /\ readers'.waiting = readers.waiting
           \/ ~ Waiting(x) /\ Waiting(x)' /\ readers'.waiting = readers.waiting + 1
           \/ Waiting(x) /\ ~ Waiting(x)' /\ readers'.waiting = readers.waiting - 1
    PROVE  CountsExact'
<1> DEFINE O == {u \in Threads : Owning(u)}
           N == {u \in Threads : Waiting(u)}
<1>1. IsFiniteSet(O) /\ IsFiniteSet(N)
  BY RWLockAssumption, FS_Subset
<1>2. readers.owning = Cardinality(O) /\ readers.waiting = Cardinality(N)
  BY DEF CountsExact
<1>3. readers.owning \in Nat /\ readers.waiting \in Nat
  BY DEF Words
<1>4. /\ Cardinality(O \cup {x}) = IF x \in O THEN Cardinality(O) ELSE Cardinality(O) + 1
      /\ Cardinality(O \ {x}) = IF x \in O THEN Cardinality(O) - 1 ELSE Cardinality(O)
      /\ Cardinality(N \cup {x}) = IF x \in N THEN Cardinality(N) ELSE Cardinality(N) + 1
      /\ Cardinality(N \ {x}) = IF x \in N THEN Cardinality(N) - 1 ELSE Cardinality(N)
  <2> HIDE DEF O, N
  <2> QED BY <1>1, FS_AddElement, FS_RemoveElement
<1>5. /\ (Owning(x)' <=> Owning(x)) => O' = O
      /\ ~ Owning(x) /\ Owning(x)' => O' = O \cup {x}
      /\ Owning(x) /\ ~ Owning(x)' => O' = O \ {x}
  BY DEF CountedAlike
<1>6. /\ (Waiting(x)' <=> Waiting(x)) => N' = N
      /\ ~ Waiting(x) /\ Waiting(x)' => N' = N \cup {x}
      /\ Waiting(x) /\ ~ Waiting(x)' => N' = N \ {x}
  BY DEF CountedAlike
<1>7. (x \in O <=> Owning(x)) /\ (x \in N <=> Waiting(x))
  OBVIOUS
<1>8. CountsExact' <=> readers'.owning = Cardinality(O') /\ readers'.waiting = Cardinality(N')
  BY DEF CountsExact
<1> HIDE DEF O, N
<1>9. readers'.owning = Cardinality(O')
  BY <1>2, <1>4, <1>5, <1>7
<1>10. readers'.waiting = Cardinality(N')
  BY <1>2, <1>4, <1>6, <1>7
<1> QED BY <1>8, <1>9, <1>10

-----------------------------------------------------------------------------
\* Steps that leave _wmtx alone
LEMMA OwnerKept ==
    ASSUME OwnerInv, NEW t \in Threads, Moves(t), UNCHANGED <<wm, depth, back>>,
           pc'[t] # "wl_lock", pc'[t] \in Inside <=> pc[t] \in Inside,
           back[t] = "reading" => pc'[t] \in Trying
    PROVE  OwnerInv'
<1>1. ASSUME NEW u \in Threads
      PROVE  /\ pc'[u] = "wl_lock" => In(wm, u)
             /\ pc'[u] \in Inside => wm # <<>> /\ Head(wm) = u /\ depth > 0
             /\ back[u] = "reading" => pc'[u] \in Trying
  <2>1. CASE u = t
    BY <2>1 DEF OwnerInv
  <2>2. CASE u # t
    BY <2>2 DEF OwnerInv, Moves
  <2> QED BY <2>1, <2>2
<1>2. depth > 0 => \E u \in Threads : pc'[u] \in Inside
  BY DEF OwnerInv, Moves
<1> QED BY <1>1, <1>2 DEF OwnerInv, In

\* Steps of a thread that neither sets nor clears the flags of _readers
LEMMA FlagsKept ==
    ASSUME TypeInv, FlagsInv, WaitInv, NEW t \in Threads, Moves(t),
           UNCHANGED <<writer_wait, prev, back>>, readers' \in Words,
           readers'.flags = readers.flags, pc[t] \notin Flagging,
           pc'[t] \notin Flagging \cup {"wl_or", "tr_cas"},
           readers'.owning <= readers.owning \/ readers.flags = {}
    PROVE  FlagsInv' /\ WaitInv'
<1>1. readers.owning \in Nat /\ readers'.owning \in Nat
  BY DEF TypeInv, Words
<1>2. \A u \in Threads : pc'[u] \in Flagging \cup {"wl_or", "tr_cas"} =>
          u # t /\ pc'[u] = pc[u]
  BY DEF Moves
<1>3. \A u \in Threads : pc'[u] \in Flagging =>
          readers.flags # {} /\ (readers.owning = 0 => readers'.owning = 0)
  BY <1>1, <1>2, SMT DEF FlagsInv, Flagging
<1>4. FlagsInv'
  <2>1. ASSUME NEW u \in Threads
        PROVE  /\ pc'[u] = "writing" => readers'.flags = {W} /\ readers'.owning = 0
               /\ pc'[u] \in {"wl_cas", "wl_wait", "wl_add"} => readers'.flags = {P}
    BY <1>2, <1>3 DEF FlagsInv, Flagging
  <2>2. readers'.flags # {} =>
            \E u \in Threads : pc'[u] \in {"writing", "wl_cas", "wl_wait", "wl_add"}
    BY DEF FlagsInv, Moves, Flagging
  <2> QED BY <2>1, <2>2 DEF FlagsInv
<1>5. WaitInv'
  <2>1. ASSUME NEW u \in Threads
        PROVE  /\ pc'[u] \in {"wl_or", "wl_cas"} => writer_wait
               /\ pc'[u] \in {"wl_cas", "wl_add"} => readers'.owning = 0
               /\ pc'[u] = "wl_wait" => writer_wait \/ readers'.owning = 0
               /\ pc'[u] = "tr_cas" => prev[u].owning = IF back[u] = "run" THEN 0 ELSE 1
    BY <1>2, <1>3 DEF WaitInv, Flagging
  <2> QED BY <2>1 DEF WaitInv
<1> QED BY <1>4, <1>5

\* Steps that leave the read_waiters alone
LEMMA QueueKept ==
    ASSUME QueueInv, NEW t \in Threads, Moves(t), granted \in SUBSET Threads,
           waiters \in Seq(Threads), UNCHANGED <<waiters, granted>>,
           \A u \in Threads : pc[u] = "wk_store" => who'[u] = who[u],
           pc[t] \notin {"rl_wait", "wk_store"}, pc'[t] \notin {"rl_wait", "wk_store"}
    PROVE  QueueInv' /\ \A u \in Threads : Given(u)' <=> Given(u)
<1>1. \A u \in Threads : /\ pc'[u] = "wk_store" <=> pc[u] = "wk_store"
                         /\ pc'[u] = "rl_wait" <=> pc[u] = "rl_wait"
  BY DEF Moves
<1>2. \A u \in Threads : Given(u)' <=> Given(u)
  BY <1>1 DEF Given, At
<1>3. \A i \in DOMAIN waiters : waiters[i] \in Threads
  BY SMT
<1>4. \A i \in DOMAIN waiters : At(waiters[i], "rl_wait")' /\ ~ Given(waiters[i])'
  <2> TAKE i \in DOMAIN waiters
  <2>1. At(waiters[i], "rl_wait") /\ ~ Given(waiters[i])
    BY DEF QueueInv
  <2>2. PICK x \in Threads : x = waiters[i]
    BY <1>3
  <2>3. x' = waiters'[i]
    BY <2>2
  <2>4. pc'[x] = "rl_wait" /\ ~ Given(x)'
    BY <1>1, <1>2, <2>1, <2>2 DEF At
  <2> QED BY <2>2, <2>4 DEF At, Given
<1>5. \A u \in Threads : pc'[u] = "wk_store" =>
          who'[u] \in Threads /\ pc'[who'[u]] = "rl_wait" /\ who'[u] \notin granted
  BY <1>1 DEF QueueInv
<1>6. \A u \in granted : pc'[u] = "rl_wait"
  BY <1>1 DEF QueueInv
<1>7. QueueInv'
  BY <1>4, <1>5, <1>6 DEF QueueInv
<1> QED BY <1>2, <1>7

\* The owner of _wmtx, where there is one, is the thread between its lock() and unlock().
LEMMA OwnerInside ==
    ASSUME OwnerInv, TypeInv, Owner # NoThread
    PROVE  Owner \in Threads /\ pc[Owner] \in Inside
<1>1. depth > 0
  BY SMT DEF Owner, TypeInv
<1>2. PICK u \in Threads : pc[u] \in Inside
  BY <1>1 DEF OwnerInv
<1>3. Owner = u
  BY <1>1, <1>2 DEF Owner, OwnerInv
<1> QED BY <1>2, <1>3

\* A thread that is or gets where a count covers it concerns no other thread.
LEMMA CountedKept ==
    ASSUME NEW t \in Threads, Moves(t), \A u \in Threads \ {t} : back'[u] = back[u],
           \A u \in Threads \ {t} : Given(u)' <=> Given(u)
    PROVE  CountedAlike(t)
BY DEF CountedAlike, Owning, Waiting, Moves, At

\* Thread t has reason to look at the queue of readers again.
Looks(t) ==
    \/ pc[t] = "dg_load"
    \/ pc[t] \in {"wk_loop", "wk_store", "wk_wake"} /\ pending[t] # 0

\* No reader is stranded by a thread that leaves a flag or its own look for the others,
\* unless no reader is pending.
LEMMA StrandedKept ==
    ASSUME NoReaderStranded, CountsExact, readers \in Words, NEW t \in Threads, Moves(t),
           UNCHANGED waiters, \A u \in Threads \ {t} : pending'[u] = pending[u],
           \A u \in Threads \ {t} : Given(u)' <=> Given(u),
           pc'[t] # "rl_wait", pc'[t] = "rl_push" => readers'.flags # {},
           readers.flags # {} \/ Looks(t) =>
               readers'.flags # {} \/ Looks(t)' \/ readers.waiting = 0
    PROVE  NoReaderStranded'
<1> DEFINE Away(u) == pc[u] = "rl_push" \/ (pc[u] = "rl_wait" /\ ~ Given(u))
<1> SUFFICES ASSUME NEW u \in Threads, Away(u)'
             PROVE  /\ pc'[u] = "rl_wait" => \E i \in DOMAIN waiters : waiters[i] = u
                    /\ readers'.flags # {} \/ \E v \in Threads : Looks(v)'
  BY DEF NoReaderStranded, NoWriter, Looks, At
<1>1. CASE u = t
  BY <1>1
<1>2. CASE u # t
  <2>1. pc'[u] = pc[u] /\ Away(u)
    BY <1>2 DEF Moves
  <2>2. readers.flags # {} \/ \E v \in Threads : Looks(v)
    BY <2>1 DEF NoReaderStranded, NoWriter, Looks, At
  <2>3. pc[u] = "rl_wait" => \E i \in DOMAIN waiters : waiters[i] = u
    BY <2>1 DEF NoReaderStranded, At
  <2>4. readers.waiting # 0
    BY <2>1, CountsPositive, SMT DEF Waiting, At
  <2>5. ASSUME NEW v \in Threads, v # t, Looks(v) PROVE Looks(v)'
    BY <2>5 DEF Looks, Moves
  <2> QED BY <2>1, <2>2, <2>3, <2>4, <2>5
<1> QED BY <1>1, <1>2

\* Where the readers are that are not in the queue
Reading == {"run", "reading", "rl_add", "rl_retry", "rl_push", "ru_owner", "ru_store", "ru_wake"}

\* Steps of a reader that leave the read_waiters alone
LEMMA ReaderKeeps ==
    ASSUME RWLockInv, NEW t \in Threads, Moves(t), readers' \in Words,
           UNCHANGED <<writer_wait, waiters, wm, depth, back, granted, pending, prev>>,
           \A u \in Threads \ {t} : who'[u] = who[u],
           pc[t] \in Reading, pc'[t] \in Reading,
           pc'[t] = "rl_push" => readers.flags # {},
           readers'.flags = readers.flags,
           readers'.owning <= readers.owning \/ readers.flags = {},
           \/ pc[t] # "reading" /\ pc'[t] # "reading" /\ readers'.owning = readers.owning
           \/ pc[t] # "reading" /\ pc'[t] = "reading" /\ readers'.owning = readers.owning + 1
           \/ pc[t] = "reading" /\ pc'[t] # "reading" /\ readers'.owning = readers.owning - 1,
           LET N == {"rl_retry", "rl_push"}
           IN  \/ (pc[t] \in N <=> pc'[t] \in N) /\ readers'.waiting = readers.waiting
               \/ pc[t] \notin N /\ pc'[t] \in N /\ readers'.waiting = readers.waiting + 1
               \/ pc[t] \in N /\ pc'[t] \notin N /\ readers'.waiting = readers.waiting - 1
    PROVE  OwnerInv' /\ FlagsInv' /\ WaitInv' /\ QueueInv' /\ CountsExact' /\ NoReaderStranded'
<1>1. TypeInv /\ readers \in Words /\ granted \in SUBSET Threads /\ waiters \in Seq(Threads)
  BY DEF RWLockInv, TypeInv
<1>2. OwnerInv /\ FlagsInv /\ WaitInv /\ QueueInv /\ CountsExact /\ NoReaderStranded
  BY DEF RWLockInv
<1>3. /\ pc[t] \notin Inside \cup Flagging \cup {"rl_wait", "wk_store"}
      /\ pc'[t] \notin Inside \cup Flagging \cup {"rl_wait", "wk_store", "wl_or", "tr_cas", "wl_lock"}
  BY DEF Reading, Inside, Flagging
<1>4. back[t] # "reading"
  BY <1>2, <1>3 DEF OwnerInv, Trying, Inside
<1>5. OwnerInv'
  BY <1>2, <1>3, <1>4, OwnerKept
<1>6. FlagsInv' /\ WaitInv'
  BY <1>1, <1>2, <1>3, FlagsKept
<1>7. \A u \in Threads : pc[u] = "wk_store" => who'[u] = who[u]
  BY <1>3
<1>8. QueueInv' /\ \A u \in Threads : Given(u)' <=> Given(u)
  BY <1>1, <1>2, <1>3, <1>7, QueueKept
<1>9. CountsExact'
  <2>1. CountedAlike(t)
    BY <1>8, CountedKept
  <2>2. (Owning(t) <=> pc[t] = "reading") /\ (Owning(t)' <=> pc'[t] = "reading")
    BY <1>3, <1>4 DEF Owning, Given, At
  <2>3. /\ Waiting(t) <=> pc[t] \in {"rl_retry", "rl_push"}
        /\ Waiting(t)' <=> pc'[t] \in {"rl_retry", "rl_push"}
    BY <1>3 DEF Waiting, At
  <2>4. \/ (Owning(t)' <=> Owning(t)) /\ readers'.owning = readers.owning
        \/ ~ Owning(t) /\ Owning(t)' /\ readers'.owning = readers.owning + 1
        \/ Owning(t) /\ ~ Owning(t)' /\ readers'.owning = readers.owning - 1
    BY <2>2
  <2>5. \/ (Waiting(t)' <=> Waiting(t)) /\ readers'.waiting = readers.waiting
        \/ ~ Waiting(t) /\ Waiting(t)' /\ readers'.waiting = readers.waiting + 1
        \/ Waiting(t) /\ ~ Waiting(t)' /\ readers'.waiting = readers.waiting - 1
    BY <2>3
  <2> QED BY <1>1, <1>2, <2>1, <2>4, <2>5, CountsFollow
<1>10. NoReaderStranded'
  <2>1. ~ Looks(t)
    BY <1>3 DEF Looks, Inside
  <2> QED BY <1>1, <1>2, <1>3, <1>8, <2>1, StrandedKept
<1> QED BY <1>5, <1>6, <1>8, <1>9, <1>10

-----------------------------------------------------------------------------
\* The first record of the queue is that of a pending reader, and of no other one.
LEMMA HeadWaits ==
    ASSUME QueueInv, waiters \in Seq(Threads), waiters # <<>>
    PROVE  /\ Head(waiters) \in Threads /\ Tail(waiters) \in Seq(Threads)
           /\ pc[Head(waiters)] = "rl_wait" /\ ~ Given(Head(waiters)) /\ Waiting(Head(waiters))
<1>1. 1 \in DOMAIN waiters /\ Head(waiters) = waiters[1]
  BY SMT
<1>2. At(waiters[1], "rl_wait") /\ ~ Given(waiters[1])
  BY <1>1 DEF QueueInv
<1>3. Head(waiters) \in Threads /\ Tail(waiters) \in Seq(Threads)
  BY SMT
<1> QED BY <1>1, <1>2, <1>3 DEF Waiting, At

\* The words that _readers is set to
LEMMA WordsKept ==
    ASSUME readers \in Words
    PROVE  /\ [readers EXCEPT !.owning = @ + 1] \in Words
           /\ readers.owning > 0 => [readers EXCEPT !.owning = @ - 1] \in Words
           /\ [readers EXCEPT !.waiting = @ + 1] \in Words
           /\ readers.waiting > 0 => [readers EXCEPT !.owning = @ + 1, !.waiting = @ - 1] \in Words
           /\ [readers EXCEPT !.flags = @ \cup {P}] \in Words
           /\ [readers EXCEPT !.flags = {W}] \in Words
           /\ [readers EXCEPT !.flags = IF P \in @ THEN {W} \ @ ELSE @ \cup {P}] \in Words
           /\ [Zero EXCEPT !.flags = {W}, !.waiting = readers.waiting] \in Words
           /\ [readers EXCEPT !.flags = @ \ {W}] \in Words
           /\ [readers EXCEPT !.flags = @ \ {W}, !.owning = @ + 1] \in Words
<1>1. /\ readers.flags \subseteq {W, P} /\ readers.owning \in Nat /\ readers.waiting \in Nat
  BY DEF Words
<1>3. [readers EXCEPT !.owning = @ + 1] \in Words
  BY <1>1, SMT DEF Words
<1>4. readers.owning > 0 => [readers EXCEPT !.owning = @ - 1] \in Words
  BY <1>1, SMT DEF Words
<1>5. [readers EXCEPT !.waiting = @ + 1] \in Words
  BY <1>1, SMT DEF Words
<1>6. readers.waiting > 0 => [readers EXCEPT !.owning = @ + 1, !.waiting = @ - 1] \in Words
  <2>1. \A m, n \in Nat : [readers EXCEPT !.owning = m, !.waiting = n] \in Words
    BY DEF Words
  <2>2. readers.waiting > 0 => readers.owning + 1 \in Nat /\ readers.waiting - 1 \in Nat
    BY <1>1, SMT
  <2> QED BY <2>1, <2>2
<1>7. [readers EXCEPT !.flags = @ \cup {P}] \in Words
  BY <1>1 DEF Words
<1>8. [readers EXCEPT !.flags = {W}] \in Words
  BY <1>1 DEF Words
<1>9. [readers EXCEPT !.flags = IF P \in @ THEN {W} \ @ ELSE @ \cup {P}] \in Words
  BY <1>1 DEF Words
<1>10. [Zero EXCEPT !.flags = {W}, !.waiting = readers.waiting] \in Words
  BY <1>1 DEF Words, Zero
<1>11. [readers EXCEPT !.flags = @ \ {W}] \in Words
  BY <1>1 DEF Words
<1>12. [readers EXCEPT !.flags = @ \ {W}, !.owning = @ + 1] \in Words
  <2>1. \A f \in SUBSET {W, P}, m \in Nat : [readers EXCEPT !.flags = f, !.owning = m] \in Words
    BY DEF Words
  <2>2. readers.flags \ {W} \in SUBSET {W, P} /\ readers.owning + 1 \in Nat
    BY <1>1, SMT
  <2> QED BY <2>1, <2>2
<1> QED BY <1>3, <1>4, <1>5, <1>6, <1>7, <1>8, <1>9, <1>10, <1>11, <1>12

\* A count is only lowered for a thread it covers.
LEMMA TypeStep ==
    ASSUME RWLockInv, NEW t \in Threads, Call(t) \/ RUnlock(t) \/ WUnlock(t) \/ Step(t)
    PROVE  TypeInv'
<1>1. TypeInv /\ readers \in Words /\ CountsExact
  BY DEF RWLockInv, TypeInv
<1>2. /\ readers.flags \in SUBSET {W, P} /\ readers.owning \in Nat /\ readers.waiting \in Nat
      /\ Zero \in Words
  BY <1>1 DEF Words, Zero
<1> USE DEF At, Goto
<1>3. CASE RLock(t)
  <2>1. readers' \in Words
    BY <1>1, <1>2, <1>3, WordsKept DEF RLock
  <2> QED BY <1>1, <1>2, <1>3, <2>1 DEF RLock, locs, mtx, Inside, Outside, TypeInv
<1>4. CASE RLockBlocked(t)
  BY <1>1, <1>2, <1>4 DEF RLockBlocked, locs, mtx, Inside, Outside, TypeInv
<1>5. CASE RLockAdd(t)
  <2>1. readers' \in Words
    BY <1>1, <1>2, <1>5, WordsKept DEF RLockAdd
  <2> QED BY <1>1, <1>2, <1>5, <2>1 DEF RLockAdd, locs, mtx, Inside, Outside, TypeInv
<1>6. CASE RLockRetryBlocked(t)
  BY <1>1, <1>2, <1>6 DEF RLockRetryBlocked, locs, mtx, Inside, Outside, TypeInv
<1>7. CASE RLockPush(t)
  BY <1>1, <1>2, <1>7, SMT DEF RLockPush, locs, mtx, Inside, Outside, TypeInv
<1>8. CASE RLockWait(t)
  BY <1>1, <1>2, <1>8 DEF RLockWait, locs, mtx, Inside, Outside, TypeInv
<1>9. CASE RUnlockOwner(t)
  <2>1. Owner \in Threads \cup {NoThread}
    BY <1>1, OwnerInside DEF RWLockInv
  <2> QED BY <1>1, <1>9, <2>1 DEF RUnlockOwner, locs, mtx, Inside, Outside, TypeInv
<1>10. CASE RUnlockStore(t)
  BY <1>1, <1>2, <1>10 DEF RUnlockStore, locs, mtx, Inside, Outside, TypeInv
<1>11. CASE RUnlockWake(t)
  BY <1>1, <1>2, <1>11 DEF RUnlockWake, locs, mtx, Inside, Outside, TypeInv
<1>12. CASE WLock(t)
  BY <1>1, <1>2, <1>12, SMT DEF WLock, locs, mtx, Inside, Outside, TypeInv
<1>13. CASE WLockLocked(t)
  BY <1>1, <1>2, <1>13 DEF WLockLocked, locs, mtx, Inside, Outside, TypeInv
<1>14. CASE WLockNested(t)
  BY <1>1, <1>2, <1>14, SMT DEF WLockNested, locs, mtx, Inside, Outside, TypeInv
<1>15. CASE WLockStore(t)
  BY <1>1, <1>2, <1>15 DEF WLockStore, locs, mtx, Inside, Outside, TypeInv
<1>16. CASE WLockOr(t)
  <2>1. readers' \in Words
    BY <1>1, <1>2, <1>16, WordsKept DEF WLockOr
  <2> QED BY <1>1, <1>2, <1>16, <2>1 DEF WLockOr, locs, mtx, Inside, Outside, TypeInv
<1>17. CASE WLockCas(t)
  <2>1. readers' \in Words
    BY <1>1, <1>2, <1>17, WordsKept DEF WLockCas
  <2> QED BY <1>1, <1>2, <1>17, <2>1 DEF WLockCas, locs, mtx, Inside, Outside, TypeInv
<1>18. CASE WLockWait(t)
  BY <1>1, <1>2, <1>18 DEF WLockWait, locs, mtx, Inside, Outside, TypeInv
<1>19. CASE WLockAdd(t)
  <2>1. readers' \in Words
    BY <1>1, <1>2, <1>19, WordsKept DEF WLockAdd
  <2> QED BY <1>1, <1>2, <1>19, <2>1 DEF WLockAdd, locs, mtx, Inside, Outside, TypeInv
<1>20. CASE TryWLock(t)
  BY <1>1, <1>2, <1>20, SMT DEF TryWLock, Try, locs, mtx, Inside, Outside, TypeInv
<1>21. CASE TryUpgrade(t)
  BY <1>1, <1>2, <1>21, SMT DEF TryUpgrade, Try, locs, mtx, Inside, Outside, TypeInv
<1>22. CASE TryLoad(t)
  BY <1>1, <1>2, <1>22 DEF TryLoad, locs, mtx, Inside, Outside, TypeInv
<1>23. CASE TryCas(t)
  <2>1. readers' \in Words
    BY <1>1, <1>2, <1>23, WordsKept DEF TryCas
  <2> QED BY <1>1, <1>2, <1>23, <2>1 DEF TryCas, locs, mtx, Inside, Outside, TypeInv
<1>24. CASE TryFail(t)
  <2>1. Tail(wm) \in Seq(Threads)
    <3>1. wm \in Seq(Threads) /\ wm # <<>>
      BY <1>1, <1>24 DEF TryFail, RWLockInv, OwnerInv, Inside, TypeInv
    <3> QED BY <3>1, SMT
  <2>2. back[t] \in {"run", "reading"}
    BY <1>1 DEF TypeInv
  <2> QED BY <1>1, <1>2, <1>24, <2>1, <2>2 DEF TryFail, Release, Inside, Outside, TypeInv
<1>25. CASE WUnlockNested(t)
  BY <1>1, <1>2, <1>25, SMT DEF WUnlockNested, locs, mtx, Inside, Outside, TypeInv
<1>26. CASE WUnlock(t)
  <2>1. readers' \in Words
    BY <1>1, <1>2, <1>26, WordsKept DEF WUnlock
  <2> QED BY <1>1, <1>2, <1>26, <2>1 DEF WUnlock, locs, mtx, Inside, Outside, TypeInv
<1>27. CASE Downgrade(t)
  <2>1. readers' \in Words
    BY <1>1, <1>2, <1>27, WordsKept DEF Downgrade
  <2> QED BY <1>1, <1>2, <1>27, <2>1 DEF Downgrade, locs, mtx, Inside, Outside, TypeInv
<1>28. CASE DowngradeLoad(t)
  BY <1>1, <1>2, <1>28 DEF DowngradeLoad, locs, mtx, Inside, Outside, TypeInv
<1>29. CASE WakeEmpty(t)
  BY <1>1, <1>2, <1>29 DEF WakeEmpty, locs, mtx, Inside, Outside, TypeInv
<1>30. CASE WakeStore(t)
  <2>1. who[t] \in Threads
    BY <1>30 DEF WakeStore, RWLockInv, QueueInv
  <2> QED BY <1>1, <1>30, <2>1 DEF WakeStore, mtx, Inside, Outside, TypeInv
<1>31. CASE WakeCall(t)
  BY <1>1, <1>2, <1>31 DEF WakeCall, locs, mtx, Inside, Outside, TypeInv
<1>32. CASE WakeEnd(t)
  <2>1. Tail(wm) \in Seq(Threads)
    <3>1. wm \in Seq(Threads) /\ wm # <<>>
      BY <1>1, <1>32 DEF WakeEnd, RWLockInv, OwnerInv, Inside, TypeInv
    <3> QED BY <3>1, SMT
  <2>2. back[t] \in {"run", "reading"}
    BY <1>1 DEF TypeInv
  <2> QED BY <1>1, <1>2, <1>32, <2>1, <2>2 DEF WakeEnd, Release, Inside, Outside, TypeInv
<1>33. CASE RLockRetry(t)
  <2>1. readers.waiting > 0
    BY <1>1, <1>33, CountsPositive DEF RLockRetry, Waiting
  <2>2. readers' \in Words
    BY <1>1, <1>2, <1>33, <2>1, WordsKept DEF RLockRetry
  <2> QED BY <1>1, <1>2, <1>33, <2>1, <2>2 DEF RLockRetry, locs, mtx, Inside, Outside, TypeInv
<1>34. CASE RUnlock(t)
  <2>1. readers.owning > 0
    BY <1>1, <1>34, CountsPositive DEF RUnlock, Owning
  <2>2. readers' \in Words
    BY <1>1, <1>2, <1>34, <2>1, WordsKept DEF RUnlock
  <2> QED BY <1>1, <1>2, <1>34, <2>1, <2>2 DEF RUnlock, locs, mtx, Inside, Outside, TypeInv
<1>35. CASE WakePop(t)
  <2>1. waiters \in Seq(Threads) /\ waiters # <<>>
    BY <1>1, <1>35 DEF WakePop, TypeInv
  <2>2. Head(waiters) \in Threads /\ Tail(waiters) \in Seq(Threads) /\ Waiting(Head(waiters))
    BY <2>1, HeadWaits DEF RWLockInv
  <2>3. readers.waiting > 0
    BY <1>1, <2>2, CountsPositive
  <2>4. readers' \in Words
    BY <1>1, <1>2, <1>35, <2>2, <2>3, WordsKept DEF WakePop
  <2> QED BY <1>1, <1>2, <1>35, <2>2, <2>3, <2>4 DEF WakePop, locs, mtx, Inside, Outside, TypeInv
<1> QED
  BY <1>3, <1>4, <1>5, <1>6, <1>7, <1>8, <1>9, <1>10, <1>11, <1>12, <1>13, <1>14, <1>15,
     <1>16, <1>17, <1>18, <1>19, <1>20, <1>21, <1>22, <1>23, <1>24, <1>25, <1>26, <1>27,
     <1>28, <1>29, <1>30, <1>31, <1>32, <1>33, <1>34, <1>35
     DEF Call, Step

\* Steps that the pending writer and the reader that looks for it do not notice
LEMMA WokenKept ==
    ASSUME TypeInv, OwnerInv, PendingWriterWoken, NEW t \in Threads, Moves(t),
           UNCHANGED <<wm, depth, writer_wait>>, readers' \in Words,
           readers'.flags = readers.flags, readers'.owning <= readers.owning \/ readers.flags = {},
           pc[t] # "wl_wait",
           pc'[t] \in {"ru_owner", "ru_store"} => pc[t] \in {"ru_owner", "ru_store"}
    PROVE  PendingWriterWoken'
<1>1. Owner' = Owner
  BY DEF Owner
<1>2. readers.owning \in Nat /\ readers'.owning \in Nat
  BY DEF TypeInv, Words
<1> SUFFICES ASSUME NEW v \in Threads, pc'[v] \in {"ru_owner", "ru_store"}
             PROVE  /\ Owner # NoThread /\ pc'[Owner] = "wl_wait"
                    /\ writer_wait /\ P \in readers'.flags /\ readers'.owning = 0
                    /\ \A u \in Threads \ {v} : pc'[u] \notin {"ru_owner", "ru_store"}
  BY <1>1 DEF PendingWriterWoken
<1>3. pc[v] \in {"ru_owner", "ru_store"}
  BY DEF Moves
<1>4. /\ Owner # NoThread /\ pc[Owner] = "wl_wait"
      /\ writer_wait /\ P \in readers.flags /\ readers.owning = 0
      /\ \A u \in Threads \ {v} : pc[u] \notin {"ru_owner", "ru_store"}
  BY <1>3 DEF PendingWriterWoken
<1>5. Owner \in Threads \ {t}
  BY <1>4, OwnerInside
<1>6. pc'[Owner] = "wl_wait"
  BY <1>4, <1>5 DEF Moves
<1>7. readers'.owning = 0
  BY <1>2, <1>4, SMT
<1>8. \A u \in Threads \ {v} : pc'[u] \notin {"ru_owner", "ru_store"}
  BY <1>3, <1>4 DEF Moves
<1> QED BY <1>4, <1>6, <1>7, <1>8

\* The last reader that sees PENDING_WRITER finds the writer asleep: one that announced
\* itself after that reader had left would have taken the lock at once.
LEMMA LastReaderFinds ==
    ASSUME RWLockInv, NEW t \in Threads, Moves(t), pc[t] = "reading", pc'[t] = "ru_owner",
           UNCHANGED <<wm, depth, writer_wait>>, readers.owning = 1, P \in readers.flags,
           readers'.flags = readers.flags, readers'.owning = readers.owning - 1
    PROVE  PendingWriterWoken'
<1>1. OwnerInv /\ FlagsInv /\ WaitInv /\ PendingWriterWoken /\ TypeInv
  BY DEF RWLockInv
<1>2. PICK u \in Threads : pc[u] \in {"writing", "wl_cas", "wl_wait", "wl_add"}
  BY <1>1 DEF FlagsInv
<1>3. pc[u] = "wl_wait" /\ writer_wait
  BY <1>1, <1>2, SMT DEF FlagsInv, WaitInv, W, P
<1>4. Owner = u /\ u # NoThread
  BY <1>1, <1>3, RWLockAssumption, SMT DEF OwnerInv, Inside, Owner
<1>5. u # t /\ pc'[u] = "wl_wait"
  BY <1>3 DEF Moves
<1>6. Owner' = Owner
  BY DEF Owner
<1>7. \A v \in Threads : pc[v] \notin {"ru_owner", "ru_store"}
  BY <1>1, SMT DEF PendingWriterWoken
<1>8. \A v \in Threads \ {t} : pc'[v] \notin {"ru_owner", "ru_store"}
  BY <1>7 DEF Moves
<1>9. readers'.owning = 0 /\ P \in readers'.flags /\ writer_wait'
  BY <1>3, SMT
<1>10. Owner' # NoThread /\ pc'[Owner'] = "wl_wait"
  BY <1>4, <1>5, <1>6
<1>11. \A v \in Threads : pc'[v] \in {"ru_owner", "ru_store"} => v = t
  BY <1>8
<1> QED BY <1>8, <1>9, <1>10, <1>11 DEF PendingWriterWoken

\* What a step of a thread that does not hold _wmtx does to _readers: it counts the
\* thread as owning or pending exactly as it moves.
ReaderMoves(t) ==
    /\ pc[t] \in Reading /\ pc'[t] \in Reading
    /\ pc'[t] = "rl_push" => readers.flags # {}
    /\ readers'.flags = readers.flags
    /\ readers'.owning <= readers.owning \/ readers.flags = {}
    /\ \/ pc[t] # "reading" /\ pc'[t] # "reading" /\ readers'.owning = readers.owning
       \/ pc[t] # "reading" /\ pc'[t] = "reading" /\ readers'.owning = readers.owning + 1
       \/ pc[t] = "reading" /\ pc'[t] # "reading" /\ readers'.owning = readers.owning - 1
    /\ LET N == {"rl_retry", "rl_push"}
       IN  \/ (pc[t] \in N <=> pc'[t] \in N) /\ readers'.waiting = readers.waiting
           \/ pc[t] \notin N /\ pc'[t] \in N /\ readers'.waiting = readers.waiting + 1
           \/ pc[t] \in N /\ pc'[t] \notin N /\ readers'.waiting = readers.waiting - 1

LEMMA ReaderMovesKeep ==
    ASSUME RWLockInv, NEW t \in Threads, Moves(t), readers' \in Words,
           UNCHANGED <<writer_wait, waiters, wm, depth, back, granted, pending, prev>>,
           \A u \in Threads \ {t} : who'[u] = who[u], ReaderMoves(t),
           \/ pc'[t] \in {"ru_owner", "ru_store"} => pc[t] \in {"ru_owner", "ru_store"}
           \/ PendingWriterWoken'
    PROVE  /\ OwnerInv' /\ FlagsInv' /\ WaitInv' /\ QueueInv' /\ CountsExact' /\ NoReaderStranded'
           /\ PendingWriterWoken'
<1>1. TypeInv /\ OwnerInv /\ PendingWriterWoken
  BY DEF RWLockInv
<1>2. /\ readers'.flags = readers.flags
      /\ readers'.owning <= readers.owning \/ readers.flags = {}
      /\ pc[t] \in Reading
  BY DEF ReaderMoves
<1>3. pc[t] # "wl_wait"
  BY <1>2 DEF Reading
<1>4. PendingWriterWoken'
  BY <1>1, <1>2, <1>3, WokenKept
<1>5. OwnerInv' /\ FlagsInv' /\ WaitInv' /\ QueueInv' /\ CountsExact' /\ NoReaderStranded'
  BY ReaderKeeps DEF ReaderMoves
<1> QED
  BY <1>4, <1>5

\* rlock() and runlock(), except for the handling of the read_waiters
LEMMA ReaderStep ==
    ASSUME RWLockInv, NEW t \in Threads, TypeInv',
           \/ RLock(t) \/ RLockBlocked(t) \/ RLockAdd(t) \/ RLockRetry(t) \/ RLockRetryBlocked(t)
           \/ RUnlock(t) \/ RUnlockOwner(t) \/ RUnlockWake(t)
    PROVE  RWLockInv'
<1>1. /\ TypeInv /\ OwnerInv /\ PendingWriterWoken /\ FlagsInv
      /\ readers \in Words /\ readers' \in Words
      /\ pc \in [Threads -> Inside \cup Outside] /\ who \in [Threads -> Threads \cup {NoThread}]
  BY DEF RWLockInv, TypeInv
<1>2. readers.owning \in Nat /\ readers.waiting \in Nat
  BY <1>1 DEF Words
<1>3. /\ UNCHANGED <<writer_wait, waiters, wm, depth, back, granted, pending, prev>>
      /\ \A u \in Threads \ {t} : who'[u] = who[u]
  BY <1>1 DEF RLock, RLockBlocked, RLockAdd, RLockRetry, RLockRetryBlocked, RUnlock,
              RUnlockOwner, RUnlockWake, locs, mtx
<1> SUFFICES /\ OwnerInv' /\ FlagsInv' /\ WaitInv' /\ QueueInv' /\ CountsExact' /\ NoReaderStranded'
             /\ PendingWriterWoken'
  BY DEF RWLockInv
<1> USE DEF At, Goto
<1>4. CASE RLock(t)
  <2>1. /\ Moves(t) /\ pc[t] = "run" /\ pc'[t] = "reading" /\ readers.flags = {}
        /\ readers'.owning = readers.owning + 1 /\ readers'.waiting = readers.waiting
        /\ readers'.flags = readers.flags
    BY <1>1, <1>4 DEF RLock, Moves, NoWriter, Words
  <2>2. ReaderMoves(t) /\ pc'[t] \notin {"ru_owner", "ru_store"}
    BY <1>2, <2>1 DEF ReaderMoves, Reading
  <2> QED BY <1>1, <1>3, <2>1, <2>2, ReaderMovesKeep
<1>5. CASE RLockBlocked(t)
  <2>1. Moves(t) /\ pc[t] = "run" /\ pc'[t] = "rl_add" /\ readers' = readers
    BY <1>1, <1>5 DEF RLockBlocked, Moves
  <2>2. ReaderMoves(t) /\ pc'[t] \notin {"ru_owner", "ru_store"}
    BY <1>2, <2>1, SMT DEF ReaderMoves, Reading
  <2> QED BY <1>1, <1>3, <2>1, <2>2, ReaderMovesKeep
<1>6. CASE RLockAdd(t)
  <2>1. /\ Moves(t) /\ pc[t] = "rl_add" /\ pc'[t] \in {"rl_retry", "rl_push"}
        /\ pc'[t] = "rl_push" => readers.flags # {}
        /\ readers'.owning = readers.owning /\ readers'.waiting = readers.waiting + 1
        /\ readers'.flags = readers.flags
    BY <1>1, <1>6 DEF RLockAdd, Moves, NoWriter, Words
  <2>2. ReaderMoves(t) /\ pc'[t] \notin {"ru_owner", "ru_store"}
    BY <1>2, <2>1, SMT DEF ReaderMoves, Reading
  <2> QED BY <1>1, <1>3, <2>1, <2>2, ReaderMovesKeep
<1>7. CASE RLockRetry(t)
  <2>1. /\ Moves(t) /\ pc[t] = "rl_retry" /\ pc'[t] = "reading" /\ readers.flags = {}
        /\ readers'.owning = readers.owning + 1 /\ readers'.waiting = readers.waiting - 1
        /\ readers'.flags = readers.flags
    BY <1>1, <1>7 DEF RLockRetry, Moves, NoWriter, Words
  <2>2. ReaderMoves(t) /\ pc'[t] \notin {"ru_owner", "ru_store"}
    BY <1>2, <2>1 DEF ReaderMoves, Reading
  <2> QED BY <1>1, <1>3, <2>1, <2>2, ReaderMovesKeep
<1>8. CASE RLockRetryBlocked(t)
  <2>1. /\ Moves(t) /\ pc[t] = "rl_retry" /\ pc'[t] = "rl_push" /\ readers' = readers
        /\ readers.flags # {}
    BY <1>1, <1>8 DEF RLockRetryBlocked, Moves, NoWriter
  <2>2. ReaderMoves(t) /\ pc'[t] \notin {"ru_owner", "ru_store"}
    BY <1>2, <2>1, SMT DEF ReaderMoves, Reading
  <2> QED BY <1>1, <1>3, <2>1, <2>2, ReaderMovesKeep
<1>9. CASE RUnlock(t)
  <2>1. /\ Moves(t) /\ pc[t] = "reading" /\ pc'[t] \in {"ru_owner", "run"}
        /\ pc'[t] = "ru_owner" => readers.owning = 1 /\ P \in readers.flags
        /\ readers'.owning = readers.owning - 1 /\ readers'.waiting = readers.waiting
        /\ readers'.flags = readers.flags
    BY <1>1, <1>9 DEF RUnlock, Moves, Words
  <2>2. ReaderMoves(t)
    BY <1>2, <2>1, SMT DEF ReaderMoves, Reading
  <2>3. CASE pc'[t] = "ru_owner"
    <3>1. PendingWriterWoken'
      BY <1>3, <2>1, <2>3, LastReaderFinds
    <3> QED BY <1>1, <1>3, <2>1, <2>2, <3>1, ReaderMovesKeep
  <2>4. CASE pc'[t] = "run"
    <3>1. pc'[t] \notin {"ru_owner", "ru_store"}
      BY <2>4
    <3> QED BY <1>1, <1>3, <2>1, <2>2, <3>1, ReaderMovesKeep
  <2> QED BY <2>1, <2>3, <2>4
<1>10. CASE RUnlockOwner(t)
  <2>1. /\ Moves(t) /\ pc[t] = "ru_owner" /\ pc'[t] \in {"run", "ru_store"} /\ readers' = readers
    BY <1>1, <1>10 DEF RUnlockOwner, Moves
  <2>2. ReaderMoves(t) /\ pc[t] \in {"ru_owner", "ru_store"}
    BY <1>2, <2>1, SMT DEF ReaderMoves, Reading
  <2> QED BY <1>1, <1>3, <2>1, <2>2, ReaderMovesKeep
<1>11. CASE RUnlockWake(t)
  <2>1. /\ Moves(t) /\ pc[t] = "ru_wake" /\ pc'[t] = "run" /\ readers' = readers
    BY <1>1, <1>11 DEF RUnlockWake, Moves
  <2>2. ReaderMoves(t) /\ pc'[t] \notin {"ru_owner", "ru_store"}
    BY <1>2, <2>1, SMT DEF ReaderMoves, Reading
  <2> QED BY <1>1, <1>3, <2>1, <2>2, ReaderMovesKeep
<1> QED BY <1>4, <1>5, <1>6, <1>7, <1>8, <1>9, <1>10, <1>11

\* The last reader clears _writer_wait.
LEMMA StoreStep ==
    ASSUME RWLockInv, NEW t \in Threads, TypeInv', RUnlockStore(t)
    PROVE  RWLockInv'
<1>1. /\ TypeInv /\ OwnerInv /\ FlagsInv /\ WaitInv /\ QueueInv /\ CountsExact
      /\ PendingWriterWoken /\ NoReaderStranded /\ readers \in Words
      /\ granted \in SUBSET Threads /\ waiters \in Seq(Threads)
  BY DEF RWLockInv, TypeInv
<1>2. /\ Moves(t) /\ pc[t] = "ru_store" /\ pc'[t] = "ru_wake" /\ UNCHANGED readers
      /\ UNCHANGED <<waiters, wm, depth, back, granted, pending, prev, who>>
  BY <1>1 DEF RUnlockStore, Moves, At, Goto, TypeInv, locs, mtx
<1>3. /\ Owner # NoThread /\ pc[Owner] = "wl_wait" /\ readers.owning = 0
      /\ \A u \in Threads \ {t} : pc[u] \notin {"ru_owner", "ru_store"}
  BY <1>1, <1>2 DEF PendingWriterWoken
<1>4. pc[t] \notin Inside /\ pc'[t] \notin Inside /\ back[t] # "reading"
  BY <1>1, <1>2 DEF OwnerInv, Trying, Inside
<1>5. OwnerInv'
  BY <1>1, <1>2, <1>4, OwnerKept
<1>6. FlagsInv'
  <2>1. \A u \in Threads : pc'[u] \in Flagging <=> pc[u] \in Flagging
    BY <1>2 DEF Moves, Flagging
  <2>2. \A u \in Threads : pc'[u] \in Flagging => pc'[u] = pc[u]
    BY <1>2 DEF Moves, Flagging
  <2> QED BY <1>1, <1>2, <2>1, <2>2 DEF FlagsInv, Flagging
<1>7. WaitInv'
  <2>1. Owner \in Threads
    BY <1>1, <1>3, OwnerInside
  <2>2. ASSUME NEW u \in Threads
        PROVE  /\ pc'[u] \notin {"wl_or", "wl_cas"}
               /\ pc'[u] = "tr_cas" => prev[u].owning = IF back[u] = "run" THEN 0 ELSE 1
    <3>1. pc[u] \in Inside => pc[u] = "wl_wait"
      BY <1>1, <1>3, <2>1, Alone DEF Inside
    <3>2. u # t => pc'[u] = pc[u]
      BY <1>2 DEF Moves
    <3> QED BY <1>2, <3>1, <3>2 DEF Inside
  <2> QED BY <1>2, <1>3, <2>2 DEF WaitInv
<1>8. QueueInv' /\ \A u \in Threads : Given(u)' <=> Given(u)
  BY <1>1, <1>2, QueueKept
<1>9. CountsExact'
  <2>1. CountedAlike(t)
    BY <1>2, <1>8, CountedKept
  <2>2. ~ Owning(t) /\ ~ Owning(t)' /\ ~ Waiting(t) /\ ~ Waiting(t)'
    BY <1>2, <1>4 DEF Owning, Waiting, Given, At
  <2> QED BY <1>1, <1>2, <2>1, <2>2, CountsFollow
<1>10. PendingWriterWoken'
  BY <1>2, <1>3 DEF PendingWriterWoken, Moves
<1>11. NoReaderStranded'
  <2>1. ~ Looks(t)
    BY <1>2 DEF Looks
  <2> QED BY <1>1, <1>2, <1>8, <2>1, StrandedKept
<1> QED BY <1>5, <1>6, <1>7, <1>8, <1>9, <1>10, <1>11 DEF RWLockInv

\* A reader puts its record into the queue.
LEMMA PushStep ==
    ASSUME RWLockInv, NEW t \in Threads, TypeInv', RLockPush(t)
    PROVE  RWLockInv'
<1>1. /\ TypeInv /\ OwnerInv /\ FlagsInv /\ WaitInv /\ QueueInv /\ CountsExact
      /\ PendingWriterWoken /\ NoReaderStranded /\ readers \in Words /\ readers' \in Words
      /\ granted \in SUBSET Threads /\ waiters \in Seq(Threads)
  BY DEF RWLockInv, TypeInv
<1>2. /\ Moves(t) /\ pc[t] = "rl_push" /\ pc'[t] = "rl_wait" /\ UNCHANGED readers
      /\ UNCHANGED <<writer_wait, wm, depth, back, granted, pending, prev, who>>
      /\ waiters' = Append(waiters, t)
  BY <1>1 DEF RLockPush, Moves, At, Goto, TypeInv, locs, mtx
<1>3. readers.owning \in Nat
  BY <1>1 DEF Words
<1>4. pc[t] \notin Inside /\ pc'[t] \notin Inside /\ back[t] # "reading"
  BY <1>1, <1>2 DEF OwnerInv, Trying, Inside
<1>5. OwnerInv' /\ FlagsInv' /\ WaitInv' /\ PendingWriterWoken'
  BY <1>1, <1>2, <1>3, <1>4, OwnerKept, FlagsKept, WokenKept, SMT DEF Flagging
<1>6. \A u \in Threads : /\ pc'[u] = "wk_store" <=> pc[u] = "wk_store"
                         /\ u # t => (pc'[u] = "rl_wait" <=> pc[u] = "rl_wait")
  BY <1>2 DEF Moves
<1>7. t \notin granted /\ \A u \in Threads : pc[u] = "wk_store" => who[u] # t
  BY <1>1, <1>2 DEF QueueInv
<1>8. ~ Given(t)' /\ ~ Given(t) /\ \A u \in Threads \ {t} : Given(u)' <=> Given(u)
  BY <1>2, <1>6, <1>7 DEF Given, At
<1>9. /\ DOMAIN waiters' = DOMAIN waiters \cup {Len(waiters) + 1}
      /\ waiters'[Len(waiters) + 1] = t
      /\ \A i \in DOMAIN waiters : waiters'[i] = waiters[i] /\ waiters[i] \in Threads
  BY <1>1, <1>2, SMT
<1>10. \A i \in DOMAIN waiters : pc[waiters[i]] = "rl_wait" /\ ~ Given(waiters[i])
  BY <1>1 DEF QueueInv, At
<1>11. QueueInv'
  <2>1. \A i \in DOMAIN waiters' : (At(waiters[i], "rl_wait") /\ ~ Given(waiters[i]))'
    <3> TAKE i \in DOMAIN waiters'
    <3>1. PICK x \in Threads : x = waiters'[i]
      BY <1>9
    <3>2. x = t \/ (x # t /\ pc[x] = "rl_wait" /\ ~ Given(x))
      BY <1>2, <1>9, <1>10, <3>1
    <3>3. pc'[x] = "rl_wait" /\ ~ Given(x)'
      BY <1>2, <1>6, <1>8, <3>2
    <3> QED BY <3>1, <3>3 DEF Given, At
  <2>2. \A i, j \in DOMAIN waiters' : waiters'[i] = waiters'[j] => i = j
    BY <1>1, <1>2, <1>9, <1>10, SMT DEF QueueInv
  <2>3. \A u \in granted : pc'[u] = "rl_wait"
    BY <1>1, <1>6, <1>7 DEF QueueInv
  <2>4. \A u \in Threads : pc'[u] = "wk_store" =>
            who[u] \in Threads /\ pc'[who[u]] = "rl_wait" /\ who[u] \notin granted
    BY <1>1, <1>6, <1>7 DEF QueueInv
  <2> QED BY <1>2, <2>1, <2>2, <2>3, <2>4 DEF QueueInv, At
<1>12. CountsExact'
  <2>1. CountedAlike(t)
    BY <1>2, <1>8, CountedKept
  <2>2. ~ Owning(t) /\ ~ Owning(t)' /\ Waiting(t) /\ Waiting(t)'
    BY <1>2, <1>4, <1>8 DEF Owning, Waiting, At
  <2> QED BY <1>1, <1>2, <2>1, <2>2, CountsFollow
<1>13. NoReaderStranded'
  <2> SUFFICES ASSUME NEW u \in Threads,
                      pc'[u] = "rl_push" \/ (pc'[u] = "rl_wait" /\ ~ Given(u)')
               PROVE  /\ pc'[u] = "rl_wait" => \E i \in DOMAIN waiters' : waiters'[i] = u
                      /\ readers'.flags # {} \/ \E v \in Threads : Looks(v)'
    BY DEF NoReaderStranded, NoWriter, Looks, At
  <2>1. /\ u # t /\ pc'[u] = "rl_wait" => \E i \in DOMAIN waiters : waiters[i] = u
        /\ readers.flags # {} \/ \E v \in Threads : Looks(v)
    <3>1. pc[u] = "rl_push" \/ (pc[u] = "rl_wait" /\ ~ Given(u))
      BY <1>2, <1>8 DEF Moves
    <3>2. u # t => pc'[u] = pc[u]
      BY <1>2 DEF Moves
    <3> QED BY <1>1, <3>1, <3>2 DEF NoReaderStranded, NoWriter, Looks, At
  <2>2. \A v \in Threads : Looks(v) => Looks(v)'
    BY <1>2 DEF Looks, Moves
  <2> QED BY <1>2, <1>9, <2>1, <2>2
<1> QED BY <1>5, <1>11, <1>12, <1>13 DEF RWLockInv

\* A reader finds that the lock was taken for it.
LEMMA WaitStep ==
    ASSUME RWLockInv, NEW t \in Threads, TypeInv', RLockWait(t)
    PROVE  RWLockInv'
<1>1. /\ TypeInv /\ OwnerInv /\ FlagsInv /\ WaitInv /\ QueueInv /\ CountsExact
      /\ PendingWriterWoken /\ NoReaderStranded /\ readers \in Words /\ readers' \in Words
      /\ granted \in SUBSET Threads /\ waiters \in Seq(Threads)
  BY DEF RWLockInv, TypeInv
<1>2. /\ Moves(t) /\ pc[t] = "rl_wait" /\ pc'[t] = "reading" /\ UNCHANGED readers
      /\ UNCHANGED <<writer_wait, waiters, wm, depth, back, pending, prev, who>>
      /\ t \in granted /\ granted' = granted \ {t}
  BY <1>1 DEF RLockWait, Moves, At, Goto, TypeInv, mtx
<1>3. readers.owning \in Nat
  BY <1>1 DEF Words
<1>4. pc[t] \notin Inside /\ pc'[t] \notin Inside /\ back[t] # "reading"
  BY <1>1, <1>2 DEF OwnerInv, Trying, Inside
<1>5. OwnerInv' /\ FlagsInv' /\ WaitInv' /\ PendingWriterWoken'
  BY <1>1, <1>2, <1>3, <1>4, OwnerKept, FlagsKept, WokenKept, SMT DEF Flagging
<1>6. \A u \in Threads : /\ pc'[u] = "wk_store" <=> pc[u] = "wk_store"
                         /\ u # t => (pc'[u] = "rl_wait" <=> pc[u] = "rl_wait")
  BY <1>2 DEF Moves
<1>7. Given(t) /\ ~ Given(t)' /\ \A u \in Threads \ {t} : Given(u)' <=> Given(u)
  BY <1>2, <1>6 DEF Given, At
<1>8. QueueInv'
  <2>1. \A i \in DOMAIN waiters : waiters[i] \in Threads \ {t}
    BY <1>1, <1>7, SMT DEF QueueInv
  <2>2. \A i \in DOMAIN waiters : At(waiters[i], "rl_wait") /\ ~ Given(waiters[i])
    BY <1>1 DEF QueueInv
  <2>3. \A i \in DOMAIN waiters : (At(waiters[i], "rl_wait") /\ ~ Given(waiters[i]))'
    <3> TAKE i \in DOMAIN waiters
    <3>1. PICK x \in Threads \ {t} : x = waiters[i]
      BY <2>1
    <3>2. pc'[x] = "rl_wait" /\ ~ Given(x)'
      BY <1>6, <1>7, <2>2, <3>1 DEF At
    <3> QED BY <1>2, <3>1, <3>2 DEF Given, At
  <2>4. \A u \in granted' : pc'[u] = "rl_wait"
    BY <1>1, <1>2, <1>6 DEF QueueInv
  <2>5. \A u \in Threads : pc'[u] = "wk_store" =>
            who[u] \in Threads /\ pc'[who[u]] = "rl_wait" /\ who[u] \notin granted'
    BY <1>1, <1>2, <1>6 DEF QueueInv
  <2>6. \A i, j \in DOMAIN waiters : waiters[i] = waiters[j] => i = j
    BY <1>1 DEF QueueInv
  <2> QED BY <1>2, <2>3, <2>4, <2>5, <2>6 DEF QueueInv, At
<1>9. CountsExact'
  <2>1. CountedAlike(t)
    BY <1>2, <1>7, CountedKept
  <2>2. Owning(t) /\ Owning(t)' /\ ~ Waiting(t) /\ ~ Waiting(t)'
    BY <1>2, <1>7 DEF Owning, Waiting, At
  <2> QED BY <1>1, <1>2, <2>1, <2>2, CountsFollow
<1>10. NoReaderStranded'
  <2>1. ~ Looks(t)
    BY <1>2 DEF Looks
  <2> QED BY <1>1, <1>2, <1>7, <2>1, StrandedKept
<1> QED BY <1>5, <1>8, <1>9, <1>10 DEF RWLockInv

-----------------------------------------------------------------------------
\* Steps of the owner of _wmtx that leave the read_waiters alone: what remains to be
\* shown is about _wmtx and the flags.
LEMMA OwnerKeeps ==
    ASSUME RWLockInv, NEW t \in Threads, Moves(t), readers' \in Words,
           pc[t] \in Inside \ {"wk_store"}, pc[t] = "wl_wait" => ~ writer_wait,
           pc'[t] \in (Inside \ {"wk_store"}) \cup {"run", "reading"},
           UNCHANGED <<waiters, granted>>,
           \A u \in Threads : pc[u] = "wk_store" => who'[u] = who[u],
           \A u \in Threads \ {t} : back'[u] = back[u] /\ pending'[u] = pending[u],
           readers'.waiting = readers.waiting,
           LET Own == pc[t] = "reading" \/ back[t] = "reading"
           IN  \/ (Own' <=> Own) /\ readers'.owning = readers.owning
               \/ ~ Own /\ Own' /\ readers'.owning = readers.owning + 1
               \/ Own /\ ~ Own' /\ readers'.owning = readers.owning - 1,
           readers.flags # {} \/ Looks(t) =>
               readers'.flags # {} \/ Looks(t)' \/ readers.waiting = 0
    PROVE  QueueInv' /\ CountsExact' /\ PendingWriterWoken' /\ NoReaderStranded'
<1>1. /\ OwnerInv /\ QueueInv /\ CountsExact /\ PendingWriterWoken /\ NoReaderStranded
      /\ readers \in Words /\ granted \in SUBSET Threads /\ waiters \in Seq(Threads)
  BY DEF RWLockInv, TypeInv
<1>2. /\ pc[t] \notin {"rl_wait", "rl_push", "rl_retry", "wk_store"}
      /\ pc'[t] \notin {"rl_wait", "rl_push", "rl_retry", "wk_store", "ru_owner", "ru_store"}
  BY DEF Inside
<1>3. QueueInv' /\ \A u \in Threads : Given(u)' <=> Given(u)
  BY <1>1, <1>2, QueueKept
<1>4. CountsExact'
  <2>1. CountedAlike(t)
    BY <1>3, CountedKept
  <2>2. ~ Waiting(t) /\ ~ Waiting(t)'
    BY <1>2 DEF Waiting, At
  <2>3. /\ Owning(t) <=> pc[t] = "reading" \/ back[t] = "reading"
        /\ Owning(t)' <=> pc'[t] = "reading" \/ back'[t] = "reading"
    BY <1>2 DEF Owning, Given, At
  <2>4. \/ (Owning(t)' <=> Owning(t)) /\ readers'.owning = readers.owning
        \/ ~ Owning(t) /\ Owning(t)' /\ readers'.owning = readers.owning + 1
        \/ Owning(t) /\ ~ Owning(t)' /\ readers'.owning = readers.owning - 1
    BY <2>3
  <2> QED BY <1>1, <2>1, <2>2, <2>4, CountsFollow
<1>5. PendingWriterWoken'
  BY <1>1, <1>2, NobodyLooks, NobodyLooksNow
<1>6. NoReaderStranded'
  BY <1>1, <1>2, <1>3, StrandedKept
<1> QED BY <1>3, <1>4, <1>5, <1>6

\* The flags are those of the one thread that is between lock() and unlock() of _wmtx.
LEMMA FlagsOwn ==
    ASSUME NEW t \in Threads, Moves(t), \A u \in Threads \ {t} : pc[u] \notin Inside,
           pc'[t] = "writing" => readers'.flags = {W} /\ readers'.owning = 0,
           pc'[t] \in {"wl_cas", "wl_wait", "wl_add"} => readers'.flags = {P},
           readers'.flags # {} => pc'[t] \in Flagging,
           pc'[t] \in {"wl_or", "wl_cas"} => writer_wait',
           pc'[t] \in {"wl_cas", "wl_add"} => readers'.owning = 0,
           pc'[t] = "wl_wait" => writer_wait' \/ readers'.owning = 0,
           pc'[t] = "tr_cas" => prev'[t].owning = IF back'[t] = "run" THEN 0 ELSE 1
    PROVE  FlagsInv' /\ WaitInv'
<1>1. \A u \in Threads : pc'[u] \in Flagging \cup {"wl_or", "tr_cas"} => u = t
  BY DEF Moves, Flagging, Inside
<1>2. FlagsInv'
  BY <1>1 DEF FlagsInv, Flagging
<1>3. WaitInv'
  <2>1. ASSUME NEW u \in Threads, u # t
        PROVE  pc'[u] \notin {"wl_or", "wl_cas", "wl_add", "wl_wait", "tr_cas"}
    BY <1>1, <2>1 DEF Flagging
  <2>2. ASSUME NEW u \in Threads
        PROVE  /\ pc'[u] \in {"wl_or", "wl_cas"} => writer_wait'
               /\ pc'[u] \in {"wl_cas", "wl_add"} => readers'.owning = 0
               /\ pc'[u] = "wl_wait" => writer_wait' \/ readers'.owning = 0
               /\ pc'[u] = "tr_cas" => prev'[u].owning = IF back'[u] = "run" THEN 0 ELSE 1
    <3>1. CASE u = t
      BY <3>1
    <3>2. CASE u # t
      BY <2>1, <3>2
    <3> QED BY <3>1, <3>2
  <2> QED BY <2>2 DEF WaitInv
<1> QED BY <1>2, <1>3

\* wlock() calls _wmtx.lock().
LEMMA WLockStep ==
    ASSUME RWLockInv, NEW t \in Threads, TypeInv', WLock(t)
    PROVE  RWLockInv'
<1>1. /\ TypeInv /\ OwnerInv /\ FlagsInv /\ WaitInv /\ QueueInv /\ CountsExact
      /\ PendingWriterWoken /\ NoReaderStranded /\ readers \in Words
      /\ granted \in SUBSET Threads /\ waiters \in Seq(Threads) /\ wm \in Seq(Threads)
      /\ depth \in Nat
  BY DEF RWLockInv, TypeInv
<1>2. /\ Moves(t) /\ pc[t] = "run" /\ pc'[t] = "wl_lock" /\ UNCHANGED readers
      /\ UNCHANGED <<writer_wait, waiters, depth, back, granted, pending, prev, who>>
      /\ wm' = Append(wm, t)
  BY <1>1 DEF WLock, Moves, At, Goto, TypeInv, locs
<1>3. pc[t] \notin Inside /\ pc'[t] \notin Inside /\ back[t] # "reading" /\ readers.owning \in Nat
  BY <1>1, <1>2 DEF OwnerInv, Trying, Inside, Words
<1>4. /\ wm # <<>> => wm' # <<>> /\ Head(wm') = Head(wm)
      /\ \A u \in Threads : In(wm, u) => In(wm', u)
      /\ In(wm', t)
  <2>1. /\ DOMAIN wm' = DOMAIN wm \cup {Len(wm) + 1} /\ wm'[Len(wm) + 1] = t
        /\ \A i \in DOMAIN wm : wm'[i] = wm[i]
    BY <1>1, <1>2, SMT
  <2>2. wm # <<>> => wm' # <<>> /\ Head(wm') = Head(wm)
    BY <1>1, <1>2, SMT
  <2> QED BY <2>1, <2>2 DEF In
<1>5. OwnerInv'
  <2>1. ASSUME NEW u \in Threads
        PROVE  /\ pc'[u] = "wl_lock" => In(wm', u)
               /\ pc'[u] \in Inside => wm' # <<>> /\ Head(wm') = u /\ depth > 0
               /\ back[u] = "reading" => pc'[u] \in Trying
    <3>1. CASE u = t
      BY <1>3, <1>4, <3>1
    <3>2. CASE u # t
      <4>1. pc'[u] = pc[u]
        BY <1>2, <3>2 DEF Moves
      <4> QED BY <1>1, <1>4, <4>1 DEF OwnerInv
    <3> QED BY <3>1, <3>2
  <2>2. depth > 0 => \E u \in Threads : pc'[u] \in Inside
    BY <1>1, <1>2, <1>3 DEF OwnerInv, Moves
  <2> QED BY <1>2, <2>1, <2>2 DEF OwnerInv, In
<1>6. FlagsInv' /\ WaitInv'
  BY <1>1, <1>2, <1>3, FlagsKept, SMT DEF Flagging
<1>7. QueueInv' /\ \A u \in Threads : Given(u)' <=> Given(u)
  BY <1>1, <1>2, QueueKept
<1>8. CountsExact'
  <2>1. CountedAlike(t)
    BY <1>2, <1>7, CountedKept
  <2>2. ~ Owning(t) /\ ~ Owning(t)' /\ ~ Waiting(t) /\ ~ Waiting(t)'
    BY <1>2, <1>3 DEF Owning, Waiting, Given, At
  <2> QED BY <1>1, <1>2, <2>1, <2>2, CountsFollow
<1>9. PendingWriterWoken'
  <2>1. ASSUME NEW v \in Threads, pc[v] \in {"ru_owner", "ru_store"}
        PROVE  Owner' = Owner /\ Owner \in Threads \ {t}
    <3>1. Owner # NoThread /\ pc[Owner] = "wl_wait"
      BY <1>1, <2>1 DEF PendingWriterWoken
    <3>2. Owner \in Threads /\ pc[Owner] \in Inside
      BY <1>1, <3>1, OwnerInside
    <3>3. wm # <<>>
      BY <1>1, <3>2 DEF OwnerInv
    <3> QED BY <1>2, <1>4, <3>1, <3>2, <3>3 DEF Owner
  <2>2. \A v \in Threads : pc'[v] \in {"ru_owner", "ru_store"} <=> pc[v] \in {"ru_owner", "ru_store"}
    BY <1>2 DEF Moves
  <2> QED BY <1>1, <1>2, <2>1, <2>2 DEF PendingWriterWoken, Moves
<1>10. NoReaderStranded'
  <2>1. ~ Looks(t)
    BY <1>2 DEF Looks
  <2> QED BY <1>1, <1>2, <1>7, <2>1, StrandedKept
<1> QED BY <1>5, <1>6, <1>7, <1>8, <1>9, <1>10 DEF RWLockInv

\* The lock() of _wmtx returns: nobody else is inside, so no flag is set.
LEMMA LockedStep ==
    ASSUME RWLockInv, NEW t \in Threads, TypeInv', WLockLocked(t)
    PROVE  RWLockInv'
<1>1. /\ TypeInv /\ OwnerInv /\ FlagsInv /\ WaitInv /\ QueueInv /\ CountsExact
      /\ PendingWriterWoken /\ NoReaderStranded /\ readers \in Words
      /\ granted \in SUBSET Threads /\ waiters \in Seq(Threads) /\ wm \in Seq(Threads)
  BY DEF RWLockInv, TypeInv
<1>2. pc[t] = "wl_lock" /\ Head(wm) = t
  BY DEF WLockLocked, At
<1>3. \A u \in Threads : pc[u] \notin Inside
  <2> SUFFICES ASSUME NEW u \in Threads, pc[u] \in Inside PROVE FALSE
    OBVIOUS
  <2>1. u = t
    BY <1>1, <1>2 DEF OwnerInv
  <2> QED BY <1>2, <2>1 DEF Inside
<1>4. readers.flags = {}
  BY <1>1, <1>3 DEF FlagsInv, Inside
<1>5. /\ Moves(t) /\ pc'[t] = "wl_store" /\ depth' = 1
      /\ UNCHANGED <<readers, writer_wait, waiters, wm, back, granted, pending, prev, who>>
  BY <1>1, <1>4 DEF WLockLocked, Moves, At, Goto, TypeInv, locs
<1>6. wm # <<>> /\ back[t] # "reading"
  BY <1>1, <1>2, SMT DEF OwnerInv, In, Trying
<1>7. OwnerInv'
  <2>1. ASSUME NEW u \in Threads
        PROVE  /\ pc'[u] = "wl_lock" => In(wm, u)
               /\ pc'[u] \in Inside => wm # <<>> /\ Head(wm) = u /\ depth' > 0
               /\ back[u] = "reading" => pc'[u] \in Trying
    <3>1. CASE u = t
      BY <1>2, <1>5, <1>6, <3>1, SMT
    <3>2. CASE u # t
      <4>1. pc'[u] = pc[u]
        BY <1>5, <3>2 DEF Moves
      <4> QED BY <1>1, <1>3, <4>1 DEF OwnerInv
    <3> QED BY <3>1, <3>2
  <2>2. \E u \in Threads : pc'[u] \in Inside
    BY <1>5 DEF Inside
  <2> QED BY <1>5, <2>1, <2>2 DEF OwnerInv, In
<1>8. FlagsInv' /\ WaitInv'
  BY <1>3, <1>4, <1>5, FlagsOwn
<1>9. QueueInv' /\ \A u \in Threads : Given(u)' <=> Given(u)
  BY <1>1, <1>2, <1>5, QueueKept
<1>10. CountsExact'
  <2>1. CountedAlike(t)
    BY <1>5, <1>9, CountedKept
  <2>2. ~ Owning(t) /\ ~ Owning(t)' /\ ~ Waiting(t) /\ ~ Waiting(t)'
    BY <1>2, <1>5, <1>6 DEF Owning, Waiting, Given, At
  <2> QED BY <1>1, <1>5, <2>1, <2>2, CountsFollow
<1>11. PendingWriterWoken'
  <2>1. ASSUME NEW v \in Threads, pc[v] \in {"ru_owner", "ru_store"} PROVE FALSE
    BY <1>1, <1>4, <2>1 DEF PendingWriterWoken
  <2> QED BY <1>5, <2>1, NobodyLooksNow
<1>12. NoReaderStranded'
  <2>1. ~ Looks(t)
    BY <1>2 DEF Looks
  <2> QED BY <1>1, <1>4, <1>5, <1>9, <2>1, StrandedKept
<1> QED BY <1>7, <1>8, <1>9, <1>10, <1>11, <1>12 DEF RWLockInv

\* wlock() behind _wmtx, and the recursion
LEMMA WriterStep ==
    ASSUME RWLockInv, NEW t \in Threads, TypeInv',
           \/ WLockNested(t) \/ WUnlockNested(t) \/ WLockStore(t) \/ WLockOr(t) \/ WLockCas(t)
           \/ WLockWait(t) \/ WLockAdd(t)
    PROVE  RWLockInv'
<1>1. /\ TypeInv /\ OwnerInv /\ FlagsInv /\ WaitInv /\ readers \in Words /\ readers' \in Words
      /\ pc \in [Threads -> Inside \cup Outside] /\ depth \in Nat
  BY DEF RWLockInv, TypeInv
<1>2. /\ UNCHANGED <<waiters, wm, back, granted, pending, prev, who>>
      /\ pc[t] \in {"writing", "wl_store", "wl_or", "wl_cas", "wl_wait", "wl_add"}
  BY DEF WLockNested, WUnlockNested, WLockStore, WLockOr, WLockCas, WLockWait, WLockAdd,
         locs, mtx, At
<1>3. pc[t] \in Inside \ {"wk_store"} /\ ~ Looks(t) /\ back[t] # "reading"
  BY <1>1, <1>2 DEF Inside, Looks, OwnerInv, Trying
<1>4. \A u \in Threads \ {t} : pc[u] \notin Inside
  BY <1>1, <1>3, Alone
<1> SUFFICES OwnerInv' /\ FlagsInv' /\ WaitInv' /\ QueueInv' /\ CountsExact' /\ PendingWriterWoken'
             /\ NoReaderStranded'
  BY DEF RWLockInv
<1> USE DEF At, Goto
<1>5. ASSUME UNCHANGED <<readers, writer_wait, pc>>, pc[t] = "writing", depth' > 0
      PROVE  /\ OwnerInv' /\ FlagsInv' /\ WaitInv' /\ QueueInv' /\ CountsExact'
             /\ PendingWriterWoken' /\ NoReaderStranded'
  <2>1. OwnerInv'
    <3>1. ASSUME NEW u \in Threads
          PROVE  /\ pc'[u] = "wl_lock" => In(wm, u)
                 /\ pc'[u] \in Inside => wm # <<>> /\ Head(wm) = u /\ depth' > 0
                 /\ back[u] = "reading" => pc'[u] \in Trying
      BY <1>1, <1>5 DEF OwnerInv
    <3>2. \E u \in Threads : pc'[u] \in Inside
      BY <1>3, <1>5
    <3> QED BY <1>2, <3>1, <3>2 DEF OwnerInv, In
  <2>2. Moves(t)
    BY <1>5 DEF Moves
  <2>3. readers.flags = {W} /\ readers.owning = 0
    BY <1>1, <1>5 DEF FlagsInv
  <2>4. FlagsInv' /\ WaitInv'
    BY <1>2, <1>4, <1>5, <2>2, <2>3, FlagsOwn DEF Flagging
  <2> QED BY <1>1, <1>2, <1>3, <1>5, <2>1, <2>2, <2>3, <2>4, OwnerKeeps
<1>6. CASE WLockNested(t)
  <2>1. UNCHANGED <<readers, writer_wait, pc>> /\ pc[t] = "writing" /\ depth' > 0
    <3>1. UNCHANGED <<readers, writer_wait, pc>> /\ pc[t] = "writing" /\ depth' = depth + 1
      BY <1>6 DEF WLockNested
    <3>2. depth \in Nat
      BY <1>1
    <3> QED
      BY <3>1, <3>2, SMTT(40)
  <2> QED BY <1>5, <2>1
<1>7. CASE WUnlockNested(t)
  <2>1. UNCHANGED <<readers, writer_wait, pc>> /\ pc[t] = "writing" /\ depth' > 0
    BY <1>1, <1>7, SMT DEF WUnlockNested
  <2> QED BY <1>5, <2>1
<1>8. CASE WLockStore(t)
  <2>1. /\ Moves(t) /\ pc[t] = "wl_store" /\ pc'[t] = "wl_or" /\ UNCHANGED <<readers, depth>>
        /\ writer_wait'
    BY <1>1, <1>8 DEF WLockStore, Moves, mtx
  <2>2. readers.flags = {}
    BY <1>1, <1>3, <2>1, FlagsClear DEF Flagging
  <2>3. OwnerInv'
    BY <1>1, <1>2, <1>3, <2>1, OwnerKept DEF Inside
  <2>4. FlagsInv' /\ WaitInv'
    BY <1>4, <2>1, <2>2, FlagsOwn
  <2> QED BY <1>1, <1>2, <1>3, <2>1, <2>2, <2>3, <2>4, OwnerKeeps DEF Inside
<1>9. CASE WLockOr(t)
  <2>1. /\ Moves(t) /\ pc[t] = "wl_or" /\ UNCHANGED <<writer_wait, depth>>
        /\ readers'.owning = readers.owning /\ readers'.waiting = readers.waiting
        /\ readers'.flags = readers.flags \cup {P}
        /\ pc'[t] \in {"wl_cas", "wl_wait"} /\ (pc'[t] = "wl_cas" => readers.owning = 0)
    BY <1>1, <1>9 DEF WLockOr, Moves, mtx, Words
  <2>2. readers.flags = {} /\ readers'.flags = {P} /\ writer_wait
    BY <1>1, <1>3, <2>1, FlagsClear DEF Flagging, WaitInv
  <2>3. OwnerInv'
    BY <1>1, <1>2, <1>3, <2>1, OwnerKept DEF Inside
  <2>4. FlagsInv' /\ WaitInv'
    BY <1>4, <2>1, <2>2, FlagsOwn DEF Flagging
  <2> QED BY <1>1, <1>2, <1>3, <2>1, <2>2, <2>3, <2>4, OwnerKeeps DEF Inside
<1>10. CASE WLockCas(t)
  <2>1. readers.owning = 0 /\ pc[t] = "wl_cas"
    BY <1>1, <1>10 DEF WLockCas, WaitInv
  <2>2. /\ Moves(t) /\ UNCHANGED depth
        /\ readers'.owning = readers.owning /\ readers'.waiting = readers.waiting
        /\ readers'.flags = {W} /\ pc'[t] = "writing"
    BY <1>1, <1>10, <2>1 DEF WLockCas, Moves, mtx, Words
  <2>3. OwnerInv'
    BY <1>1, <1>2, <1>3, <2>1, <2>2, OwnerKept DEF Inside
  <2>4. FlagsInv' /\ WaitInv'
    BY <1>4, <2>1, <2>2, FlagsOwn DEF Flagging
  <2> QED BY <1>1, <1>2, <1>3, <2>1, <2>2, <2>3, <2>4, OwnerKeeps DEF Inside
<1>11. CASE WLockWait(t)
  <2>1. /\ Moves(t) /\ pc[t] = "wl_wait" /\ pc'[t] = "wl_add" /\ ~ writer_wait
        /\ UNCHANGED <<readers, writer_wait, depth>>
    BY <1>1, <1>11 DEF WLockWait, Moves, mtx
  <2>2. readers.owning = 0 /\ readers.flags = {P}
    BY <1>1, <2>1 DEF WaitInv, FlagsInv
  <2>3. OwnerInv'
    BY <1>1, <1>2, <1>3, <2>1, OwnerKept DEF Inside
  <2>4. FlagsInv' /\ WaitInv'
    BY <1>4, <2>1, <2>2, FlagsOwn DEF Flagging
  <2> QED BY <1>1, <1>2, <1>3, <2>1, <2>2, <2>3, <2>4, OwnerKeeps DEF Inside
<1>12. CASE WLockAdd(t)
  <2>1. readers.owning = 0 /\ readers.flags = {P} /\ pc[t] = "wl_add"
    BY <1>1, <1>12 DEF WLockAdd, WaitInv, FlagsInv
  <2>2. /\ Moves(t) /\ UNCHANGED <<writer_wait, depth>>
        /\ readers'.owning = readers.owning /\ readers'.waiting = readers.waiting
        /\ readers'.flags = {W} \ readers.flags /\ pc'[t] = "writing"
    BY <1>1, <1>12, <2>1 DEF WLockAdd, Moves, mtx, Words
  <2>3. readers'.flags = {W}
    BY <2>1, <2>2 DEF W, P
  <2>4. OwnerInv'
    BY <1>1, <1>2, <1>3, <2>1, <2>2, OwnerKept DEF Inside
  <2>5. FlagsInv' /\ WaitInv'
    BY <1>4, <2>1, <2>2, <2>3, FlagsOwn DEF Flagging
  <2> QED BY <1>1, <1>2, <1>3, <2>1, <2>2, <2>3, <2>4, <2>5, OwnerKeeps DEF Inside
<1> QED BY <1>6, <1>7, <1>8, <1>9, <1>10, <1>11, <1>12

-----------------------------------------------------------------------------
\* The unlock() of _wmtx leaves those in line who have not got it.
LEMMA ReleaseOwner ==
    ASSUME OwnerInv, TypeInv, NEW t \in Threads, pc[t] \in Inside, Release(t)
    PROVE  /\ OwnerInv' /\ Moves(t) /\ pc'[t] = back[t] /\ back'[t] = "run"
           /\ pc'[t] \in {"run", "reading"} /\ \A u \in Threads \ {t} : back'[u] = back[u]
<1>1. /\ wm \in Seq(Threads) /\ wm # <<>> /\ Head(wm) = t
      /\ pc \in [Threads -> Inside \cup Outside] /\ back \in [Threads -> {"run", "reading"}]
  BY DEF TypeInv, OwnerInv
<1>2. /\ Moves(t) /\ pc'[t] = back[t] /\ back'[t] = "run" /\ wm' = Tail(wm) /\ depth' = 0
      /\ pc'[t] \in {"run", "reading"} /\ \A u \in Threads \ {t} : back'[u] = back[u]
  BY <1>1 DEF Release, Moves, Goto
<1>3. ASSUME NEW u \in Threads, u # t, In(wm, u) PROVE In(Tail(wm), u)
  <2>1. PICK i \in DOMAIN wm : wm[i] = u
    BY <1>3 DEF In
  <2>2. i # 1 /\ i \in 1 .. Len(wm)
    BY <1>1, <1>3, <2>1, SMT
  <2>3. i - 1 \in DOMAIN Tail(wm) /\ Tail(wm)[i - 1] = u
    BY <1>1, <2>1, <2>2, SMT
  <2> QED BY <2>3 DEF In
<1>4. \A u \in Threads \ {t} : pc[u] \notin Inside
  BY Alone
<1>5. ASSUME NEW u \in Threads
      PROVE  /\ pc'[u] = "wl_lock" => In(wm', u)
             /\ pc'[u] \notin Inside
             /\ back'[u] = "reading" => pc'[u] \in Trying
  <2>1. CASE u = t
    BY <1>2, <2>1 DEF Inside
  <2>2. CASE u # t
    <3>1. pc'[u] = pc[u] /\ back'[u] = back[u]
      BY <1>2, <2>2 DEF Moves
    <3> QED BY <1>2, <1>3, <1>4, <2>2, <3>1 DEF OwnerInv
  <2> QED BY <2>1, <2>2
<1>6. OwnerInv'
  BY <1>2, <1>5, SMT DEF OwnerInv, In
<1> QED BY <1>2, <1>6

\* try_wlock() and try_upgrade() take a free _wmtx.
LEMMA TryStep ==
    ASSUME RWLockInv, NEW t \in Threads, TypeInv', TryWLock(t) \/ TryUpgrade(t)
    PROVE  RWLockInv'
<1>1. /\ TypeInv /\ OwnerInv /\ FlagsInv /\ WaitInv /\ QueueInv /\ CountsExact
      /\ PendingWriterWoken /\ NoReaderStranded /\ readers \in Words
      /\ granted \in SUBSET Threads /\ waiters \in Seq(Threads)
  BY DEF RWLockInv, TypeInv
<1>2. /\ pc[t] \in {"run", "reading"} /\ Moves(t) /\ pc'[t] = "tr_load" /\ back'[t] = pc[t]
      /\ wm = <<>> /\ wm' = <<t>> /\ depth' = 1 /\ \A u \in Threads \ {t} : back'[u] = back[u]
      /\ UNCHANGED <<readers, writer_wait, waiters, granted, pending, prev, who>>
  BY <1>1 DEF TryWLock, TryUpgrade, Try, Moves, At, Goto, TypeInv
<1>3. \A u \in Threads : pc[u] \notin Inside \cup {"wl_lock"}
  <2>1. ASSUME NEW u \in Threads, pc[u] \in Inside PROVE FALSE
    BY <1>1, <1>2, <2>1 DEF OwnerInv
  <2>2. ASSUME NEW u \in Threads, pc[u] = "wl_lock" PROVE FALSE
    <3>1. In(wm, u)
      BY <1>1, <2>2 DEF OwnerInv
    <3> QED BY <1>2, <3>1, SMT DEF In
  <2> QED BY <2>1, <2>2
<1>4. readers.flags = {}
  BY <1>1, <1>3 DEF FlagsInv, Inside
<1>5. back[t] # "reading"
  BY <1>1, <1>2 DEF OwnerInv, Trying
<1>6. OwnerInv'
  <2>1. ASSUME NEW u \in Threads
        PROVE  /\ pc'[u] # "wl_lock"
               /\ pc'[u] \in Inside => wm' # <<>> /\ Head(wm') = u /\ depth' > 0
               /\ back'[u] = "reading" => pc'[u] \in Trying
    <3>1. CASE u = t
      BY <1>2, <3>1, SMT DEF Trying
    <3>2. CASE u # t
      <4>1. pc'[u] = pc[u] /\ back'[u] = back[u]
        BY <1>2, <3>2 DEF Moves
      <4> QED BY <1>1, <1>3, <4>1 DEF OwnerInv
    <3> QED BY <3>1, <3>2
  <2>2. \E u \in Threads : pc'[u] \in Inside
    BY <1>2 DEF Inside
  <2> QED BY <2>1, <2>2 DEF OwnerInv
<1>7. FlagsInv' /\ WaitInv'
  BY <1>2, <1>3, <1>4, FlagsOwn
<1>8. QueueInv' /\ \A u \in Threads : Given(u)' <=> Given(u)
  BY <1>1, <1>2, QueueKept
<1>9. CountsExact'
  <2>1. CountedAlike(t)
    BY <1>2, <1>8, CountedKept
  <2>2. (Owning(t)' <=> Owning(t)) /\ ~ Waiting(t) /\ ~ Waiting(t)'
    BY <1>2, <1>5 DEF Owning, Waiting, Given, At
  <2> QED BY <1>1, <1>2, <2>1, <2>2, CountsFollow
<1>10. PendingWriterWoken'
  <2>1. ASSUME NEW v \in Threads, pc[v] \in {"ru_owner", "ru_store"} PROVE FALSE
    BY <1>1, <1>4, <2>1 DEF PendingWriterWoken
  <2> QED BY <1>2, <2>1, NobodyLooksNow
<1>11. NoReaderStranded'
  <2>1. ~ Looks(t)
    BY <1>2 DEF Looks
  <2> QED BY <1>1, <1>2, <1>4, <1>8, <2>1, StrandedKept
<1> QED BY <1>6, <1>7, <1>8, <1>9, <1>10, <1>11 DEF RWLockInv

\* The rest of try_wlock() and try_upgrade(), wunlock() and downgrade() up to the queue
LEMMA UnlockStep ==
    ASSUME RWLockInv, NEW t \in Threads, TypeInv',
           \/ TryLoad(t) \/ TryCas(t) \/ TryFail(t) \/ WUnlock(t) \/ Downgrade(t)
           \/ DowngradeLoad(t) \/ WakeEmpty(t) \/ WakeCall(t) \/ WakeEnd(t)
    PROVE  RWLockInv'
<1>1. /\ TypeInv /\ OwnerInv /\ FlagsInv /\ WaitInv /\ CountsExact
      /\ readers \in Words /\ readers' \in Words
      /\ pc \in [Threads -> Inside \cup Outside] /\ back \in [Threads -> {"run", "reading"}]
      /\ pending \in [Threads -> Nat] /\ prev \in [Threads -> Words]
      /\ who \in [Threads -> Threads \cup {NoThread}]
  BY DEF RWLockInv, TypeInv
<1>2. /\ UNCHANGED <<writer_wait, waiters, granted>>
      /\ pc[t] \in {"tr_load", "tr_cas", "tr_fail", "writing", "dg_load", "wk_loop", "wk_wake"}
      /\ \A u \in Threads \ {t} : pending'[u] = pending[u] /\ who'[u] = who[u]
  BY <1>1 DEF TryLoad, TryCas, TryFail, WUnlock, Downgrade, DowngradeLoad, WakeEmpty, WakeCall,
              WakeEnd, At
<1>3. /\ pc[t] \in Inside \ {"wk_store"} /\ pc[t] # "wl_wait" /\ pc[t] # "reading"
      /\ \A u \in Threads : pc[u] = "wk_store" => who'[u] = who[u]
  BY <1>2 DEF Inside
<1>4. \A u \in Threads \ {t} : pc[u] \notin Inside
  BY <1>1, <1>3, Alone
<1>5. pc[t] # "writing" => readers.flags = {}
  BY <1>1, <1>2, <1>3, FlagsClear DEF Flagging
<1>6. readers.owning \in Nat /\ readers.waiting \in Nat
  BY <1>1 DEF Words
<1> SUFFICES OwnerInv' /\ FlagsInv' /\ WaitInv' /\ QueueInv' /\ CountsExact' /\ PendingWriterWoken'
             /\ NoReaderStranded'
  BY DEF RWLockInv
<1> USE DEF At, Goto
<1>7. CASE TryLoad(t)
  <2>1. /\ Moves(t) /\ pc[t] = "tr_load" /\ UNCHANGED <<readers, wm, depth, back, pending>>
        /\ pc'[t] \in {"tr_cas", "tr_fail"} /\ prev'[t] = readers
        /\ pc'[t] = "tr_cas" => readers.owning = IF back[t] = "run" THEN 0 ELSE 1
    BY <1>1, <1>5, <1>7 DEF TryLoad, Moves, mtx
  <2>2. OwnerInv'
    BY <1>1, <1>3, <2>1, OwnerKept DEF Inside, Trying
  <2>3. FlagsInv' /\ WaitInv'
    BY <1>4, <1>5, <2>1, FlagsOwn
  <2>4. ~ Looks(t)
    BY <2>1 DEF Looks
  <2> QED BY <1>1, <1>2, <1>3, <1>5, <2>1, <2>2, <2>3, <2>4, OwnerKeeps DEF Inside
<1>8. CASE TryCas(t) /\ readers # prev[t]
  <2>1. /\ Moves(t) /\ pc[t] = "tr_cas" /\ UNCHANGED <<readers, wm, depth, back, pending>>
        /\ pc'[t] = "tr_fail"
    BY <1>1, <1>8 DEF TryCas, Moves, mtx
  <2>2. OwnerInv'
    BY <1>1, <1>3, <2>1, OwnerKept DEF Inside, Trying
  <2>3. FlagsInv' /\ WaitInv'
    BY <1>4, <1>5, <2>1, FlagsOwn
  <2>4. ~ Looks(t)
    BY <2>1 DEF Looks
  <2> QED BY <1>1, <1>2, <1>3, <1>5, <2>1, <2>2, <2>3, <2>4, OwnerKeeps DEF Inside
<1>9. CASE TryCas(t) /\ readers = prev[t]
  <2>1. /\ Moves(t) /\ pc[t] = "tr_cas" /\ UNCHANGED <<wm, depth, pending>>
        /\ pc'[t] = "writing" /\ back'[t] = "run"
        /\ \A u \in Threads \ {t} : back'[u] = back[u]
        /\ readers' = [Zero EXCEPT !.flags = {W}, !.waiting = readers.waiting]
    BY <1>1, <1>9 DEF TryCas, Moves, mtx
  <2>2. readers'.flags = {W} /\ readers'.owning = 0 /\ readers'.waiting = readers.waiting
    BY <2>1 DEF Zero
  <2>3. readers.owning = IF back[t] = "run" THEN 0 ELSE 1
    BY <1>1, <1>9, <2>1 DEF WaitInv
  <2>4. OwnerInv'
    <3>1. ASSUME NEW u \in Threads
          PROVE  /\ pc'[u] = "wl_lock" => In(wm, u)
                 /\ pc'[u] \in Inside => wm # <<>> /\ Head(wm) = u /\ depth > 0
                 /\ back'[u] = "reading" => pc'[u] \in Trying
      <4>1. CASE u = t
        BY <1>1, <1>3, <2>1, <4>1 DEF OwnerInv
      <4>2. CASE u # t
        BY <1>1, <2>1, <4>2 DEF OwnerInv, Moves
      <4> QED BY <4>1, <4>2
    <3>2. \E u \in Threads : pc'[u] \in Inside
      BY <2>1 DEF Inside
    <3> QED BY <2>1, <3>1, <3>2 DEF OwnerInv, In
  <2>5. FlagsInv' /\ WaitInv'
    BY <1>4, <2>1, <2>2, FlagsOwn DEF Flagging
  <2>6. \/ back[t] # "reading" /\ readers'.owning = readers.owning
        \/ back[t] = "reading" /\ readers'.owning = readers.owning - 1
    <3>1. back[t] \in {"run", "reading"} /\ readers.owning \in Nat
      BY <1>1 DEF TypeInv, Words
    <3> QED
      BY <2>2, <2>3, <3>1, SMT
  <2>7. back'[t] # "reading" /\ pc'[t] # "reading" /\ readers'.flags # {}
    BY <2>1, <2>2
  <2> QED BY <1>1, <1>2, <1>3, <2>1, <2>2, <2>4, <2>5, <2>6, <2>7, OwnerKeeps DEF Inside
<1>10. CASE TryFail(t)
  <2>1. pc[t] = "tr_fail" /\ UNCHANGED <<readers, pending>> /\ Release(t)
    BY <1>10 DEF TryFail
  <2>2. /\ OwnerInv' /\ Moves(t) /\ pc'[t] = back[t] /\ back'[t] = "run"
        /\ pc'[t] \in {"run", "reading"} /\ \A u \in Threads \ {t} : back'[u] = back[u]
    BY <1>1, <1>3, <2>1, ReleaseOwner
  <2>3. FlagsInv' /\ WaitInv'
    BY <1>4, <1>5, <2>1, <2>2, FlagsOwn
  <2>4. ~ Looks(t)
    BY <2>1 DEF Looks
  <2> QED BY <1>1, <1>2, <1>3, <1>5, <2>1, <2>2, <2>3, <2>4, OwnerKeeps
<1>11. CASE WUnlock(t)
  <2>1. /\ Moves(t) /\ pc[t] = "writing" /\ UNCHANGED <<wm, depth, back>>
        /\ pc'[t] = "wk_loop" /\ pending'[t] = readers.waiting
        /\ readers'.flags = readers.flags \ {W} /\ readers'.owning = readers.owning
        /\ readers'.waiting = readers.waiting
    BY <1>1, <1>11 DEF WUnlock, Moves, mtx, Words
  <2>2. readers'.flags = {}
    BY <1>1, <2>1 DEF FlagsInv
  <2>3. OwnerInv'
    BY <1>1, <1>3, <2>1, OwnerKept DEF Inside, Trying
  <2>4. FlagsInv' /\ WaitInv'
    BY <1>4, <2>1, <2>2, FlagsOwn
  <2>5. Looks(t)' \/ readers.waiting = 0
    BY <2>1 DEF Looks
  <2> QED BY <1>1, <1>2, <1>3, <2>1, <2>2, <2>3, <2>4, <2>5, OwnerKeeps DEF Inside
<1>12. CASE Downgrade(t)
  <2>1. /\ Moves(t) /\ pc[t] = "writing" /\ UNCHANGED <<wm, depth, pending>>
        /\ pc'[t] = "dg_load" /\ back'[t] = "reading"
        /\ \A u \in Threads \ {t} : back'[u] = back[u]
        /\ readers'.flags = readers.flags \ {W} /\ readers'.owning = readers.owning + 1
        /\ readers'.waiting = readers.waiting
    BY <1>1, <1>12 DEF Downgrade, Moves, mtx, Words
  <2>2. readers'.flags = {} /\ back[t] # "reading"
    BY <1>1, <2>1 DEF FlagsInv, OwnerInv, Trying
  <2>3. OwnerInv'
    <3>1. ASSUME NEW u \in Threads
          PROVE  /\ pc'[u] = "wl_lock" => In(wm, u)
                 /\ pc'[u] \in Inside => wm # <<>> /\ Head(wm) = u /\ depth > 0
                 /\ back'[u] = "reading" => pc'[u] \in Trying
      <4>1. CASE u = t
        BY <1>1, <1>3, <2>1, <4>1 DEF OwnerInv, Trying
      <4>2. CASE u # t
        BY <1>1, <2>1, <4>2 DEF OwnerInv, Moves
      <4> QED BY <4>1, <4>2
    <3>2. \E u \in Threads : pc'[u] \in Inside
      BY <2>1 DEF Inside
    <3> QED BY <2>1, <3>1, <3>2 DEF OwnerInv, In
  <2>4. FlagsInv' /\ WaitInv'
    BY <1>4, <2>1, <2>2, FlagsOwn
  <2>5. Looks(t)'
    BY <2>1 DEF Looks
  <2> QED BY <1>1, <1>2, <1>3, <2>1, <2>2, <2>3, <2>4, <2>5, OwnerKeeps DEF Inside
<1>13. CASE DowngradeLoad(t) \/ WakeEmpty(t)
  <2>1. /\ Moves(t) /\ pc[t] \in {"dg_load", "wk_loop"} /\ UNCHANGED <<readers, wm, depth, back>>
        /\ pc'[t] = "wk_loop" /\ pending'[t] = readers.waiting
    BY <1>1, <1>13 DEF DowngradeLoad, WakeEmpty, Moves, mtx
  <2>2. OwnerInv'
    BY <1>1, <1>3, <2>1, OwnerKept DEF Inside, Trying
  <2>3. FlagsInv' /\ WaitInv'
    BY <1>4, <1>5, <2>1, FlagsOwn
  <2>4. Looks(t)' \/ readers.waiting = 0
    BY <2>1 DEF Looks
  <2> QED BY <1>1, <1>2, <1>3, <2>1, <2>2, <2>3, <2>4, OwnerKeeps DEF Inside
<1>14. CASE WakeCall(t)
  <2>1. /\ Moves(t) /\ pc[t] = "wk_wake" /\ UNCHANGED <<readers, wm, depth, back, pending>>
        /\ pc'[t] = "wk_loop"
    BY <1>1, <1>14 DEF WakeCall, Moves, mtx
  <2>2. OwnerInv'
    BY <1>1, <1>3, <2>1, OwnerKept DEF Inside, Trying
  <2>3. FlagsInv' /\ WaitInv'
    BY <1>4, <1>5, <2>1, FlagsOwn
  <2>4. Looks(t) => Looks(t)'
    BY <2>1 DEF Looks
  <2> QED BY <1>1, <1>2, <1>3, <1>5, <2>1, <2>2, <2>3, <2>4, OwnerKeeps DEF Inside
<1>15. CASE WakeEnd(t)
  <2>1. pc[t] = "wk_loop" /\ pending[t] = 0 /\ UNCHANGED <<readers, pending>> /\ Release(t)
    BY <1>15 DEF WakeEnd
  <2>2. /\ OwnerInv' /\ Moves(t) /\ pc'[t] = back[t] /\ back'[t] = "run"
        /\ pc'[t] \in {"run", "reading"} /\ \A u \in Threads \ {t} : back'[u] = back[u]
    BY <1>1, <1>3, <2>1, ReleaseOwner
  <2>3. FlagsInv' /\ WaitInv'
    BY <1>4, <1>5, <2>1, <2>2, FlagsOwn
  <2>4. ~ Looks(t)
    BY <2>1 DEF Looks
  <2> QED BY <1>1, <1>2, <1>3, <1>5, <2>1, <2>2, <2>3, <2>4, OwnerKeeps
<1> QED BY <1>7, <1>8, <1>9, <1>10, <1>11, <1>12, <1>13, <1>14, <1>15

\* A pending reader becomes an owner with its record taken out of the queue.
LEMMA PopStep ==
    ASSUME RWLockInv, NEW t \in Threads, TypeInv', WakePop(t)
    PROVE  RWLockInv'
<1>1. /\ TypeInv /\ OwnerInv /\ FlagsInv /\ WaitInv /\ QueueInv /\ CountsExact
      /\ PendingWriterWoken /\ NoReaderStranded /\ readers \in Words /\ readers' \in Words
      /\ granted \in SUBSET Threads /\ waiters \in Seq(Threads)
      /\ pc \in [Threads -> Inside \cup Outside] /\ pending \in [Threads -> Nat]
      /\ who \in [Threads -> Threads \cup {NoThread}]
  BY DEF RWLockInv, TypeInv
<1>2. waiters # <<>>
  BY DEF WakePop
<1>3. PICK h \in Threads : h = Head(waiters)
  BY <1>1, <1>2, SMT
<1>4. pc[h] = "rl_wait" /\ ~ Given(h) /\ Waiting(h)
  BY <1>1, <1>2, <1>3, HeadWaits
<1>5. /\ Moves(t) /\ pc[t] = "wk_loop" /\ pc'[t] = "wk_store"
      /\ UNCHANGED <<writer_wait, wm, depth, back, granted, prev>>
      /\ waiters' = Tail(waiters) /\ who'[t] = h /\ pending'[t] = readers.waiting
      /\ \A u \in Threads \ {t} : who'[u] = who[u] /\ pending'[u] = pending[u]
  BY <1>1, <1>3 DEF WakePop, Moves, At, Goto, mtx
<1>6. /\ readers'.flags = readers.flags /\ readers'.owning = readers.owning + 1
      /\ readers'.waiting = readers.waiting - 1
  BY <1>1 DEF WakePop, Words
<1>7. pc[t] \in Inside /\ pc'[t] \in Inside /\ h # t /\ pc'[h] = "rl_wait"
  BY <1>4, <1>5 DEF Inside, Moves
<1>8. readers.flags = {}
  BY <1>1, <1>5, <1>7, FlagsClear DEF Flagging
<1>9. \A u \in Threads \ {t} : pc[u] # "wk_store" /\ pc'[u] # "wk_store"
  <2>1. \A u \in Threads \ {t} : pc[u] \notin Inside
    BY <1>1, <1>7, Alone
  <2> QED BY <1>5, <2>1 DEF Inside, Moves
<1>10. \A u \in Threads : pc'[u] = "rl_wait" <=> pc[u] = "rl_wait"
  BY <1>5 DEF Moves
<1>11. Given(h)' /\ \A u \in Threads \ {h} : Given(u)' <=> Given(u)
  BY <1>5, <1>7, <1>9, <1>10 DEF Given, At
<1>12. OwnerInv'
  BY <1>1, <1>5, <1>7, OwnerKept DEF Trying
<1>13. FlagsInv' /\ WaitInv'
  BY <1>1, <1>5, <1>6, <1>8, FlagsKept DEF Flagging
<1>14. /\ \A i \in DOMAIN Tail(waiters) :
              i + 1 \in DOMAIN waiters /\ i + 1 # 1 /\ Tail(waiters)[i] = waiters[i + 1]
       /\ \A i \in DOMAIN waiters :
              waiters[i] \in Threads /\ (i # 1 => i - 1 \in DOMAIN Tail(waiters)
                                                  /\ Tail(waiters)[i - 1] = waiters[i])
       /\ 1 \in DOMAIN waiters /\ waiters[1] = h
  BY <1>1, <1>2, <1>3, SMT
<1>15. QueueInv'
  <2>1. \A i \in DOMAIN Tail(waiters) : (At(waiters[i], "rl_wait") /\ ~ Given(waiters[i]))'
    <3> TAKE i \in DOMAIN Tail(waiters)
    <3>1. PICK x \in Threads : x = waiters[i + 1]
      BY <1>14
    <3>2. x # h
      BY <1>1, <1>14, <3>1 DEF QueueInv
    <3>3. pc[x] = "rl_wait" /\ ~ Given(x)
      <4>1. At(waiters[i + 1], "rl_wait") /\ ~ Given(waiters[i + 1])
        BY <1>1, <1>14 DEF QueueInv
      <4> QED BY <3>1, <4>1 DEF At
    <3>4. pc'[x] = "rl_wait" /\ ~ Given(x)' /\ x = waiters'[i]
      BY <1>5, <1>10, <1>11, <1>14, <3>1, <3>2, <3>3
    <3> QED BY <3>4 DEF At, Given
  <2>2. \A i, j \in DOMAIN Tail(waiters) : Tail(waiters)[i] = Tail(waiters)[j] => i = j
    <3> TAKE i, j \in DOMAIN Tail(waiters)
    <3>1. /\ i + 1 \in DOMAIN waiters /\ j + 1 \in DOMAIN waiters
          /\ Tail(waiters)[i] = waiters[i + 1] /\ Tail(waiters)[j] = waiters[j + 1]
      BY <1>14
    <3>2. waiters[i + 1] = waiters[j + 1] => i + 1 = j + 1
      BY <1>1, <3>1 DEF QueueInv
    <3>3. DOMAIN Tail(waiters) \subseteq Nat
      BY <1>1, <1>2, SMT
    <3> QED BY <3>1, <3>2, <3>3, SMT
  <2>3. \A u \in granted : pc'[u] = "rl_wait"
    BY <1>1, <1>10 DEF QueueInv
  <2>4. h \notin granted
    BY <1>4 DEF Given, At
  <2>5. \A u \in Threads : pc'[u] = "wk_store" =>
            who'[u] \in Threads /\ pc'[who'[u]] = "rl_wait" /\ who'[u] \notin granted
    BY <1>5, <1>7, <1>9, <2>4
  <2> QED BY <1>5, <2>1, <2>2, <2>3, <2>5 DEF QueueInv, At
<1>16. CountsExact'
  <2>1. CountedAlike(h)
    <3> SUFFICES ASSUME NEW u \in Threads \ {h}
                 PROVE  (Owning(u)' <=> Owning(u)) /\ (Waiting(u)' <=> Waiting(u))
      BY DEF CountedAlike
    <3>1. CASE u = t
      BY <1>5, <3>1 DEF Owning, Waiting, Given, At
    <3>2. CASE u # t
      <4>1. pc'[u] = pc[u] /\ back'[u] = back[u]
        BY <1>5, <3>2 DEF Moves
      <4> QED BY <1>11, <4>1 DEF Owning, Waiting, At
    <3> QED BY <3>1, <3>2
  <2>2. back[h] # "reading"
    BY <1>1, <1>4 DEF OwnerInv, Trying
  <2>3. ~ Owning(h) /\ Owning(h)' /\ ~ Waiting(h)'
    BY <1>4, <1>7, <1>11, <2>2 DEF Owning, Waiting, At
  <2> QED BY <1>1, <1>4, <1>6, <2>1, <2>3, CountsFollow
<1>17. PendingWriterWoken'
  BY <1>1, <1>5, <1>7, NobodyLooks, NobodyLooksNow
<1>18. NoReaderStranded'
  <2> SUFFICES ASSUME NEW u \in Threads,
                      pc'[u] = "rl_push" \/ (pc'[u] = "rl_wait" /\ ~ Given(u)')
               PROVE  /\ pc'[u] = "rl_wait" => \E i \in DOMAIN waiters' : waiters'[i] = u
                      /\ \E v \in Threads : Looks(v)'
    BY DEF NoReaderStranded, NoWriter, Looks, At
  <2>1. Looks(t)'
    <3>1. readers.waiting > 0
      BY <1>1, <1>4, CountsPositive
    <3> QED BY <1>5, <3>1, SMT DEF Looks
  <2>2. ASSUME pc'[u] = "rl_wait" PROVE \E i \in DOMAIN waiters' : waiters'[i] = u
    <3>1. u # h /\ pc[u] = "rl_wait" /\ ~ Given(u)
      BY <1>10, <1>11, <2>2
    <3>2. PICK i \in DOMAIN waiters : waiters[i] = u
      BY <1>1, <3>1 DEF NoReaderStranded, At
    <3>3. i # 1
      BY <1>14, <3>1, <3>2
    <3> QED BY <1>5, <1>14, <3>2, <3>3
  <2> QED BY <2>1, <2>2
<1> QED BY <1>12, <1>13, <1>15, <1>16, <1>17, <1>18 DEF RWLockInv

\* The reader is told through its record.
LEMMA GrantStep ==
    ASSUME RWLockInv, NEW t \in Threads, TypeInv', WakeStore(t)
    PROVE  RWLockInv'
<1>1. /\ TypeInv /\ OwnerInv /\ FlagsInv /\ WaitInv /\ QueueInv /\ CountsExact
      /\ PendingWriterWoken /\ NoReaderStranded /\ readers \in Words /\ readers' \in Words
      /\ granted \in SUBSET Threads /\ waiters \in Seq(Threads)
      /\ pc \in [Threads -> Inside \cup Outside]
  BY DEF RWLockInv, TypeInv
<1>2. /\ Moves(t) /\ pc[t] = "wk_store" /\ pc'[t] = "wk_wake" /\ granted' = granted \cup {who[t]}
      /\ UNCHANGED <<readers, writer_wait, waiters, wm, depth, back, pending, prev, who>>
  BY <1>1 DEF WakeStore, Moves, At, Goto, mtx
<1>3. PICK h \in Threads : h = who[t]
  BY <1>1, <1>2 DEF QueueInv
<1>4. pc[h] = "rl_wait" /\ h \notin granted
  BY <1>1, <1>2, <1>3 DEF QueueInv
<1>5. pc[t] \in Inside /\ pc'[t] \in Inside /\ readers.owning \in Nat
  BY <1>1, <1>2 DEF Inside, Words
<1>6. \A u \in Threads : pc'[u] # "wk_store" /\ (u # t => pc[u] # "wk_store")
  <2>1. \A u \in Threads \ {t} : pc[u] \notin Inside
    BY <1>1, <1>5, Alone
  <2> QED BY <1>2, <2>1 DEF Inside, Moves
<1>7. \A u \in Threads : pc'[u] = "rl_wait" <=> pc[u] = "rl_wait"
  BY <1>2 DEF Moves
<1>8. \A u \in Threads : Given(u)' <=> Given(u)
  BY <1>2, <1>3, <1>6, <1>7 DEF Given, At
<1>9. OwnerInv' /\ FlagsInv' /\ WaitInv'
  <2>1. pc'[t] \in Trying /\ {pc[t], pc'[t]} \cap (Flagging \cup {"wl_or", "tr_cas", "wl_lock"}) = {}
    BY <1>2 DEF Trying, Flagging
  <2>2. OwnerInv'
    BY <1>1, <1>2, <1>5, <2>1, OwnerKept
  <2>3. readers' = readers /\ readers'.owning <= readers.owning
    BY <1>2, <1>5, SMT
  <2>4. FlagsInv' /\ WaitInv'
    BY <1>1, <1>2, <2>1, <2>3, FlagsKept
  <2> QED BY <2>2, <2>4
<1>10. QueueInv'
  <2>1. \A i \in DOMAIN waiters : (At(waiters[i], "rl_wait") /\ ~ Given(waiters[i]))'
    <3> TAKE i \in DOMAIN waiters
    <3>1. At(waiters[i], "rl_wait") /\ ~ Given(waiters[i])
      BY <1>1 DEF QueueInv
    <3>2. PICK x \in Threads : x = waiters[i]
      BY <1>1, SMT
    <3>3. pc'[x] = "rl_wait" /\ ~ Given(x)' /\ x = waiters'[i]
      BY <1>2, <1>7, <1>8, <3>1, <3>2 DEF At
    <3> QED BY <3>3 DEF At, Given
  <2>2. \A i, j \in DOMAIN waiters : waiters[i] = waiters[j] => i = j
    BY <1>1 DEF QueueInv
  <2>3. \A u \in granted' : pc'[u] = "rl_wait"
    BY <1>1, <1>2, <1>3, <1>4, <1>7 DEF QueueInv
  <2> QED BY <1>2, <1>6, <2>1, <2>2, <2>3 DEF QueueInv, At
<1>11. CountsExact'
  <2>1. CountedAlike(t)
    BY <1>2, <1>8, CountedKept
  <2>2. (Owning(t)' <=> Owning(t)) /\ ~ Waiting(t) /\ ~ Waiting(t)'
    BY <1>2 DEF Owning, Waiting, Given, At
  <2> QED BY <1>1, <1>2, <2>1, <2>2, CountsFollow
<1>12. PendingWriterWoken'
  BY <1>1, <1>2, <1>5, NobodyLooks, NobodyLooksNow
<1>13. NoReaderStranded'
  <2>1. Looks(t) => Looks(t)'
    BY <1>2 DEF Looks
  <2> QED BY <1>1, <1>2, <1>8, <2>1, StrandedKept
<1> QED BY <1>9, <1>10, <1>11, <1>12, <1>13 DEF RWLockInv

-----------------------------------------------------------------------------
\* A new rwlock: no flag, no reader, nobody inside.
LEMMA RWLockInitially == Init => RWLockInv
<1> SUFFICES ASSUME Init PROVE RWLockInv
  OBVIOUS
<1>1. \A t \in Threads : pc[t] = "run" /\ back[t] = "run"
  BY DEF Init
<1>2. TypeInv
  <2>1. Zero \in Words
    BY DEF Words, Zero
  <2>2. "run" \in Inside \cup Outside
    BY DEF Outside
  <2>3. /\ readers \in Words /\ writer_wait \in BOOLEAN /\ depth \in Nat /\ granted \in SUBSET Threads
    BY <2>1 DEF Init
  <2>4. waiters \in Seq(Threads) /\ wm \in Seq(Threads)
    BY SMT DEF Init
  <2>5. /\ pc \in [Threads -> Inside \cup Outside] /\ back \in [Threads -> {"run", "reading"}]
        /\ pending \in [Threads -> Nat]
    BY <2>2 DEF Init
  <2>6. prev \in [Threads -> Words] /\ who \in [Threads -> Threads \cup {NoThread}]
    BY <2>1 DEF Init
  <2> QED BY <2>3, <2>4, <2>5, <2>6 DEF TypeInv
<1>3. OwnerInv
  BY <1>1, SMT DEF Init, OwnerInv, Inside
<1>4. readers.flags = {} /\ readers.owning = 0 /\ readers.waiting = 0
  BY DEF Init, Zero
<1>5. FlagsInv /\ WaitInv /\ PendingWriterWoken /\ NoReaderStranded
  BY <1>1, <1>4 DEF FlagsInv, WaitInv, PendingWriterWoken, NoReaderStranded, At
<1>6. QueueInv
  BY <1>1, SMT DEF Init, QueueInv
<1>7. CountsExact
  <2>1. {t \in Threads : Owning(t)} = {} /\ {t \in Threads : Waiting(t)} = {}
    BY <1>1 DEF Owning, Waiting, Given, At
  <2> QED BY <1>4, <2>1, FS_EmptySet DEF CountsExact
<1> QED BY <1>2, <1>3, <1>5, <1>6, <1>7 DEF RWLockInv

\* Every step of Next and every stutter keeps the inductive invariant.
LEMMA RWLockStep == RWLockInv /\ [Next]_vars => RWLockInv'
<1> SUFFICES ASSUME RWLockInv, [Next]_vars PROVE RWLockInv'
  OBVIOUS
<1>1. CASE UNCHANGED vars
  <2>1. UNCHANGED <<readers, writer_wait, waiters, wm, depth, pc, back, granted, pending, prev, who>>
    BY <1>1 DEF vars, mtx, locs
  <2>2. TypeInv' /\ OwnerInv' /\ FlagsInv' /\ WaitInv'
    BY <2>1 DEF RWLockInv, TypeInv, OwnerInv, In, FlagsInv, WaitInv
  <2>3. QueueInv' /\ CountsExact'
    BY <2>1 DEF RWLockInv, QueueInv, CountsExact, Owning, Waiting, Given, At
  <2>4. PendingWriterWoken' /\ NoReaderStranded'
    BY <2>1 DEF RWLockInv, PendingWriterWoken, Owner, NoReaderStranded, NoWriter, Given, At
  <2> QED BY <2>2, <2>3, <2>4 DEF RWLockInv
<1>2. ASSUME NEW t \in Threads, Call(t) \/ RUnlock(t) \/ WUnlock(t) \/ Step(t)
      PROVE  RWLockInv'
  <2>1. TypeInv'
    BY <1>2, TypeStep
  <2>2. \/ RLock(t) \/ RLockBlocked(t) \/ RLockAdd(t) \/ RLockRetry(t) \/ RLockRetryBlocked(t)
        \/ RUnlock(t) \/ RUnlockOwner(t) \/ RUnlockWake(t)
        \/ RUnlockStore(t) \/ RLockPush(t) \/ RLockWait(t) \/ WLock(t) \/ WLockLocked(t)
        \/ WLockNested(t) \/ WUnlockNested(t) \/ WLockStore(t) \/ WLockOr(t) \/ WLockCas(t)
        \/ WLockWait(t) \/ WLockAdd(t) \/ TryWLock(t) \/ TryUpgrade(t)
        \/ TryLoad(t) \/ TryCas(t) \/ TryFail(t) \/ WUnlock(t) \/ Downgrade(t)
        \/ DowngradeLoad(t) \/ WakeEmpty(t) \/ WakeCall(t) \/ WakeEnd(t)
        \/ WakePop(t) \/ WakeStore(t)
    BY <1>2 DEF Call, Step
  <2> QED BY <2>1, <2>2, ReaderStep, StoreStep, PushStep, WaitStep, WLockStep, LockedStep,
             WriterStep, TryStep, UnlockStep, PopStep, GrantStep
<1> QED BY <1>1, <1>2 DEF Next

\* The inductive invariant holds in every state.
THEOREM RWLockInvariant == Spec => []RWLockInv
BY RWLockInitially, RWLockStep, PTL DEF Spec

\* rwlock: whoever wlock(), try_wlock() or try_upgrade() let in is alone with the lock,
\* owns _wmtx, and passes the assertions of wunlock() and downgrade().
THEOREM ExclusionHolds == Spec => []Exclusion
<1>1. RWLockInv => Exclusion
  <2> SUFFICES ASSUME RWLockInv, NEW t \in Threads, pc[t] = "writing"
               PROVE  /\ Owner = t /\ W \in readers.flags
                      /\ \A u \in Threads \ {t} : pc[u] \notin {"reading", "writing"}
    BY DEF Exclusion, At
  <2>1. OwnerInv /\ FlagsInv /\ CountsExact /\ readers \in Words
    BY DEF RWLockInv, TypeInv
  <2>2. Owner = t
    BY <2>1, SMT DEF OwnerInv, Inside, Owner
  <2>3. W \in readers.flags /\ readers.owning = 0
    BY <2>1 DEF FlagsInv
  <2>4. \A u \in Threads : pc[u] # "reading"
    BY <2>1, <2>3, CountsPositive, SMT DEF Owning
  <2>5. \A u \in Threads \ {t} : pc[u] # "writing"
    BY <2>1, Alone DEF Inside
  <2> QED BY <2>2, <2>3, <2>4, <2>5
<1> QED BY <1>1, RWLockInvariant, PTL

\* rwlock: each reader is counted once in _readers, as an owner or as pending, whether it
\* moved itself from one count to the other or the leaving writer moved it.
THEOREM CountsExactHolds == Spec => []CountsExact
<1>1. RWLockInv => CountsExact
  BY DEF RWLockInv
<1> QED BY <1>1, RWLockInvariant, PTL

\* rwlock: the last reader wakes the writer that waits for it, and a reader that sleeps is in
\* the queue of a writer that will look there.
THEOREM NobodyStrandedHolds == Spec => []NobodyStranded
<1>1. RWLockInv => NobodyStranded
  BY DEF RWLockInv, NobodyStranded
<1> QED BY <1>1, RWLockInvariant, PTL
=============================================================================
