--------------------------- MODULE CondVarProofs ----------------------------
(***************************************************************************)
(* Wait morphing neither loses nor doubles a waiter, and gives wait() the  *)
(* mutex back: WaitersAccounted and MutexReturned of CondVar, for any      *)
(* number of threads and mutexes and every race of timeouts and wake-ups.  *)
(*                                                                         *)
(* WaitersAccounted does not say that a list names a waiter once, nor      *)
(* MutexReturned that a waiter that was not sent queues for no mutex, and  *)
(* a thread inside wake_one() or wake_all() has a mutex only if it owns    *)
(* it.  CvInv adds these.                                                  *)
(***************************************************************************)
EXTENDS CondVar, SequenceTheorems, TLAPS

\* A step is left to Zenon, unless it names SMT or the temporal prover.
USE ZenonT(40)

Waking == {"wake_one", "wake_all", "send"}
Places == Waiting \cup Waking \cup {"run", "lock", "relock", "crit"}

TypeOK ==
    /\ claims \in [Mutexes -> Seq(Threads)]
    /\ fifo \in Seq(Threads)
    /\ user_mutex \in Mutexes \cup {NoMutex}
    /\ pc \in [Threads -> Places]
    /\ mtx \in [Threads -> Mutexes]
    /\ sent \in SUBSET Threads
    /\ batch \in [Threads -> Seq(Threads)]
    /\ dest \in [Threads -> Mutexes \cup {NoMutex}]

\* Where the record of t is, as WaitersAccounted has it.
WaiterInv(t) ==
    /\ pc[t] \in Waiting =>
         /\ InFifo(t) \/ InBatch(t) \/ t \in sent
         /\ ~ (InFifo(t) /\ InBatch(t))
         /\ t \in sent => ~ InFifo(t) /\ ~ InBatch(t)
    /\ pc[t] \notin Waiting => ~ InFifo(t) /\ ~ InBatch(t) /\ t \notin sent

\* Which mutex t queues for or owns.
ClaimInv(t) ==
    /\ \A m \in Mutexes : Contains(claims[m], t) => m = mtx[t]
    /\ pc[t] \in {"lock", "relock", "crit"} \/ t \in sent => Contains(claims[mtx[t]], t)
    /\ pc[t] = "run" \/ (pc[t] \in Waiting /\ t \notin sent) => ~Contains(claims[mtx[t]], t)
    /\ pc[t] = "crit" => Holds(t)
    /\ pc[t] \in Waking /\ Contains(claims[mtx[t]], t) => Holds(t)

\* The waiters of a list came with the mutex that it will be sent to.
DestInv(t) ==
    /\ InFifo(t) => user_mutex = mtx[t]
    /\ \A u \in Threads : Contains(batch[u], t) => dest[u] = mtx[t]

\* The lists of waiters and the queues of the mutexes name nobody twice.
ListInv ==
    /\ IsInjective(fifo)
    /\ \A m \in Mutexes : IsInjective(claims[m])
    /\ \A u \in Threads : IsInjective(batch[u]) /\ (pc[u] # "send" => batch[u] = <<>>)
    /\ \A u, v, t \in Threads : Contains(batch[u], t) /\ Contains(batch[v], t) => u = v

CvInv ==
    /\ TypeOK
    /\ ListInv
    /\ \A t \in Threads : WaiterInv(t) /\ ClaimInv(t) /\ DestInv(t)

-----------------------------------------------------------------------------
(***************************************************************************)
(* Lists: push_back(), pop_front() and erase() of a waiter.                *)
(***************************************************************************)
\* The list of waiters after wait() has linked its record to it, and the queue
\* of a mutex after lock() or send_lock(): one more is in it, at the end.
LEMMA AppendTo ==
    ASSUME NEW S, NEW s \in Seq(S), NEW x \in S
    PROVE  /\ Append(s, x) \in Seq(S) /\ Append(s, x) # <<>>
           /\ \A y : Contains(Append(s, x), y) <=> Contains(s, y) \/ y = x
           /\ IsInjective(s) /\ ~Contains(s, x) => IsInjective(Append(s, x))
           /\ s # <<>> => Head(Append(s, x)) = Head(s)
<1>1. /\ Append(s, x) \in Seq(S) /\ Append(s, x) # <<>>
      /\ Len(s) \in Nat /\ Len(Append(s, x)) = Len(s) + 1
      /\ DOMAIN s = 1 .. Len(s) /\ DOMAIN Append(s, x) = 1 .. Len(s) + 1
      /\ \A i \in 1 .. Len(s) : Append(s, x)[i] = s[i]
      /\ Append(s, x)[Len(s) + 1] = x
  BY AppendProperties, SMT
<1>2. \A y : Contains(Append(s, x), y) <=> Contains(s, y) \/ y = x
  BY <1>1, SMT DEF Contains
<1>3. IsInjective(s) /\ ~Contains(s, x) => IsInjective(Append(s, x))
  BY <1>1, SMT DEF Contains, IsInjective
<1>4. s # <<>> => Head(Append(s, x)) = Head(s)
  BY SMT
<1>5. QED
  BY <1>1, <1>2, <1>3, <1>4

\* What wake_one() and unlock() leave when they take the first.
LEMMA PopFrom ==
    ASSUME NEW S, NEW s \in Seq(S), s # <<>>, IsInjective(s)
    PROVE  /\ Head(s) \in S /\ Contains(s, Head(s))
           /\ Tail(s) \in Seq(S) /\ IsInjective(Tail(s))
           /\ \A y : Contains(Tail(s), y) <=> Contains(s, y) /\ y # Head(s)
<1>1. /\ Head(s) \in S /\ Tail(s) \in Seq(S) /\ Head(s) = s[1]
      /\ Len(s) \in Nat /\ Len(s) > 0 /\ Len(Tail(s)) = Len(s) - 1
      /\ DOMAIN s = 1 .. Len(s) /\ DOMAIN Tail(s) = 1 .. Len(s) - 1
      /\ \A i \in 1 .. Len(s) - 1 : Tail(s)[i] = s[i + 1]
  BY HeadTailProperties, EmptySeq, SMT
<1>2. Contains(s, Head(s))
  BY <1>1, SMT DEF Contains
<1>3. IsInjective(Tail(s))
  BY <1>1, SMT DEF IsInjective
<1>4. ASSUME NEW y
      PROVE  Contains(Tail(s), y) <=> Contains(s, y) /\ y # Head(s)
  <2>1. ASSUME Contains(Tail(s), y)
        PROVE  Contains(s, y) /\ y # Head(s)
    BY <1>1, <2>1, SMT DEF Contains, IsInjective
  <2>2. ASSUME Contains(s, y), y # Head(s)
        PROVE  Contains(Tail(s), y)
    <3>1. PICK i \in 1 .. Len(s) : s[i] = y
      BY <2>2 DEF Contains
    <3>2. i - 1 \in 1 .. Len(s) - 1 /\ Tail(s)[i - 1] = y
      BY <1>1, <2>2, <3>1, SMT
    <3>3. QED
      BY <1>1, <3>2 DEF Contains
  <2>3. QED
    BY <2>1, <2>2
<1>5. QED
  BY <1>1, <1>2, <1>3, <1>4

\* What the removal of an expired record, or of a waiter that wake_all() has
\* sent, leaves of the list.
LEMMA EraseFrom ==
    ASSUME NEW S, NEW s \in Seq(S), NEW i \in DOMAIN s, IsInjective(s)
    PROVE  /\ s[i] \in S /\ Contains(s, s[i])
           /\ Erase(s, i) \in Seq(S) /\ IsInjective(Erase(s, i))
           /\ \A y : Contains(Erase(s, i), y) <=> Contains(s, y) /\ y # s[i]
<1> DEFINE r == Erase(s, i)
<1>1. /\ Len(s) \in Nat /\ DOMAIN s = 1 .. Len(s) /\ i \in 1 .. Len(s)
      /\ \A j \in 1 .. Len(s) : s[j] \in S
  BY LenProperties, SMT
<1>2. /\ SubSeq(s, 1, i - 1) \in Seq(S) /\ Len(SubSeq(s, 1, i - 1)) = i - 1
      /\ \A j \in 1 .. i - 1 : SubSeq(s, 1, i - 1)[j] = s[j]
  <2>1. 1 \in Int /\ i - 1 \in Int /\ \A j \in 1 .. i - 1 : s[j] \in S
    BY <1>1, SMT
  <2>2. QED
    BY <1>1, <2>1, SubSeqProperties, SMT
<1>3. /\ SubSeq(s, i + 1, Len(s)) \in Seq(S) /\ Len(SubSeq(s, i + 1, Len(s))) = Len(s) - i
      /\ \A j \in 1 .. Len(s) - i : SubSeq(s, i + 1, Len(s))[j] = s[i + j]
  <2>1. i + 1 \in Int /\ Len(s) \in Int /\ \A j \in i + 1 .. Len(s) : s[j] \in S
    BY <1>1, SMT
  <2>2. QED
    BY <1>1, <2>1, SubSeqProperties, SMT
<1>4. /\ r \in Seq(S) /\ Len(r) = Len(s) - 1 /\ DOMAIN r = 1 .. Len(s) - 1
      /\ \A j \in 1 .. Len(s) - 1 : r[j] = IF j < i THEN s[j] ELSE s[j + 1]
  <2>1. /\ r \in Seq(S) /\ Len(r) = i - 1 + (Len(s) - i)
        /\ \A j \in 1 .. i - 1 + (Len(s) - i) :
             r[j] = IF j <= i - 1 THEN SubSeq(s, 1, i - 1)[j]
                    ELSE SubSeq(s, i + 1, Len(s))[j - (i - 1)]
    <3>1. /\ r \in Seq(S) /\ Len(r) = Len(SubSeq(s, 1, i - 1)) + Len(SubSeq(s, i + 1, Len(s)))
          /\ \A j \in 1 .. Len(SubSeq(s, 1, i - 1)) + Len(SubSeq(s, i + 1, Len(s))) :
               r[j] = IF j <= Len(SubSeq(s, 1, i - 1)) THEN SubSeq(s, 1, i - 1)[j]
                      ELSE SubSeq(s, i + 1, Len(s))[j - Len(SubSeq(s, 1, i - 1))]
      BY <1>2, <1>3, ConcatProperties DEF Erase
    <3>2. QED
      BY <1>2, <1>3, <3>1
  <2>2. i - 1 + (Len(s) - i) = Len(s) - 1
    BY <1>1, SMT
  <2>3. ASSUME NEW j \in 1 .. Len(s) - 1
        PROVE  r[j] = IF j < i THEN s[j] ELSE s[j + 1]
    <3>1. r[j] = IF j <= i - 1 THEN SubSeq(s, 1, i - 1)[j]
                 ELSE SubSeq(s, i + 1, Len(s))[j - (i - 1)]
      BY <2>1, <2>2
    <3> HIDE DEF r
    <3>2. CASE j < i
      BY <1>1, <1>2, <3>1, <3>2, SMT
    <3>3. CASE ~(j < i)
      <4>1. j - (i - 1) \in 1 .. Len(s) - i /\ i + (j - (i - 1)) = j + 1 /\ ~(j <= i - 1)
        BY <1>1, <3>3, SMT
      <4>2. QED
        BY <1>3, <3>1, <3>3, <4>1
    <3>4. QED
      BY <3>2, <3>3
  <2>4. QED
    <3>1. r \in Seq(S) /\ Len(r) = Len(s) - 1
      BY <2>1, <2>2
    <3>2. DOMAIN r = 1 .. Len(r)
      BY <3>1, LenProperties
    <3>3. QED
      BY <2>3, <3>1, <3>2
<1> HIDE DEF r
<1>5. IsInjective(r)
  <2>1. SUFFICES ASSUME NEW a \in 1 .. Len(s) - 1, NEW b \in 1 .. Len(s) - 1, r[a] = r[b]
                 PROVE  a = b
    BY <1>4 DEF IsInjective
  <2> DEFINE at(k) == IF k < i THEN k ELSE k + 1
  <2>2. at(a) \in 1 .. Len(s) /\ at(b) \in 1 .. Len(s)
    BY <1>1, SMT
  <2>3. s[at(a)] = r[a] /\ s[at(b)] = r[b]
    BY <1>4
  <2>4. at(a) = at(b)
    <3> HIDE DEF at
    <3>1. QED
      BY <1>1, <2>1, <2>2, <2>3 DEF IsInjective
  <2>5. QED
    BY <1>1, <2>4, SMT
<1>6. ASSUME NEW y
      PROVE  Contains(r, y) <=> Contains(s, y) /\ y # s[i]
  <2>1. ASSUME Contains(r, y)
        PROVE  Contains(s, y) /\ y # s[i]
    BY <1>1, <1>4, <2>1, SMT DEF Contains, IsInjective
  <2>2. ASSUME Contains(s, y), y # s[i]
        PROVE  Contains(r, y)
    <3>1. PICK k \in 1 .. Len(s) : s[k] = y
      BY <2>2 DEF Contains
    <3>2. k # i
      BY <2>2, <3>1
    <3>3. CASE k < i
      <4>1. k \in 1 .. Len(s) - 1 /\ r[k] = y
        BY <1>1, <1>4, <3>1, <3>3, SMT
      <4>2. QED
        BY <1>4, <4>1 DEF Contains
    <3>4. CASE k > i
      <4>1. k - 1 \in 1 .. Len(s) - 1 /\ r[k - 1] = y
        BY <1>1, <1>4, <3>1, <3>4, SMT
      <4>2. QED
        BY <1>4, <4>1 DEF Contains
    <3>5. QED
      BY <1>1, <3>1, <3>2, <3>3, <3>4, SMT
  <2>3. QED
    BY <2>1, <2>2
<1>7. s[i] \in S /\ Contains(s, s[i])
  BY <1>1 DEF Contains
<1>8. QED
  BY <1>4, <1>5, <1>6, <1>7 DEF r

\* An empty list names nobody.
LEMMA NobodyIn ==
    /\ \A S : <<>> \in Seq(S)
    /\ IsInjective(<<>>)
    /\ \A y : ~Contains(<<>>, y)
BY SMT DEF IsInjective, Contains

-----------------------------------------------------------------------------
(***************************************************************************)
(* What a step that changes a mutex or a list leaves to the others.        *)
(***************************************************************************)
\* A thread that owns a mutex is in its queue.
LEMMA OwnerIn ==
    ASSUME TypeOK, ListInv, NEW t \in Threads, Holds(t)
    PROVE  Contains(claims[mtx[t]], t)
<1>1. /\ mtx[t] \in Mutexes /\ claims[mtx[t]] \in Seq(Threads)
      /\ IsInjective(claims[mtx[t]]) /\ claims[mtx[t]] # <<>> /\ Head(claims[mtx[t]]) = t
  BY DEF TypeOK, ListInv, Holds
<1>2. QED
  BY <1>1, PopFrom

\* lock() and send_lock(): one thread joins the queue of one mutex, and the
\* owners stay.
LEMMA ClaimWrites ==
    ASSUME TypeOK, ListInv, NEW m \in Mutexes, NEW t \in Threads,
           Claim(m, t), ~Contains(claims[m], t)
    PROVE  /\ claims' \in [Mutexes -> Seq(Threads)]
           /\ \A n \in Mutexes : IsInjective(claims'[n])
           /\ \A n \in Mutexes, x \in Threads :
                Contains(claims'[n], x) <=> Contains(claims[n], x) \/ (n = m /\ x = t)
           /\ \A n \in Mutexes : claims[n] # <<>> =>
                claims'[n] # <<>> /\ Head(claims'[n]) = Head(claims[n])
<1>1. claims \in [Mutexes -> Seq(Threads)] /\ \A n \in Mutexes : IsInjective(claims[n])
  BY DEF TypeOK, ListInv
<1>2. /\ claims' = [claims EXCEPT ![m] = Append(claims[m], t)]
      /\ claims'[m] = Append(claims[m], t)
      /\ \A n \in Mutexes : n # m => claims'[n] = claims[n]
  BY <1>1 DEF Claim
<1>3. claims[m] \in Seq(Threads) /\ IsInjective(claims[m])
  BY <1>1
<1>4. /\ claims'[m] \in Seq(Threads) /\ claims'[m] # <<>> /\ IsInjective(claims'[m])
      /\ \A y : Contains(claims'[m], y) <=> Contains(claims[m], y) \/ y = t
      /\ claims[m] # <<>> => Head(claims'[m]) = Head(claims[m])
  <2>1. /\ Append(claims[m], t) \in Seq(Threads) /\ Append(claims[m], t) # <<>>
        /\ \A y : Contains(Append(claims[m], t), y) <=> Contains(claims[m], y) \/ y = t
        /\ IsInjective(Append(claims[m], t))
        /\ claims[m] # <<>> => Head(Append(claims[m], t)) = Head(claims[m])
    BY <1>3, AppendTo
  <2>2. QED
    BY <1>2, <2>1
<1>5. claims' \in [Mutexes -> Seq(Threads)]
  BY <1>1, <1>2, <1>4
<1>6. \A n \in Mutexes : IsInjective(claims'[n])
  BY <1>1, <1>2, <1>4
<1>7. \A n \in Mutexes, x \in Threads :
        Contains(claims'[n], x) <=> Contains(claims[n], x) \/ (n = m /\ x = t)
  BY <1>2, <1>4
<1>8. \A n \in Mutexes : claims[n] # <<>> =>
        claims'[n] # <<>> /\ Head(claims'[n]) = Head(claims[n])
  BY <1>2, <1>4
<1>9. QED
  BY <1>5, <1>6, <1>7, <1>8

\* unlock(), by its user or in wait(): the owner leaves the queue.
LEMMA ReleaseWrites ==
    ASSUME TypeOK, ListInv, NEW t \in Threads, Holds(t),
           claims' = [claims EXCEPT ![mtx[t]] = Tail(@)]
    PROVE  /\ claims' \in [Mutexes -> Seq(Threads)]
           /\ \A n \in Mutexes : IsInjective(claims'[n])
           /\ \A n \in Mutexes, x \in Threads :
                Contains(claims'[n], x) <=> Contains(claims[n], x) /\ ~(n = mtx[t] /\ x = t)
           /\ \A n \in Mutexes : n # mtx[t] => claims'[n] = claims[n]
<1>1. claims \in [Mutexes -> Seq(Threads)] /\ \A n \in Mutexes : IsInjective(claims[n])
  BY DEF TypeOK, ListInv
<1>2. PICK m \in Mutexes : m = mtx[t]
  BY DEF TypeOK
<1>3. /\ claims' = [claims EXCEPT ![m] = Tail(claims[m])]
      /\ claims'[m] = Tail(claims[m])
      /\ \A n \in Mutexes : n # m => claims'[n] = claims[n]
  BY <1>1, <1>2
<1>4. claims[m] \in Seq(Threads) /\ IsInjective(claims[m]) /\ claims[m] # <<>> /\ Head(claims[m]) = t
  BY <1>1, <1>2 DEF Holds
<1>5. /\ claims'[m] \in Seq(Threads) /\ IsInjective(claims'[m])
      /\ \A y : Contains(claims'[m], y) <=> Contains(claims[m], y) /\ y # t
  <2>1. /\ Tail(claims[m]) \in Seq(Threads) /\ IsInjective(Tail(claims[m]))
        /\ \A y : Contains(Tail(claims[m]), y) <=> Contains(claims[m], y) /\ y # Head(claims[m])
    BY <1>4, PopFrom
  <2>2. QED
    BY <1>3, <1>4, <2>1
<1>6. claims' \in [Mutexes -> Seq(Threads)]
  BY <1>1, <1>3, <1>5
<1>7. \A n \in Mutexes : IsInjective(claims'[n])
  BY <1>1, <1>3, <1>5
<1>8. \A n \in Mutexes, x \in Threads :
        Contains(claims'[n], x) <=> Contains(claims[n], x) /\ ~(n = m /\ x = t)
  BY <1>3, <1>5
<1>9. QED
  BY <1>2, <1>3, <1>6, <1>7, <1>8

\* A thread that no step of another moves, sends or hands a mutex to.
LEMMA ClaimFrame ==
    ASSUME NEW x \in Threads, TypeOK, ClaimInv(x),
           pc'[x] = pc[x], mtx'[x] = mtx[x], x \in sent' <=> x \in sent,
           \A n \in Mutexes : Contains(claims'[n], x) <=> Contains(claims[n], x),
           Holds(x) => Holds(x)'
    PROVE  ClaimInv(x)'
<1>1. mtx[x] \in Mutexes
  BY DEF TypeOK
<1>2. Contains(claims'[mtx'[x]], x) <=> Contains(claims[mtx[x]], x)
  BY <1>1
<1>3. (\A m \in Mutexes : Contains(claims[m], x) => m = mtx[x])'
  BY DEF ClaimInv
<1>4. QED
  BY <1>2, <1>3 DEF ClaimInv

\* A record that no step takes from where it is.
LEMMA WaiterFrame ==
    ASSUME NEW x \in Threads, WaiterInv(x),
           pc'[x] \in Waiting <=> pc[x] \in Waiting, x \in sent' <=> x \in sent,
           InFifo(x)' <=> InFifo(x), InBatch(x)' <=> InBatch(x)
    PROVE  WaiterInv(x)'
BY DEF WaiterInv

\* A step of one thread that leaves the lists, the mutexes and the records
\* alone: it moves that thread to where its claim is as it should be.
LEMMA MoveKeeps ==
    ASSUME CvInv, NEW t \in Threads, NEW l \in Places, Goto(t, l),
           UNCHANGED <<claims, fifo, user_mutex, mtx, sent, batch>>,
           dest' \in [Threads -> Mutexes \cup {NoMutex}],
           \A u \in Threads : u # t => dest'[u] = dest[u],
           l # "send", batch[t] = <<>>,
           l \in Waiting <=> pc[t] \in Waiting,
           ClaimInv(t)'
    PROVE  CvInv'
<1>1. /\ TypeOK /\ ListInv
      /\ \A x \in Threads : WaiterInv(x) /\ ClaimInv(x) /\ DestInv(x)
  BY DEF CvInv
<1>2. /\ pc' \in [Threads -> Places] /\ pc'[t] = l
      /\ \A x \in Threads : x # t => pc'[x] = pc[x]
  BY <1>1 DEF TypeOK, Goto
<1>3. TypeOK'
  BY <1>1, <1>2 DEF TypeOK
<1>4. ListInv'
  <2>1. \A u \in Threads : IsInjective(batch'[u]) /\ (pc'[u] # "send" => batch'[u] = <<>>)
    BY <1>1, <1>2 DEF ListInv
  <2>2. QED
    BY <1>1, <2>1 DEF ListInv
<1>5. ASSUME NEW x \in Threads
      PROVE  WaiterInv(x)' /\ ClaimInv(x)' /\ DestInv(x)'
  <2>1. WaiterInv(x) /\ ClaimInv(x) /\ DestInv(x)
    BY <1>1
  <2>2. (InFifo(x)' <=> InFifo(x)) /\ (InBatch(x)' <=> InBatch(x)) /\ (Holds(x)' <=> Holds(x))
    BY DEF InFifo, InBatch, Holds
  <2>3. pc'[x] \in Waiting <=> pc[x] \in Waiting
    BY <1>2
  <2>4. WaiterInv(x)'
    BY <2>1, <2>2, <2>3, WaiterFrame
  <2>5. ClaimInv(x)'
    BY <1>1, <1>2, <2>1, <2>2, ClaimFrame
  <2>6. DestInv(x)'
    <3>1. \A u \in Threads : Contains(batch'[u], x) => dest'[u] = mtx'[x]
      BY <2>1, NobodyIn DEF DestInv
    <3>2. QED
      BY <2>1, <2>2, <3>1 DEF DestInv
  <2>7. QED
    BY <2>4, <2>5, <2>6
<1>6. QED
  BY <1>3, <1>4, <1>5 DEF CvInv

-----------------------------------------------------------------------------
(***************************************************************************)
(* The steps.                                                              *)
(***************************************************************************)
\* A thread outside wait() is in no list, and was not sent; only one in
\* wake_all() has waiters to send.
LEMMA OutsideWait ==
    ASSUME CvInv, NEW t \in Threads
    PROVE  /\ pc[t] \notin Waiting => ~InFifo(t) /\ ~InBatch(t) /\ t \notin sent
           /\ InFifo(t) \/ InBatch(t) => pc[t] \in Waiting /\ t \notin sent
           /\ pc[t] # "send" => batch[t] = <<>>
           /\ Holds(t) => Contains(claims[mtx[t]], t)
<1>1. TypeOK /\ ListInv /\ WaiterInv(t)
  BY DEF CvInv
<1>2. QED
  BY <1>1, OwnerIn DEF WaiterInv, ListInv

\* A thread that is in its mutex's queue as what it does next demands.
LEMMA ClaimMoved ==
    ASSUME NEW t \in Threads, ClaimInv(t), UNCHANGED <<claims, mtx, sent>>,
           NEW l \in Places, pc'[t] = l,
           t \in sent \/ l \in {"lock", "relock", "crit"} => Contains(claims[mtx[t]], t),
           l = "run" \/ (l \in Waiting /\ t \notin sent) => ~Contains(claims[mtx[t]], t),
           l = "crit" => Holds(t),
           l \in Waking /\ Contains(claims[mtx[t]], t) => Holds(t)
    PROVE  ClaimInv(t)'
<1>1. Holds(t)' <=> Holds(t)
  BY DEF Holds
<1>2. QED
  BY <1>1 DEF ClaimInv

\* lock(): the thread joins the queue of the mutex.
LEMMA LockKeeps ==
    ASSUME CvInv, NEW t \in Threads, NEW m \in Mutexes, Lock(t, m)
    PROVE  CvInv'
<1>1. /\ TypeOK /\ ListInv
      /\ \A x \in Threads : WaiterInv(x) /\ ClaimInv(x) /\ DestInv(x)
  BY DEF CvInv
<1>2. /\ pc[t] = "run" /\ Claim(m, t) /\ mtx' = [mtx EXCEPT ![t] = m]
      /\ pc' = [pc EXCEPT ![t] = "lock"]
      /\ UNCHANGED <<fifo, user_mutex, sent, batch, dest>>
  BY DEF Lock, Goto, cond, locals
<1>3. /\ pc' \in [Threads -> Places] /\ pc'[t] = "lock"
      /\ \A x \in Threads : x # t => pc'[x] = pc[x]
      /\ mtx' \in [Threads -> Mutexes] /\ mtx'[t] = m
      /\ \A x \in Threads : x # t => mtx'[x] = mtx[x]
  BY <1>1, <1>2 DEF TypeOK, Places
<1>4. pc[t] \notin Waiting
  BY <1>2 DEF Waiting
<1>5. ~InFifo(t) /\ ~InBatch(t) /\ t \notin sent /\ batch[t] = <<>>
  BY <1>2, <1>4, OutsideWait
<1>6. \A n \in Mutexes : ~Contains(claims[n], t)
  BY <1>1, <1>2 DEF ClaimInv
<1>7. /\ claims' \in [Mutexes -> Seq(Threads)]
      /\ \A n \in Mutexes : IsInjective(claims'[n])
      /\ \A n \in Mutexes, x \in Threads :
           Contains(claims'[n], x) <=> Contains(claims[n], x) \/ (n = m /\ x = t)
      /\ \A n \in Mutexes : claims[n] # <<>> =>
           claims'[n] # <<>> /\ Head(claims'[n]) = Head(claims[n])
  BY <1>1, <1>2, <1>6, ClaimWrites
<1>8. TypeOK'
  BY <1>1, <1>2, <1>3, <1>7 DEF TypeOK
<1>9. ListInv'
  <2>1. \A u \in Threads : IsInjective(batch'[u]) /\ (pc'[u] # "send" => batch'[u] = <<>>)
    BY <1>1, <1>2, <1>3, <1>5 DEF ListInv
  <2>2. QED
    BY <1>1, <1>2, <1>7, <2>1 DEF ListInv
<1>10. ASSUME NEW x \in Threads
       PROVE  WaiterInv(x)' /\ ClaimInv(x)' /\ DestInv(x)'
  <2>1. WaiterInv(x) /\ ClaimInv(x) /\ DestInv(x)
    BY <1>1
  <2>2. (InFifo(x)' <=> InFifo(x)) /\ (InBatch(x)' <=> InBatch(x))
    BY <1>2 DEF InFifo, InBatch
  <2>3. pc'[x] \in Waiting <=> pc[x] \in Waiting
    BY <1>3, <1>4 DEF Waiting
  <2>4. WaiterInv(x)'
    BY <1>2, <2>1, <2>2, <2>3, WaiterFrame
  <2>5. CASE x = t
    <3>1. ClaimInv(t)'
      BY <1>2, <1>3, <1>5, <1>6, <1>7 DEF ClaimInv, Waiting, Waking
    <3>2. DestInv(t)'
      BY <1>2, <1>5, <2>2, <2>5 DEF DestInv, InFifo, InBatch
    <3>3. QED
      BY <2>4, <2>5, <3>1, <3>2
  <2>6. CASE x # t
    <3>1. mtx[x] \in Mutexes
      BY <1>1 DEF TypeOK
    <3>2. Holds(x) => Holds(x)'
      BY <1>3, <1>7, <2>6, <3>1 DEF Holds
    <3>3. ClaimInv(x)'
      BY <1>1, <1>2, <1>3, <1>7, <2>1, <2>6, <3>2, ClaimFrame
    <3>4. DestInv(x)'
      BY <1>2, <1>3, <2>1, <2>6 DEF DestInv, InFifo
    <3>5. QED
      BY <2>4, <3>3, <3>4
  <2>7. QED
    BY <2>5, <2>6
<1>11. QED
  BY <1>8, <1>9, <1>10 DEF CvInv

\* A thread goes on in its critical section.
LEMMA LockedKeeps ==
    ASSUME CvInv, NEW t \in Threads, Locked(t)
    PROVE  CvInv'
<1>1. /\ pc[t] \in {"lock", "relock"} /\ Holds(t) /\ Goto(t, "crit")
      /\ UNCHANGED <<claims, fifo, user_mutex, mtx, sent, batch, dest>>
  BY DEF Locked, cond, locals
<1>2. TypeOK /\ ClaimInv(t) /\ "crit" \in Places /\ pc'[t] = "crit"
  BY <1>1 DEF CvInv, TypeOK, Goto, Places
<1>3. pc[t] \notin Waiting /\ "crit" \notin Waiting /\ "crit" \notin Waking /\ pc[t] # "send"
  BY <1>1 DEF Waiting, Waking
<1>4. Contains(claims[mtx[t]], t) /\ batch[t] = <<>>
  BY <1>1, <1>3, OutsideWait
<1>5. ClaimInv(t)'
  BY <1>1, <1>2, <1>3, <1>4, ClaimMoved
<1>6. QED
  BY <1>1, <1>2, <1>3, <1>4, <1>5, MoveKeeps DEF TypeOK

\* The timer of a waiter expires.
LEMMA ExpireKeeps ==
    ASSUME CvInv, NEW t \in Threads, Expire(t)
    PROVE  CvInv'
<1>1. /\ pc[t] = "waiting" /\ Goto(t, "expired")
      /\ UNCHANGED <<claims, fifo, user_mutex, mtx, sent, batch, dest>>
  BY DEF Expire, cond, locals
<1>2. TypeOK /\ ClaimInv(t) /\ "expired" \in Places /\ pc'[t] = "expired"
  BY <1>1 DEF CvInv, TypeOK, Goto, Places, Waiting
<1>3. pc[t] \in Waiting /\ "expired" \in Waiting /\ "expired" \notin Waking /\ pc[t] # "send"
  BY <1>1 DEF Waiting, Waking
<1>4. batch[t] = <<>>
  BY <1>3, OutsideWait
<1>5. ClaimInv(t)'
  BY <1>1, <1>2, <1>3, ClaimMoved DEF ClaimInv
<1>6. QED
  BY <1>1, <1>2, <1>3, <1>4, <1>5, MoveKeeps DEF TypeOK

\* A waiter whose timer expired, and that somebody wakes up all the same.
LEMMA ExpiredTooLateKeeps ==
    ASSUME CvInv, NEW t \in Threads, ExpiredTooLate(t)
    PROVE  CvInv'
<1>1. /\ pc[t] = "expired" /\ Goto(t, "collect")
      /\ UNCHANGED <<claims, fifo, user_mutex, mtx, sent, batch, dest>>
  BY DEF ExpiredTooLate, cond, locals
<1>2. TypeOK /\ ClaimInv(t) /\ "collect" \in Places /\ pc'[t] = "collect"
  BY <1>1 DEF CvInv, TypeOK, Goto, Places, Waiting
<1>3. pc[t] \in Waiting /\ "collect" \in Waiting /\ "collect" \notin Waking /\ pc[t] # "send"
  BY <1>1 DEF Waiting, Waking
<1>4. batch[t] = <<>>
  BY <1>3, OutsideWait
<1>5. ClaimInv(t)'
  BY <1>1, <1>2, <1>3, ClaimMoved DEF ClaimInv
<1>6. QED
  BY <1>1, <1>2, <1>3, <1>4, <1>5, MoveKeeps DEF TypeOK

\* wake_one() or wake_all() is called, with or without a mutex.
LEMMA WakeCheckKeeps ==
    ASSUME CvInv, NEW t \in Threads, NEW l \in {"wake_one", "wake_all"}, WakeCheck(t, l)
    PROVE  CvInv'
<1>1. /\ pc[t] \in {"run", "crit"} /\ Goto(t, l)
      /\ UNCHANGED <<claims, fifo, user_mutex, mtx, sent, batch, dest>>
  BY DEF WakeCheck, cond, locals
<1>2. TypeOK /\ ClaimInv(t) /\ l \in Places /\ pc'[t] = l
  BY <1>1 DEF CvInv, TypeOK, Goto, Places, Waking
<1>3. /\ pc[t] \notin Waiting /\ pc[t] # "send"
      /\ l \notin Waiting /\ l # "send" /\ l # "run" /\ l \notin {"lock", "relock", "crit"}
  BY <1>1 DEF Waiting
<1>4. batch[t] = <<>> /\ t \notin sent
  BY <1>3, OutsideWait
<1>5. Contains(claims[mtx[t]], t) => Holds(t)
  BY <1>1, <1>2 DEF ClaimInv
<1>6. l # "crit"
  OBVIOUS
<1>7. ClaimInv(t)'
  BY <1>1, <1>2, <1>3, <1>4, <1>5, <1>6, ClaimMoved
<1>8. QED
  BY <1>1, <1>2, <1>3, <1>4, <1>7, MoveKeeps DEF TypeOK

\* A call that ends leaves the thread in its critical section if it was called
\* there.
LEMMA ReturnClaims ==
    ASSUME CvInv, NEW t \in Threads, pc[t] \in Waking
    PROVE  /\ Return(t) \in Places /\ Return(t) \in {"run", "crit"}
           /\ Return(t) \notin Waiting /\ Return(t) \notin Waking /\ Return(t) # "send"
           /\ Return(t) \notin {"lock", "relock"}
           /\ Return(t) = "crit" => Holds(t) /\ Contains(claims[mtx[t]], t)
           /\ Return(t) = "run" => ~Contains(claims[mtx[t]], t)
           /\ pc[t] \notin Waiting /\ t \notin sent
<1>1. Return(t) \in {"run", "crit"}
  BY DEF Return
<1>2. /\ Return(t) \in Places /\ Return(t) \notin Waiting /\ Return(t) \notin Waking
      /\ Return(t) # "send" /\ Return(t) \notin {"lock", "relock"}
  BY <1>1 DEF Places, Waiting, Waking
<1>3. ClaimInv(t)
  BY DEF CvInv
<1>4. /\ Return(t) = "crit" => Holds(t)
      /\ Return(t) = "run" => ~Holds(t)
  BY DEF Return
<1>5. pc[t] \notin Waiting
  BY DEF Waiting, Waking
<1>6. QED
  BY <1>1, <1>2, <1>3, <1>4, <1>5, OutsideWait DEF ClaimInv

\* wake_one() finds that there is nobody any more.
LEMMA WakeOneNobodyKeeps ==
    ASSUME CvInv, NEW t \in Threads, WakeOneNobody(t)
    PROVE  CvInv'
<1>1. /\ pc[t] = "wake_one" /\ Goto(t, Return(t))
      /\ UNCHANGED <<claims, fifo, user_mutex, mtx, sent, batch, dest>>
  BY DEF WakeOneNobody, cond, locals
<1>2. PICK l \in Places : l = Return(t)
  BY <1>1, ReturnClaims DEF Waking
<1>3. TypeOK /\ ClaimInv(t) /\ Goto(t, l) /\ pc'[t] = l
  BY <1>1, <1>2 DEF CvInv, TypeOK, Goto
<1>4. pc[t] \in Waking /\ pc[t] # "send"
  BY <1>1 DEF Waking
<1>5. /\ l \notin Waiting /\ l \notin Waking /\ l # "send" /\ l \notin {"lock", "relock"}
      /\ l = "crit" => Holds(t) /\ Contains(claims[mtx[t]], t)
      /\ l = "run" => ~Contains(claims[mtx[t]], t)
      /\ pc[t] \notin Waiting /\ t \notin sent
  BY <1>2, <1>4, ReturnClaims
<1>6. batch[t] = <<>>
  BY <1>4, OutsideWait
<1>7. ClaimInv(t)'
  BY <1>1, <1>3, <1>5, ClaimMoved
<1>8. QED
  BY <1>1, <1>3, <1>5, <1>6, <1>7, MoveKeeps DEF TypeOK

\* wake_all() has sent all it took.
LEMMA WakeAllEndKeeps ==
    ASSUME CvInv, NEW t \in Threads, WakeAllEnd(t)
    PROVE  CvInv'
<1>1. /\ pc[t] = "send" /\ batch[t] = <<>> /\ Goto(t, Return(t))
      /\ dest' = [dest EXCEPT ![t] = NoMutex]
      /\ UNCHANGED <<claims, fifo, user_mutex, mtx, sent, batch>>
  BY DEF WakeAllEnd, cond
<1>2. PICK l \in Places : l = Return(t)
  BY <1>1, ReturnClaims DEF Waking
<1>3. TypeOK /\ ClaimInv(t) /\ Goto(t, l) /\ pc'[t] = l
  BY <1>1, <1>2 DEF CvInv, TypeOK, Goto
<1>4. pc[t] \in Waking
  BY <1>1 DEF Waking
<1>5. /\ l \notin Waiting /\ l \notin Waking /\ l # "send" /\ l \notin {"lock", "relock"}
      /\ l = "crit" => Holds(t) /\ Contains(claims[mtx[t]], t)
      /\ l = "run" => ~Contains(claims[mtx[t]], t)
      /\ pc[t] \notin Waiting /\ t \notin sent
  BY <1>2, <1>4, ReturnClaims
<1>6. /\ dest' \in [Threads -> Mutexes \cup {NoMutex}]
      /\ \A u \in Threads : u # t => dest'[u] = dest[u]
  BY <1>1, <1>3 DEF TypeOK
<1>7. ClaimInv(t)'
  BY <1>1, <1>3, <1>5, ClaimMoved
<1>8. QED
  BY <1>1, <1>3, <1>5, <1>6, <1>7, MoveKeeps

\* An owner that leaves the queue of its mutex takes nothing from the others.
LEMMA OthersAfterRelease ==
    ASSUME CvInv, NEW t \in Threads, pc[t] = "crit",
           claims' = [claims EXCEPT ![mtx[t]] = Tail(@)],
           UNCHANGED <<mtx, sent>>, NEW x \in Threads, x # t, pc'[x] = pc[x]
    PROVE  ClaimInv(x)'
<1>1. TypeOK /\ ListInv /\ ClaimInv(x) /\ ClaimInv(t)
  BY DEF CvInv
<1>2. Holds(t)
  BY <1>1 DEF ClaimInv
<1>3. /\ \A n \in Mutexes, y \in Threads :
           Contains(claims'[n], y) <=> Contains(claims[n], y) /\ ~(n = mtx[t] /\ y = t)
      /\ \A n \in Mutexes : n # mtx[t] => claims'[n] = claims[n]
  BY <1>1, <1>2, ReleaseWrites
<1>4. mtx[x] \in Mutexes
  BY <1>1 DEF TypeOK
<1>5. Holds(x) => mtx[x] # mtx[t]
  BY <1>2 DEF Holds
<1>6. Holds(x) => Holds(x)'
  BY <1>3, <1>4, <1>5 DEF Holds
<1>7. QED
  BY <1>1, <1>3, <1>6, ClaimFrame

\* unlock(): the thread leaves the queue of its mutex.
LEMMA UnlockKeeps ==
    ASSUME CvInv, NEW t \in Threads, Unlock(t)
    PROVE  CvInv'
<1>1. /\ TypeOK /\ ListInv
      /\ \A x \in Threads : WaiterInv(x) /\ ClaimInv(x) /\ DestInv(x)
  BY DEF CvInv
<1>2. /\ pc[t] = "crit" /\ claims' = [claims EXCEPT ![mtx[t]] = Tail(@)]
      /\ pc' = [pc EXCEPT ![t] = "run"]
      /\ UNCHANGED <<fifo, user_mutex, mtx, sent, batch, dest>>
  BY DEF Unlock, Goto, cond, locals
<1>3. /\ pc' \in [Threads -> Places] /\ pc'[t] = "run"
      /\ \A x \in Threads : x # t => pc'[x] = pc[x]
  BY <1>1, <1>2 DEF TypeOK, Places
<1>4. pc[t] \notin Waiting
  BY <1>2 DEF Waiting
<1>5. t \notin sent /\ batch[t] = <<>>
  BY <1>2, <1>4, OutsideWait
<1>6. Holds(t)
  BY <1>1, <1>2 DEF ClaimInv
<1>7. /\ claims' \in [Mutexes -> Seq(Threads)]
      /\ \A n \in Mutexes : IsInjective(claims'[n])
      /\ \A n \in Mutexes, x \in Threads :
           Contains(claims'[n], x) <=> Contains(claims[n], x) /\ ~(n = mtx[t] /\ x = t)
  BY <1>1, <1>2, <1>6, ReleaseWrites
<1>8. TypeOK'
  BY <1>1, <1>2, <1>3, <1>7 DEF TypeOK
<1>9. ListInv'
  <2>1. \A u \in Threads : IsInjective(batch'[u]) /\ (pc'[u] # "send" => batch'[u] = <<>>)
    BY <1>1, <1>2, <1>3, <1>5 DEF ListInv
  <2>2. QED
    BY <1>1, <1>2, <1>7, <2>1 DEF ListInv
<1>10. ASSUME NEW x \in Threads
       PROVE  WaiterInv(x)' /\ ClaimInv(x)' /\ DestInv(x)'
  <2>1. WaiterInv(x) /\ ClaimInv(x) /\ DestInv(x)
    BY <1>1
  <2>2. (InFifo(x)' <=> InFifo(x)) /\ (InBatch(x)' <=> InBatch(x))
    BY <1>2 DEF InFifo, InBatch
  <2>3. pc'[x] \in Waiting <=> pc[x] \in Waiting
    BY <1>3, <1>4 DEF Waiting
  <2>4. WaiterInv(x)'
    BY <1>2, <2>1, <2>2, <2>3, WaiterFrame
  <2>5. DestInv(x)'
    BY <1>2, <2>1 DEF DestInv, InFifo
  <2>6. CASE x = t
    <3>1. mtx[t] \in Mutexes
      BY <1>1 DEF TypeOK
    <3>2. \A n \in Mutexes : Contains(claims[n], t) => n = mtx[t]
      BY <1>1 DEF ClaimInv
    <3>3. \A n \in Mutexes : ~Contains(claims'[n], t)
      BY <1>7, <3>2
    <3>4. ClaimInv(t)'
      BY <1>2, <1>3, <1>5, <3>1, <3>3 DEF ClaimInv, Waiting, Waking
    <3>5. QED
      BY <2>4, <2>5, <2>6, <3>4
  <2>7. CASE x # t
    BY <1>2, <1>3, <2>4, <2>5, <2>7, OthersAfterRelease
  <2>8. QED
    BY <2>6, <2>7
<1>11. QED
  BY <1>8, <1>9, <1>10 DEF CvInv

\* wait(): the record joins the list, and the thread leaves the mutex.
LEMMA WaitKeeps ==
    ASSUME CvInv, NEW t \in Threads, Wait(t), NoMutex \notin Mutexes
    PROVE  CvInv'
<1>1. /\ TypeOK /\ ListInv
      /\ \A x \in Threads : WaiterInv(x) /\ ClaimInv(x) /\ DestInv(x)
  BY DEF CvInv
<1>2. /\ pc[t] = "crit" /\ user_mutex \in {NoMutex, mtx[t]}
      /\ fifo' = Append(fifo, t) /\ user_mutex' = mtx[t]
      /\ claims' = [claims EXCEPT ![mtx[t]] = Tail(@)]
      /\ pc' = [pc EXCEPT ![t] = "waiting"]
      /\ UNCHANGED <<mtx, sent, batch, dest>>
  BY DEF Wait, MayWait, SameMutex, Goto, locals
<1>3. /\ pc' \in [Threads -> Places] /\ pc'[t] = "waiting" /\ pc'[t] \in Waiting
      /\ \A x \in Threads : x # t => pc'[x] = pc[x]
  BY <1>1, <1>2 DEF TypeOK, Places, Waiting
<1>4. pc[t] \notin Waiting
  BY <1>2 DEF Waiting
<1>5. ~InFifo(t) /\ ~InBatch(t) /\ t \notin sent /\ batch[t] = <<>>
  BY <1>2, <1>4, OutsideWait
<1>6. Holds(t)
  BY <1>1, <1>2 DEF ClaimInv
<1>7. /\ claims' \in [Mutexes -> Seq(Threads)]
      /\ \A n \in Mutexes : IsInjective(claims'[n])
      /\ \A n \in Mutexes, x \in Threads :
           Contains(claims'[n], x) <=> Contains(claims[n], x) /\ ~(n = mtx[t] /\ x = t)
  BY <1>1, <1>2, <1>6, ReleaseWrites
<1>8. /\ fifo' \in Seq(Threads) /\ IsInjective(fifo')
      /\ \A x : Contains(fifo', x) <=> Contains(fifo, x) \/ x = t
  <2>1. fifo \in Seq(Threads) /\ IsInjective(fifo) /\ ~Contains(fifo, t)
    BY <1>1, <1>5 DEF TypeOK, ListInv, InFifo
  <2>2. /\ Append(fifo, t) \in Seq(Threads) /\ IsInjective(Append(fifo, t))
        /\ \A x : Contains(Append(fifo, t), x) <=> Contains(fifo, x) \/ x = t
    BY <2>1, AppendTo
  <2>3. QED
    BY <1>2, <2>2
<1>9. TypeOK'
  BY <1>1, <1>2, <1>3, <1>7, <1>8 DEF TypeOK
<1>10. ListInv'
  <2>1. \A u \in Threads : IsInjective(batch'[u]) /\ (pc'[u] # "send" => batch'[u] = <<>>)
    BY <1>1, <1>2, <1>3, <1>5 DEF ListInv
  <2>2. QED
    BY <1>1, <1>2, <1>7, <1>8, <2>1 DEF ListInv
<1>11. ASSUME NEW x \in Threads
       PROVE  WaiterInv(x)' /\ ClaimInv(x)' /\ DestInv(x)'
  <2>1. WaiterInv(x) /\ ClaimInv(x) /\ DestInv(x)
    BY <1>1
  <2>2. (InFifo(x)' <=> InFifo(x) \/ x = t) /\ (InBatch(x)' <=> InBatch(x))
    BY <1>2, <1>8 DEF InFifo, InBatch
  <2>3. CASE x = t
    <3>1. mtx[t] \in Mutexes
      BY <1>1 DEF TypeOK
    <3>2. \A n \in Mutexes : Contains(claims[n], t) => n = mtx[t]
      BY <1>1 DEF ClaimInv
    <3>3. \A n \in Mutexes : ~Contains(claims'[n], t)
      BY <1>7, <3>2
    <3>4. ClaimInv(t)'
      BY <1>2, <1>3, <1>5, <3>1, <3>3 DEF ClaimInv, Waiting, Waking
    <3>5. WaiterInv(t)'
      BY <1>2, <1>3, <1>5, <2>2, <2>3 DEF WaiterInv
    <3>6. DestInv(t)'
      BY <1>2, <1>5 DEF DestInv, InBatch
    <3>7. QED
      BY <2>3, <3>4, <3>5, <3>6
  <2>4. CASE x # t
    <3>1. ClaimInv(x)'
      BY <1>2, <1>3, <2>4, OthersAfterRelease
    <3>2. WaiterInv(x)'
      BY <1>2, <1>3, <2>1, <2>2, <2>4, WaiterFrame
    <3>3. InFifo(x) => mtx[x] = mtx[t]
      <4>1. mtx[x] \in Mutexes
        BY <1>1 DEF TypeOK
      <4>2. InFifo(x) => user_mutex = mtx[x]
        BY <2>1 DEF DestInv
      <4>3. QED
        BY <1>2, <4>1, <4>2
    <3>4. DestInv(x)'
      BY <1>2, <2>1, <2>2, <2>4, <3>3 DEF DestInv
    <3>5. QED
      BY <3>1, <3>2, <3>4
  <2>5. QED
    BY <2>3, <2>4
<1>12. QED
  BY <1>9, <1>10, <1>11 DEF CvInv

\* receive_lock(): the mutex is the waiter's.
LEMMA ReceiveLockKeeps ==
    ASSUME CvInv, NEW t \in Threads, ReceiveLock(t)
    PROVE  CvInv'
<1>1. /\ TypeOK /\ ListInv
      /\ \A x \in Threads : WaiterInv(x) /\ ClaimInv(x) /\ DestInv(x)
  BY DEF CvInv
<1>2. /\ pc[t] \in {"waiting", "collect"} /\ t \in sent /\ Holds(t) /\ sent' = sent \ {t}
      /\ pc' = [pc EXCEPT ![t] = "crit"]
      /\ UNCHANGED <<claims, fifo, user_mutex, mtx, batch, dest>>
  BY DEF ReceiveLock, Woken, Goto, cond, locals
<1>3. /\ pc' \in [Threads -> Places] /\ pc'[t] = "crit" /\ pc'[t] \notin Waiting
      /\ \A x \in Threads : x # t => pc'[x] = pc[x]
  BY <1>1, <1>2 DEF TypeOK, Places, Waiting
<1>4. pc[t] \in Waiting /\ pc[t] # "send"
  BY <1>2 DEF Waiting
<1>5. batch[t] = <<>> /\ ~InFifo(t) /\ ~InBatch(t) /\ Contains(claims[mtx[t]], t)
  BY <1>2, <1>4, OutsideWait
<1>6. TypeOK'
  BY <1>1, <1>2, <1>3 DEF TypeOK
<1>7. ListInv'
  <2>1. \A u \in Threads : IsInjective(batch'[u]) /\ (pc'[u] # "send" => batch'[u] = <<>>)
    BY <1>1, <1>2, <1>3, <1>5 DEF ListInv
  <2>2. QED
    BY <1>1, <1>2, <2>1 DEF ListInv
<1>8. ASSUME NEW x \in Threads
      PROVE  WaiterInv(x)' /\ ClaimInv(x)' /\ DestInv(x)'
  <2>1. WaiterInv(x) /\ ClaimInv(x) /\ DestInv(x)
    BY <1>1
  <2>2. /\ InFifo(x)' <=> InFifo(x)
        /\ InBatch(x)' <=> InBatch(x)
        /\ Holds(x)' <=> Holds(x)
    BY <1>2 DEF InFifo, InBatch, Holds
  <2>3. DestInv(x)'
    BY <1>2, <2>1 DEF DestInv, InFifo
  <2>4. CASE x = t
    <3>1. ClaimInv(t)'
      BY <1>2, <1>3, <1>5, <2>1, <2>2, <2>4 DEF ClaimInv, Waiting, Waking
    <3>2. WaiterInv(t)'
      BY <1>2, <1>3, <1>5, <2>2, <2>4 DEF WaiterInv
    <3>3. QED
      BY <2>3, <2>4, <3>1, <3>2
  <2>5. CASE x # t
    <3>1. ClaimInv(x)'
      BY <1>1, <1>2, <1>3, <2>1, <2>2, <2>5, ClaimFrame
    <3>2. WaiterInv(x)'
      BY <1>2, <1>3, <2>1, <2>2, <2>5, WaiterFrame
    <3>3. QED
      BY <2>3, <3>1, <3>2
  <2>6. QED
    BY <2>4, <2>5
<1>9. QED
  BY <1>6, <1>7, <1>8 DEF CvInv

\* A waiter that is still in a list queues for no mutex.
LEMMA ListedUnclaimed ==
    ASSUME CvInv, NEW h \in Threads, InFifo(h) \/ InBatch(h)
    PROVE  \A n \in Mutexes : ~Contains(claims[n], h)
<1>1. ClaimInv(h) /\ pc[h] \in Waiting /\ h \notin sent
  BY OutsideWait DEF CvInv
<1>2. QED
  BY <1>1 DEF ClaimInv

\* A thread that joins the queue of a mutex takes nothing from the others.
LEMMA OthersAfterClaim ==
    ASSUME CvInv, NEW m \in Mutexes, NEW h \in Threads, Claim(m, h), ~Contains(claims[m], h),
           mtx' = mtx, NEW x \in Threads, x # h
    PROVE  /\ \A n \in Mutexes : Contains(claims'[n], x) <=> Contains(claims[n], x)
           /\ Holds(x) => Holds(x)'
           /\ pc'[x] = pc[x] /\ (x \in sent' <=> x \in sent) => ClaimInv(x)'
<1>1. TypeOK /\ ListInv /\ ClaimInv(x)
  BY DEF CvInv
<1>2. /\ \A n \in Mutexes, y \in Threads :
           Contains(claims'[n], y) <=> Contains(claims[n], y) \/ (n = m /\ y = h)
      /\ \A n \in Mutexes : claims[n] # <<>> =>
           claims'[n] # <<>> /\ Head(claims'[n]) = Head(claims[n])
  BY <1>1, ClaimWrites
<1>3. mtx[x] \in Mutexes
  BY <1>1 DEF TypeOK
<1>4. Holds(x) => Holds(x)'
  BY <1>2, <1>3 DEF Holds
<1>5. \A n \in Mutexes : Contains(claims'[n], x) <=> Contains(claims[n], x)
  BY <1>2
<1>6. QED
  BY <1>1, <1>4, <1>5, ClaimFrame

\* A waiter that is passed to send_lock() queues for the mutex it waits with.
LEMMA SentClaims ==
    ASSUME CvInv, NEW h \in Threads, InFifo(h) \/ InBatch(h), Claim(mtx[h], h),
           mtx' = mtx, pc'[h] = pc[h], h \in sent'
    PROVE  ClaimInv(h)'
<1>1. TypeOK /\ ListInv /\ ClaimInv(h)
  BY DEF CvInv
<1>2. PICK m \in Mutexes : m = mtx[h]
  BY <1>1 DEF TypeOK
<1>3. \A n \in Mutexes : ~Contains(claims[n], h)
  BY ListedUnclaimed
<1>4. \A n \in Mutexes : Contains(claims'[n], h) <=> n = m
  <2>1. Claim(m, h) /\ ~Contains(claims[m], h)
    BY <1>2, <1>3
  <2>2. \A n \in Mutexes, x \in Threads :
          Contains(claims'[n], x) <=> Contains(claims[n], x) \/ (n = m /\ x = h)
    BY <1>1, <2>1, ClaimWrites
  <2>3. QED
    BY <1>3, <2>2
<1>5. pc[h] \in Waiting
  BY OutsideWait
<1>6. pc[h] \notin {"run", "crit"} /\ pc[h] \notin Waking
  BY <1>5 DEF Waiting, Waking
<1>7. QED
  BY <1>2, <1>4, <1>6 DEF ClaimInv

\* An expired waiter takes its record back, and locks the mutex.
LEMMA RemoveExpiredKeeps ==
    ASSUME CvInv, NEW t \in Threads, RemoveExpired(t)
    PROVE  CvInv'
<1>1. /\ TypeOK /\ ListInv
      /\ \A x \in Threads : WaiterInv(x) /\ ClaimInv(x) /\ DestInv(x)
  BY DEF CvInv
<1>2. /\ pc[t] = "expired" /\ Claim(mtx[t], t) /\ pc' = [pc EXCEPT ![t] = "relock"]
      /\ UNCHANGED <<user_mutex, mtx, sent, batch, dest>>
  BY DEF RemoveExpired, Goto, locals
<1>3. PICK i \in DOMAIN fifo : fifo[i] = t /\ fifo' = Erase(fifo, i)
  BY DEF RemoveExpired
<1>4. /\ pc' \in [Threads -> Places] /\ pc'[t] = "relock" /\ pc'[t] \notin Waiting
      /\ \A x \in Threads : x # t => pc'[x] = pc[x]
  BY <1>1, <1>2 DEF TypeOK, Places, Waiting
<1>5. /\ fifo' \in Seq(Threads) /\ IsInjective(fifo') /\ InFifo(t)
      /\ \A x : Contains(fifo', x) <=> Contains(fifo, x) /\ x # t
  <2>1. fifo \in Seq(Threads) /\ IsInjective(fifo)
    BY <1>1 DEF TypeOK, ListInv
  <2>2. /\ Erase(fifo, i) \in Seq(Threads) /\ IsInjective(Erase(fifo, i))
        /\ Contains(fifo, fifo[i])
        /\ \A x : Contains(Erase(fifo, i), x) <=> Contains(fifo, x) /\ x # fifo[i]
    BY <2>1, EraseFrom
  <2>3. QED
    BY <1>3, <2>2 DEF InFifo
<1>6. PICK m \in Mutexes : m = mtx[t]
  BY <1>1 DEF TypeOK
<1>7. pc[t] \in Waiting /\ t \notin sent /\ batch[t] = <<>> /\ ~InBatch(t)
  BY <1>1, <1>2, <1>5, OutsideWait DEF WaiterInv
<1>8. \A n \in Mutexes : ~Contains(claims[n], t)
  BY <1>5, ListedUnclaimed
<1>9. /\ claims' \in [Mutexes -> Seq(Threads)]
      /\ \A n \in Mutexes : IsInjective(claims'[n])
      /\ \A n \in Mutexes : Contains(claims'[n], t) <=> n = m
  <2>1. Claim(m, t) /\ ~Contains(claims[m], t)
    BY <1>2, <1>6, <1>8
  <2>2. /\ claims' \in [Mutexes -> Seq(Threads)]
        /\ \A n \in Mutexes : IsInjective(claims'[n])
        /\ \A n \in Mutexes, x \in Threads :
             Contains(claims'[n], x) <=> Contains(claims[n], x) \/ (n = m /\ x = t)
    BY <1>1, <2>1, ClaimWrites
  <2>3. QED
    BY <1>8, <2>2
<1>10. TypeOK'
  BY <1>1, <1>2, <1>4, <1>5, <1>9 DEF TypeOK
<1>11. ListInv'
  <2>1. \A u \in Threads : IsInjective(batch'[u]) /\ (pc'[u] # "send" => batch'[u] = <<>>)
    BY <1>1, <1>2, <1>4, <1>7 DEF ListInv
  <2>2. QED
    BY <1>1, <1>2, <1>5, <1>9, <2>1 DEF ListInv
<1>12. ASSUME NEW x \in Threads
       PROVE  WaiterInv(x)' /\ ClaimInv(x)' /\ DestInv(x)'
  <2>1. WaiterInv(x) /\ ClaimInv(x) /\ DestInv(x)
    BY <1>1
  <2>2. (InFifo(x)' <=> InFifo(x) /\ x # t) /\ (InBatch(x)' <=> InBatch(x))
    BY <1>2, <1>5 DEF InFifo, InBatch
  <2>3. DestInv(x)'
    BY <1>2, <2>1, <2>2 DEF DestInv
  <2>4. CASE x = t
    <3>1. ClaimInv(t)'
      BY <1>2, <1>4, <1>6, <1>7, <1>9 DEF ClaimInv, Waiting, Waking
    <3>2. WaiterInv(t)'
      BY <1>2, <1>4, <1>7, <2>2, <2>4 DEF WaiterInv
    <3>3. QED
      BY <2>3, <2>4, <3>1, <3>2
  <2>5. CASE x # t
    <3>1. ClaimInv(x)'
      BY <1>2, <1>4, <1>6, <1>8, <2>5, OthersAfterClaim
    <3>2. WaiterInv(x)'
      BY <1>2, <1>4, <2>1, <2>2, <2>5, WaiterFrame
    <3>3. QED
      BY <2>3, <3>1, <3>2
  <2>6. QED
    BY <2>4, <2>5
<1>13. QED
  BY <1>10, <1>11, <1>12 DEF CvInv

\* wake_one(): the oldest waiter is sent to its mutex.
LEMMA WakeOneKeeps ==
    ASSUME CvInv, NEW t \in Threads, WakeOne(t)
    PROVE  CvInv'
<1>1. /\ TypeOK /\ ListInv
      /\ \A x \in Threads : WaiterInv(x) /\ ClaimInv(x) /\ DestInv(x)
  BY DEF CvInv
<1>2. /\ pc[t] = "wake_one" /\ fifo # <<>> /\ fifo' = Tail(fifo)
      /\ Claim(user_mutex, Head(fifo)) /\ sent' = sent \cup {Head(fifo)}
      /\ user_mutex' = IF fifo' = <<>> THEN NoMutex ELSE user_mutex
      /\ pc' = [pc EXCEPT ![t] = Return(t)]
      /\ UNCHANGED <<mtx, batch, dest>>
  BY DEF WakeOne, Goto, locals
<1>3. /\ fifo' \in Seq(Threads) /\ IsInjective(fifo')
      /\ Head(fifo) \in Threads /\ Contains(fifo, Head(fifo))
      /\ \A x : Contains(fifo', x) <=> Contains(fifo, x) /\ x # Head(fifo)
  <2>1. fifo \in Seq(Threads) /\ IsInjective(fifo)
    BY <1>1 DEF TypeOK, ListInv
  <2>2. /\ Tail(fifo) \in Seq(Threads) /\ IsInjective(Tail(fifo))
        /\ Head(fifo) \in Threads /\ Contains(fifo, Head(fifo))
        /\ \A x : Contains(Tail(fifo), x) <=> Contains(fifo, x) /\ x # Head(fifo)
    BY <1>2, <2>1, PopFrom
  <2>3. QED
    BY <1>2, <2>2
<1>4. PICK h \in Threads : h = Head(fifo)
  BY <1>3
<1>5. PICK l \in Places : l = Return(t)
  BY <1>2, ReturnClaims DEF Waking
<1>6. /\ l \notin Waiting /\ l \notin Waking /\ l # "send" /\ l \notin {"lock", "relock"}
      /\ l = "crit" => Holds(t) /\ Contains(claims[mtx[t]], t)
      /\ l = "run" => ~Contains(claims[mtx[t]], t)
      /\ pc[t] \notin Waiting /\ t \notin sent
  BY <1>2, <1>5, ReturnClaims DEF Waking
<1>7. /\ pc' \in [Threads -> Places] /\ pc'[t] = l
      /\ \A x \in Threads : x # t => pc'[x] = pc[x]
  BY <1>1, <1>2, <1>5 DEF TypeOK
<1>8. InFifo(h) /\ pc[h] \in Waiting /\ h \notin sent /\ ~InBatch(h) /\ user_mutex = mtx[h] /\ h # t
  <2>1. InFifo(h)
    BY <1>3, <1>4 DEF InFifo
  <2>2. pc[h] \in Waiting /\ h \notin sent
    BY <2>1, OutsideWait
  <2>3. QED
    BY <1>1, <1>6, <2>1, <2>2 DEF WaiterInv, DestInv
<1>9. PICK m \in Mutexes : m = mtx[h]
  BY <1>1 DEF TypeOK
<1>10. \A n \in Mutexes : ~Contains(claims[n], h)
  BY <1>8, ListedUnclaimed
<1>11. Claim(m, h) /\ sent' = sent \cup {h}
  BY <1>2, <1>4, <1>8, <1>9
<1>12. /\ claims' \in [Mutexes -> Seq(Threads)]
       /\ \A n \in Mutexes : IsInjective(claims'[n])
  BY <1>1, <1>10, <1>11, ClaimWrites
<1>13. batch[t] = <<>>
  BY <1>2, OutsideWait
<1>14. TypeOK'
  <2>1. user_mutex' \in Mutexes \cup {NoMutex}
    BY <1>1, <1>2 DEF TypeOK
  <2>2. sent' \in SUBSET Threads
    BY <1>1, <1>11 DEF TypeOK
  <2>3. QED
    BY <1>1, <1>2, <1>3, <1>7, <1>12, <2>1, <2>2 DEF TypeOK
<1>15. ListInv'
  <2>1. \A u \in Threads : IsInjective(batch'[u]) /\ (pc'[u] # "send" => batch'[u] = <<>>)
    BY <1>1, <1>2, <1>7, <1>13 DEF ListInv
  <2>2. QED
    BY <1>1, <1>2, <1>3, <1>12, <2>1 DEF ListInv
<1>16. ASSUME NEW x \in Threads
       PROVE  WaiterInv(x)' /\ ClaimInv(x)' /\ DestInv(x)'
  <2>1. WaiterInv(x) /\ ClaimInv(x) /\ DestInv(x)
    BY <1>1
  <2>2. (InFifo(x)' <=> InFifo(x) /\ x # h) /\ (InBatch(x)' <=> InBatch(x))
    BY <1>2, <1>3, <1>4 DEF InFifo, InBatch
  <2>3. DestInv(x)'
    <3>1. InFifo(x)' => fifo' # <<>>
      BY NobodyIn DEF InFifo
    <3>2. QED
      BY <1>2, <2>1, <2>2, <3>1 DEF DestInv
  <2>4. CASE x = h
    <3>1. pc'[h] = pc[h] /\ h \in sent'
      BY <1>7, <1>8, <1>11
    <3>2. ClaimInv(h)'
      BY <1>2, <1>8, <1>9, <1>11, <3>1, SentClaims
    <3>3. WaiterInv(h)'
      BY <1>8, <2>2, <2>4, <3>1 DEF WaiterInv
    <3>4. QED
      BY <2>3, <2>4, <3>2, <3>3
  <2>5. CASE x # h
    <3>1. x \in sent' <=> x \in sent
      BY <1>11, <2>5
    <3>2. /\ \A n \in Mutexes : Contains(claims'[n], x) <=> Contains(claims[n], x)
          /\ Holds(x) => Holds(x)'
          /\ pc'[x] = pc[x] /\ (x \in sent' <=> x \in sent) => ClaimInv(x)'
      BY <1>2, <1>10, <1>11, <2>5, OthersAfterClaim
    <3>3. WaiterInv(x)'
      BY <1>6, <1>7, <2>1, <2>2, <2>5, <3>1, WaiterFrame
    <3>4. ClaimInv(x)'
      <4>1. CASE x = t
        <5>1. mtx[t] \in Mutexes /\ mtx' = mtx
          BY <1>1, <1>2 DEF TypeOK
        <5>2. QED
          BY <1>6, <1>7, <2>1, <3>1, <3>2, <4>1, <5>1 DEF ClaimInv
      <4>2. CASE x # t
        BY <1>7, <3>1, <3>2, <4>2
      <4>3. QED
        BY <4>1, <4>2
    <3>5. QED
      BY <2>3, <3>3, <3>4
  <2>6. QED
    BY <2>4, <2>5
<1>17. QED
  BY <1>14, <1>15, <1>16 DEF CvInv

\* wake_all(): the whole list is taken over.
LEMMA WakeAllTakeKeeps ==
    ASSUME CvInv, NEW t \in Threads, WakeAllTake(t)
    PROVE  CvInv'
<1>1. /\ TypeOK /\ ListInv
      /\ \A x \in Threads : WaiterInv(x) /\ ClaimInv(x) /\ DestInv(x)
  BY DEF CvInv
<1>2. /\ pc[t] = "wake_all" /\ batch' = [batch EXCEPT ![t] = fifo]
      /\ dest' = [dest EXCEPT ![t] = user_mutex] /\ fifo' = <<>> /\ user_mutex' = NoMutex
      /\ pc' = [pc EXCEPT ![t] = "send"] /\ UNCHANGED <<claims, mtx, sent>>
  BY DEF WakeAllTake, Goto
<1>3. /\ pc' \in [Threads -> Places] /\ pc'[t] = "send"
      /\ \A x \in Threads : x # t => pc'[x] = pc[x]
  BY <1>1, <1>2 DEF TypeOK, Places, Waking
<1>4. pc[t] \notin Waiting /\ pc[t] # "send"
  BY <1>2 DEF Waiting
<1>5. batch[t] = <<>> /\ t \notin sent
  BY <1>4, OutsideWait
<1>6. /\ batch' \in [Threads -> Seq(Threads)] /\ batch'[t] = fifo
      /\ \A u \in Threads : u # t => batch'[u] = batch[u]
      /\ dest' \in [Threads -> Mutexes \cup {NoMutex}] /\ dest'[t] = user_mutex
      /\ \A u \in Threads : u # t => dest'[u] = dest[u]
  BY <1>1, <1>2 DEF TypeOK
<1>7. ASSUME NEW x \in Threads
      PROVE  ~InFifo(x)' /\ (InBatch(x)' <=> InFifo(x) \/ InBatch(x))
  <2>1. ~InFifo(x)'
    BY <1>2, NobodyIn DEF InFifo
  <2>2. ~Contains(batch[t], x)
    BY <1>5, NobodyIn
  <2>3. QED
    BY <1>6, <2>1, <2>2 DEF InFifo, InBatch
<1>8. TypeOK'
  BY <1>1, <1>2, <1>3, <1>6, NobodyIn DEF TypeOK
<1>9. ListInv'
  <2>1. \A u \in Threads : IsInjective(batch'[u]) /\ (pc'[u] # "send" => batch'[u] = <<>>)
    BY <1>1, <1>3, <1>6 DEF ListInv
  <2>2. ASSUME NEW u \in Threads, NEW v \in Threads, NEW x \in Threads,
               Contains(batch'[u], x), Contains(batch'[v], x)
        PROVE  u = v
    <3>1. ~(InFifo(x) /\ InBatch(x))
      BY <1>1 DEF WaiterInv
    <3>2. (u = t <=> InFifo(x)) /\ (v = t <=> InFifo(x))
      BY <1>6, <2>2, <3>1 DEF InFifo, InBatch
    <3>3. QED
      BY <1>1, <1>6, <2>2, <3>2 DEF ListInv
  <2>3. IsInjective(fifo') /\ \A m \in Mutexes : IsInjective(claims'[m])
    BY <1>1, <1>2, NobodyIn DEF ListInv
  <2>4. QED
    BY <2>1, <2>2, <2>3 DEF ListInv
<1>10. ASSUME NEW x \in Threads
       PROVE  WaiterInv(x)' /\ ClaimInv(x)' /\ DestInv(x)'
  <2>1. WaiterInv(x) /\ ClaimInv(x) /\ DestInv(x)
    BY <1>1
  <2>2. pc'[x] \in Waiting <=> pc[x] \in Waiting
    BY <1>3, <1>4 DEF Waiting
  <2>3. WaiterInv(x)'
    BY <1>2, <1>7, <2>1, <2>2 DEF WaiterInv
  <2>4. DestInv(x)'
    <3>1. ASSUME NEW u \in Threads, Contains(batch'[u], x)
          PROVE  dest'[u] = mtx'[x]
      BY <1>2, <1>6, <2>1, <3>1 DEF DestInv, InFifo
    <3>2. QED
      BY <1>7, <3>1 DEF DestInv
  <2>5. ClaimInv(x)'
    <3>1. CASE x = t
      <4>1. /\ "send" \in Places /\ "send" \in Waking /\ "send" \notin Waiting /\ pc[t] \in Waking
            /\ "send" \notin {"lock", "relock", "crit"} /\ "send" # "run" /\ "send" # "crit"
        BY <1>2 DEF Places, Waking, Waiting
      <4>2. Contains(claims[mtx[t]], t) => Holds(t)
        BY <2>1, <3>1, <4>1 DEF ClaimInv
      <4>3. QED
        BY <1>2, <1>3, <1>5, <2>1, <3>1, <4>1, <4>2, ClaimMoved
    <3>2. CASE x # t
      <4>1. Holds(x)' <=> Holds(x)
        BY <1>2 DEF Holds
      <4>2. QED
        BY <1>1, <1>2, <1>3, <2>1, <3>2, <4>1, ClaimFrame
    <3>3. QED
      BY <3>1, <3>2
  <2>6. QED
    BY <2>3, <2>4, <2>5
<1>11. QED
  BY <1>8, <1>9, <1>10 DEF CvInv

\* wake_all(): one of the waiters it took is sent to its mutex.
LEMMA WakeAllSendKeeps ==
    ASSUME CvInv, NEW t \in Threads, NEW i \in DOMAIN batch[t], WakeAllSend(t, i)
    PROVE  CvInv'
<1>1. /\ TypeOK /\ ListInv
      /\ \A x \in Threads : WaiterInv(x) /\ ClaimInv(x) /\ DestInv(x)
  BY DEF CvInv
<1>2. /\ pc[t] = "send" /\ batch' = [batch EXCEPT ![t] = Erase(batch[t], i)]
      /\ Claim(dest[t], batch[t][i]) /\ sent' = sent \cup {batch[t][i]}
      /\ UNCHANGED <<pc, fifo, user_mutex, mtx, dest>>
  BY DEF WakeAllSend, cond
<1>3. /\ Erase(batch[t], i) \in Seq(Threads) /\ IsInjective(Erase(batch[t], i))
      /\ batch[t][i] \in Threads /\ Contains(batch[t], batch[t][i])
      /\ \A x : Contains(Erase(batch[t], i), x) <=> Contains(batch[t], x) /\ x # batch[t][i]
  <2>1. batch[t] \in Seq(Threads) /\ IsInjective(batch[t])
    BY <1>1 DEF TypeOK, ListInv
  <2>2. QED
    BY <2>1, EraseFrom
<1>4. PICK h \in Threads : h = batch[t][i]
  BY <1>3
<1>5. /\ batch' \in [Threads -> Seq(Threads)] /\ IsInjective(batch'[t])
      /\ \A x : Contains(batch'[t], x) <=> Contains(batch[t], x) /\ x # h
      /\ \A u \in Threads : u # t => batch'[u] = batch[u]
  <2>1. batch'[t] = Erase(batch[t], i) /\ \A u \in Threads : u # t => batch'[u] = batch[u]
    BY <1>1, <1>2 DEF TypeOK
  <2>2. batch' \in [Threads -> Seq(Threads)]
    BY <1>1, <1>2, <1>3 DEF TypeOK
  <2>3. QED
    BY <1>3, <1>4, <2>1, <2>2
<1>6. /\ Contains(batch[t], h) /\ InBatch(h) /\ pc[h] \in Waiting /\ h \notin sent
      /\ ~InFifo(h) /\ dest[t] = mtx[h]
  <2>1. Contains(batch[t], h)
    BY <1>3, <1>4
  <2>2. InBatch(h)
    BY <2>1 DEF InBatch
  <2>3. pc[h] \in Waiting /\ h \notin sent
    BY <2>2, OutsideWait
  <2>4. QED
    BY <1>1, <2>1, <2>2, <2>3 DEF WaiterInv, DestInv
<1>7. \A u \in Threads : Contains(batch[u], h) => u = t
  BY <1>1, <1>6 DEF ListInv
<1>8. PICK m \in Mutexes : m = mtx[h]
  BY <1>1 DEF TypeOK
<1>9. \A n \in Mutexes : ~Contains(claims[n], h)
  BY <1>6, ListedUnclaimed
<1>10. Claim(m, h) /\ sent' = sent \cup {h}
  BY <1>2, <1>4, <1>6, <1>8
<1>11. /\ claims' \in [Mutexes -> Seq(Threads)]
       /\ \A n \in Mutexes : IsInjective(claims'[n])
  BY <1>1, <1>9, <1>10, ClaimWrites
<1>12. TypeOK'
  <2>1. sent' \in SUBSET Threads
    BY <1>1, <1>10 DEF TypeOK
  <2>2. QED
    BY <1>1, <1>2, <1>5, <1>11, <2>1 DEF TypeOK
<1>13. \A u, x \in Threads : Contains(batch'[u], x) <=> Contains(batch[u], x) /\ x # h
  BY <1>5, <1>7
<1>14. ListInv'
  <2>1. \A u \in Threads : IsInjective(batch'[u]) /\ (pc'[u] # "send" => batch'[u] = <<>>)
    BY <1>1, <1>2, <1>5 DEF ListInv
  <2>2. \A u, v, x \in Threads : Contains(batch'[u], x) /\ Contains(batch'[v], x) => u = v
    BY <1>1, <1>13 DEF ListInv
  <2>3. QED
    BY <1>1, <1>2, <1>11, <2>1, <2>2 DEF ListInv
<1>15. ASSUME NEW x \in Threads
       PROVE  WaiterInv(x)' /\ ClaimInv(x)' /\ DestInv(x)'
  <2>1. WaiterInv(x) /\ ClaimInv(x) /\ DestInv(x)
    BY <1>1
  <2>2. (InFifo(x)' <=> InFifo(x)) /\ (InBatch(x)' <=> InBatch(x) /\ x # h)
    BY <1>2, <1>13 DEF InFifo, InBatch
  <2>3. DestInv(x)'
    BY <1>2, <1>13, <2>1, <2>2 DEF DestInv
  <2>4. CASE x = h
    <3>1. pc'[h] = pc[h] /\ h \in sent'
      BY <1>2, <1>10
    <3>2. ClaimInv(h)'
      BY <1>2, <1>6, <1>8, <1>10, <3>1, SentClaims
    <3>3. WaiterInv(h)'
      BY <1>6, <2>2, <2>4, <3>1 DEF WaiterInv
    <3>4. QED
      BY <2>3, <2>4, <3>2, <3>3
  <2>5. CASE x # h
    <3>1. (x \in sent' <=> x \in sent) /\ pc'[x] = pc[x]
      BY <1>2, <1>10, <2>5
    <3>2. ClaimInv(x)'
      BY <1>2, <1>9, <1>10, <2>5, <3>1, OthersAfterClaim
    <3>3. WaiterInv(x)'
      BY <2>1, <2>2, <2>5, <3>1, WaiterFrame
    <3>4. QED
      BY <2>3, <3>2, <3>3
  <2>6. QED
    BY <2>4, <2>5
<1>16. QED
  BY <1>12, <1>14, <1>15 DEF CvInv

-----------------------------------------------------------------------------
(***************************************************************************)
(* The invariant.                                                          *)
(***************************************************************************)
\* A condition variable starts without waiters, and its users without locks.
LEMMA InitHolds ==
    ASSUME Init, Mutexes # {}
    PROVE  CvInv
<1>1. \A t \in Threads : /\ pc[t] = "run" /\ pc[t] \notin Waiting /\ pc[t] \notin Waking
                         /\ batch[t] = <<>> /\ mtx[t] \in Mutexes
  BY DEF Init, Waiting, Waking
<1>2. \A m \in Mutexes : claims[m] = <<>>
  BY DEF Init
<1>3. TypeOK
  <2>1. claims \in [Mutexes -> Seq(Threads)] /\ batch \in [Threads -> Seq(Threads)]
    BY NobodyIn DEF Init
  <2>2. pc \in [Threads -> Places]
    BY DEF Init, Places
  <2>3. mtx \in [Threads -> Mutexes]
    BY <1>1 DEF Init
  <2>4. QED
    BY <2>1, <2>2, <2>3, NobodyIn DEF Init, TypeOK
<1>4. ListInv
  BY <1>1, <1>2, NobodyIn DEF Init, ListInv
<1>5. ASSUME NEW t \in Threads
      PROVE  WaiterInv(t) /\ ClaimInv(t) /\ DestInv(t)
  <2>1. ~InFifo(t) /\ ~InBatch(t) /\ t \notin sent
    BY <1>1, NobodyIn DEF Init, InFifo, InBatch
  <2>2. WaiterInv(t)
    BY <1>1, <2>1 DEF WaiterInv
  <2>3. ClaimInv(t)
    BY <1>1, <1>2, <2>1, NobodyIn DEF ClaimInv
  <2>4. DestInv(t)
    BY <2>1 DEF DestInv, InBatch
  <2>5. QED
    BY <2>2, <2>3, <2>4
<1>6. QED
  BY <1>3, <1>4, <1>5 DEF CvInv

\* Every step of lock(), unlock(), wait(), wake_one() and wake_all(), and the
\* expiry of a timer, keep the invariant.
LEMMA NextKeeps ==
    ASSUME CvInv, [Next]_vars, NoMutex \notin Mutexes
    PROVE  CvInv'
<1>1. CASE UNCHANGED vars
  BY <1>1 DEF vars, CvInv, TypeOK, ListInv, WaiterInv, ClaimInv, DestInv, InFifo, InBatch, Holds
<1>2. ASSUME NEW t \in Threads, Step(t)
      PROVE  CvInv'
  BY <1>2, LockedKeeps, RemoveExpiredKeeps, ExpiredTooLateKeeps, ReceiveLockKeeps, WakeOneKeeps,
     WakeOneNobodyKeeps, WakeAllTakeKeeps, WakeAllEndKeeps, WakeAllSendKeeps DEF Step
<1>3. ASSUME NEW t \in Threads, Call(t)
      PROVE  CvInv'
  BY <1>3, LockKeeps, UnlockKeeps, WaitKeeps, ExpireKeeps, WakeCheckKeeps DEF Call
<1>4. QED
  BY <1>1, <1>2, <1>3 DEF Next

\* The invariant of the condition variable holds for any number of threads and
\* mutexes.
THEOREM CvInvariant ==
    ASSUME NoMutex \notin Mutexes, Mutexes # {}
    PROVE  Spec => []CvInv
<1>1. Init => CvInv
  BY InitHolds
<1>2. CvInv /\ [Next]_vars => CvInv'
  BY NextKeeps
<1>3. QED
  BY <1>1, <1>2, PTL DEF Spec

\* No wake-up is lost and none is given twice, however timeouts, wake_one() and
\* wake_all() race: a thread inside wait() is in just one of the list, the
\* hands of one wake_all() and the queue of its mutex, and one that has left
\* wait() is in none.
THEOREM WaitersSafe ==
    ASSUME NoMutex \notin Mutexes, Mutexes # {}
    PROVE  Spec => []WaitersAccounted
<1>1. CvInv => WaitersAccounted
  BY DEF CvInv, WaiterInv, WaitersAccounted
<1>2. QED
  BY <1>1, CvInvariant, PTL

\* wait() returns with the mutex held, once: a thread queues for one mutex at a
\* time, the one it waits with, and owns it in its critical section; and the
\* wake-ups send waiters to the mutex they came with.
THEOREM MutexComesBack ==
    ASSUME NoMutex \notin Mutexes, Mutexes # {}
    PROVE  Spec => []MutexReturned
<1>1. ASSUME CvInv
      PROVE  MutexReturned
  <2>1. TypeOK /\ ListInv /\ \A t \in Threads : ClaimInv(t) /\ DestInv(t)
    BY <1>1 DEF CvInv
  <2>2. ASSUME NEW t \in Threads
        PROVE  /\ pc[t] \in {"lock", "relock", "crit"} \/ t \in sent => InMutex(t)
               /\ pc[t] = "run" => ~InMutex(t)
               /\ pc[t] = "crit" => Holds(t)
    <3>1. mtx[t] \in Mutexes
      BY <2>1 DEF TypeOK
    <3>2. QED
      BY <2>1, <3>1 DEF ClaimInv, InMutex
  <2>3. ASSUME NEW s \in Seq(Threads), NEW i \in DOMAIN s
        PROVE  s[i] \in Threads /\ Contains(s, s[i])
    BY LenProperties DEF Contains
  <2>4. \A i \in DOMAIN fifo : user_mutex = mtx[fifo[i]]
    BY <2>1, <2>3 DEF TypeOK, DestInv, InFifo
  <2>5. \A t \in Threads : \A i \in DOMAIN batch[t] : dest[t] = mtx[batch[t][i]]
    BY <2>1, <2>3 DEF TypeOK, DestInv
  <2>6. QED
    BY <2>1, <2>2, <2>4, <2>5 DEF MutexReturned, ListInv, ClaimInv
<1>2. QED
  BY <1>1, CvInvariant, PTL

=============================================================================
