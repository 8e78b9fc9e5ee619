--------------------------- MODULE LFMutexRefines ---------------------------
(***************************************************************************)
(* Two results about LFMutex that build on the invariant IInv of           *)
(* LFMutexProofs, for any finite set of threads.                           *)
(*                                                                         *)
(* No handoff is forgotten.  A thread stops looking at the handoff on      *)
(* offer only when empty() tells it that nobody is queued; NoticeInv says  *)
(* why that answer can be trusted, although empty() reads two lists at two *)
(* moments: everybody who sleeps can be found in the queue (QueuedInv),    *)
(* and nothing moves to the poplist behind the reader's back (EmptyInv,    *)
(* MovedInv).                                                              *)
(*                                                                         *)
(* The mutex implements module Mutex.  The holder is whoever was given the *)
(* mutex, noticed or not; the line is what was popped and not yet woken,   *)
(* then the poplist, then the pushlist.                                    *)
(***************************************************************************)
EXTENDS LFMutexProofs, LFMutexImpl

\* A step is left to Zenon, unless it names SMT or the temporal prover.
USE ZenonT(40)

\* Where a thread has loaded a handoff number that it still uses.
OldLocations == {"lk_emp", "lk_emp2", "lk_cas", "tl_hcas", "ul_emp", "ul_emp2", "ul_cas"}

\* t will still look at the handoff on offer.
Notices(t) ==
    \/ pc[t] \in {"lk_rec", "lk_push", "lk_hload"}
    \/ pc[t] \in OldLocations /\ old[t] = handoff

\* Whoever sleeps, or is on its way to, is in the queue or in somebody's hands.
QueuedInv ==
    \A w \in Threads :
        pc[w] \in Pushed /\ rec[w] = w /\ w \notin parked /\ ~ woken[w] =>
            Reach(w) \/ \E t \in Threads : Target(t, w)

\* The poplist does not fill up between the two halves of empty(), unless
\* somebody took the handoff.
EmptyInv ==
    \A t \in Threads :
        pc[t] \in {"lk_emp2", "ul_emp2"} /\ old[t] = handoff => poplist = <<>>

\* pop() takes the pushlist only when the poplist is empty, which nobody else fills.
MovedInv == \A u \in Threads : pc[u] \in {"lk_pop2", "ul_pop2"} => poplist = <<>>

NoticeInv == QueuedInv /\ EmptyInv /\ MovedInv /\ HandoffNoticed

\* Every step keeps MovedInv.
LEMMA MovedInvStep ==
    ASSUME NEW t \in Threads, InvStep(t), MovedInv
    PROVE  MovedInv'
<1>s. Shape /\ OneToken /\ MovedInv
  BY BoundsAssumption, SMT DEF InvStep, IInv, TypeOK, Shape
<1> USE <1>s, ThreadsAssumption DEF Shape, MovedInv, OneToken, Tok, TokenLocations, At, Goto,
      InLock, mutex, held, rho, qvars, wvars, locals, popped
<1>1. CASE PopHead(t) BY <1>1 DEF PopHead, Result
<1>2. CASE PopTake(t) BY <1>2 DEF PopTake
<1>3. CASE PopRest(t) BY <1>3 DEF PopRest, Result
<1>4. CASE PopNone(t) BY <1>4 DEF PopNone, Branch
<1>5. CASE EmptyNo(t) BY <1>5 DEF EmptyNo, Branch
<1>6. CASE EmptyMaybe(t) BY <1>6 DEF EmptyMaybe, Branch
<1>7. CASE EmptyYes(t) BY <1>7 DEF EmptyYes, Leave, EndLocals
<1>8. CASE MissHandoff(t) BY <1>8 DEF MissHandoff, Leave, EndLocals
<1>9. CASE Lock(t) BY <1>9 DEF Lock
<1>10. CASE LockCheckOwner(t) BY <1>10 DEF LockCheckOwner, Branch
<1>11. CASE LockDeepen(t) BY <1>11 DEF LockDeepen
<1>12. CASE LockPush(t) BY <1>12 DEF LockPush, Push
<1>13. CASE LockSeeHandoff(t) BY <1>13 DEF LockSeeHandoff
<1>14. CASE LockNoHandoff(t) BY <1>14 DEF LockNoHandoff, Leave, EndLocals
<1>15. CASE LockTakeHandoff(t)
  BY <1>15 DEF LockTakeHandoff, TakeHandoff, EndLocals
<1>16. CASE LockWakeOther(t)
  BY <1>16 DEF LockWakeOther, Leave, EndLocals, Wake
<1>17. CASE LockPoppedSelf(t) BY <1>17 DEF LockPoppedSelf, EndLocals
<1>18. CASE LockWait(t) BY <1>18 DEF LockWait, Branch
<1>19. CASE TakeOwnership(t) BY <1>19 DEF TakeOwnership
<1>20. CASE SendLockWake(t) BY <1>20 DEF SendLockWake, Leave, EndLocals, Wake
<1>21. CASE TryLock(t) BY <1>21 DEF TryLock
<1>22. CASE TryLockCheckOwner(t) BY <1>22 DEF TryLockCheckOwner
<1>23. CASE TryLockLoadHandoff(t) BY <1>23 DEF TryLockLoadHandoff
<1>24. CASE TryLockTakeHandoff(t)
  BY <1>24 DEF TryLockTakeHandoff, TakeHandoff, EndLocals
<1>25. CASE TryLockCount(t) BY <1>25 DEF TryLockCount
<1>26. CASE UnlockShallower(t) BY <1>26 DEF UnlockShallower
<1>27. CASE Unlock(t) BY <1>27 DEF Unlock
<1>28. CASE UnlockCount(t) BY <1>28 DEF UnlockCount
<1>29. CASE UnlockWake(t) BY <1>29 DEF UnlockWake, Leave, EndLocals, Wake
<1>30. CASE UnlockHandoff(t) BY <1>30 DEF UnlockHandoff
<1>31. CASE UnlockTakeHandoff(t)
  BY <1>31 DEF UnlockTakeHandoff, TakeHandoff, EndLocals
<1>32. CASE Park(t) BY <1>32 DEF Park
<1>33. ASSUME NEW w \in Threads, SendLock(t, w) PROVE MovedInv'
  BY <1>33 DEF SendLock
<1> QED
  BY <1>1, <1>2, <1>3, <1>4, <1>5, <1>6, <1>7, <1>8, <1>9, <1>10, <1>11,
     <1>12, <1>13, <1>14, <1>15, <1>16, <1>17, <1>18, <1>19, <1>20,
     <1>21, <1>22, <1>23, <1>24, <1>25, <1>26, <1>27, <1>28, <1>29,
     <1>30, <1>31, <1>32, <1>33 DEF InvStep, Step, Call

\* A record stays reachable until its thread is woken.
LEMMA ReachKept ==
    ASSUME NEW t \in Threads, InvStep(t), MovedInv
    PROVE  \A x \in Threads : Reach(x) =>
             Reach(x)' \/ (pc[t] \in {"lk_got", "ul_wake"} /\ other[t] = x)
<1>s. /\ Shape /\ PopInv /\ OneToken
      /\ taken \in [Threads -> Seq(Threads)]
  BY BoundsAssumption, SMT DEF InvStep, IInv, TypeOK, Shape
<1>y. TypeOK
  BY DEF InvStep, IInv
<1> USE <1>s, ThreadsAssumption DEF Shape, Reach, PopInv, At, Goto, InLock,
      mutex, held, rho, qvars, wvars, locals, popped
<1>1. CASE PopHead(t) BY <1>1, <1>y, PopFacts, SMT DEF PopHead, Result
<1>2. CASE PopTake(t) BY <1>2, NilFacts DEF PopTake
<1>3. CASE PopRest(t)
  <2>1. /\ taken[t] # <<>> /\ poplist' = Tail(taken[t])
        /\ other' = [other EXCEPT ![t] = Head(taken[t])]
        /\ taken' = [taken EXCEPT ![t] = <<>>]
        /\ UNCHANGED pushlist /\ poplist = <<>>
    BY <1>3 DEF PopRest, MovedInv
  <2>2. \A x : In(taken[t], x) => x = Head(taken[t]) \/ In(poplist', x)
    BY <2>1, <1>y, TakenFacts
  <2> QED
    BY <2>1, <2>2, NilFacts
<1>4. CASE PopNone(t) BY <1>4 DEF PopNone, Branch
<1>5. CASE EmptyNo(t) BY <1>5 DEF EmptyNo, Branch
<1>6. CASE EmptyMaybe(t) BY <1>6 DEF EmptyMaybe, Branch
<1>7. CASE EmptyYes(t) BY <1>7 DEF EmptyYes, Leave, EndLocals
<1>8. CASE MissHandoff(t) BY <1>8 DEF MissHandoff, Leave, EndLocals
<1>9. CASE Lock(t) BY <1>9 DEF Lock
<1>10. CASE LockCheckOwner(t) BY <1>10 DEF LockCheckOwner, Branch
<1>11. CASE LockDeepen(t) BY <1>11 DEF LockDeepen
<1>12. CASE LockPush(t) BY <1>12, <1>y, PushFacts DEF LockPush, Push
<1>13. CASE LockSeeHandoff(t) BY <1>13 DEF LockSeeHandoff
<1>14. CASE LockNoHandoff(t) BY <1>14 DEF LockNoHandoff, Leave, EndLocals
<1>15. CASE LockTakeHandoff(t)
  BY <1>15 DEF LockTakeHandoff, TakeHandoff, EndLocals
<1>16. CASE LockWakeOther(t)
  BY <1>16 DEF LockWakeOther, Leave, EndLocals, Wake
<1>17. CASE LockPoppedSelf(t) BY <1>17 DEF LockPoppedSelf, EndLocals
<1>18. CASE LockWait(t) BY <1>18 DEF LockWait, Branch
<1>19. CASE TakeOwnership(t) BY <1>19 DEF TakeOwnership
<1>20. CASE SendLockWake(t) BY <1>20 DEF SendLockWake, Leave, EndLocals, Wake
<1>21. CASE TryLock(t) BY <1>21 DEF TryLock
<1>22. CASE TryLockCheckOwner(t) BY <1>22 DEF TryLockCheckOwner
<1>23. CASE TryLockLoadHandoff(t) BY <1>23 DEF TryLockLoadHandoff
<1>24. CASE TryLockTakeHandoff(t)
  BY <1>24 DEF TryLockTakeHandoff, TakeHandoff, EndLocals
<1>25. CASE TryLockCount(t) BY <1>25 DEF TryLockCount
<1>26. CASE UnlockShallower(t) BY <1>26 DEF UnlockShallower
<1>27. CASE Unlock(t) BY <1>27 DEF Unlock
<1>28. CASE UnlockCount(t) BY <1>28 DEF UnlockCount
<1>29. CASE UnlockWake(t) BY <1>29, SMT DEF UnlockWake, Leave, EndLocals, Wake
<1>30. CASE UnlockHandoff(t) BY <1>30 DEF UnlockHandoff
<1>31. CASE UnlockTakeHandoff(t)
  BY <1>31 DEF UnlockTakeHandoff, TakeHandoff, EndLocals
<1>32. CASE Park(t) BY <1>32 DEF Park
<1>33. ASSUME NEW w \in Threads, SendLock(t, w) PROVE \A x \in Threads :
             Reach(x) => Reach(x)' \/ (pc[t] \in {"lk_got", "ul_wake"} /\ other[t] = x)
  BY <1>33 DEF SendLock
<1> QED
  BY <1>1, <1>2, <1>3, <1>4, <1>5, <1>6, <1>7, <1>8, <1>9, <1>10, <1>11,
     <1>12, <1>13, <1>14, <1>15, <1>16, <1>17, <1>18, <1>19, <1>20,
     <1>21, <1>22, <1>23, <1>24, <1>25, <1>26, <1>27, <1>28, <1>29,
     <1>30, <1>31, <1>32, <1>33 DEF InvStep, Step, Call

\* Every step keeps QueuedInv.
LEMMA QueuedInvStep ==
    ASSUME NEW t \in Threads, InvStep(t), QueuedInv, MovedInv
    PROVE  QueuedInv'
<1>s. Shape /\ WaitInv /\ SendInv /\ PopInv /\ QueuedInv
  BY BoundsAssumption, SMT DEF InvStep, IInv, TypeOK, Shape
<1>r. \A x \in Threads :
          Reach(x) => Reach(x)' \/ (pc[t] \in {"lk_got", "ul_wake"} /\ other[t] = x)
  BY ReachKept
<1> USE <1>s, ThreadsAssumption DEF Shape, QueuedInv, WaitInv, PopInv, Pushed, Target, At, Goto,
      InLock, mutex, held, rho, qvars, wvars, locals, popped
<1>1. CASE PopHead(t) BY <1>1, <1>r, SMT DEF PopHead, Result
<1>2. CASE PopTake(t) BY <1>2, <1>r, SMT DEF PopTake
<1>3. CASE PopRest(t) BY <1>3, <1>r, SMT DEF PopRest, Result
<1>4. CASE PopNone(t) BY <1>4, <1>r, SMT DEF PopNone, Branch
<1>5. CASE EmptyNo(t) BY <1>5, <1>r, SMT DEF EmptyNo, Branch
<1>6. CASE EmptyMaybe(t) BY <1>6, <1>r, SMT DEF EmptyMaybe, Branch
<1>7. CASE EmptyYes(t) BY <1>7, <1>r, SMT DEF EmptyYes, Leave, EndLocals
<1>8. CASE MissHandoff(t) BY <1>8, <1>r, SMT DEF MissHandoff, Leave, EndLocals
<1>9. CASE Lock(t) BY <1>9, <1>r, SMT DEF Lock
<1>10. CASE LockCheckOwner(t) BY <1>10, <1>r, SMT DEF LockCheckOwner, Branch
<1>11. CASE LockDeepen(t) BY <1>11, <1>r, SMT DEF LockDeepen
<1>12. CASE LockPush(t)
  <2>1. /\ pc[t] = "lk_push" /\ pc' = [pc EXCEPT ![t] = "lk_hload"]
        /\ UNCHANGED <<rec, woken, parked>>
    BY <1>12 DEF LockPush
  <2>2. Reach(rec[t])'
    <3>1. TypeOK /\ pushlist' = Append(pushlist, rec[t])
      BY <1>12 DEF LockPush, Push, InvStep, IInv
    <3>2. In(pushlist', rec[t])
      BY <3>1, PushFacts, SMT
    <3> QED
      BY <2>1, <3>2 DEF Reach
  <2>3. \A x \in Threads : Reach(x) => Reach(x)'
    BY <1>r, <2>1
  <2> QED
    BY <2>1, <2>2, <2>3, SMT
<1>13. CASE LockSeeHandoff(t) BY <1>13, <1>r, SMT DEF LockSeeHandoff
<1>14. CASE LockNoHandoff(t)
  BY <1>14, <1>r, SMTT(40) DEF LockNoHandoff, Leave, EndLocals
<1>15. CASE LockTakeHandoff(t)
  BY <1>15, <1>r, SMT DEF LockTakeHandoff, TakeHandoff, EndLocals
<1>16. CASE LockWakeOther(t)
  BY <1>16, <1>r, SMT DEF LockWakeOther, Leave, EndLocals, Wake
<1>17. CASE LockPoppedSelf(t) BY <1>17, <1>r, SMT DEF LockPoppedSelf, EndLocals
<1>18. CASE LockWait(t) BY <1>18, <1>r, SMTT(40) DEF LockWait, Branch
<1>19. CASE TakeOwnership(t) BY <1>19, <1>r, SMT DEF TakeOwnership
<1>20. CASE SendLockWake(t)
  BY <1>20, <1>r, SMT DEF SendLockWake, Leave, EndLocals, Wake
<1>21. CASE TryLock(t) BY <1>21, <1>r, SMT DEF TryLock
<1>22. CASE TryLockCheckOwner(t) BY <1>22, <1>r, SMT DEF TryLockCheckOwner
<1>23. CASE TryLockLoadHandoff(t) BY <1>23, <1>r, SMT DEF TryLockLoadHandoff
<1>24. CASE TryLockTakeHandoff(t)
  BY <1>24, <1>r, SMT DEF TryLockTakeHandoff, TakeHandoff, EndLocals
<1>25. CASE TryLockCount(t) BY <1>25, <1>r, SMT DEF TryLockCount
<1>26. CASE UnlockShallower(t) BY <1>26, <1>r, SMT DEF UnlockShallower
<1>27. CASE Unlock(t) BY <1>27, <1>r, SMT DEF Unlock
<1>28. CASE UnlockCount(t) BY <1>28, <1>r, SMTT(40) DEF UnlockCount
<1>29. CASE UnlockWake(t)
  BY <1>29, <1>r, SMT DEF UnlockWake, Leave, EndLocals, Wake
<1>30. CASE UnlockHandoff(t) BY <1>30, <1>r, SMT DEF UnlockHandoff
<1>31. CASE UnlockTakeHandoff(t)
  BY <1>31, <1>r, SMT DEF UnlockTakeHandoff, TakeHandoff, EndLocals
<1>32. CASE Park(t) BY <1>32, <1>r, SMT DEF Park
<1>33. ASSUME NEW w \in Threads, SendLock(t, w) PROVE QueuedInv'
  BY <1>33, <1>r, SMT DEF SendLock
<1> QED
  BY <1>1, <1>2, <1>3, <1>4, <1>5, <1>6, <1>7, <1>8, <1>9, <1>10, <1>11,
     <1>12, <1>13, <1>14, <1>15, <1>16, <1>17, <1>18, <1>19, <1>20,
     <1>21, <1>22, <1>23, <1>24, <1>25, <1>26, <1>27, <1>28, <1>29,
     <1>30, <1>31, <1>32, <1>33 DEF InvStep, Step, Call

\* Every step keeps EmptyInv.
LEMMA EmptyInvStep ==
    ASSUME NEW t \in Threads, InvStep(t), EmptyInv
    PROVE  EmptyInv'
<1>s. Shape /\ OneToken /\ OldInv /\ EmptyInv /\ old \in [Threads -> 0..SeqMax]
  BY BoundsAssumption, SMT DEF InvStep, IInv, TypeOK, Shape
<1> USE <1>s, ThreadsAssumption DEF Shape, EmptyInv, OneToken, OldInv, Tok, TokenLocations, At,
      Goto, InLock, mutex, held, rho, qvars, wvars, locals, popped
<1>n. TypeOK /\ (TypeOK => NextSequence \in 1..SeqMax)
  BY SequenceFacts DEF InvStep, IInv
<1>1. CASE PopHead(t) BY <1>1 DEF PopHead, Result
<1>2. CASE PopTake(t) BY <1>2 DEF PopTake
<1>3. CASE PopRest(t) BY <1>3 DEF PopRest, Result
<1>4. CASE PopNone(t) BY <1>4 DEF PopNone, Branch
<1>5. CASE EmptyNo(t) BY <1>5 DEF EmptyNo, Branch
<1>6. CASE EmptyMaybe(t) BY <1>6 DEF EmptyMaybe, Branch
<1>7. CASE EmptyYes(t) BY <1>7 DEF EmptyYes, Leave, EndLocals
<1>8. CASE MissHandoff(t) BY <1>8 DEF MissHandoff, Leave, EndLocals
<1>9. CASE Lock(t) BY <1>9 DEF Lock
<1>10. CASE LockCheckOwner(t) BY <1>10 DEF LockCheckOwner, Branch
<1>11. CASE LockDeepen(t) BY <1>11 DEF LockDeepen
<1>12. CASE LockPush(t) BY <1>12 DEF LockPush, Push
<1>13. CASE LockSeeHandoff(t) BY <1>13 DEF LockSeeHandoff
<1>14. CASE LockNoHandoff(t) BY <1>14 DEF LockNoHandoff, Leave, EndLocals
<1>15. CASE LockTakeHandoff(t)
  BY <1>15 DEF LockTakeHandoff, TakeHandoff, EndLocals
<1>16. CASE LockWakeOther(t)
  BY <1>16 DEF LockWakeOther, Leave, EndLocals, Wake
<1>17. CASE LockPoppedSelf(t) BY <1>17 DEF LockPoppedSelf, EndLocals
<1>18. CASE LockWait(t) BY <1>18 DEF LockWait, Branch
<1>19. CASE TakeOwnership(t) BY <1>19 DEF TakeOwnership
<1>20. CASE SendLockWake(t) BY <1>20 DEF SendLockWake, Leave, EndLocals, Wake
<1>21. CASE TryLock(t) BY <1>21 DEF TryLock
<1>22. CASE TryLockCheckOwner(t) BY <1>22 DEF TryLockCheckOwner
<1>23. CASE TryLockLoadHandoff(t) BY <1>23 DEF TryLockLoadHandoff
<1>24. CASE TryLockTakeHandoff(t)
  BY <1>24 DEF TryLockTakeHandoff, TakeHandoff, EndLocals
<1>25. CASE TryLockCount(t) BY <1>25 DEF TryLockCount
<1>26. CASE UnlockShallower(t) BY <1>26 DEF UnlockShallower
<1>27. CASE Unlock(t) BY <1>27 DEF Unlock
<1>28. CASE UnlockCount(t) BY <1>28 DEF UnlockCount
<1>29. CASE UnlockWake(t) BY <1>29 DEF UnlockWake, Leave, EndLocals, Wake
<1>30. CASE UnlockHandoff(t) BY <1>30, <1>n DEF UnlockHandoff, NotStale
<1>31. CASE UnlockTakeHandoff(t)
  BY <1>31 DEF UnlockTakeHandoff, TakeHandoff, EndLocals
<1>32. CASE Park(t) BY <1>32 DEF Park
<1>33. ASSUME NEW w \in Threads, SendLock(t, w) PROVE EmptyInv'
  BY <1>33 DEF SendLock
<1> QED
  BY <1>1, <1>2, <1>3, <1>4, <1>5, <1>6, <1>7, <1>8, <1>9, <1>10, <1>11,
     <1>12, <1>13, <1>14, <1>15, <1>16, <1>17, <1>18, <1>19, <1>20,
     <1>21, <1>22, <1>23, <1>24, <1>25, <1>26, <1>27, <1>28, <1>29,
     <1>30, <1>31, <1>32, <1>33 DEF InvStep, Step, Call

\* Only a second look that finds the queue empty stops watching a handoff.
LEMMA NoticesKept ==
    ASSUME NEW t \in Threads, InvStep(t)
    PROVE  handoff' # 0 =>
             /\ handoff = 0 => Notices(t)'
             /\ \A u \in Threads : Notices(u) => Notices(u)' \/ (u = t /\ EmptyYes(t))
<1>s. Shape /\ OneToken /\ OldInv /\ old \in [Threads -> 0..SeqMax]
  BY BoundsAssumption, SMT DEF InvStep, IInv, TypeOK, Shape
<1> USE <1>s, ThreadsAssumption DEF Shape, Notices, OldLocations, OneToken, OldInv, Tok,
      TokenLocations, At, Goto, InLock, mutex, held, rho, qvars, wvars, locals, popped
<1>1. CASE PopHead(t) BY <1>1 DEF PopHead, Result
<1>2. CASE PopTake(t) BY <1>2 DEF PopTake
<1>3. CASE PopRest(t) BY <1>3 DEF PopRest, Result
<1>4. CASE PopNone(t) BY <1>4 DEF PopNone, Branch
<1>5. CASE EmptyNo(t) BY <1>5 DEF EmptyNo, Branch
<1>6. CASE EmptyMaybe(t) BY <1>6 DEF EmptyMaybe, Branch
<1>7. CASE EmptyYes(t)
  BY <1>7 DEF EmptyYes, Leave, EndLocals
<1>8. CASE MissHandoff(t) BY <1>8 DEF MissHandoff, Leave, EndLocals
<1>9. CASE Lock(t) BY <1>9 DEF Lock
<1>10. CASE LockCheckOwner(t) BY <1>10 DEF LockCheckOwner, Branch
<1>11. CASE LockDeepen(t) BY <1>11 DEF LockDeepen
<1>12. CASE LockPush(t) BY <1>12 DEF LockPush, Push
<1>13. CASE LockSeeHandoff(t) BY <1>13 DEF LockSeeHandoff
<1>14. CASE LockNoHandoff(t) BY <1>14 DEF LockNoHandoff, Leave, EndLocals
<1>15. CASE LockTakeHandoff(t)
  BY <1>15 DEF LockTakeHandoff, TakeHandoff, EndLocals
<1>16. CASE LockWakeOther(t)
  BY <1>16 DEF LockWakeOther, Leave, EndLocals, Wake
<1>17. CASE LockPoppedSelf(t) BY <1>17 DEF LockPoppedSelf, EndLocals
<1>18. CASE LockWait(t) BY <1>18 DEF LockWait, Branch
<1>19. CASE TakeOwnership(t) BY <1>19 DEF TakeOwnership
<1>20. CASE SendLockWake(t) BY <1>20 DEF SendLockWake, Leave, EndLocals, Wake
<1>21. CASE TryLock(t) BY <1>21 DEF TryLock
<1>22. CASE TryLockCheckOwner(t) BY <1>22 DEF TryLockCheckOwner
<1>23. CASE TryLockLoadHandoff(t) BY <1>23 DEF TryLockLoadHandoff
<1>24. CASE TryLockTakeHandoff(t)
  BY <1>24 DEF TryLockTakeHandoff, TakeHandoff, EndLocals
<1>25. CASE TryLockCount(t) BY <1>25 DEF TryLockCount
<1>26. CASE UnlockShallower(t) BY <1>26 DEF UnlockShallower
<1>27. CASE Unlock(t) BY <1>27 DEF Unlock
<1>28. CASE UnlockCount(t) BY <1>28 DEF UnlockCount
<1>29. CASE UnlockWake(t) BY <1>29 DEF UnlockWake, Leave, EndLocals, Wake
<1>30. CASE UnlockHandoff(t) BY <1>30 DEF UnlockHandoff
<1>31. CASE UnlockTakeHandoff(t)
  BY <1>31 DEF UnlockTakeHandoff, TakeHandoff, EndLocals
<1>32. CASE Park(t) BY <1>32 DEF Park
<1>33. ASSUME NEW w \in Threads, SendLock(t, w) PROVE handoff' # 0 =>
        /\ handoff = 0 => Notices(t)'
        /\ \A u \in Threads : Notices(u) => Notices(u)' \/ (u = t /\ EmptyYes(t))
  BY <1>33 DEF SendLock
<1> QED
  BY <1>1, <1>2, <1>3, <1>4, <1>5, <1>6, <1>7, <1>8, <1>9, <1>10, <1>11,
     <1>12, <1>13, <1>14, <1>15, <1>16, <1>17, <1>18, <1>19, <1>20,
     <1>21, <1>22, <1>23, <1>24, <1>25, <1>26, <1>27, <1>28, <1>29,
     <1>30, <1>31, <1>32, <1>33 DEF InvStep, Step, Call

\* empty() answers yes only if nobody is queued, and then who wants the mutex has
\* yet to queue and will look at the handoff after that.
LEMMA EmptyYesNoticed ==
    ASSUME NEW t \in Threads, InvStep(t), NoticeInv, EmptyYes(t), handoff # 0, old[t] = handoff
    PROVE  \E u \in Threads \ {t} : Notices(u)
<1>1. /\ Shape /\ OneToken /\ TokenClaimed /\ PopInv /\ QueuedInv /\ EmptyInv
      /\ pushlist \in Seq(Threads)
  BY BoundsAssumption, SMT DEF InvStep, IInv, TypeOK, Shape, NoticeInv
<1>2. pushlist = <<>> /\ poplist = <<>> /\ pc[t] \in {"lk_emp2", "ul_emp2"}
  BY <1>1 DEF EmptyYes, EmptyInv
<1>3. \A u \in Threads : ~ Tok(u)
  BY <1>1 DEF OneToken
<1>4. \A w \in Threads : ~ Reach(w)
  <2>1. \A u \in Threads : other[u] = NoThread /\ taken[u] = <<>>
    BY <1>1, <1>3 DEF PopInv, Tok, TokenLocations
  <2> QED
    BY <1>2, <2>1, NilFacts, ThreadsAssumption DEF Reach
<1>5. PICK w \in Threads : w \in Claims
  BY <1>1 DEF TokenClaimed, Claims
<1>6. pc[w] \in InLock /\ rec[w] = w /\ w \notin parked
  BY <1>3, <1>5 DEF Claims, Tok, TokenLocations
<1>7. CASE pc[w] \in {"lk_rec", "lk_push"}
  BY <1>2, <1>7 DEF Notices
<1>8. CASE pc[w] \notin {"lk_rec", "lk_push"}
  <2>1. pc[w] \in Pushed /\ ~ woken[w]
    BY <1>3, <1>6, <1>8 DEF InLock, Pushed, Tok
  <2>2. PICK u \in Threads : Target(u, w)
    BY <1>1, <1>4, <1>6, <2>1 DEF QueuedInv
  <2>3. pc[u] = "lk_push"
    BY <1>3, <2>2 DEF Target, Tok, TokenLocations
  <2> QED
    BY <1>2, <2>3 DEF Notices
<1> QED
  BY <1>7, <1>8

\* Every step keeps HandoffNoticed.
LEMMA HandoffNoticedStep ==
    ASSUME NEW t \in Threads, InvStep(t), NoticeInv
    PROVE  HandoffNoticed'
<1>1. /\ HandoffNoticed => (handoff # 0 => \E u \in Threads : Notices(u))
      /\ (handoff' # 0 => \E u \in Threads : Notices(u)') => HandoffNoticed'
  BY DEF HandoffNoticed, Notices, OldLocations
<1> SUFFICES ASSUME handoff' # 0
             PROVE  \E u \in Threads : Notices(u)'
  BY <1>1
<1>2. /\ handoff = 0 => Notices(t)'
      /\ \A u \in Threads : Notices(u) => Notices(u)' \/ (u = t /\ EmptyYes(t))
  BY NoticesKept
<1>3. CASE handoff = 0
  BY <1>2, <1>3
<1>4. CASE handoff # 0
  <2>1. PICK u \in Threads : Notices(u)
    BY <1>1, <1>4 DEF NoticeInv
  <2>2. CASE Notices(u)'
    BY <2>2
  <2>3. CASE u = t /\ EmptyYes(t)
    <3>1. old[t] = handoff
      BY <2>1, <2>3 DEF Notices, EmptyYes
    <3>2. PICK v \in Threads \ {t} : Notices(v)
      BY <1>4, <2>3, <3>1, EmptyYesNoticed
    <3> QED
      BY <1>2, <3>2
  <2> QED
    BY <1>2, <2>1, <2>2, <2>3
<1> QED
  BY <1>3, <1>4

\* Every step keeps all four.
LEMMA NoticeInvStep == IInv /\ NoticeInv /\ [Next]_vars => NoticeInv'
<1> SUFFICES ASSUME IInv, NoticeInv, [Next]_vars PROVE NoticeInv'
  OBVIOUS
<1>1. CASE Next
  <2>1. PICK t \in Threads : Step(t) \/ Call(t)
    BY <1>1 DEF Next
  <2>2. InvStep(t)
    BY <2>1, CountFacts DEF InvStep
  <2>3. QueuedInv /\ EmptyInv /\ MovedInv
    BY DEF NoticeInv
  <2> QED
    BY <2>2, <2>3, QueuedInvStep, EmptyInvStep, MovedInvStep,
       HandoffNoticedStep DEF NoticeInv
<1>2. CASE UNCHANGED vars
  <2> USE <1>2 DEF NoticeInv, vars, mutex, held, rho, qvars, wvars, locals, popped
  <2>1. QueuedInv'
    BY DEF QueuedInv, Reach, Target
  <2>2. EmptyInv' /\ MovedInv' /\ HandoffNoticed'
    BY DEF EmptyInv, MovedInv, HandoffNoticed
  <2> QED
    BY <2>1, <2>2
<1> QED
  BY <1>1, <1>2

\* Together with IInv, NoticeInv is an invariant.
LEMMA NoticeInvariance == Spec => []NoticeInv
<1>1. Init => NoticeInv
  BY DEF Init, NoticeInv, QueuedInv, EmptyInv, MovedInv, HandoffNoticed, Pushed
<1> QED
  BY <1>1, NoticeInvStep, Invariance, PTL DEF Spec

\* unlock() never returns leaving a handoff and only sleepers behind: while one is
\* on offer some thread will still look at it.
THEOREM HandoffIsNoticed == Spec => []HandoffNoticed
<1>1. NoticeInv => HandoffNoticed
  BY DEF NoticeInv
<1> QED
  BY <1>1, NoticeInvariance, PTL

(***************************************************************************)
(* The refinement.                                                         *)
(***************************************************************************)
\* What Granted comes to under the invariant.
Given(t) ==
    \/ owner = t
    \/ pc[t] \in {"lk_own", "tl_inc"}
    \/ woken[t]
    \/ \E u \in Threads : pc[u] = "sl_wake" /\ rec[u] = t

\* The invariant gives the types.
LEMMA ShapeFacts == IInv => Shape
BY BoundsAssumption, SMT DEF IInv, TypeOK, Shape

\* The mapping of holder, by whom the mutex was given to.
HolderIs ==
    /\ \A t, u \in Threads : Given(t) /\ Given(u) => t = u
    /\ \A t \in Threads : Given(t) => Holder = t /\ Holders # {}
    /\ (\A t \in Threads : ~ Given(t)) => Holder = NoThread /\ Holders = {}

\* At most one thread was given the mutex, and it is the abstract holder.
LEMMA GivenFacts == IInv => HolderIs
<1> SUFFICES ASSUME IInv PROVE HolderIs
  OBVIOUS
<1>1. \A t \in Threads : Granted(t) <=> Given(t)
  BY DEF IInv, WaitInv, Granted, Given, Pushed, InLock
<1>2. ASSUME NEW t \in Threads, Given(t)
      PROVE  \/ Tok(t) /\ pc[t] # "sl_wake"
             \/ \E x \in Threads : pc[x] = "sl_wake" /\ rec[x] = t
  BY <1>2 DEF Given, Tok, TokenLocations, IInv, OwnerInv, WaitInv, Pushed
<1>3. ASSUME NEW t \in Threads, NEW u \in Threads, Given(t), Given(u)
      PROVE  t = u
  BY <1>2, <1>3, SMT DEF IInv, OneToken, Tok, TokenLocations
<1>4. ASSUME NEW t \in Threads, Given(t)
      PROVE  Holder = t /\ Holders # {}
  <2>1. Holders = {t}
    BY <1>1, <1>3, <1>4 DEF Holders
  <2> QED
    BY <2>1 DEF Holder
<1>5. (\A t \in Threads : ~ Given(t)) => Holder = NoThread /\ Holders = {}
  BY <1>1 DEF Holders, Holder
<1> QED
  BY <1>3, <1>4, <1>5 DEF HolderIs

\* What the one thread in charge has popped.
HandIs ==
    /\ \A u \in Threads : other[u] # NoThread => InHand = <<other[u]>>
    /\ \A u \in Threads : taken[u] # <<>> => InHand = taken[u]
    /\ (\A u \in Threads : other[u] = NoThread /\ taken[u] = <<>>) => InHand = <<>>

\* InHand is what any thread popped, since only one thread pops at a time.
LEMMA InHandFacts == IInv => HandIs
<1> SUFFICES ASSUME IInv PROVE HandIs
  OBVIOUS
<1> DEFINE poppers == {t \in Threads : pc[t] \in {"lk_got", "ul_wake"} /\ other[t] # NoThread}
           movers == {t \in Threads : taken[t] # <<>>}
<1>1. PopInv /\ OneToken
  BY DEF IInv
<1>2. \A u \in Threads : u \in poppers \/ u \in movers => Tok(u)
  BY <1>1 DEF PopInv, Tok, TokenLocations
<1>3. ASSUME NEW u \in Threads, other[u] # NoThread
      PROVE  InHand = <<other[u]>>
  <2>0. u \in poppers
    BY <1>1, <1>3 DEF PopInv
  <2>1. poppers = {u}
    BY <1>1, <1>2, <2>0 DEF OneToken
  <2>2. (CHOOSE t \in poppers : TRUE) = u /\ poppers # {}
    BY <2>1
  <2>3. movers = {}
    BY <1>1, <1>2, <1>3 DEF PopInv, OneToken
  <2> QED
    BY <2>2, <2>3 DEF InHand
<1>4. ASSUME NEW u \in Threads, taken[u] # <<>>
      PROVE  InHand = taken[u]
  <2>1. movers = {u}
    BY <1>1, <1>2, <1>4 DEF OneToken
  <2>2. poppers = {}
    BY <1>1, <1>2, <1>4 DEF PopInv, OneToken
  <2>3. (CHOOSE t \in movers : TRUE) = u /\ movers # {}
    BY <2>1
  <2> QED
    BY <2>2, <2>3 DEF InHand
<1>5. ASSUME \A u \in Threads : other[u] = NoThread /\ taken[u] = <<>>
      PROVE  InHand = <<>>
  <2>1. poppers = {} /\ movers = {}
    BY <1>5
  <2> QED
    BY <2>1 DEF InHand
<1> QED
  BY <1>3, <1>4, <1>5 DEF HandIs

\* How concatenation treats an empty list, the first and the last item.
LEMMA ConcatFacts ==
    ASSUME NEW S, NEW a \in Seq(S), NEW b \in Seq(S), NEW c \in Seq(S)
    PROVE  /\ <<>> \o a = a /\ a \o <<>> = a
           /\ a # <<>> => <<Head(a)>> \o Tail(a) = a
           /\ \A x \in S : /\ a \o Append(b, x) = Append(a \o b, x)
                           /\ (<<x>> \o a) \o b # <<>>
                           /\ Head((<<x>> \o a) \o b) = x
                           /\ Tail((<<x>> \o a) \o b) = a \o b
<1>1. <<>> \o a = a /\ a \o <<>> = a
  BY SMT
<1>2. a # <<>> => <<Head(a)>> \o Tail(a) = a
  BY SMT
<1>3. ASSUME NEW x \in S
      PROVE  a \o Append(b, x) = Append(a \o b, x)
  BY SMT
<1>4. ASSUME NEW x \in S
      PROVE  /\ (<<x>> \o a) \o b # <<>>
             /\ Head((<<x>> \o a) \o b) = x
             /\ Tail((<<x>> \o a) \o b) = a \o b
  BY SMT
<1> QED
  BY <1>1, <1>2, <1>3, <1>4

\* Everybody in line has a record that can be reached.
LEMMA LineFacts ==
    ASSUME IInv
    PROVE  /\ InHand \in Seq(Threads) /\ Line \in Seq(Threads)
           /\ \A i \in DOMAIN Line : Reach(Line[i])
<1>h. HandIs
  BY InHandFacts
<1>1. pushlist \in Seq(Threads) /\ poplist \in Seq(Threads)
  BY DEF IInv, TypeOK
<1>2. /\ InHand \in Seq(Threads)
      /\ \A i \in DOMAIN InHand : Reach(InHand[i])
  <2>1. CASE \E u \in Threads : other[u] # NoThread
    <3>1. PICK u \in Threads : other[u] # NoThread
      BY <2>1
    <3>2. InHand = <<other[u]>> /\ other[u] \in Threads
      BY <1>h, <3>1 DEF HandIs, IInv, TypeOK
    <3> QED
      BY <3>2, SMT DEF Reach
  <2>2. CASE \E u \in Threads : taken[u] # <<>>
    <3>1. PICK u \in Threads : taken[u] # <<>>
      BY <2>2
    <3>2. InHand = taken[u] /\ taken[u] \in Seq(Threads)
      BY <1>h, <3>1 DEF HandIs, IInv, TypeOK
    <3> QED
      BY <3>2, SMT DEF Reach, In
  <2>3. CASE \A u \in Threads : other[u] = NoThread /\ taken[u] = <<>>
    <3>1. InHand = <<>>
      BY <1>h, <2>3 DEF HandIs
    <3> QED
      BY <3>1, SMT
  <2> QED
    BY <2>1, <2>2, <2>3
<1>3. Line \in Seq(Threads)
  BY <1>1, <1>2, SMTT(40) DEF Line
<1>4. \A i \in DOMAIN poplist : Reach(poplist[i])
  BY <1>1, SMT DEF Reach, In
<1>5. \A i \in DOMAIN pushlist : Reach(pushlist[i])
  BY <1>1, SMT DEF Reach, In
<1>6. ASSUME NEW i \in DOMAIN Line
      PROVE  Reach(Line[i])
  <2> DEFINE h == InHand \o poplist
  <2>1. h \in Seq(Threads) /\ Line = h \o pushlist
    BY <1>1, <1>2, SMT DEF Line
  <2>2. \A j \in DOMAIN h : \/ j \in DOMAIN InHand /\ h[j] = InHand[j]
                            \/ j - Len(InHand) \in DOMAIN poplist /\ h[j] = poplist[j - Len(InHand)]
    BY <1>1, <1>2, SMT
  <2>3. \A j \in DOMAIN h : Reach(h[j])
    BY <1>2, <1>4, <2>2
  <2> HIDE DEF h
  <2>4. \/ i \in DOMAIN h /\ Line[i] = h[i]
        \/ i - Len(h) \in DOMAIN pushlist /\ Line[i] = pushlist[i - Len(h)]
    BY <1>1, <2>1, SMT
  <2> QED
    BY <1>5, <2>3, <2>4
<1> QED
  BY <1>2, <1>3, <1>6

\* Only these steps give the mutex to a thread or take it away.
LEMMA GivenKept ==
    ASSUME NEW t \in Threads, InvStep(t)
    PROVE  \/ Lock(t) \/ TryLock(t) \/ \E w \in Threads : SendLock(t, w)
           \/ LockWakeOther(t) \/ LockPoppedSelf(t) \/ UnlockWake(t)
           \/ TryLockTakeHandoff(t) \/ Unlock(t)
           \/ \A x \in Threads : Given(x)' <=> Given(x)
<1>s. Shape /\ OneToken /\ OwnerInv /\ WaitInv
  BY BoundsAssumption, SMT DEF InvStep, IInv, TypeOK, Shape
<1> USE <1>s, ThreadsAssumption DEF Shape, Given, At, Goto, InLock, Pushed, mutex, held, rho, qvars,
      wvars, locals, popped
<1>1. CASE PopHead(t) BY <1>1 DEF PopHead, Result
<1>2. CASE PopTake(t) BY <1>2 DEF PopTake
<1>3. CASE PopRest(t) BY <1>3 DEF PopRest, Result
<1>4. CASE PopNone(t) BY <1>4 DEF PopNone, Branch
<1>5. CASE EmptyNo(t) BY <1>5 DEF EmptyNo, Branch
<1>6. CASE EmptyMaybe(t) BY <1>6 DEF EmptyMaybe, Branch
<1>7. CASE EmptyYes(t) BY <1>7 DEF EmptyYes, Leave, EndLocals
<1>8. CASE MissHandoff(t) BY <1>8 DEF MissHandoff, Leave, EndLocals
<1>9. CASE Lock(t)
  BY <1>9
<1>10. CASE LockCheckOwner(t) BY <1>10 DEF LockCheckOwner, Branch
<1>11. CASE LockDeepen(t) BY <1>11 DEF LockDeepen
<1>12. CASE LockPush(t) BY <1>12 DEF LockPush, Push
<1>13. CASE LockSeeHandoff(t) BY <1>13 DEF LockSeeHandoff
<1>14. CASE LockNoHandoff(t) BY <1>14 DEF LockNoHandoff, Leave, EndLocals
<1>15. CASE LockTakeHandoff(t)
  BY <1>15 DEF LockTakeHandoff, TakeHandoff, EndLocals
<1>16. CASE LockWakeOther(t)
  BY <1>16
<1>17. CASE LockPoppedSelf(t)
  BY <1>17
<1>18. CASE LockWait(t) BY <1>18 DEF LockWait, Branch
<1>19. CASE TakeOwnership(t)
  <2>1. \A x \in Threads : owner = x \/ woken[x] \/ pc[x] = "lk_own" => x = t
    BY <1>19 DEF TakeOwnership, OneToken, Tok, TokenLocations
  <2> QED
    BY <1>19, <2>1 DEF TakeOwnership
<1>20. CASE SendLockWake(t)
  <2>1. \A x \in Threads : pc[x] = "sl_wake" => x = t
    BY <1>20 DEF SendLockWake, OneToken, Tok, TokenLocations
  <2> QED
    BY <1>20, <2>1, SMT DEF SendLockWake, Leave, EndLocals, Wake, WaitInv
<1>21. CASE TryLock(t)
  BY <1>21
<1>22. CASE TryLockCheckOwner(t) BY <1>22 DEF TryLockCheckOwner
<1>23. CASE TryLockLoadHandoff(t) BY <1>23 DEF TryLockLoadHandoff
<1>24. CASE TryLockTakeHandoff(t)
  BY <1>24
<1>25. CASE TryLockCount(t) BY <1>25 DEF TryLockCount
<1>26. CASE UnlockShallower(t) BY <1>26 DEF UnlockShallower
<1>27. CASE Unlock(t)
  BY <1>27
<1>28. CASE UnlockCount(t) BY <1>28 DEF UnlockCount
<1>29. CASE UnlockWake(t)
  BY <1>29
<1>30. CASE UnlockHandoff(t) BY <1>30 DEF UnlockHandoff
<1>31. CASE UnlockTakeHandoff(t)
  BY <1>31 DEF UnlockTakeHandoff, TakeHandoff, EndLocals
<1>32. CASE Park(t) BY <1>32 DEF Park
<1>33. ASSUME NEW w \in Threads, SendLock(t, w) PROVE \E v \in Threads : SendLock(t, v)
  BY <1>33
<1> QED
  BY <1>1, <1>2, <1>3, <1>4, <1>5, <1>6, <1>7, <1>8, <1>9, <1>10, <1>11,
     <1>12, <1>13, <1>14, <1>15, <1>16, <1>17, <1>18, <1>19, <1>20,
     <1>21, <1>22, <1>23, <1>24, <1>25, <1>26, <1>27, <1>28, <1>29,
     <1>30, <1>31, <1>32, <1>33 DEF InvStep, Step, Call

\* What is in hand changes with the pops only.
LEMMA HandSame ==
    ASSUME IInv, IInv', other' = other, taken' = taken
    PROVE  InHand' = InHand
<1>h. HandIs /\ HandIs'
  BY InHandFacts, PTL
<1>1. ASSUME NEW u \in Threads, other[u] # NoThread PROVE InHand' = InHand
  <2>1. InHand = <<other[u]>>
    BY <1>1, <1>h DEF HandIs
  <2>2. InHand' = <<other'[u]>>
    BY <1>1, <1>h DEF HandIs
  <2> QED BY <2>1, <2>2
<1>2. ASSUME NEW u \in Threads, taken[u] # <<>> PROVE InHand' = InHand
  <2>1. InHand = taken[u]
    BY <1>2, <1>h DEF HandIs
  <2>2. InHand' = taken'[u]
    BY <1>2, <1>h DEF HandIs
  <2> QED BY <2>1, <2>2
<1>3. CASE \A u \in Threads : other[u] = NoThread /\ taken[u] = <<>>
  <2>1. InHand = <<>>
    BY <1>3, <1>h DEF HandIs
  <2>2. InHand' = <<>>
    BY <1>3, <1>h DEF HandIs
  <2> QED BY <2>1, <2>2
<1> QED BY <1>1, <1>2, <1>3

\* The line changes with the lists and with what is in hand.
LEMMA LineSame ==
    ASSUME IInv, IInv', other' = other, taken' = taken, pushlist' = pushlist, poplist' = poplist
    PROVE  Line' = Line
BY HandSame DEF Line

\* Only a push, and the wake-up of whoever was popped, change the line.
LEMMA LineKept ==
    ASSUME NEW t \in Threads, InvStep(t), IInv', MovedInv
    PROVE  \/ LockPush(t) \/ LockWakeOther(t) \/ LockPoppedSelf(t) \/ UnlockWake(t)
           \/ Line' = Line
<1>s. /\ IInv /\ PopInv /\ OneToken
      /\ other \in [Threads -> Threads \cup {NoThread}]
      /\ taken \in [Threads -> Seq(Threads)]
      /\ pushlist \in Seq(Threads) /\ poplist \in Seq(Threads)
      /\ pc \in [Threads -> Locations]
  BY DEF InvStep, IInv, TypeOK
<1>h. HandIs /\ HandIs'
  BY <1>s, InHandFacts, PTL
<1>q. ASSUME other' = other, taken' = taken, pushlist' = pushlist, poplist' = poplist
      PROVE  Line' = Line
  BY <1>q, <1>s, LineSame
<1>e. ASSUME pc[t] \notin {"lk_got", "ul_wake"} PROVE [other EXCEPT ![t] = NoThread] = other
  BY <1>e, <1>s DEF PopInv
<1> USE <1>s DEF At, qvars, locals, popped
<1>1. CASE PopHead(t)
  <2>1. \A u \in Threads : other[u] = NoThread /\ taken[u] = <<>>
    BY <1>1 DEF PopHead, PopInv, OneToken, Tok, TokenLocations
  <2>2. InHand = <<>>
    BY <1>h, <2>1 DEF HandIs
  <2>3. /\ Head(poplist) \in Threads /\ poplist' = Tail(poplist) /\ pushlist' = pushlist
        /\ other'[t] = Head(poplist) /\ poplist # <<>>
    BY <1>1, SMT DEF PopHead
  <2>4. InHand' = <<Head(poplist)>>
    BY <1>h, <2>3, ThreadsAssumption DEF HandIs
  <2> QED
    BY <2>2, <2>3, <2>4, ConcatFacts DEF Line
<1>2. CASE PopTake(t)
  <2>1. \A u \in Threads : other[u] = NoThread /\ taken[u] = <<>>
    BY <1>2 DEF PopTake, PopInv, OneToken, Tok, TokenLocations
  <2>2. InHand = <<>>
    BY <1>h, <2>1 DEF HandIs
  <2>3. /\ pushlist # <<>> /\ poplist = <<>> /\ poplist' = <<>> /\ pushlist' = <<>>
        /\ taken'[t] = pushlist
    BY <1>2 DEF PopTake
  <2>4. InHand' = pushlist
    BY <1>h, <2>3 DEF HandIs
  <2> QED
    BY <2>2, <2>3, <2>4, ConcatFacts, SMT DEF Line
<1>3. CASE PopRest(t)
  <2>1. /\ taken[t] # <<>> /\ taken[t] \in Seq(Threads) /\ poplist = <<>>
        /\ pc[t] \in {"lk_pop2", "ul_pop2"}
    BY <1>3 DEF PopRest, PopInv, MovedInv
  <2>2. InHand = taken[t]
    BY <1>h, <2>1 DEF HandIs
  <2>3. /\ Head(taken[t]) \in Threads /\ poplist' = Tail(taken[t]) /\ pushlist' = pushlist
        /\ other'[t] = Head(taken[t])
    BY <1>3, <2>1, SMT DEF PopRest
  <2>4. InHand' = <<Head(taken[t])>>
    BY <1>h, <2>3, ThreadsAssumption DEF HandIs
  <2>5. Line = taken[t] \o pushlist
    BY <2>1, <2>2, ConcatFacts DEF Line
  <2>6. Line' = taken[t] \o pushlist
    BY <2>1, <2>3, <2>4, ConcatFacts DEF Line
  <2> QED
    BY <2>5, <2>6
<1>4. CASE PopNone(t) BY <1>4, <1>q DEF PopNone, Branch
<1>5. CASE EmptyNo(t) BY <1>5, <1>q DEF EmptyNo, Branch
<1>6. CASE EmptyMaybe(t) BY <1>6, <1>q DEF EmptyMaybe, Branch
<1>7. CASE EmptyYes(t) BY <1>7, <1>q, <1>e DEF EmptyYes, Leave, EndLocals
<1>8. CASE MissHandoff(t)
  BY <1>8, <1>q, <1>e DEF MissHandoff, Leave, EndLocals
<1>9. CASE Lock(t) BY <1>9, <1>q DEF Lock
<1>10. CASE LockCheckOwner(t) BY <1>10, <1>q DEF LockCheckOwner, Branch
<1>11. CASE LockDeepen(t) BY <1>11, <1>q DEF LockDeepen
<1>12. CASE LockPush(t)
  BY <1>12
<1>13. CASE LockSeeHandoff(t) BY <1>13, <1>q DEF LockSeeHandoff
<1>14. CASE LockNoHandoff(t)
  BY <1>14, <1>q, <1>e DEF LockNoHandoff, Leave, EndLocals
<1>15. CASE LockTakeHandoff(t)
  BY <1>15, <1>q, <1>e DEF LockTakeHandoff, TakeHandoff, EndLocals
<1>16. CASE LockWakeOther(t)
  BY <1>16
<1>17. CASE LockPoppedSelf(t)
  BY <1>17
<1>18. CASE LockWait(t) BY <1>18, <1>q DEF LockWait, Branch
<1>19. CASE TakeOwnership(t) BY <1>19, <1>q DEF TakeOwnership
<1>20. CASE SendLockWake(t)
  BY <1>20, <1>q, <1>e DEF SendLockWake, Leave, EndLocals, Wake
<1>21. CASE TryLock(t) BY <1>21, <1>q DEF TryLock
<1>22. CASE TryLockCheckOwner(t) BY <1>22, <1>q DEF TryLockCheckOwner
<1>23. CASE TryLockLoadHandoff(t) BY <1>23, <1>q DEF TryLockLoadHandoff
<1>24. CASE TryLockTakeHandoff(t)
  BY <1>24, <1>q, <1>e DEF TryLockTakeHandoff, TakeHandoff, EndLocals
<1>25. CASE TryLockCount(t) BY <1>25, <1>q DEF TryLockCount
<1>26. CASE UnlockShallower(t) BY <1>26, <1>q DEF UnlockShallower
<1>27. CASE Unlock(t) BY <1>27, <1>q DEF Unlock
<1>28. CASE UnlockCount(t) BY <1>28, <1>q DEF UnlockCount
<1>29. CASE UnlockWake(t)
  BY <1>29
<1>30. CASE UnlockHandoff(t) BY <1>30, <1>q DEF UnlockHandoff
<1>31. CASE UnlockTakeHandoff(t)
  BY <1>31, <1>q, <1>e DEF UnlockTakeHandoff, TakeHandoff, EndLocals
<1>32. CASE Park(t) BY <1>32, <1>q DEF Park
<1>33. ASSUME NEW w \in Threads, SendLock(t, w) PROVE Line' = Line
  BY <1>33, <1>q DEF SendLock
<1> QED
  BY <1>1, <1>2, <1>3, <1>4, <1>5, <1>6, <1>7, <1>8, <1>9, <1>10, <1>11,
     <1>12, <1>13, <1>14, <1>15, <1>16, <1>17, <1>18, <1>19, <1>20,
     <1>21, <1>22, <1>23, <1>24, <1>25, <1>26, <1>27, <1>28, <1>29,
     <1>30, <1>31, <1>32, <1>33 DEF InvStep, Step, Call

\* A step that gives nobody the mutex, and leaves the line and the depth
\* alone, is none of the abstract mutex.
LEMMA MapsStutter ==
    ASSUME IInv, IInv', Line' = Line, Level' = Level \/ (owner' = owner /\ depth' = depth),
           \A x \in Threads : Given(x)' <=> Given(x)
    PROVE  UNCHANGED Abstract!avars
<1>h. HolderIs /\ HolderIs'
  BY GivenFacts, PTL
<1>1. Holder' = Holder /\ (Holders' = {} <=> Holders = {})
  <2>1. CASE \E x \in Threads : Given(x)
    BY <1>h, <2>1 DEF HolderIs
  <2>2. CASE \A x \in Threads : ~ Given(x)
    BY <1>h, <2>2 DEF HolderIs
  <2> QED
    BY <2>1, <2>2
<1>2. Level' = Level
  BY <1>1 DEF Level
<1> QED
  BY <1>1, <1>2 DEF Abstract!avars

\* A step that gives the free mutex to x.
LEMMA MapsGive ==
    ASSUME IInv, IInv', NEW x \in Threads, Given(x)', owner' = NoThread,
           \A y \in Threads : ~ Given(y)
    PROVE  Abstract!Give(x)
<1>h. HolderIs /\ HolderIs'
  BY GivenFacts, PTL
<1>1. Holder = NoThread /\ Holder' = x /\ Holders' # {}
  BY <1>h DEF HolderIs
<1>2. Level' = 1
  BY <1>1 DEF Level
<1> QED
  BY <1>1, <1>2 DEF Abstract!Give

\* When count is 0, nobody is in line and nobody was given the mutex.
LEMMA FreeFacts ==
    ASSUME IInv, FreeInv, count = 0
    PROVE  Line = <<>> /\ owner = NoThread /\ \A y \in Threads : ~ Given(y)
<1>1. /\ Claims = {} /\ owner = NoThread /\ \A y \in Threads : ~ Tok(y)
  BY DEF FreeInv
<1>2. \A y \in Threads : ~ Given(y)
  BY <1>1 DEF Given, Tok, TokenLocations, IInv, OwnerInv
<1>3. \A y \in Threads : ~ Reach(y)
  BY <1>1 DEF IInv, ReachInv, Claims, Pushed, InLock
<1>4. Line \in Seq(Threads) /\ \A i \in DOMAIN Line : Reach(Line[i])
  BY LineFacts
<1>5. \A i \in DOMAIN Line : Line[i] \in Threads
  BY <1>4, SMT
<1>6. Len(Line) = 0
  BY <1>3, <1>4, <1>5, SMT
<1> QED
  BY <1>1, <1>2, <1>4, <1>6, SMT

\* lock(), try_lock() and send_lock() that find count at 0 enter the free
\* mutex, for the caller or for the thread they act for.
LEMMA MapsEnter ==
    ASSUME IInv, IInv', FreeInv, count = 0, NEW x \in Threads, Given(x)', owner' = owner, Line' = Line
    PROVE  Abstract!Enter(x)
<1>1. Line = <<>> /\ owner = NoThread /\ \A y \in Threads : ~ Given(y)
  BY FreeFacts
<1>2. Abstract!Give(x)
  BY <1>1, MapsGive
<1> QED
  BY <1>1, <1>2 DEF Abstract!Enter

\* The thread in charge of the mutex, when it has popped w, gives it to w,
\* who was first in line.
LEMMA MapsGrant ==
    ASSUME NEW t \in Threads, InvStep(t), IInv',
           LockWakeOther(t) \/ LockPoppedSelf(t) \/ UnlockWake(t)
    PROVE  Abstract!Grant
<1>s. /\ IInv /\ PopInv /\ OneToken /\ OwnerInv /\ OldInv /\ WaitInv
      /\ other \in [Threads -> Threads \cup {NoThread}]
      /\ woken \in [Threads -> BOOLEAN]
      /\ pc \in [Threads -> Locations]
      /\ pushlist \in Seq(Threads) /\ poplist \in Seq(Threads)
      /\ owner \in Threads \cup {NoThread}
  BY DEF InvStep, IInv, TypeOK
<1>h. HandIs /\ HandIs'
  BY <1>s, InHandFacts, PTL
<1>1. /\ pc[t] \in {"lk_got", "ul_wake"}
      /\ other' = [other EXCEPT ![t] = NoThread] /\ taken' = taken
      /\ poplist' = poplist /\ pushlist' = pushlist /\ owner' = owner
  BY DEF LockWakeOther, LockPoppedSelf, UnlockWake, At, Leave, EndLocals,
     mutex, held, qvars
<1>2. PICK w \in Threads : other[t] = w
  BY <1>1, <1>s DEF PopInv, OldInv
<1>3. \A u \in Threads : Tok(u) => u = t
  <2>1. Tok(t)
    BY <1>1 DEF Tok, TokenLocations
  <2> QED
    BY <2>1, <1>s DEF OneToken
<1>4. owner = NoThread
  <2>1. owner # t
    BY <1>1, <1>s DEF OwnerInv, TokenLocations
  <2>2. ASSUME NEW u \in Threads, owner = u PROVE u = t
    BY <2>2, <1>3 DEF Tok
  <2> QED
    BY <2>1, <2>2, <1>s
<1>5. ASSUME NEW y \in Threads, Given(y) PROVE FALSE
  <2>1. owner # y
    BY <1>4, ThreadsAssumption
  <2>2. CASE pc[y] \in {"lk_own", "tl_inc"}
    <3>1. y = t
      BY <2>2, <1>3 DEF Tok, TokenLocations
    <3> QED
      BY <3>1, <2>2, <1>1
  <2>3. CASE woken[y]
    <3>1. y = t
      BY <2>3, <1>3 DEF Tok
    <3>2. pc[t] \notin {"lk_got", "ul_wake"}
      BY <3>1, <2>3, <1>s DEF WaitInv, Pushed
    <3> QED
      BY <3>2, <1>1
  <2>4. CASE \E u \in Threads : pc[u] = "sl_wake" /\ rec[u] = y
    <3>1. PICK u \in Threads : pc[u] = "sl_wake"
      BY <2>4
    <3>2. u = t
      BY <3>1, <1>3 DEF Tok, TokenLocations
    <3> QED
      BY <3>1, <3>2, <1>1
  <2> QED
    BY <1>5, <2>1, <2>2, <2>3, <2>4 DEF Given
<1>6. ASSUME NEW u \in Threads PROVE taken[u] = <<>> /\ other'[u] = NoThread
  <2>1. pc[u] \in {"lk_pop2", "ul_pop2", "lk_got", "ul_wake"} => u = t
    BY <1>3 DEF Tok, TokenLocations
  <2>2. taken[u] # <<>> => pc[u] \in {"lk_pop2", "ul_pop2"}
    BY <1>s DEF PopInv
  <2>3. other[u] # NoThread => pc[u] \in {"lk_got", "ul_wake"}
    BY <1>s DEF PopInv
  <2>4. other'[u] = IF u = t THEN NoThread ELSE other[u]
    BY <1>1, <1>s
  <2> QED
    BY <1>1, <2>1, <2>2, <2>3, <2>4
<1>7. InHand = <<w>> /\ InHand' = <<>>
  <2>1. InHand = <<other[t]>>
    BY <1>2, <1>h, ThreadsAssumption DEF HandIs
  <2>2. \A u \in Threads : other'[u] = NoThread /\ taken'[u] = <<>>
    BY <1>1, <1>6
  <2> QED
    BY <1>2, <2>1, <2>2, <1>h DEF HandIs
<1>8. Given(w)'
  BY <1>2, <1>s DEF LockWakeOther, LockPoppedSelf, UnlockWake, Wake, Goto, Given
<1>9. Abstract!Give(w)
  <2>1. \A y \in Threads : ~ Given(y)
    BY <1>5
  <2> QED
    BY <1>1, <1>2, <1>4, <2>1, <1>8, <1>s, MapsGive
<1>10. Line = (<<w>> \o poplist) \o pushlist /\ Line' = (<<>> \o poplist) \o pushlist
  BY <1>1, <1>7 DEF Line
<1>11. Line # <<>> /\ Head(Line) = w /\ Line' = Tail(Line)
  BY <1>2, <1>10, <1>s, ConcatFacts, SMT
<1> QED
  BY <1>9, <1>11 DEF Abstract!Grant

\* A record that is pushed goes to the end of the line, where it was not yet.
LEMMA MapsEnqueue ==
    ASSUME NEW t \in Threads, InvStep(t), IInv', LockPush(t)
    PROVE  Abstract!Enqueue(rec[t])
<1>i. IInv
  BY DEF InvStep
<1>s. /\ IInv /\ ReachInv /\ OwnerInv /\ WaitInv /\ SendInv /\ Shape
      /\ pushlist \in Seq(Threads) /\ poplist \in Seq(Threads)
  BY <1>i, ShapeFacts DEF IInv, TypeOK
<1>h. HandIs /\ HandIs' /\ HolderIs /\ HolderIs'
  BY <1>s, InHandFacts, GivenFacts, PTL
<1> DEFINE x == rec[t]
<1>1. /\ pc[t] = "lk_push" /\ x \in Threads /\ other' = other /\ taken' = taken
      /\ poplist' = poplist /\ pushlist' = Append(pushlist, x)
      /\ owner' = owner /\ depth' = depth
  BY <1>s DEF LockPush, At, Push, mutex, held, locals, popped, Shape
<1>2. ~ Reach(x)
  BY <1>1, <1>s DEF ReachInv, Pushed, Target
<1>3. ~ Given(x)
  <2>1. CASE x = t
    <3>1. pc[t] = "lk_push" /\ rec[t] = t
      BY <1>1, <2>1
    <3>2. owner # t /\ ~ woken[t]
      BY <3>1, <1>s DEF OwnerInv, WaitInv, InLock, Pushed
    <3>3. ASSUME NEW u \in Threads, pc[u] = "sl_wake", rec[u] = t PROVE FALSE
      <4>1. Target(u, t)
        BY <3>1, <3>3 DEF Target
      <4> QED
        BY <3>1, <4>1, <1>s DEF SendInv
    <3> QED
      BY <2>1, <3>1, <3>2, <3>3 DEF Given
  <2>2. CASE x # t
    <3>1. Target(t, x)
      BY <1>1, <2>2 DEF Target
    <3>2. pc[x] = "lk_wait" /\ rec[x] = x /\ ~ woken[x] /\ owner # x
      <4>1. pc[x] = "lk_wait" /\ rec[x] = x /\ ~ woken[x]
        BY <1>1, <3>1, <1>s DEF SendInv
      <4> QED
        BY <1>1, <4>1, <1>s DEF OwnerInv, InLock
    <3>3. ASSUME NEW u \in Threads, pc[u] = "sl_wake", rec[u] = x PROVE FALSE
      <4>1. u # x
        BY <3>3, <1>s DEF WaitInv
      <4>2. Target(u, x)
        BY <3>3, <4>1 DEF Target
      <4> QED
        <5>1. u = t
          BY <3>1, <4>2, <1>1, <1>s DEF SendInv
        <5> QED
          BY <5>1, <3>3, <1>1
    <3> QED
      BY <3>2, <3>3 DEF Given
  <2> QED
    BY <2>1, <2>2
<1>4. \A y \in Threads : Given(y)' <=> Given(y)
  BY <1>1, <1>s, GivenKept DEF LockPush, Given, At, Goto, mutex, held, wvars,
     locals, Shape
<1>5. InHand' = InHand
  BY <1>1, <1>s, HandSame
<1>6. Line' = Append(Line, x)
  <2> DEFINE a == InHand \o poplist
  <2>1. a \in Seq(Threads)
    BY <1>s, LineFacts, SMT
  <2>2. Line = a \o pushlist /\ Line' = a \o Append(pushlist, x)
    BY <1>1, <1>5 DEF Line
  <2> HIDE DEF a, x
  <2> QED
    BY <1>1, <1>s, <2>1, <2>2, ConcatFacts, SMT
<1>7. Holder' = Holder /\ (Holders' = {} <=> Holders = {})
  <2>1. CASE \E y \in Threads : Given(y)
    BY <1>4, <1>h, <2>1 DEF HolderIs
  <2>2. CASE \A y \in Threads : ~ Given(y)
    BY <1>4, <1>h, <2>2 DEF HolderIs
  <2> QED
    BY <2>1, <2>2
<1>8. Level' = Level
  BY <1>1, <1>7 DEF Level
<1>9. x # Holder
  <2>1. CASE \E y \in Threads : Given(y)
    BY <1>1, <1>3, <1>h, <2>1 DEF HolderIs
  <2>2. CASE \A y \in Threads : ~ Given(y)
    BY <1>1, <1>h, <2>2, ThreadsAssumption DEF HolderIs
  <2> QED
    BY <2>1, <2>2
<1>10. x \notin Abstract!Queued
  BY <1>2, <1>s, LineFacts DEF Abstract!Queued
<1> QED
  BY <1>6, <1>7, <1>8, <1>9, <1>10 DEF Abstract!Enqueue

\* A step that gives nobody the mutex and adds d to the depth of its owner.
LEMMA MapsDepth ==
    ASSUME IInv, IInv', owner # NoThread, owner' = owner, Line' = Line,
           \A x \in Threads : Given(x)' <=> Given(x)
    PROVE  /\ Holder = owner /\ Holder' = owner
           /\ Level = depth /\ Level' = depth'
<1>h. HolderIs /\ HolderIs'
  BY GivenFacts, PTL
<1>1. owner \in Threads
  BY DEF IInv, TypeOK
<1>2. PICK x \in Threads : owner = x
  BY <1>1
<1>3. Given(x) /\ Given(x)'
  BY <1>2 DEF Given
<1> QED
  BY <1>2, <1>3, <1>h DEF HolderIs, Level

\* The last unlock() of the owner frees the abstract mutex.
LEMMA MapsUnlock ==
    ASSUME NEW t \in Threads, InvStep(t), IInv', Unlock(t), Line' = Line
    PROVE  Abstract!Leave
<1>s. IInv /\ OneToken /\ OwnerInv /\ WaitInv /\ Shape
  BY ShapeFacts DEF InvStep, IInv, TypeOK
<1>h. HolderIs /\ HolderIs'
  BY <1>s, GivenFacts, PTL
<1>1. /\ pc[t] = "run" /\ owner = t /\ depth = 1 /\ owner' = NoThread
      /\ pc' = [pc EXCEPT ![t] = "ul_dec"] /\ woken' = woken /\ rec' = rec
  BY DEF Unlock, At, Goto, wvars, locals
<1>2. \A u \in Threads : Tok(u) => u = t
  BY <1>1, <1>s DEF OneToken, Tok
<1>3. Given(t) /\ owner # NoThread
  BY <1>1, ThreadsAssumption DEF Given
<1>4. \A y \in Threads : ~ Given(y)'
  BY <1>1, <1>2, <1>s, ThreadsAssumption, SMTT(40)
     DEF Given, Shape, Tok, TokenLocations, WaitInv, OwnerInv, Pushed
<1>5. Holder = t /\ Holder' = NoThread /\ Level = 1 /\ Level' = 0
  BY <1>1, <1>3, <1>4, <1>h DEF HolderIs, Level
<1> QED
  BY <1>5, ThreadsAssumption, SMT DEF Abstract!Leave

\* try_lock() that takes the handoff overtakes whoever is queued; it is not
\* queued itself.
LEMMA MapsBarge ==
    ASSUME NEW t \in Threads, InvStep(t), IInv', TryLockTakeHandoff(t), Line' = Line
    PROVE  Abstract!Barge(t)
<1>i. IInv
  BY DEF InvStep
<1>s. IInv /\ OneToken /\ OwnerInv /\ WaitInv /\ ReachInv /\ OldInv /\ Shape
  BY <1>i, ShapeFacts DEF IInv, TypeOK
<1>1. /\ pc[t] = "tl_hcas" /\ handoff = old[t] /\ owner' = owner
      /\ pc' = [pc EXCEPT ![t] = "tl_inc"]
  BY DEF TryLockTakeHandoff, TakeHandoff, At, Goto, held
<1>2. \A u \in Threads : ~ Tok(u)
  BY <1>1, <1>s DEF OldInv, OneToken
<1>3. owner = NoThread /\ \A y \in Threads : ~ Given(y)
  BY <1>2, <1>s DEF Given, Tok, TokenLocations, Shape
<1>4. Given(t)'
  BY <1>1, <1>s DEF Given, Shape
<1>5. Abstract!Give(t)
  BY <1>1, <1>3, <1>4, <1>i, MapsGive
<1>6. ~ Reach(t)
  BY <1>1, <1>s DEF ReachInv, Pushed
<1>7. t \notin Abstract!Queued
  BY <1>6, <1>i, LineFacts DEF Abstract!Queued
<1> QED
  BY <1>5, <1>7 DEF Abstract!Barge

\* Every step of the mutex code is a step of the abstract mutex, or none.
LEMMA MapsStep ==
    ASSUME NEW t \in Threads, InvStep(t), IInv', MovedInv
    PROVE  [Abstract!Next]_(Abstract!avars)
<1>i. IInv /\ FreeInv
  BY DEF InvStep
<1>s. IInv /\ OneToken /\ OwnerInv /\ Shape
  BY <1>i, ShapeFacts DEF IInv, TypeOK
<1> DEFINE Kept == \A x \in Threads : Given(x)' <=> Given(x)
<1>1. CASE Lock(t) \/ TryLock(t)
  <2>1. Line' = Line
    BY <1>1, LineKept DEF LockPush, LockWakeOther, LockPoppedSelf, UnlockWake,
       Lock, TryLock, At
  <2>2. /\ owner' = owner /\ depth' = depth /\ woken' = woken /\ rec' = rec /\ pc[t] = "run"
        /\ pc' = [pc EXCEPT ![t] = IF count = 0 THEN "lk_own" ELSE IF Lock(t) THEN "lk_rec" ELSE "tl_rec"]
    BY <1>1 DEF Lock, TryLock, At, Goto, held, wvars, locals
  <2>3. CASE count = 0
    <3>1. Given(t)'
      BY <2>2, <2>3, <1>s DEF Given, Shape
    <3>2. Abstract!Enter(t)
      BY <1>i, <2>1, <2>2, <2>3, <3>1, MapsEnter
    <3> QED
      BY <3>2 DEF Abstract!Next
  <2>4. CASE count # 0
    <3>1. Kept
      BY <2>2, <2>4, <1>s DEF Given, Shape
    <3> QED
      BY <1>i, <2>1, <2>2, <3>1, MapsStutter
  <2> QED
    BY <2>3, <2>4
<1>2. ASSUME NEW w \in Threads, SendLock(t, w)
      PROVE  [Abstract!Next]_(Abstract!avars)
  <2>1. Line' = Line
    BY <1>2, LineKept DEF LockPush, LockWakeOther, LockPoppedSelf, UnlockWake,
       SendLock, At
  <2>2. /\ owner' = owner /\ depth' = depth /\ woken' = woken /\ pc[t] = "run"
        /\ rec' = [rec EXCEPT ![t] = w]
        /\ pc' = [pc EXCEPT ![t] = IF count = 0 THEN "sl_wake" ELSE "lk_push"]
    BY <1>2 DEF SendLock, At, Goto, held, wvars, locals
  <2>3. CASE count = 0
    <3>1. Given(w)'
      BY <2>2, <2>3, <1>s DEF Given, Shape
    <3>2. Abstract!Enter(w)
      BY <1>i, <2>1, <2>2, <2>3, <3>1, MapsEnter
    <3> QED
      BY <3>2 DEF Abstract!Next
  <2>4. CASE count # 0
    <3>1. Kept
      BY <2>2, <2>4, <1>s DEF Given, Shape
    <3> QED
      BY <1>i, <2>1, <2>2, <3>1, MapsStutter
  <2> QED
    BY <2>3, <2>4
<1>3. CASE LockWakeOther(t) \/ LockPoppedSelf(t) \/ UnlockWake(t)
  BY <1>3, MapsGrant DEF Abstract!Next
<1>4. CASE LockPush(t)
  BY <1>4, <1>s, MapsEnqueue DEF Abstract!Next, Shape
<1>5. CASE TryLockTakeHandoff(t)
  <2>1. Line' = Line
    BY <1>5, LineKept DEF LockPush, LockWakeOther, LockPoppedSelf, UnlockWake,
       TryLockTakeHandoff, At
  <2> QED
    BY <1>5, <2>1, MapsBarge DEF Abstract!Next
<1>6. CASE Unlock(t)
  <2>1. Line' = Line
    BY <1>6, LineKept DEF LockPush, LockWakeOther, LockPoppedSelf, UnlockWake,
       Unlock, At
  <2> QED
    BY <1>6, <2>1, MapsUnlock DEF Abstract!Next
<1>7. ASSUME ~ (Lock(t) \/ TryLock(t)), \A w \in Threads : ~ SendLock(t, w),
             ~ (LockWakeOther(t) \/ LockPoppedSelf(t) \/ UnlockWake(t)),
             ~ LockPush(t), ~ TryLockTakeHandoff(t), ~ Unlock(t)
      PROVE  [Abstract!Next]_(Abstract!avars)
  <2>1. Kept /\ Line' = Line
    BY <1>7, GivenKept, LineKept
  <2>2. CASE LockDeepen(t) \/ (TryLockCheckOwner(t) /\ owner = t) \/ UnlockShallower(t)
    <3>1. owner = t /\ owner' = owner
      BY <2>2, <1>s DEF LockDeepen, TryLockCheckOwner, UnlockShallower,
         OwnerInv, At, held
    <3>2. /\ Holder = owner /\ Holder' = owner
          /\ Level = depth /\ Level' = depth'
      BY <1>i, <2>1, <3>1, MapsDepth, ThreadsAssumption
    <3>3. CASE LockDeepen(t) \/ TryLockCheckOwner(t)
      <4>1. depth' = depth + 1
        BY <2>2, <3>1, <3>3 DEF LockDeepen, TryLockCheckOwner
      <4> QED
        BY <2>1, <3>1, <3>2, <4>1, ThreadsAssumption DEF Abstract!Next,
           Abstract!Again
    <3>4. CASE UnlockShallower(t)
      <4>1. depth' = depth - 1 /\ depth # 1
        BY <3>4, SMT DEF UnlockShallower
      <4> QED
        BY <2>1, <3>1, <3>2, <4>1, ThreadsAssumption DEF Abstract!Next,
           Abstract!Leave
    <3> QED
      BY <2>2, <3>3, <3>4
  <2>3. CASE TakeOwnership(t)
    <3>1. owner' = t /\ depth' = 1 /\ pc[t] = "lk_own"
      BY <2>3 DEF TakeOwnership, At
    <3>2. owner = NoThread
      BY <3>1, <1>s DEF OneToken, Tok, TokenLocations, OwnerInv, Shape
    <3>3. Given(t)
      BY <3>1 DEF Given
    <3>4. Holders # {}
      BY <3>3, <1>s, GivenFacts DEF HolderIs
    <3>5. Level = 1 /\ Level' = 1
      BY <3>1, <3>2, <3>4, ThreadsAssumption DEF Level
    <3> QED
      BY <1>i, <2>1, <3>5, MapsStutter
  <2>4. ASSUME ~ LockDeepen(t), ~ (TryLockCheckOwner(t) /\ owner = t), ~ UnlockShallower(t),
               ~ TakeOwnership(t)
        PROVE  owner' = owner /\ depth' = depth
    BY <1>7, <2>4 DEF InvStep, Step, Call, PopHead, PopTake, PopRest, PopNone,
       EmptyNo, EmptyMaybe,
       EmptyYes, MissHandoff, LockCheckOwner, LockSeeHandoff, LockNoHandoff, LockTakeHandoff, LockWait,
       SendLockWake, TryLockCheckOwner, TryLockLoadHandoff, TryLockCount, UnlockCount,
       UnlockHandoff, UnlockTakeHandoff, Park, Branch, TakeHandoff, mutex, held
  <2> QED
    BY <1>i, <2>1, <2>2, <2>3, <2>4, MapsStutter
<1> QED
  BY <1>1, <1>2, <1>3, <1>4, <1>5, <1>6, <1>7

\* The lock-free mutex implements the abstract one: whatever threads do, in
\* any interleaving of their accesses, callers see one holder at a time and a
\* line served in the order of the pushes, which only try_lock() overtakes.
THEOREM Refinement == Spec => ImplementsMutex
<1>1. Init => Abstract!Init
  <2> SUFFICES ASSUME Init PROVE Abstract!Init
    OBVIOUS
  <2>1. IInv
    BY InitIInv
  <2>2. HandIs /\ HolderIs
    BY <2>1, InHandFacts, GivenFacts
  <2>3. \A x \in Threads : ~ Given(x)
    BY ThreadsAssumption DEF Init, Given
  <2>4. Holder = NoThread /\ Holders = {}
    BY <2>2, <2>3 DEF HolderIs
  <2>5. InHand = <<>>
    BY <2>2 DEF Init, HandIs
  <2> QED
    BY <2>4, <2>5, SMT DEF Init, Abstract!Init, Level, Line
<1>2. IInv /\ IInv' /\ MovedInv /\ [Next]_vars => [Abstract!Next]_(Abstract!avars)
  <2> SUFFICES ASSUME IInv, IInv', MovedInv, [Next]_vars
               PROVE  [Abstract!Next]_(Abstract!avars)
    OBVIOUS
  <2>1. CASE Next
    <3>1. PICK t \in Threads : Step(t) \/ Call(t)
      BY <2>1 DEF Next
    <3>2. InvStep(t)
      BY <3>1, CountFacts DEF InvStep
    <3> QED
      BY <3>2, MapsStep
  <2>2. CASE UNCHANGED vars
    <3>1. /\ owner' = owner /\ depth' = depth /\ woken' = woken /\ pc' = pc /\ rec' = rec
          /\ other' = other /\ taken' = taken /\ pushlist' = pushlist /\ poplist' = poplist
      BY <2>2 DEF vars, mutex, held, qvars, wvars, locals, popped
    <3>2. Line' = Line
      BY <3>1, LineSame
    <3>3. \A x \in Threads : Given(x)' <=> Given(x)
      BY <3>1 DEF Given
    <3> QED
      BY <3>1, <3>2, <3>3, MapsStutter
  <2> QED
    BY <2>1, <2>2
<1>3. NoticeInv => MovedInv
  BY DEF NoticeInv
<1> QED
  BY <1>1, <1>2, <1>3, Invariance, NoticeInvariance, PTL DEF Spec,
     ImplementsMutex, Abstract!Spec

=============================================================================
