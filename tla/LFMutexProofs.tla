--------------------------- MODULE LFMutexProofs ---------------------------
(***************************************************************************)
(* The theorems about LFMutex, for any finite set of threads, any range of *)
(* the sequence counter and any recursion depth, from the invariant IInv   *)
(* of LFMutexInv: every step keeps the parts that say who has the token,   *)
(* who sleeps and whom count counts, then those about the wait queue and   *)
(* the records in it, and last the counting: count is the number of        *)
(* claims, so the step of unlock() that finds count > 1 leaves a thread to *)
(* serve.                                                                  *)
(***************************************************************************)
EXTENDS LFMutexInv, FiniteSetTheorems

\* A step is left to Zenon, unless it names SMT or the temporal prover.
USE ZenonT(40)

\* The token is never in two places: a wake gives it away, a handoff puts it on
\* offer, and whoever takes the handoff clears it.
LEMMA OneTokenStep ==
    ASSUME NEW t \in Threads, InvStep(t)
    PROVE  OneToken'
<1>s. /\ Shape /\ OneToken /\ OwnerInv /\ WaitInv /\ PopInv /\ ReachInv
      /\ OldInv
  BY BoundsAssumption, SMT DEF InvStep, IInv, TypeOK, Shape
<1> USE <1>s, ThreadsAssumption DEF Shape, OneToken, Tok, TokenLocations,
      OwnerInv, WaitInv, OldInv, At, Goto, InLock, mutex, held, rho, qvars,
      wvars, locals, popped
<1>0. count = 0 => /\ handoff = 0 /\ owner = NoThread
                   /\ \A u \in Threads : ~ Tok(u)
  BY DEF InvStep, FreeInv
<1>1. CASE PopHead(t) BY <1>1, SMT DEF PopHead, Result
<1>2. CASE PopTake(t) BY <1>2, SMT DEF PopTake
<1>3. CASE PopRest(t) BY <1>3, SMT DEF PopRest, Result
<1>4. CASE PopNone(t) BY <1>4, SMT DEF PopNone, Branch
<1>5. CASE EmptyNo(t)
  <2>1. /\ pc[t] \in {"lk_emp", "ul_emp", "lk_emp2", "ul_emp2"}
        /\ Branch(t, IF pc[t] \in InLock THEN "lk_cas" ELSE "ul_cas")
    BY <1>5 DEF EmptyNo
  <2> QED
    BY <2>1, SMT DEF Branch
<1>6. CASE EmptyMaybe(t) BY <1>6, SMT DEF EmptyMaybe, Branch
<1>7. CASE EmptyYes(t) BY <1>7, SMT DEF EmptyYes, Leave, EndLocals
<1>8. CASE MissHandoff(t) BY <1>8, SMT DEF MissHandoff, Leave, EndLocals
<1>9. CASE Lock(t) BY <1>9, <1>0, SMT DEF Lock
<1>10. CASE LockCheckOwner(t) BY <1>10, SMT DEF LockCheckOwner, Branch
<1>11. CASE LockDeepen(t) BY <1>11, SMT DEF LockDeepen
<1>12. CASE LockPush(t) BY <1>12, SMT DEF LockPush, Push
<1>13. CASE LockSeeHandoff(t) BY <1>13, SMT DEF LockSeeHandoff
<1>14. CASE LockNoHandoff(t) BY <1>14, SMT DEF LockNoHandoff, Leave, EndLocals
<1>15. CASE LockTakeHandoff(t)
  BY <1>15, SMT DEF LockTakeHandoff, TakeHandoff, EndLocals
<1>16. CASE LockWakeOther(t)
  <2>1. /\ other[t] \in Threads \ {t}
        /\ \A u \in Threads : u # t => ~ Tok(u)
        /\ handoff = 0 /\ ~ woken[t] /\ owner # t
    BY <1>16, SMT DEF LockWakeOther
  <2> QED
    BY <1>16, <2>1, SMT DEF LockWakeOther, Leave, EndLocals, Wake
<1>17. CASE LockPoppedSelf(t) BY <1>17, SMT DEF LockPoppedSelf, EndLocals
<1>18. CASE LockWait(t) BY <1>18, SMT DEF LockWait, Branch
<1>19. CASE TakeOwnership(t) BY <1>19, SMT DEF TakeOwnership
<1>20. CASE SendLockWake(t)
  <2>1. /\ rec[t] \in Threads \ {t}
        /\ \A u \in Threads : u # t => ~ Tok(u)
        /\ handoff = 0 /\ ~ woken[t] /\ owner # t
    BY <1>20 DEF SendLockWake, Pushed
  <2> QED
    BY <1>20, <2>1, SMT DEF SendLockWake, Leave, EndLocals, Wake
<1>21. CASE TryLock(t) BY <1>21, <1>0, SMT DEF TryLock
<1>22. CASE TryLockCheckOwner(t) BY <1>22, SMT DEF TryLockCheckOwner
<1>23. CASE TryLockLoadHandoff(t) BY <1>23, SMT DEF TryLockLoadHandoff
<1>24. CASE TryLockTakeHandoff(t)
  BY <1>24, SMT DEF TryLockTakeHandoff, TakeHandoff, EndLocals
<1>25. CASE TryLockCount(t) BY <1>25, SMT DEF TryLockCount
<1>26. CASE UnlockShallower(t) BY <1>26 DEF UnlockShallower
<1>27. CASE Unlock(t) BY <1>27, SMT DEF Unlock
<1>28. CASE UnlockCount(t) BY <1>28, SMT DEF UnlockCount
<1>29. CASE UnlockWake(t)
  <2>1. /\ other[t] \in Threads \ {t}
        /\ \A u \in Threads : u # t => ~ Tok(u)
        /\ handoff = 0 /\ ~ woken[t] /\ owner # t
    <3>1. other[t] \in Threads /\ Reach(other[t])
      BY <1>29, SMT DEF UnlockWake, PopInv, Reach
    <3> QED
      BY <1>29, <3>1 DEF UnlockWake, ReachInv, Pushed
  <2> QED
    BY <1>29, <2>1, SMT DEF UnlockWake, Leave, EndLocals, Wake
<1>30. CASE UnlockHandoff(t)
  <2>1. /\ \A u \in Threads : u # t => ~ Tok(u)
        /\ ~ woken[t] /\ owner # t
    BY <1>30 DEF UnlockHandoff, Pushed
  <2>2. \A u \in Threads : ~ Tok(u)'
    BY <1>30, <2>1, SMT DEF UnlockHandoff
  <2> QED
    BY <2>2
<1>31. CASE UnlockTakeHandoff(t)
  BY <1>31, SMT DEF UnlockTakeHandoff, TakeHandoff, EndLocals
<1>32. CASE Park(t) BY <1>32, SMT DEF Park
<1>33. ASSUME NEW w \in Threads, SendLock(t, w) PROVE OneToken'
  BY <1>33, <1>0, SMTT(40) DEF SendLock
<1> QED
  BY <1>1, <1>2, <1>3, <1>4, <1>5, <1>6, <1>7, <1>8, <1>9, <1>10, <1>11,
     <1>12, <1>13, <1>14, <1>15, <1>16, <1>17, <1>18, <1>19, <1>20,
     <1>21, <1>22, <1>23, <1>24, <1>25, <1>26, <1>27, <1>28, <1>29,
     <1>30, <1>31, <1>32, <1>33 DEF InvStep, Step, Call

\* The owner holds the token by owner alone.
LEMMA OwnerInvStep ==
    ASSUME NEW t \in Threads, InvStep(t)
    PROVE  OwnerInv'
<1>s. Shape /\ OneToken /\ OwnerInv /\ WaitInv /\ OldInv /\ depth \in Nat
  BY BoundsAssumption, SMT DEF InvStep, IInv, TypeOK, Shape
<1> USE <1>s, ThreadsAssumption DEF Shape, OwnerInv, TokenLocations, OneToken,
      Tok, WaitInv, OldInv, At, Goto, InLock, mutex, held, rho, qvars, wvars,
      locals, popped
<1>0. count = 0 => /\ handoff = 0 /\ owner = NoThread
                   /\ \A u \in Threads : ~ Tok(u)
  BY DEF InvStep, FreeInv
<1>1. CASE PopHead(t) BY <1>1, SMT DEF PopHead, Result
<1>2. CASE PopTake(t) BY <1>2, SMT DEF PopTake
<1>3. CASE PopRest(t) BY <1>3, SMT DEF PopRest, Result
<1>4. CASE PopNone(t) BY <1>4, SMT DEF PopNone, Branch
<1>5. CASE EmptyNo(t) BY <1>5, SMT DEF EmptyNo, Branch
<1>6. CASE EmptyMaybe(t) BY <1>6, SMT DEF EmptyMaybe, Branch
<1>7. CASE EmptyYes(t) BY <1>7, SMT DEF EmptyYes, Leave, EndLocals
<1>8. CASE MissHandoff(t) BY <1>8, SMT DEF MissHandoff, Leave, EndLocals
<1>9. CASE Lock(t) BY <1>9, <1>0, SMT DEF Lock
<1>10. CASE LockCheckOwner(t) BY <1>10, SMT DEF LockCheckOwner, Branch
<1>11. CASE LockDeepen(t) BY <1>11, SMT DEF LockDeepen
<1>12. CASE LockPush(t) BY <1>12, SMT DEF LockPush, Push
<1>13. CASE LockSeeHandoff(t) BY <1>13, SMT DEF LockSeeHandoff
<1>14. CASE LockNoHandoff(t) BY <1>14, SMT DEF LockNoHandoff, Leave, EndLocals
<1>15. CASE LockTakeHandoff(t)
  BY <1>15, SMT DEF LockTakeHandoff, TakeHandoff, EndLocals
<1>16. CASE LockWakeOther(t) BY <1>16, SMT DEF LockWakeOther, Leave, EndLocals, Wake
<1>17. CASE LockPoppedSelf(t) BY <1>17, SMT DEF LockPoppedSelf, EndLocals
<1>18. CASE LockWait(t) BY <1>18, SMT DEF LockWait, Branch
<1>19. CASE TakeOwnership(t) BY <1>19, SMT DEF TakeOwnership
<1>20. CASE SendLockWake(t) BY <1>20, SMT DEF SendLockWake, Leave, EndLocals, Wake
<1>21. CASE TryLock(t) BY <1>21, <1>0, SMT DEF TryLock
<1>22. CASE TryLockCheckOwner(t) BY <1>22, SMT DEF TryLockCheckOwner
<1>23. CASE TryLockLoadHandoff(t) BY <1>23, SMT DEF TryLockLoadHandoff
<1>24. CASE TryLockTakeHandoff(t)
  BY <1>24, SMT DEF TryLockTakeHandoff, TakeHandoff, EndLocals
<1>25. CASE TryLockCount(t) BY <1>25, SMT DEF TryLockCount
<1>26. CASE UnlockShallower(t) BY <1>26, SMT DEF UnlockShallower
<1>27. CASE Unlock(t) BY <1>27, SMT DEF Unlock
<1>28. CASE UnlockCount(t) BY <1>28, SMT DEF UnlockCount
<1>29. CASE UnlockWake(t) BY <1>29, SMT DEF UnlockWake, Leave, EndLocals, Wake
<1>30. CASE UnlockHandoff(t) BY <1>30, SMT DEF UnlockHandoff
<1>31. CASE UnlockTakeHandoff(t)
  BY <1>31, SMT DEF UnlockTakeHandoff, TakeHandoff, EndLocals
<1>32. CASE Park(t) BY <1>32, SMT DEF Park
<1>33. ASSUME NEW w \in Threads, SendLock(t, w) PROVE OwnerInv'
  BY <1>33, <1>0, SMTT(40) DEF SendLock
<1> QED
  BY <1>1, <1>2, <1>3, <1>4, <1>5, <1>6, <1>7, <1>8, <1>9, <1>10, <1>11,
     <1>12, <1>13, <1>14, <1>15, <1>16, <1>17, <1>18, <1>19, <1>20,
     <1>21, <1>22, <1>23, <1>24, <1>25, <1>26, <1>27, <1>28, <1>29,
     <1>30, <1>31, <1>32, <1>33 DEF InvStep, Step, Call

\* Only a thread that sleeps, or is about to, is woken or parked.
LEMMA WaitInvStep ==
    ASSUME NEW t \in Threads, InvStep(t)
    PROVE  WaitInv'
<1>s. /\ Shape /\ OneToken /\ WaitInv /\ SendInv /\ PopInv /\ ReachInv
      /\ OldInv
  BY BoundsAssumption, SMT DEF InvStep, IInv, TypeOK, Shape
<1> USE <1>s, ThreadsAssumption DEF Shape, WaitInv, Pushed, OneToken, Tok,
      TokenLocations, At, Goto, InLock, mutex, held, rho, qvars, wvars,
      locals, popped
<1>0. count = 0 => /\ handoff = 0 /\ owner = NoThread
                   /\ \A u \in Threads : ~ Tok(u)
  BY DEF InvStep, FreeInv
<1>1. CASE PopHead(t)
  <2>1. /\ pc[t] \in {"lk_pop", "ul_pop"} /\ pc' = [pc EXCEPT ![t] = Result(t)]
        /\ UNCHANGED <<woken, parked, rec>>
    BY <1>1 DEF PopHead
  <2> QED
    BY <2>1, SMT DEF Result
<1>2. CASE PopTake(t) BY <1>2, SMT DEF PopTake
<1>3. CASE PopRest(t) BY <1>3, SMT DEF PopRest, Result
<1>4. CASE PopNone(t) BY <1>4, SMT DEF PopNone, Branch
<1>5. CASE EmptyNo(t)
  <2>1. /\ pc[t] \in {"lk_emp", "ul_emp", "lk_emp2", "ul_emp2"}
        /\ Branch(t, IF pc[t] \in InLock THEN "lk_cas" ELSE "ul_cas")
    BY <1>5 DEF EmptyNo
  <2> QED
    BY <2>1, SMT DEF Branch
<1>6. CASE EmptyMaybe(t) BY <1>6, SMT DEF EmptyMaybe, Branch
<1>7. CASE EmptyYes(t) BY <1>7, SMT DEF EmptyYes, Leave, EndLocals
<1>8. CASE MissHandoff(t) BY <1>8, SMT DEF MissHandoff, Leave, EndLocals
<1>9. CASE Lock(t) BY <1>9, <1>0, SMT DEF Lock
<1>10. CASE LockCheckOwner(t)
  BY <1>10, SMT DEF LockCheckOwner, Branch, SendInv, Target
<1>11. CASE LockDeepen(t) BY <1>11, SMT DEF LockDeepen
<1>12. CASE LockPush(t) BY <1>12, SMT DEF LockPush, Push
<1>13. CASE LockSeeHandoff(t) BY <1>13, SMT DEF LockSeeHandoff
<1>14. CASE LockNoHandoff(t) BY <1>14, SMT DEF LockNoHandoff, Leave, EndLocals
<1>15. CASE LockTakeHandoff(t)
  BY <1>15, SMT DEF LockTakeHandoff, TakeHandoff, EndLocals, OldInv
<1>16. CASE LockWakeOther(t)
  BY <1>16, SMT DEF LockWakeOther, Leave, EndLocals, Wake, OldInv, ReachInv, Reach
<1>17. CASE LockPoppedSelf(t)
  BY <1>17, SMT DEF LockPoppedSelf, EndLocals, ReachInv, Reach
<1>18. CASE LockWait(t) BY <1>18, SMT DEF LockWait, Branch
<1>19. CASE TakeOwnership(t) BY <1>19, SMT DEF TakeOwnership
<1>20. CASE SendLockWake(t)
  BY <1>20, SMT DEF SendLockWake, Leave, EndLocals, Wake, SendInv, Target
<1>21. CASE TryLock(t) BY <1>21, <1>0, SMT DEF TryLock
<1>22. CASE TryLockCheckOwner(t) BY <1>22, SMT DEF TryLockCheckOwner
<1>23. CASE TryLockLoadHandoff(t) BY <1>23, SMT DEF TryLockLoadHandoff
<1>24. CASE TryLockTakeHandoff(t)
  BY <1>24, SMT DEF TryLockTakeHandoff, TakeHandoff, EndLocals
<1>25. CASE TryLockCount(t) BY <1>25, SMT DEF TryLockCount
<1>26. CASE UnlockShallower(t) BY <1>26 DEF UnlockShallower
<1>27. CASE Unlock(t) BY <1>27, SMT DEF Unlock
<1>28. CASE UnlockCount(t) BY <1>28, SMT DEF UnlockCount
<1>29. CASE UnlockWake(t)
  BY <1>29, SMT DEF UnlockWake, Leave, EndLocals, Wake, PopInv, ReachInv, Reach
<1>30. CASE UnlockHandoff(t) BY <1>30, SMT DEF UnlockHandoff
<1>31. CASE UnlockTakeHandoff(t)
  BY <1>31, SMT DEF UnlockTakeHandoff, TakeHandoff, EndLocals
<1>32. CASE Park(t) BY <1>32, SMT DEF Park
<1>33. ASSUME NEW w \in Threads, SendLock(t, w) PROVE WaitInv'
  BY <1>33, <1>0, SMTT(40) DEF SendLock
<1> QED
  BY <1>1, <1>2, <1>3, <1>4, <1>5, <1>6, <1>7, <1>8, <1>9, <1>10, <1>11,
     <1>12, <1>13, <1>14, <1>15, <1>16, <1>17, <1>18, <1>19, <1>20,
     <1>21, <1>22, <1>23, <1>24, <1>25, <1>26, <1>27, <1>28, <1>29,
     <1>30, <1>31, <1>32, <1>33 DEF InvStep, Step, Call

\* A record that send_lock() is about to push or wake has one sender, and its
\* thread sleeps.
LEMMA SendInvStep ==
    ASSUME NEW t \in Threads, InvStep(t)
    PROVE  SendInv'
<1>s. Shape /\ WaitInv /\ SendInv /\ PopInv /\ ReachInv
  BY BoundsAssumption, SMT DEF InvStep, IInv, TypeOK, Shape
<1> USE <1>s, ThreadsAssumption DEF Shape, SendInv, Target, WaitInv, At, Goto,
      InLock, mutex, held, rho, qvars, wvars, locals, popped
<1>1. CASE PopHead(t)
  <2>1. /\ pc[t] \in {"lk_pop", "ul_pop"} /\ pc' = [pc EXCEPT ![t] = Result(t)]
        /\ UNCHANGED <<woken, parked, rec>>
    BY <1>1 DEF PopHead
  <2> QED
    BY <2>1, SMT DEF Result
<1>2. CASE PopTake(t) BY <1>2, SMT DEF PopTake
<1>3. CASE PopRest(t)
  <2>1. /\ pc[t] \in {"lk_pop2", "ul_pop2"} /\ pc' = [pc EXCEPT ![t] = Result(t)]
        /\ UNCHANGED <<woken, parked, rec>>
    BY <1>3 DEF PopRest
  <2> QED
    BY <2>1, SMT DEF Result
<1>4. CASE PopNone(t) BY <1>4, SMT DEF PopNone, Branch
<1>5. CASE EmptyNo(t)
  <2>1. /\ pc[t] \in {"lk_emp", "ul_emp", "lk_emp2", "ul_emp2"}
        /\ Branch(t, IF pc[t] \in InLock THEN "lk_cas" ELSE "ul_cas")
    BY <1>5 DEF EmptyNo
  <2> QED
    BY <2>1, SMT DEF Branch
<1>6. CASE EmptyMaybe(t) BY <1>6, SMT DEF EmptyMaybe, Branch
<1>7. CASE EmptyYes(t) BY <1>7, SMT DEF EmptyYes, Leave, EndLocals
<1>8. CASE MissHandoff(t) BY <1>8, SMT DEF MissHandoff, Leave, EndLocals
<1>9. CASE Lock(t) BY <1>9, SMT DEF Lock
<1>10. CASE LockCheckOwner(t)
  <2>1. pc[t] = "lk_rec" /\ rec[t] = t
    BY <1>10 DEF LockCheckOwner, Pushed
  <2> QED
    BY <1>10, <2>1, SMT DEF LockCheckOwner, Branch
<1>11. CASE LockDeepen(t) BY <1>11, SMT DEF LockDeepen
<1>12. CASE LockPush(t) BY <1>12, SMT DEF LockPush, Push
<1>13. CASE LockSeeHandoff(t) BY <1>13, SMT DEF LockSeeHandoff
<1>14. CASE LockNoHandoff(t) BY <1>14, SMT DEF LockNoHandoff, Leave, EndLocals
<1>15. CASE LockTakeHandoff(t)
  BY <1>15, SMT DEF LockTakeHandoff, TakeHandoff, EndLocals
<1>16. CASE LockWakeOther(t)
  <2>1. other[t] \in Threads /\ Reach(other[t])
    BY <1>16, SMT DEF LockWakeOther, Reach
  <2>2. \A u \in Threads : ~ Target(u, other[t])
    BY <2>1 DEF ReachInv
  <2> QED
    BY <1>16, <2>1, <2>2, SMT DEF LockWakeOther, Leave, EndLocals, Wake
<1>17. CASE LockPoppedSelf(t) BY <1>17, SMT DEF LockPoppedSelf, EndLocals
<1>18. CASE LockWait(t) BY <1>18, SMT DEF LockWait, Branch
<1>19. CASE TakeOwnership(t) BY <1>19, SMT DEF TakeOwnership
<1>20. CASE SendLockWake(t) BY <1>20, SMT DEF SendLockWake, Leave, EndLocals, Wake
<1>21. CASE TryLock(t) BY <1>21, SMT DEF TryLock
<1>22. CASE TryLockCheckOwner(t) BY <1>22, SMT DEF TryLockCheckOwner
<1>23. CASE TryLockLoadHandoff(t) BY <1>23, SMT DEF TryLockLoadHandoff
<1>24. CASE TryLockTakeHandoff(t)
  BY <1>24, SMT DEF TryLockTakeHandoff, TakeHandoff, EndLocals
<1>25. CASE TryLockCount(t) BY <1>25, SMT DEF TryLockCount
<1>26. CASE UnlockShallower(t) BY <1>26, SMT DEF UnlockShallower
<1>27. CASE Unlock(t) BY <1>27, SMT DEF Unlock
<1>28. CASE UnlockCount(t) BY <1>28, SMT DEF UnlockCount
<1>29. CASE UnlockWake(t)
  <2>1. other[t] \in Threads /\ Reach(other[t])
    BY <1>29, SMT DEF UnlockWake, Reach, PopInv
  <2>2. \A u \in Threads : ~ Target(u, other[t])
    BY <2>1 DEF ReachInv
  <2> QED
    BY <1>29, <2>1, <2>2, SMTT(40) DEF UnlockWake, Leave, EndLocals, Wake
<1>30. CASE UnlockHandoff(t) BY <1>30, SMT DEF UnlockHandoff
<1>31. CASE UnlockTakeHandoff(t)
  BY <1>31, SMT DEF UnlockTakeHandoff, TakeHandoff, EndLocals
<1>32. CASE Park(t) BY <1>32, SMT DEF Park
<1>33. ASSUME NEW w \in Threads, SendLock(t, w) PROVE SendInv'
  BY <1>33, SMTT(40) DEF SendLock
<1> QED
  BY <1>1, <1>2, <1>3, <1>4, <1>5, <1>6, <1>7, <1>8, <1>9, <1>10, <1>11,
     <1>12, <1>13, <1>14, <1>15, <1>16, <1>17, <1>18, <1>19, <1>20,
     <1>21, <1>22, <1>23, <1>24, <1>25, <1>26, <1>27, <1>28, <1>29,
     <1>30, <1>31, <1>32, <1>33 DEF InvStep, Step, Call

\* How a step changes count and the sets it counts.
ClaimsSame == count' = count /\ Claims' = Claims /\ Recursing' = Recursing
ClaimsGain(x) ==
    /\ count' = count + 1
    /\ x \in Threads \ Claims
    /\ Claims' = Claims \cup {x} /\ Recursing' = Recursing
ClaimsLose(t) ==
    /\ count' = count - 1
    /\ pc[t] = "ul_dec" /\ t \in Claims
    /\ Claims' = Claims \ {t} /\ Recursing' = Recursing
RecursingGain(t) ==
    /\ count' = count + 1
    /\ t \notin Recursing /\ t \in Claims
    /\ Claims' = Claims /\ Recursing' = Recursing \cup {t}
RecursingLose(t) ==
    /\ count' = count - 1
    /\ t \in Recursing /\ t \in Claims
    /\ Claims' = Claims /\ Recursing' = Recursing \ {t}

\* Which of the five a step is.
LEMMA ClaimsStep ==
    ASSUME NEW t \in Threads, InvStep(t)
    PROVE  \/ ClaimsSame \/ (\E x \in Threads : ClaimsGain(x))
           \/ ClaimsLose(t) \/ RecursingGain(t) \/ RecursingLose(t)
<1>s. Shape /\ OneToken /\ OwnerInv /\ WaitInv /\ ReachInv
  BY BoundsAssumption, SMT DEF InvStep, IInv, TypeOK, Shape
<1> USE <1>s, ThreadsAssumption DEF Shape, Claims, Recursing, OneToken, Tok,
      TokenLocations, OwnerInv, WaitInv, Pushed, At, Goto, InLock, mutex,
      held, rho, qvars, wvars, locals, popped
<1>0. count = 0 => /\ handoff = 0 /\ owner = NoThread
                   /\ \A u \in Threads : ~ Tok(u)
  BY DEF InvStep, FreeInv
<1>1. CASE PopHead(t) BY <1>1, SMT DEF PopHead, Result, ClaimsSame
<1>2. CASE PopTake(t) BY <1>2, SMT DEF PopTake, ClaimsSame
<1>3. CASE PopRest(t) BY <1>3, SMT DEF PopRest, Result, ClaimsSame
<1>4. CASE PopNone(t) BY <1>4, SMT DEF PopNone, Branch, ClaimsSame
<1>5. CASE EmptyNo(t)
  <2>1. /\ pc[t] \in {"lk_emp", "ul_emp", "lk_emp2", "ul_emp2"}
        /\ Branch(t, IF pc[t] \in InLock THEN "lk_cas" ELSE "ul_cas")
    BY <1>5 DEF EmptyNo
  <2> QED
    BY <2>1, SMT DEF Branch, ClaimsSame
<1>6. CASE EmptyMaybe(t) BY <1>6, SMT DEF EmptyMaybe, Branch, ClaimsSame
<1>7. CASE EmptyYes(t) BY <1>7, SMT DEF EmptyYes, Leave, EndLocals, ClaimsSame
<1>8. CASE MissHandoff(t)
  BY <1>8, SMT DEF MissHandoff, Leave, EndLocals, ClaimsSame
<1>9. CASE Lock(t)
  <2>1. CASE owner = t
    BY <1>9, <1>0, <2>1, SMT DEF Lock, RecursingGain
  <2>2. CASE owner # t
    <3>1. rec[t] = t /\ t \notin parked /\ t \notin Claims /\ pc[t] = "run"
      BY <1>9, <2>2 DEF Lock
    <3>2. Claims' = Claims \cup {t} /\ Recursing' = Recursing
      BY <1>9, <1>0, <2>2, <3>1, SMT DEF Lock
    <3>3. ClaimsGain(t)
      BY <1>9, <3>1, <3>2 DEF Lock, ClaimsGain
    <3> QED
      BY <3>3
  <2> QED
    BY <2>1, <2>2
<1>10. CASE LockCheckOwner(t)
  BY <1>10, SMT DEF LockCheckOwner, Branch, ClaimsSame
<1>11. CASE LockDeepen(t) BY <1>11, SMT DEF LockDeepen, RecursingLose
<1>12. CASE LockPush(t) BY <1>12, SMT DEF LockPush, Push, ClaimsSame
<1>13. CASE LockSeeHandoff(t) BY <1>13, SMT DEF LockSeeHandoff, ClaimsSame
<1>14. CASE LockNoHandoff(t)
  BY <1>14, SMT DEF LockNoHandoff, Leave, EndLocals, ClaimsSame
<1>15. CASE LockTakeHandoff(t)
  BY <1>15, SMT DEF LockTakeHandoff, TakeHandoff, EndLocals, ClaimsSame
<1>16. CASE LockWakeOther(t)
  <2>1. CASE rec[t] = t
    BY <1>16, <2>1, SMT DEF LockWakeOther, Leave, EndLocals, Wake, ClaimsSame
  <2>2. CASE rec[t] # t
    BY <1>16, <2>2, SMT DEF LockWakeOther, Leave, EndLocals, Wake, ClaimsSame
  <2> QED
    BY <2>1, <2>2
<1>17. CASE LockPoppedSelf(t)
  <2>1. rec[t] = t /\ t \notin parked
    BY <1>17 DEF LockPoppedSelf, ReachInv, Reach
  <2> QED
    BY <1>17, <2>1, SMT DEF LockPoppedSelf, EndLocals, ClaimsSame
<1>18. CASE LockWait(t) BY <1>18, SMT DEF LockWait, Branch, ClaimsSame
<1>19. CASE TakeOwnership(t) BY <1>19, SMT DEF TakeOwnership, ClaimsSame
<1>20. CASE SendLockWake(t)
  BY <1>20, SMT DEF SendLockWake, Leave, EndLocals, Wake, ClaimsSame
<1>21. CASE TryLock(t)
  <2>1. CASE count = 0
    <3>1. ClaimsGain(t)
      BY <1>21, <1>0, <2>1, SMT DEF TryLock, ClaimsGain
    <3> QED
      BY <3>1
  <2>2. CASE count # 0
    BY <1>21, <2>2, SMT DEF TryLock, ClaimsSame
  <2> QED
    BY <2>1, <2>2
<1>22. CASE TryLockCheckOwner(t) BY <1>22, SMT DEF TryLockCheckOwner, ClaimsSame
<1>23. CASE TryLockLoadHandoff(t)
  BY <1>23, SMT DEF TryLockLoadHandoff, ClaimsSame
<1>24. CASE TryLockTakeHandoff(t)
  BY <1>24, SMT DEF TryLockTakeHandoff, TakeHandoff, EndLocals, ClaimsSame
<1>25. CASE TryLockCount(t)
  <2>1. ClaimsGain(t)
    BY <1>25, SMT DEF TryLockCount, ClaimsGain
  <2> QED
    BY <2>1
<1>26. CASE UnlockShallower(t) BY <1>26, SMT DEF UnlockShallower, ClaimsSame
<1>27. CASE Unlock(t) BY <1>27, SMT DEF Unlock, ClaimsSame
<1>28. CASE UnlockCount(t) BY <1>28, SMT DEF UnlockCount, ClaimsLose
<1>29. CASE UnlockWake(t)
  BY <1>29, SMT DEF UnlockWake, Leave, EndLocals, Wake, ClaimsSame
<1>30. CASE UnlockHandoff(t) BY <1>30, SMT DEF UnlockHandoff, ClaimsSame
<1>31. CASE UnlockTakeHandoff(t)
  BY <1>31, SMT DEF UnlockTakeHandoff, TakeHandoff, EndLocals, ClaimsSame
<1>32. CASE Park(t) BY <1>32, SMT DEF Park, ClaimsSame
<1>33. ASSUME NEW w \in Threads, SendLock(t, w) 
             PROVE  \/ ClaimsSame \/ (\E x \in Threads : ClaimsGain(x))
           \/ ClaimsLose(t) \/ RecursingGain(t) \/ RecursingLose(t)
  <2>1. w # t /\ w \notin Claims
    BY <1>33 DEF SendLock
  <2>2. ClaimsGain(w)
    BY <1>33, <1>0, <2>1, SMTT(40) DEF SendLock, ClaimsGain
  <2> QED
    BY <2>2
<1> QED
  BY <1>1, <1>2, <1>3, <1>4, <1>5, <1>6, <1>7, <1>8, <1>9, <1>10, <1>11,
     <1>12, <1>13, <1>14, <1>15, <1>16, <1>17, <1>18, <1>19, <1>20,
     <1>21, <1>22, <1>23, <1>24, <1>25, <1>26, <1>27, <1>28, <1>29,
     <1>30, <1>31, <1>32, <1>33 DEF InvStep, Step, Call

\* A step creates no token, unless it counts a claim.
LEMMA TokenKept ==
    ASSUME NEW t \in Threads, InvStep(t)
    PROVE  handoff' # 0 \/ (\E u \in Threads : Tok(u)')
           => handoff # 0 \/ (\E u \in Threads : Tok(u)) \/ count' # count
<1>s. Shape /\ OldInv
  BY BoundsAssumption, SMT DEF InvStep, IInv, TypeOK, Shape
<1> USE <1>s, ThreadsAssumption DEF Shape, Tok, TokenLocations, OldInv, At,
      Goto, InLock, mutex, held, rho, qvars, wvars, locals, popped
<1>1. CASE PopHead(t) BY <1>1 DEF PopHead, Result
<1>2. CASE PopTake(t) BY <1>2 DEF PopTake
<1>3. CASE PopRest(t) BY <1>3 DEF PopRest, Result
<1>4. CASE PopNone(t) BY <1>4 DEF PopNone, Branch
<1>5. CASE EmptyNo(t)
  <2>1. /\ pc[t] \in {"lk_emp", "ul_emp", "lk_emp2", "ul_emp2"}
        /\ Branch(t, IF pc[t] \in InLock THEN "lk_cas" ELSE "ul_cas")
    BY <1>5 DEF EmptyNo
  <2> QED
    BY <2>1 DEF Branch
<1>6. CASE EmptyMaybe(t) BY <1>6 DEF EmptyMaybe, Branch
<1>7. CASE EmptyYes(t) BY <1>7 DEF EmptyYes, Leave, EndLocals
<1>8. CASE MissHandoff(t) BY <1>8 DEF MissHandoff, Leave, EndLocals
<1>9. CASE Lock(t) BY <1>9, SMT DEF Lock
<1>10. CASE LockCheckOwner(t) BY <1>10 DEF LockCheckOwner, Branch
<1>11. CASE LockDeepen(t) BY <1>11 DEF LockDeepen
<1>12. CASE LockPush(t) BY <1>12 DEF LockPush, Push
<1>13. CASE LockSeeHandoff(t) BY <1>13 DEF LockSeeHandoff
<1>14. CASE LockNoHandoff(t) BY <1>14 DEF LockNoHandoff, Leave, EndLocals
<1>15. CASE LockTakeHandoff(t)
  BY <1>15 DEF LockTakeHandoff, TakeHandoff, EndLocals
<1>16. CASE LockWakeOther(t) BY <1>16 DEF LockWakeOther, Leave, EndLocals, Wake
<1>17. CASE LockPoppedSelf(t) BY <1>17 DEF LockPoppedSelf, EndLocals
<1>18. CASE LockWait(t) BY <1>18 DEF LockWait, Branch
<1>19. CASE TakeOwnership(t) BY <1>19 DEF TakeOwnership
<1>20. CASE SendLockWake(t) BY <1>20 DEF SendLockWake, Leave, EndLocals, Wake
<1>21. CASE TryLock(t) BY <1>21, SMT DEF TryLock
<1>22. CASE TryLockCheckOwner(t) BY <1>22 DEF TryLockCheckOwner
<1>23. CASE TryLockLoadHandoff(t) BY <1>23 DEF TryLockLoadHandoff
<1>24. CASE TryLockTakeHandoff(t)
  BY <1>24 DEF TryLockTakeHandoff, TakeHandoff, EndLocals
<1>25. CASE TryLockCount(t) BY <1>25 DEF TryLockCount
<1>26. CASE UnlockShallower(t) BY <1>26 DEF UnlockShallower
<1>27. CASE Unlock(t) BY <1>27 DEF Unlock
<1>28. CASE UnlockCount(t) BY <1>28 DEF UnlockCount
<1>29. CASE UnlockWake(t) BY <1>29 DEF UnlockWake, Leave, EndLocals, Wake
<1>30. CASE UnlockHandoff(t) BY <1>30 DEF UnlockHandoff
<1>31. CASE UnlockTakeHandoff(t)
  BY <1>31 DEF UnlockTakeHandoff, TakeHandoff, EndLocals
<1>32. CASE Park(t) BY <1>32 DEF Park
<1>33. ASSUME NEW w \in Threads, SendLock(t, w) PROVE handoff' # 0 \/ (\E u \in Threads : Tok(u)')
           => handoff # 0 \/ (\E u \in Threads : Tok(u)) \/ count' # count
  BY <1>33, SMT DEF SendLock
<1> QED
  BY <1>1, <1>2, <1>3, <1>4, <1>5, <1>6, <1>7, <1>8, <1>9, <1>10, <1>11,
     <1>12, <1>13, <1>14, <1>15, <1>16, <1>17, <1>18, <1>19, <1>20,
     <1>21, <1>22, <1>23, <1>24, <1>25, <1>26, <1>27, <1>28, <1>29,
     <1>30, <1>31, <1>32, <1>33 DEF InvStep, Step, Call

-----------------------------------------------------------------------------
\* What Head and Tail do to membership and distinctness.
LEMMA TailFacts ==
    ASSUME NEW S, NEW s \in Seq(S), s # <<>>
    PROVE  /\ Head(s) \in S
           /\ Tail(s) \in Seq(S)
           /\ \A w : In(s, w) <=> w = Head(s) \/ In(Tail(s), w)
           /\ Distinct(s) => Distinct(Tail(s)) /\ ~ In(Tail(s), Head(s))
<1>1. /\ Len(s) \in Nat /\ Len(s) > 0
      /\ Head(s) = s[1] /\ Tail(s) \in Seq(S) /\ Len(Tail(s)) = Len(s) - 1
      /\ \A i \in 1..Len(Tail(s)) : Tail(s)[i] = s[i+1]
  BY SMT
<1>2. Head(s) \in S
  BY <1>1, SMT
<1>3. ASSUME NEW w PROVE In(s, w) <=> w = Head(s) \/ In(Tail(s), w)
  <2>1. ASSUME In(s, w) PROVE w = Head(s) \/ In(Tail(s), w)
    <3>1. PICK i \in 1..Len(s) : s[i] = w
      BY <2>1 DEF In
    <3>2. CASE i = 1
      BY <3>1, <3>2, <1>1
    <3>3. CASE i # 1
      <4>1. i - 1 \in 1..Len(Tail(s)) /\ Tail(s)[i - 1] = s[i]
        BY <3>3, <1>1, SMT
      <4> QED
        BY <4>1, <3>1 DEF In
    <3> QED
      BY <3>2, <3>3
  <2>2. ASSUME w = Head(s) \/ In(Tail(s), w) PROVE In(s, w)
    <3>1. CASE w = Head(s)
      BY <3>1, <1>1, SMT DEF In
    <3>2. CASE In(Tail(s), w)
      <4>1. PICK i \in 1..Len(Tail(s)) : Tail(s)[i] = w
        BY <3>2 DEF In
      <4>2. i + 1 \in 1..Len(s) /\ s[i + 1] = w
        BY <4>1, <1>1, SMT
      <4> QED
        BY <4>2 DEF In
    <3> QED
      BY <2>2, <3>1, <3>2
  <2> QED
    BY <2>1, <2>2
<1>4. ASSUME Distinct(s) PROVE Distinct(Tail(s)) /\ ~ In(Tail(s), Head(s))
  <2>1. \A i \in 1..Len(Tail(s)) : i + 1 \in 1..Len(s) /\ Tail(s)[i] = s[i+1]
    BY <1>1, SMT
  <2>2. Distinct(Tail(s))
    BY <2>1, <1>4, <1>1, SMT DEF Distinct
  <2>3. ~ In(Tail(s), Head(s))
    BY <2>1, <1>4, <1>1, SMT DEF Distinct, In
  <2> QED
    BY <2>2, <2>3
<1> QED
  BY <1>1, <1>2, <1>3, <1>4

\* What Append does to them.
LEMMA AppendFacts ==
    ASSUME NEW S, NEW s \in Seq(S), NEW e \in S
    PROVE  /\ Append(s, e) \in Seq(S)
           /\ Append(s, e) # <<>>
           /\ \A w : In(Append(s, e), w) <=> w = e \/ In(s, w)
           /\ Distinct(s) /\ ~ In(s, e) => Distinct(Append(s, e))
<1> DEFINE a == Append(s, e)
<1>1. /\ a \in Seq(S) /\ Len(s) \in Nat /\ Len(a) = Len(s) + 1
      /\ a[Len(s) + 1] = e
      /\ \A i \in 1..Len(s) : a[i] = s[i]
  BY SMT
<1> HIDE DEF a
<1>2. a # <<>>
  BY <1>1, SMT
<1>3. ASSUME NEW w PROVE In(a, w) <=> w = e \/ In(s, w)
  <2>1. In(a, w) => w = e \/ In(s, w)
    BY <1>1, SMT DEF In
  <2>2. w = e => In(a, w)
    BY <1>1, SMT DEF In
  <2>3. In(s, w) => In(a, w)
    <3>1. SUFFICES ASSUME NEW i \in 1..Len(s), s[i] = w PROVE In(a, w)
      BY DEF In
    <3>2. i \in 1..Len(a) /\ a[i] = w
      BY <3>1, <1>1, SMT
    <3> QED
      BY <3>2 DEF In
  <2> QED
    BY <2>1, <2>2, <2>3
<1>4. ASSUME Distinct(s), ~ In(s, e) PROVE Distinct(a)
  BY <1>1, <1>4, SMT DEF Distinct, In
<1> QED
  BY <1>1, <1>2, <1>3, <1>4 DEF a

\* The empty queue.
LEMMA NilFacts == Distinct(<<>>) /\ \A w : ~ In(<<>>, w)
BY SMT DEF In, Distinct

\* pop() from the poplist, in the current state.
LEMMA PopFacts ==
    ASSUME TypeOK, poplist # <<>>
    PROVE  /\ Head(poplist) \in Threads
           /\ Tail(poplist) \in Seq(Threads)
           /\ \A w : In(poplist, w) <=> w = Head(poplist) \/ In(Tail(poplist), w)
           /\ Distinct(poplist) => /\ Distinct(Tail(poplist))
                                   /\ ~ In(Tail(poplist), Head(poplist))
<1>1. poplist \in Seq(Threads)
  BY DEF TypeOK
<1> QED
  BY ONLY <1>1, TailFacts, poplist # <<>>

\* pop() from the list taken from the pushlist.
LEMMA TakenFacts ==
    ASSUME TypeOK, NEW t \in Threads, taken[t] # <<>>
    PROVE  /\ Head(taken[t]) \in Threads
           /\ Tail(taken[t]) \in Seq(Threads)
           /\ \A w : In(taken[t], w) <=> w = Head(taken[t])
                                         \/ In(Tail(taken[t]), w)
           /\ Distinct(taken[t]) => /\ Distinct(Tail(taken[t]))
                                    /\ ~ In(Tail(taken[t]), Head(taken[t]))
<1>1. taken[t] \in Seq(Threads)
  BY DEF TypeOK
<1> QED
  BY ONLY <1>1, TailFacts, taken[t] # <<>>

\* push(), in the current state.
LEMMA PushFacts ==
    ASSUME TypeOK, NEW t \in Threads
    PROVE  LET a == Append(pushlist, rec[t])
           IN  /\ a \in Seq(Threads)
               /\ a # <<>>
               /\ \A w : In(a, w) <=> w = rec[t] \/ In(pushlist, w)
               /\ Distinct(pushlist) /\ ~ In(pushlist, rec[t]) => Distinct(a)
<1>1. pushlist \in Seq(Threads) /\ rec[t] \in Threads
  BY DEF TypeOK
<1> QED
  BY ONLY <1>1, AppendFacts

\* ++sequence skips 0.
LEMMA SequenceFacts == TypeOK => NextSequence \in 1..SeqMax
BY BoundsAssumption, SMTT(40) DEF TypeOK, NextSequence

\* Types are kept.
LEMMA TypeOKStep ==
    ASSUME NEW t \in Threads, InvStep(t)
    PROVE  TypeOK'
<1>s. TypeOK /\ PopInv
  BY BoundsAssumption DEF InvStep, IInv, TypeOK, Shape
<1> USE <1>s, ThreadsAssumption, BoundsAssumption DEF TypeOK, Locations, At,
      Goto, InLock, mutex, held, rho, qvars, wvars, locals, popped
<1>1. CASE PopHead(t) BY <1>1, PopFacts DEF PopHead, Result
<1>2. CASE PopTake(t) BY <1>2, NilFacts DEF PopTake
<1>3. CASE PopRest(t)
  <2>1. Head(taken[t]) \in Threads /\ Tail(taken[t]) \in Seq(Threads)
    BY <1>3, TakenFacts DEF PopRest, PopInv
  <2>2. /\ other' \in [Threads -> Threads \cup {NoThread}]
        /\ poplist' \in Seq(Threads)
        /\ taken' \in [Threads -> Seq(Threads)]
    BY <1>3, <2>1, SMT DEF PopRest
  <2>3. pc' \in [Threads -> Locations]
    BY <1>3 DEF PopRest, Result
  <2> QED
    BY <1>3, <2>2, <2>3 DEF PopRest
<1>4. CASE PopNone(t) BY <1>4 DEF PopNone, Branch
<1>5. CASE EmptyNo(t) BY <1>5 DEF EmptyNo, Branch
<1>6. CASE EmptyMaybe(t) BY <1>6 DEF EmptyMaybe, Branch
<1>7. CASE EmptyYes(t) BY <1>7, SMT DEF EmptyYes, Leave, EndLocals
<1>8. CASE MissHandoff(t) BY <1>8, SMT DEF MissHandoff, Leave, EndLocals
<1>9. CASE Lock(t) BY <1>9, SMT DEF Lock
<1>10. CASE LockCheckOwner(t) BY <1>10 DEF LockCheckOwner, Branch
<1>11. CASE LockDeepen(t) BY <1>11, SMT DEF LockDeepen
<1>12. CASE LockPush(t) BY <1>12, PushFacts DEF LockPush, Push
<1>13. CASE LockSeeHandoff(t) BY <1>13 DEF LockSeeHandoff
<1>14. CASE LockNoHandoff(t)
  BY <1>14 DEF LockNoHandoff, Leave, EndLocals
<1>15. CASE LockTakeHandoff(t)
  BY <1>15, SMT DEF LockTakeHandoff, TakeHandoff, EndLocals
<1>16. CASE LockWakeOther(t)
  BY <1>16, SMT DEF LockWakeOther, Leave, EndLocals, Wake
<1>17. CASE LockPoppedSelf(t) BY <1>17, SMT DEF LockPoppedSelf, EndLocals
<1>18. CASE LockWait(t) BY <1>18 DEF LockWait, Branch
<1>19. CASE TakeOwnership(t) BY <1>19 DEF TakeOwnership
<1>20. CASE SendLockWake(t)
  BY <1>20, SMT DEF SendLockWake, Leave, EndLocals, Wake
<1>21. CASE TryLock(t) BY <1>21, SMT DEF TryLock
<1>22. CASE TryLockCheckOwner(t) BY <1>22, SMT DEF TryLockCheckOwner
<1>23. CASE TryLockLoadHandoff(t) BY <1>23 DEF TryLockLoadHandoff
<1>24. CASE TryLockTakeHandoff(t)
  BY <1>24, SMT DEF TryLockTakeHandoff, TakeHandoff, EndLocals
<1>25. CASE TryLockCount(t) BY <1>25, SMT DEF TryLockCount
<1>26. CASE UnlockShallower(t) BY <1>26, SMT DEF UnlockShallower
<1>27. CASE Unlock(t) BY <1>27 DEF Unlock
<1>28. CASE UnlockCount(t) BY <1>28, SMT DEF UnlockCount
<1>29. CASE UnlockWake(t)
  <2>1. woken' \in [Threads -> BOOLEAN]
    BY <1>29 DEF UnlockWake, Wake
  <2>2. pc' \in [Threads -> Locations] /\ rec' \in [Threads -> Threads]
    BY <1>29 DEF UnlockWake, Leave
  <2> QED
    BY <1>29, <2>1, <2>2, SMT DEF UnlockWake, Leave, EndLocals
<1>30. CASE UnlockHandoff(t)
  BY <1>30, SequenceFacts, SMTT(40) DEF UnlockHandoff
<1>31. CASE UnlockTakeHandoff(t)
  BY <1>31, SMT DEF UnlockTakeHandoff, TakeHandoff, EndLocals
<1>32. CASE Park(t) BY <1>32 DEF Park
<1>33. ASSUME NEW w \in Threads, SendLock(t, w) PROVE TypeOK'
  BY <1>33, SMTT(40) DEF SendLock
<1> QED
  BY <1>1, <1>2, <1>3, <1>4, <1>5, <1>6, <1>7, <1>8, <1>9, <1>10, <1>11,
     <1>12, <1>13, <1>14, <1>15, <1>16, <1>17, <1>18, <1>19, <1>20,
     <1>21, <1>22, <1>23, <1>24, <1>25, <1>26, <1>27, <1>28, <1>29,
     <1>30, <1>31, <1>32, <1>33 DEF InvStep, Step, Call

\* Only the popper holds a popped record or a list it took.
LEMMA PopInvStep ==
    ASSUME NEW t \in Threads, InvStep(t)
    PROVE  PopInv'
<1>s. Shape /\ PopInv /\ taken \in [Threads -> Seq(Threads)]
  BY BoundsAssumption, SMT DEF InvStep, IInv, TypeOK, Shape
<1>y. TypeOK
  BY DEF InvStep, IInv
<1> USE <1>s, ThreadsAssumption DEF Shape, PopInv, At, Goto, InLock, mutex,
      held, rho, qvars, wvars, locals, popped
<1>1. CASE PopHead(t) BY <1>1, <1>y, PopFacts DEF PopHead, Result
<1>2. CASE PopTake(t) BY <1>2, NilFacts DEF PopTake
<1>3. CASE PopRest(t) BY <1>3, <1>y, TakenFacts, NilFacts DEF PopRest, Result
<1>4. CASE PopNone(t) BY <1>4 DEF PopNone, Branch
<1>5. CASE EmptyNo(t) BY <1>5 DEF EmptyNo, Branch
<1>6. CASE EmptyMaybe(t) BY <1>6 DEF EmptyMaybe, Branch
<1>7. CASE EmptyYes(t) BY <1>7 DEF EmptyYes, Leave, EndLocals
<1>8. CASE MissHandoff(t) BY <1>8 DEF MissHandoff, Leave, EndLocals
<1>9. CASE Lock(t) BY <1>9 DEF Lock
<1>10. CASE LockCheckOwner(t) BY <1>10 DEF LockCheckOwner, Branch
<1>11. CASE LockDeepen(t) BY <1>11 DEF LockDeepen
<1>12. CASE LockPush(t) BY <1>12, <1>y, PushFacts DEF LockPush, Push
<1>13. CASE LockSeeHandoff(t) BY <1>13 DEF LockSeeHandoff
<1>14. CASE LockNoHandoff(t) BY <1>14 DEF LockNoHandoff, Leave, EndLocals
<1>15. CASE LockTakeHandoff(t)
  BY <1>15 DEF LockTakeHandoff, TakeHandoff, EndLocals
<1>16. CASE LockWakeOther(t) BY <1>16 DEF LockWakeOther, Leave, EndLocals, Wake
<1>17. CASE LockPoppedSelf(t) BY <1>17 DEF LockPoppedSelf, EndLocals
<1>18. CASE LockWait(t) BY <1>18 DEF LockWait, Branch
<1>19. CASE TakeOwnership(t) BY <1>19 DEF TakeOwnership
<1>20. CASE SendLockWake(t) BY <1>20 DEF SendLockWake, Leave, EndLocals, Wake
<1>21. CASE TryLock(t) BY <1>21 DEF TryLock
<1>22. CASE TryLockCheckOwner(t) BY <1>22 DEF TryLockCheckOwner
<1>23. CASE TryLockLoadHandoff(t) BY <1>23 DEF TryLockLoadHandoff
<1>24. CASE TryLockTakeHandoff(t)
  BY <1>24 DEF TryLockTakeHandoff, TakeHandoff, EndLocals
<1>25. CASE TryLockCount(t) BY <1>25 DEF TryLockCount
<1>26. CASE UnlockShallower(t) BY <1>26 DEF UnlockShallower
<1>27. CASE Unlock(t) BY <1>27 DEF Unlock
<1>28. CASE UnlockCount(t) BY <1>28 DEF UnlockCount
<1>29. CASE UnlockWake(t) BY <1>29 DEF UnlockWake, Leave, EndLocals, Wake
<1>30. CASE UnlockHandoff(t) BY <1>30, <1>y, SequenceFacts DEF UnlockHandoff
<1>31. CASE UnlockTakeHandoff(t)
  BY <1>31 DEF UnlockTakeHandoff, TakeHandoff, EndLocals
<1>32. CASE Park(t) BY <1>32 DEF Park
<1>33. ASSUME NEW w \in Threads, SendLock(t, w) PROVE PopInv'
  BY <1>33 DEF SendLock
<1> QED
  BY <1>1, <1>2, <1>3, <1>4, <1>5, <1>6, <1>7, <1>8, <1>9, <1>10, <1>11,
     <1>12, <1>13, <1>14, <1>15, <1>16, <1>17, <1>18, <1>19, <1>20,
     <1>21, <1>22, <1>23, <1>24, <1>25, <1>26, <1>27, <1>28, <1>29,
     <1>30, <1>31, <1>32, <1>33 DEF InvStep, Step, Call

\* Between the empty() that said no and the CAS that takes the same handoff,
\* nobody pops: popping takes the token, which is the handoff.
LEMMA NonEmptyInvStep ==
    ASSUME NEW t \in Threads, InvStep(t)
    PROVE  NonEmptyInv'
<1>s. /\ Shape /\ OneToken /\ NonEmptyInv /\ OldInv
      /\ old \in [Threads -> 0..SeqMax]
  BY BoundsAssumption, SMT DEF InvStep, IInv, TypeOK, Shape
<1>y. TypeOK
  BY DEF InvStep, IInv
<1> USE <1>s, ThreadsAssumption DEF Shape, NonEmptyInv, OneToken, Tok,
      TokenLocations, OldInv, At, Goto, InLock, mutex, held, rho, qvars,
      wvars, locals, popped
<1>0. count = 0 => /\ handoff = 0 /\ owner = NoThread
                   /\ \A u \in Threads : ~ Tok(u)
  BY DEF InvStep, FreeInv
<1>1. CASE PopHead(t) BY <1>1 DEF PopHead, Result
<1>2. CASE PopTake(t) BY <1>2, NilFacts DEF PopTake
<1>3. CASE PopRest(t) BY <1>3 DEF PopRest, Result
<1>4. CASE PopNone(t) BY <1>4 DEF PopNone, Branch
<1>5. CASE EmptyNo(t) BY <1>5 DEF EmptyNo, Branch
<1>6. CASE EmptyMaybe(t) BY <1>6 DEF EmptyMaybe, Branch
<1>7. CASE EmptyYes(t) BY <1>7 DEF EmptyYes, Leave, EndLocals
<1>8. CASE MissHandoff(t) BY <1>8 DEF MissHandoff, Leave, EndLocals
<1>9. CASE Lock(t) BY <1>9, <1>0 DEF Lock
<1>10. CASE LockCheckOwner(t) BY <1>10 DEF LockCheckOwner, Branch
<1>11. CASE LockDeepen(t) BY <1>11 DEF LockDeepen
<1>12. CASE LockPush(t) BY <1>12, <1>y, PushFacts DEF LockPush, Push
<1>13. CASE LockSeeHandoff(t) BY <1>13 DEF LockSeeHandoff
<1>14. CASE LockNoHandoff(t) BY <1>14 DEF LockNoHandoff, Leave, EndLocals
<1>15. CASE LockTakeHandoff(t)
  BY <1>15 DEF LockTakeHandoff, TakeHandoff, EndLocals
<1>16. CASE LockWakeOther(t) BY <1>16 DEF LockWakeOther, Leave, EndLocals, Wake
<1>17. CASE LockPoppedSelf(t) BY <1>17 DEF LockPoppedSelf, EndLocals
<1>18. CASE LockWait(t) BY <1>18 DEF LockWait, Branch
<1>19. CASE TakeOwnership(t) BY <1>19 DEF TakeOwnership
<1>20. CASE SendLockWake(t) BY <1>20 DEF SendLockWake, Leave, EndLocals, Wake
<1>21. CASE TryLock(t) BY <1>21, <1>0 DEF TryLock
<1>22. CASE TryLockCheckOwner(t) BY <1>22 DEF TryLockCheckOwner
<1>23. CASE TryLockLoadHandoff(t) BY <1>23 DEF TryLockLoadHandoff
<1>24. CASE TryLockTakeHandoff(t)
  BY <1>24 DEF TryLockTakeHandoff, TakeHandoff, EndLocals
<1>25. CASE TryLockCount(t) BY <1>25 DEF TryLockCount
<1>26. CASE UnlockShallower(t) BY <1>26 DEF UnlockShallower
<1>27. CASE Unlock(t) BY <1>27 DEF Unlock
<1>28. CASE UnlockCount(t) BY <1>28 DEF UnlockCount
<1>29. CASE UnlockWake(t) BY <1>29 DEF UnlockWake, Leave, EndLocals, Wake
<1>30. CASE UnlockHandoff(t)
  BY <1>30, <1>y, SequenceFacts DEF UnlockHandoff, NotStale
<1>31. CASE UnlockTakeHandoff(t)
  BY <1>31 DEF UnlockTakeHandoff, TakeHandoff, EndLocals
<1>32. CASE Park(t) BY <1>32 DEF Park
<1>33. ASSUME NEW w \in Threads, SendLock(t, w) PROVE NonEmptyInv'
  BY <1>33, <1>0 DEF SendLock
<1> QED
  BY <1>1, <1>2, <1>3, <1>4, <1>5, <1>6, <1>7, <1>8, <1>9, <1>10, <1>11,
     <1>12, <1>13, <1>14, <1>15, <1>16, <1>17, <1>18, <1>19, <1>20,
     <1>21, <1>22, <1>23, <1>24, <1>25, <1>26, <1>27, <1>28, <1>29,
     <1>30, <1>31, <1>32, <1>33 DEF InvStep, Step, Call

\* A loaded handoff number is not 0, and the pop() of lock() finds a record.
LEMMA OldInvStep ==
    ASSUME NEW t \in Threads, InvStep(t)
    PROVE  OldInv'
<1>s. /\ Shape /\ PopInv /\ NonEmptyInv /\ OldInv
      /\ old \in [Threads -> 0..SeqMax]
  BY BoundsAssumption, SMTT(40) DEF InvStep, IInv, TypeOK, Shape
<1>y. TypeOK
  BY DEF InvStep, IInv
<1> USE <1>s, ThreadsAssumption DEF Shape, OldInv, PopInv, NonEmptyInv, At,
      Goto, InLock, mutex, held, rho, qvars, wvars, locals, popped
<1>1. CASE PopHead(t) BY <1>1, <1>y, PopFacts DEF PopHead, Result
<1>2. CASE PopTake(t) BY <1>2, NilFacts DEF PopTake
<1>3. CASE PopRest(t) BY <1>3, <1>y, TakenFacts, NilFacts DEF PopRest, Result
<1>4. CASE PopNone(t) BY <1>4 DEF PopNone, Branch
<1>5. CASE EmptyNo(t) BY <1>5 DEF EmptyNo, Branch
<1>6. CASE EmptyMaybe(t) BY <1>6 DEF EmptyMaybe, Branch
<1>7. CASE EmptyYes(t) BY <1>7 DEF EmptyYes, Leave, EndLocals
<1>8. CASE MissHandoff(t) BY <1>8 DEF MissHandoff, Leave, EndLocals
<1>9. CASE Lock(t) BY <1>9 DEF Lock
<1>10. CASE LockCheckOwner(t) BY <1>10 DEF LockCheckOwner, Branch
<1>11. CASE LockDeepen(t) BY <1>11 DEF LockDeepen
<1>12. CASE LockPush(t) BY <1>12, <1>y, PushFacts DEF LockPush, Push
<1>13. CASE LockSeeHandoff(t) BY <1>13 DEF LockSeeHandoff
<1>14. CASE LockNoHandoff(t) BY <1>14 DEF LockNoHandoff, Leave, EndLocals
<1>15. CASE LockTakeHandoff(t)
  BY <1>15 DEF LockTakeHandoff, TakeHandoff, EndLocals
<1>16. CASE LockWakeOther(t) BY <1>16 DEF LockWakeOther, Leave, EndLocals, Wake
<1>17. CASE LockPoppedSelf(t) BY <1>17 DEF LockPoppedSelf, EndLocals
<1>18. CASE LockWait(t) BY <1>18 DEF LockWait, Branch
<1>19. CASE TakeOwnership(t) BY <1>19 DEF TakeOwnership
<1>20. CASE SendLockWake(t) BY <1>20 DEF SendLockWake, Leave, EndLocals, Wake
<1>21. CASE TryLock(t) BY <1>21 DEF TryLock
<1>22. CASE TryLockCheckOwner(t) BY <1>22 DEF TryLockCheckOwner
<1>23. CASE TryLockLoadHandoff(t) BY <1>23 DEF TryLockLoadHandoff
<1>24. CASE TryLockTakeHandoff(t)
  BY <1>24 DEF TryLockTakeHandoff, TakeHandoff, EndLocals
<1>25. CASE TryLockCount(t) BY <1>25 DEF TryLockCount
<1>26. CASE UnlockShallower(t) BY <1>26 DEF UnlockShallower
<1>27. CASE Unlock(t) BY <1>27 DEF Unlock
<1>28. CASE UnlockCount(t) BY <1>28 DEF UnlockCount
<1>29. CASE UnlockWake(t) BY <1>29 DEF UnlockWake, Leave, EndLocals, Wake
<1>30. CASE UnlockHandoff(t) BY <1>30, <1>y, SequenceFacts, SMTT(40) DEF UnlockHandoff
<1>31. CASE UnlockTakeHandoff(t)
  BY <1>31 DEF UnlockTakeHandoff, TakeHandoff, EndLocals
<1>32. CASE Park(t) BY <1>32 DEF Park
<1>33. ASSUME NEW w \in Threads, SendLock(t, w) PROVE OldInv'
  BY <1>33 DEF SendLock
<1> QED
  BY <1>1, <1>2, <1>3, <1>4, <1>5, <1>6, <1>7, <1>8, <1>9, <1>10, <1>11,
     <1>12, <1>13, <1>14, <1>15, <1>16, <1>17, <1>18, <1>19, <1>20,
     <1>21, <1>22, <1>23, <1>24, <1>25, <1>26, <1>27, <1>28, <1>29,
     <1>30, <1>31, <1>32, <1>33 DEF InvStep, Step, Call

\* A record becomes reachable only when it is pushed, and no longer is when its
\* thread is woken.
LEMMA ReachStep ==
    ASSUME NEW t \in Threads, InvStep(t)
    PROVE  \A x \in Threads : Reach(x)' =>
             \/ Reach(x) /\ ~ (pc[t] \in {"lk_got", "ul_wake"} /\ other[t] = x)
             \/ pc[t] = "lk_push" /\ x = rec[t]
<1>s. /\ Shape /\ OneToken /\ PopInv /\ DistinctInv
      /\ taken \in [Threads -> Seq(Threads)]
  BY BoundsAssumption, SMT DEF InvStep, IInv, TypeOK, Shape
<1>y. TypeOK
  BY DEF InvStep, IInv
<1> USE <1>s, ThreadsAssumption DEF Shape, Reach, PopInv, At, Goto, InLock,
      mutex, held, rho, qvars, wvars, locals, popped
<1>1. CASE PopHead(t) BY <1>1, <1>y, PopFacts DEF PopHead, Result
<1>2. CASE PopTake(t) BY <1>2, NilFacts DEF PopTake
<1>3. CASE PopRest(t)
  <2>1. /\ taken[t] # <<>> /\ pc[t] \in {"lk_pop2", "ul_pop2"}
        /\ \A x : In(poplist', x) => In(taken[t], x)
        /\ other' = [other EXCEPT ![t] = Head(taken[t])]
        /\ In(taken[t], Head(taken[t]))
        /\ taken' = [taken EXCEPT ![t] = <<>>]
        /\ UNCHANGED pushlist
    BY <1>3, <1>y, TakenFacts DEF PopRest
  <2> QED
    BY <2>1, NilFacts
<1>4. CASE PopNone(t) BY <1>4 DEF PopNone, Branch
<1>5. CASE EmptyNo(t) BY <1>5 DEF EmptyNo, Branch
<1>6. CASE EmptyMaybe(t) BY <1>6 DEF EmptyMaybe, Branch
<1>7. CASE EmptyYes(t) BY <1>7 DEF EmptyYes, Leave, EndLocals
<1>8. CASE MissHandoff(t) BY <1>8 DEF MissHandoff, Leave, EndLocals
<1>9. CASE Lock(t) BY <1>9 DEF Lock
<1>10. CASE LockCheckOwner(t) BY <1>10 DEF LockCheckOwner, Branch
<1>11. CASE LockDeepen(t) BY <1>11 DEF LockDeepen
<1>12. CASE LockPush(t) BY <1>12, <1>y, PushFacts DEF LockPush, Push
<1>13. CASE LockSeeHandoff(t) BY <1>13 DEF LockSeeHandoff
<1>14. CASE LockNoHandoff(t) BY <1>14 DEF LockNoHandoff, Leave, EndLocals
<1>15. CASE LockTakeHandoff(t)
  BY <1>15 DEF LockTakeHandoff, TakeHandoff, EndLocals
<1>16. CASE LockWakeOther(t)
  <2>1. /\ \A u \in Threads \ {t} : other[u] = NoThread /\ taken[u] = <<>>
        /\ taken[t] = <<>>
    BY <1>16 DEF LockWakeOther, OneToken, Tok, TokenLocations
  <2>2. /\ other' = [other EXCEPT ![t] = NoThread]
        /\ UNCHANGED <<pushlist, poplist, taken>>
    BY <1>16 DEF LockWakeOther, Leave, EndLocals
  <2>3. \A x \in Threads : Reach(x)' => In(pushlist, x) \/ In(poplist, x)
    BY <2>1, <2>2, NilFacts, SMT
  <2> QED
    BY <2>3 DEF DistinctInv
<1>17. CASE LockPoppedSelf(t)
  <2>1. /\ \A u \in Threads \ {t} : other[u] = NoThread /\ taken[u] = <<>>
        /\ taken[t] = <<>>
    BY <1>17 DEF LockPoppedSelf, OneToken, Tok, TokenLocations
  <2>2. /\ other' = [other EXCEPT ![t] = NoThread]
        /\ UNCHANGED <<pushlist, poplist, taken>>
    BY <1>17 DEF LockPoppedSelf, EndLocals
  <2>3. \A x \in Threads : Reach(x)' => In(pushlist, x) \/ In(poplist, x)
    BY <2>1, <2>2, NilFacts, SMT
  <2> QED
    BY <2>3 DEF DistinctInv
<1>18. CASE LockWait(t) BY <1>18 DEF LockWait, Branch
<1>19. CASE TakeOwnership(t) BY <1>19 DEF TakeOwnership
<1>20. CASE SendLockWake(t) BY <1>20 DEF SendLockWake, Leave, EndLocals, Wake
<1>21. CASE TryLock(t) BY <1>21 DEF TryLock
<1>22. CASE TryLockCheckOwner(t) BY <1>22 DEF TryLockCheckOwner
<1>23. CASE TryLockLoadHandoff(t) BY <1>23 DEF TryLockLoadHandoff
<1>24. CASE TryLockTakeHandoff(t)
  BY <1>24 DEF TryLockTakeHandoff, TakeHandoff, EndLocals
<1>25. CASE TryLockCount(t) BY <1>25 DEF TryLockCount
<1>26. CASE UnlockShallower(t) BY <1>26 DEF UnlockShallower
<1>27. CASE Unlock(t) BY <1>27 DEF Unlock
<1>28. CASE UnlockCount(t) BY <1>28 DEF UnlockCount
<1>29. CASE UnlockWake(t)
  <2>1. /\ \A u \in Threads \ {t} : other[u] = NoThread /\ taken[u] = <<>>
        /\ taken[t] = <<>>
    BY <1>29 DEF UnlockWake, OneToken, Tok, TokenLocations
  <2>2. /\ other' = [other EXCEPT ![t] = NoThread]
        /\ UNCHANGED <<pushlist, poplist, taken>>
    BY <1>29 DEF UnlockWake, Leave, EndLocals
  <2>3. \A x \in Threads : Reach(x)' => In(pushlist, x) \/ In(poplist, x)
    BY <2>1, <2>2, NilFacts, SMT
  <2> QED
    BY <2>3 DEF DistinctInv
<1>30. CASE UnlockHandoff(t) BY <1>30 DEF UnlockHandoff
<1>31. CASE UnlockTakeHandoff(t)
  BY <1>31 DEF UnlockTakeHandoff, TakeHandoff, EndLocals
<1>32. CASE Park(t) BY <1>32 DEF Park
<1>33. ASSUME NEW w \in Threads, SendLock(t, w) PROVE \A x \in Threads : Reach(x)' =>
             \/ Reach(x) /\ ~ (pc[t] \in {"lk_got", "ul_wake"} /\ other[t] = x)
             \/ pc[t] = "lk_push" /\ x = rec[t]
  BY <1>33 DEF SendLock
<1> QED
  BY <1>1, <1>2, <1>3, <1>4, <1>5, <1>6, <1>7, <1>8, <1>9, <1>10, <1>11,
     <1>12, <1>13, <1>14, <1>15, <1>16, <1>17, <1>18, <1>19, <1>20,
     <1>21, <1>22, <1>23, <1>24, <1>25, <1>26, <1>27, <1>28, <1>29,
     <1>30, <1>31, <1>32, <1>33 DEF InvStep, Step, Call

\* A reachable record belongs to a thread that has pushed it and still sleeps
\* on it, or will.
LEMMA ReachInvStep ==
    ASSUME NEW t \in Threads, InvStep(t)
    PROVE  ReachInv'
<1>s. Shape /\ OneToken /\ WaitInv /\ SendInv /\ ReachInv
  BY BoundsAssumption, SMT DEF InvStep, IInv, TypeOK, Shape
<1> USE <1>s, ThreadsAssumption DEF Shape, ReachInv, Pushed, Target, WaitInv,
      OneToken, Tok, TokenLocations, At, Goto, InLock, mutex, held, rho,
      qvars, wvars, locals, popped
<1>0. count = 0 => /\ handoff = 0 /\ owner = NoThread
                   /\ \A u \in Threads : ~ Tok(u)
  BY DEF InvStep, FreeInv
<1>a. \A x \in Threads : Reach(x)' =>
             \/ Reach(x) /\ ~ (pc[t] \in {"lk_got", "ul_wake"} /\ other[t] = x)
             \/ pc[t] = "lk_push" /\ x = rec[t]
  BY ReachStep
<1>1. CASE PopHead(t) BY <1>1, <1>a, SMTT(40) DEF PopHead, Result
<1>2. CASE PopTake(t) BY <1>2, <1>a, SMTT(40) DEF PopTake
<1>3. CASE PopRest(t) BY <1>3, <1>a, SMTT(40) DEF PopRest, Result
<1>4. CASE PopNone(t) BY <1>4, <1>a, SMT DEF PopNone, Branch
<1>5. CASE EmptyNo(t)
  <2>1. /\ pc[t] \in {"lk_emp", "ul_emp", "lk_emp2", "ul_emp2"}
        /\ Branch(t, IF pc[t] \in InLock THEN "lk_cas" ELSE "ul_cas")
    BY <1>5 DEF EmptyNo
  <2> QED
    BY <2>1, <1>a, SMT DEF Branch
<1>6. CASE EmptyMaybe(t) BY <1>6, <1>a, SMTT(40) DEF EmptyMaybe, Branch
<1>7. CASE EmptyYes(t) BY <1>7, <1>a, SMTT(40) DEF EmptyYes, Leave, EndLocals
<1>8. CASE MissHandoff(t)
  <2>1. CASE pc[t] = "lk_cas" /\ rec[t] = t
    BY <1>8, <2>1, <1>a, SMTT(40) DEF MissHandoff, Leave, EndLocals
  <2>2. CASE ~ (pc[t] = "lk_cas" /\ rec[t] = t)
    <3>1. ~ Reach(t) /\ pc[t] \in {"lk_cas", "tl_hcas", "ul_cas"}
      BY <1>8, <2>2 DEF MissHandoff
    <3>2. /\ pc' = [pc EXCEPT ![t] = "run"] /\ rec' = [rec EXCEPT ![t] = t]
          /\ UNCHANGED <<woken, parked>>
      BY <1>8, <2>2, <3>1 DEF MissHandoff, Leave
    <3> QED
      BY <3>1, <3>2, <1>a, SMT
  <2> QED
    BY <2>1, <2>2
<1>9. CASE Lock(t) BY <1>9, <1>a, <1>0, SMT DEF Lock
<1>10. CASE LockCheckOwner(t)
  <2>1. pc[t] = "lk_rec" /\ rec[t] = t
    BY <1>10 DEF LockCheckOwner
  <2> QED
    BY <1>10, <2>1, <1>a, SMT DEF LockCheckOwner, Branch
<1>11. CASE LockDeepen(t) BY <1>11, <1>a, SMTT(40) DEF LockDeepen
<1>12. CASE LockPush(t)
  <2>1. /\ pc[t] = "lk_push" /\ pc' = [pc EXCEPT ![t] = "lk_hload"]
        /\ UNCHANGED <<woken, parked, rec>>
    BY <1>12 DEF LockPush
  <2>2. /\ pc[rec[t]]' \in Pushed /\ rec[rec[t]] = rec[t]
        /\ ~ woken[rec[t]] /\ rec[t] \notin parked /\ rec[t] \in Threads
    BY <2>1, SMT DEF SendInv
  <2>3. \A u \in Threads : ~ Target(u, rec[t])'
    BY <2>1, <2>2, SMT DEF SendInv
  <2>4. ASSUME NEW x \in Threads, Reach(x), x # rec[t]
        PROVE  /\ pc[x]' \in Pushed /\ rec[x] = x /\ ~ woken[x] /\ x \notin parked
               /\ \A u \in Threads : ~ Target(u, x)'
    BY <2>1, <2>4, SMTT(40)
  <2> QED
    BY <2>1, <2>2, <2>3, <2>4, <1>a, SMT
<1>13. CASE LockSeeHandoff(t) BY <1>13, <1>a, SMTT(40) DEF LockSeeHandoff
<1>14. CASE LockNoHandoff(t) BY <1>14, <1>a, SMTT(40) DEF LockNoHandoff, Leave, EndLocals
<1>15. CASE LockTakeHandoff(t)
  BY <1>15, <1>a, SMTT(40) DEF LockTakeHandoff, TakeHandoff, EndLocals
<1>16. CASE LockWakeOther(t)
  BY <1>16, <1>a, SMTT(40) DEF LockWakeOther, Leave, EndLocals, Wake
<1>17. CASE LockPoppedSelf(t) BY <1>17, <1>a, SMTT(40) DEF LockPoppedSelf, EndLocals
<1>18. CASE LockWait(t) BY <1>18, <1>a, SMT DEF LockWait, Branch
<1>19. CASE TakeOwnership(t) BY <1>19, <1>a, SMTT(40) DEF TakeOwnership
<1>20. CASE SendLockWake(t)
  BY <1>20, <1>a, SMTT(40) DEF SendLockWake, Leave, EndLocals, Wake
<1>21. CASE TryLock(t) BY <1>21, <1>a, <1>0, SMTT(40) DEF TryLock
<1>22. CASE TryLockCheckOwner(t) BY <1>22, <1>a, SMTT(40) DEF TryLockCheckOwner
<1>23. CASE TryLockLoadHandoff(t) BY <1>23, <1>a, SMTT(40) DEF TryLockLoadHandoff
<1>24. CASE TryLockTakeHandoff(t)
  BY <1>24, <1>a, SMTT(40) DEF TryLockTakeHandoff, TakeHandoff, EndLocals
<1>25. CASE TryLockCount(t) BY <1>25, <1>a, SMTT(40) DEF TryLockCount
<1>26. CASE UnlockShallower(t) BY <1>26, <1>a, SMTT(40) DEF UnlockShallower
<1>27. CASE Unlock(t) BY <1>27, <1>a, SMTT(40) DEF Unlock
<1>28. CASE UnlockCount(t) BY <1>28, <1>a, SMTT(40) DEF UnlockCount
<1>29. CASE UnlockWake(t) BY <1>29, <1>a, SMTT(40) DEF UnlockWake, Leave, EndLocals, Wake
<1>30. CASE UnlockHandoff(t) BY <1>30, <1>a, SMTT(40) DEF UnlockHandoff
<1>31. CASE UnlockTakeHandoff(t)
  BY <1>31, <1>a, SMTT(40) DEF UnlockTakeHandoff, TakeHandoff, EndLocals
<1>32. CASE Park(t) BY <1>32, <1>a, SMTT(40) DEF Park
<1>33. ASSUME NEW w \in Threads, SendLock(t, w) PROVE ReachInv'
  BY <1>33, <1>a, <1>0, SMTT(40) DEF SendLock
<1> QED
  BY <1>1, <1>2, <1>3, <1>4, <1>5, <1>6, <1>7, <1>8, <1>9, <1>10, <1>11,
     <1>12, <1>13, <1>14, <1>15, <1>16, <1>17, <1>18, <1>19, <1>20,
     <1>21, <1>22, <1>23, <1>24, <1>25, <1>26, <1>27, <1>28, <1>29,
     <1>30, <1>31, <1>32, <1>33 DEF InvStep, Step, Call

\* No record is in the queue twice.
LEMMA DistinctInvStep ==
    ASSUME NEW t \in Threads, InvStep(t)
    PROVE  DistinctInv'
<1>s. /\ Shape /\ OneToken /\ PopInv /\ ReachInv /\ DistinctInv
      /\ taken \in [Threads -> Seq(Threads)]
  BY BoundsAssumption, SMTT(40) DEF InvStep, IInv, TypeOK, Shape
<1>y. TypeOK
  BY DEF InvStep, IInv
<1> USE <1>s, ThreadsAssumption DEF Shape, DistinctInv, PopInv, At, Goto,
      InLock, mutex, held, rho, qvars, wvars, locals, popped
<1>1. CASE PopHead(t) BY <1>1, <1>y, PopFacts DEF PopHead, Result
<1>2. CASE PopTake(t) BY <1>2, NilFacts DEF PopTake
<1>3. CASE PopRest(t)
  <2>1. /\ taken[t] # <<>>
        /\ \A x : In(taken[t], x) <=> x = Head(taken[t]) \/ In(poplist', x)
        /\ Distinct(poplist') /\ ~ In(poplist', Head(taken[t]))
        /\ Head(taken[t]) \in Threads
        /\ other' = [other EXCEPT ![t] = Head(taken[t])]
        /\ taken' = [taken EXCEPT ![t] = <<>>]
        /\ UNCHANGED pushlist
    BY <1>3, <1>y, TakenFacts DEF PopRest
  <2>2. \A u \in Threads \ {t} : taken[u] = <<>> /\ other[u] = NoThread
    BY <1>3 DEF PopRest, OneToken, Tok, TokenLocations
  <2> QED
    BY <2>1, <2>2, NilFacts, SMTT(40)
<1>4. CASE PopNone(t) BY <1>4 DEF PopNone, Branch
<1>5. CASE EmptyNo(t) BY <1>5 DEF EmptyNo, Branch
<1>6. CASE EmptyMaybe(t) BY <1>6 DEF EmptyMaybe, Branch
<1>7. CASE EmptyYes(t) BY <1>7 DEF EmptyYes, Leave, EndLocals
<1>8. CASE MissHandoff(t) BY <1>8 DEF MissHandoff, Leave, EndLocals
<1>9. CASE Lock(t) BY <1>9 DEF Lock
<1>10. CASE LockCheckOwner(t) BY <1>10 DEF LockCheckOwner, Branch
<1>11. CASE LockDeepen(t) BY <1>11 DEF LockDeepen
<1>12. CASE LockPush(t)
  <2>1. ~ Reach(rec[t]) /\ rec[t] \in Threads
    <3>1. CASE rec[t] = t
      BY <1>12, <3>1 DEF LockPush, ReachInv, Pushed
    <3>2. CASE rec[t] # t
      BY <1>12, <3>2 DEF LockPush, ReachInv, Target
    <3> QED
      BY <3>1, <3>2
  <2>2. /\ Distinct(pushlist')
        /\ \A x : In(pushlist', x) <=> x = rec[t] \/ In(pushlist, x)
        /\ UNCHANGED <<poplist, taken, other>>
    BY <1>12, <2>1, <1>y, PushFacts DEF LockPush, Push, Reach
  <2> QED
    BY <2>1, <2>2, SMT DEF Reach
<1>13. CASE LockSeeHandoff(t) BY <1>13 DEF LockSeeHandoff
<1>14. CASE LockNoHandoff(t) BY <1>14 DEF LockNoHandoff, Leave, EndLocals
<1>15. CASE LockTakeHandoff(t)
  BY <1>15 DEF LockTakeHandoff, TakeHandoff, EndLocals
<1>16. CASE LockWakeOther(t) BY <1>16 DEF LockWakeOther, Leave, EndLocals, Wake
<1>17. CASE LockPoppedSelf(t) BY <1>17 DEF LockPoppedSelf, EndLocals
<1>18. CASE LockWait(t) BY <1>18 DEF LockWait, Branch
<1>19. CASE TakeOwnership(t) BY <1>19 DEF TakeOwnership
<1>20. CASE SendLockWake(t) BY <1>20 DEF SendLockWake, Leave, EndLocals, Wake
<1>21. CASE TryLock(t) BY <1>21 DEF TryLock
<1>22. CASE TryLockCheckOwner(t) BY <1>22 DEF TryLockCheckOwner
<1>23. CASE TryLockLoadHandoff(t) BY <1>23 DEF TryLockLoadHandoff
<1>24. CASE TryLockTakeHandoff(t)
  BY <1>24 DEF TryLockTakeHandoff, TakeHandoff, EndLocals
<1>25. CASE TryLockCount(t) BY <1>25 DEF TryLockCount
<1>26. CASE UnlockShallower(t) BY <1>26 DEF UnlockShallower
<1>27. CASE Unlock(t) BY <1>27 DEF Unlock
<1>28. CASE UnlockCount(t) BY <1>28 DEF UnlockCount
<1>29. CASE UnlockWake(t) BY <1>29 DEF UnlockWake, Leave, EndLocals, Wake
<1>30. CASE UnlockHandoff(t) BY <1>30 DEF UnlockHandoff
<1>31. CASE UnlockTakeHandoff(t)
  BY <1>31 DEF UnlockTakeHandoff, TakeHandoff, EndLocals
<1>32. CASE Park(t) BY <1>32 DEF Park
<1>33. ASSUME NEW w \in Threads, SendLock(t, w) PROVE DistinctInv'
  BY <1>33 DEF SendLock
<1> QED
  BY <1>1, <1>2, <1>3, <1>4, <1>5, <1>6, <1>7, <1>8, <1>9, <1>10, <1>11,
     <1>12, <1>13, <1>14, <1>15, <1>16, <1>17, <1>18, <1>19, <1>20,
     <1>21, <1>22, <1>23, <1>24, <1>25, <1>26, <1>27, <1>28, <1>29,
     <1>30, <1>31, <1>32, <1>33 DEF InvStep, Step, Call

-----------------------------------------------------------------------------
\* count is 0 only when the mutex is free and nobody wants it.
LEMMA CountFacts ==
    ASSUME IInv
    PROVE  /\ IsFiniteSet(Claims) /\ IsFiniteSet(Recursing)
           /\ Cardinality(Claims) \in Nat /\ Cardinality(Recursing) \in Nat
           /\ FreeInv
<1>1. Claims \in SUBSET Threads /\ Recursing \in SUBSET Threads
  BY DEF Claims, Recursing
<1>2. /\ IsFiniteSet(Claims) /\ Cardinality(Claims) \in Nat
      /\ IsFiniteSet(Recursing) /\ Cardinality(Recursing) \in Nat
  BY <1>1, ThreadsAssumption, FS_Subset, FS_CardinalityType
<1>3. ASSUME count = 0
      PROVE /\ Claims = {} /\ handoff = 0 /\ owner = NoThread
            /\ \A u \in Threads : ~ Tok(u)
  <2>1. Cardinality(Claims) = 0
    BY <1>2, <1>3, SMT DEF IInv, CountExact
  <2>2. Claims = {}
    BY <2>1, <1>2, FS_EmptySet
  <2>3. handoff = 0 /\ \A u \in Threads : ~ Tok(u)
    BY <2>2 DEF IInv, TokenClaimed
  <2>4. owner = NoThread
    BY <2>3 DEF IInv, TypeOK, Tok
  <2> QED
    BY <2>2, <2>3, <2>4
<1> QED
  BY <1>2, <1>3 DEF FreeInv

\* count follows the sets it counts.
LEMMA CountExactStep ==
    ASSUME NEW t \in Threads, InvStep(t)
    PROVE  CountExact'
<1>1. /\ IsFiniteSet(Claims) /\ IsFiniteSet(Recursing)
      /\ Cardinality(Claims) \in Nat /\ Cardinality(Recursing) \in Nat
      /\ count = Cardinality(Claims) + Cardinality(Recursing)
  BY CountFacts DEF InvStep, IInv, CountExact
<1>2. CASE ClaimsSame
  BY <1>1, <1>2 DEF ClaimsSame, CountExact
<1>3. ASSUME NEW x \in Threads, ClaimsGain(x) PROVE CountExact'
  <2>1. Cardinality(Claims \cup {x}) = Cardinality(Claims) + 1
    BY <1>1, <1>3, FS_AddElement DEF ClaimsGain
  <2> QED
    BY <1>1, <1>3, <2>1, SMT DEF ClaimsGain, CountExact
<1>4. CASE ClaimsLose(t)
  <2>1. Cardinality(Claims \ {t}) = Cardinality(Claims) - 1
    BY <1>1, <1>4, FS_RemoveElement DEF ClaimsLose
  <2> QED
    BY <1>1, <1>4, <2>1, SMT DEF ClaimsLose, CountExact
<1>5. CASE RecursingGain(t)
  <2>1. Cardinality(Recursing \cup {t}) = Cardinality(Recursing) + 1
    BY <1>1, <1>5, FS_AddElement DEF RecursingGain
  <2> QED
    BY <1>1, <1>5, <2>1, SMT DEF RecursingGain, CountExact
<1>6. CASE RecursingLose(t)
  <2>1. Cardinality(Recursing \ {t}) = Cardinality(Recursing) - 1
    BY <1>1, <1>6, FS_RemoveElement DEF RecursingLose
  <2> QED
    BY <1>1, <1>6, <2>1, SMT DEF RecursingLose, CountExact
<1> QED
  BY <1>2, <1>3, <1>4, <1>5, <1>6, ClaimsStep

\* The token exists only while some thread is counted: unlock() gives it up
\* exactly when it was the last.
LEMMA TokenClaimedStep ==
    ASSUME NEW t \in Threads, InvStep(t)
    PROVE  TokenClaimed'
<1> SUFFICES ASSUME handoff' # 0 \/ \E u \in Threads : Tok(u)'
             PROVE  Claims' # {}
  BY DEF TokenClaimed
<1>i. IInv
  BY DEF InvStep
<1>1. count' = count => Claims # {}
  BY <1>i, TokenKept DEF IInv, TokenClaimed
<1>2. CASE ClaimsSame
  BY <1>1, <1>2 DEF ClaimsSame
<1>3. ASSUME NEW x \in Threads, ClaimsGain(x) PROVE Claims' # {}
  BY <1>3 DEF ClaimsGain
<1>4. CASE ClaimsLose(t)
  <2>1. \A u \in Threads : Tok(u) => u = t
    BY <1>i, <1>4 DEF ClaimsLose, IInv, OneToken, Tok, TokenLocations
  <2>2. UnlockCount(t)
    BY <1>4 DEF InvStep, ClaimsLose, Step, Call, At, PopHead, PopTake, PopRest, PopNone,
      EmptyNo, EmptyMaybe, EmptyYes, MissHandoff, Lock, LockCheckOwner,
      LockDeepen, LockPush, LockSeeHandoff, LockNoHandoff, LockTakeHandoff,
      LockWakeOther, LockPoppedSelf, LockWait, TakeOwnership, SendLockWake,
      TryLock, TryLockCheckOwner, TryLockLoadHandoff, TryLockTakeHandoff,
      TryLockCount, UnlockShallower, Unlock, UnlockWake, UnlockHandoff,
      UnlockTakeHandoff, Park, SendLock
  <2>3. count # 1
    <3>1. owner # t /\ ~ woken[t] /\ handoff = 0
      BY <1>i, <2>2 DEF UnlockCount, At, IInv, OwnerInv, WaitInv, Pushed, OneToken,
        Tok, TokenLocations
    <3>2. SUFFICES ASSUME count = 1 PROVE handoff' = 0 /\ \A u \in Threads : ~ Tok(u)'
      OBVIOUS
    <3> QED
      BY <1>i, <2>1, <2>2, <3>1, <3>2 DEF UnlockCount, At, Goto, held, rho, wvars, Tok,
        TokenLocations, IInv, TypeOK
  <2>4. Recursing = {}
    BY <2>1, <2>2 DEF UnlockCount, At, Recursing, Tok
  <2>5. Cardinality(Claims) = count
    BY <1>i, <2>4, FS_EmptySet, CountFacts, SMT DEF IInv, CountExact, TypeOK
  <2>6. Claims # {t}
    BY <2>5, <2>3, FS_Singleton
  <2> QED
    BY <2>6, <1>4 DEF ClaimsLose
<1>5. CASE RecursingGain(t) \/ RecursingLose(t)
  BY <1>5 DEF RecursingGain, RecursingLose
<1> QED
  BY <1>2, <1>3, <1>4, <1>5, ClaimsStep

\* The invariant holds in a mutex just constructed ...
LEMMA InitIInv == Init => IInv
<1> SUFFICES ASSUME Init PROVE IInv
  OBVIOUS
<1> USE ThreadsAssumption, BoundsAssumption DEF Init
<1>1. TypeOK
  BY SMT DEF TypeOK, Locations
<1>2. Claims = {} /\ Recursing = {}
  BY DEF Claims, Recursing, InLock
<1>3. CountExact
  BY <1>2, FS_EmptySet, SMT DEF CountExact
<1>4. \A w \in Threads : ~ Reach(w)
  BY NilFacts DEF Reach
<1>5. OneToken /\ TokenClaimed /\ OwnerInv /\ WaitInv
  BY DEF OneToken, TokenClaimed, OwnerInv, WaitInv, Tok, TokenLocations
<1>6. SendInv /\ PopInv /\ NonEmptyInv /\ OldInv
  BY DEF SendInv, Target, PopInv, NonEmptyInv, OldInv
<1>7. ReachInv /\ DistinctInv
  BY <1>4, NilFacts DEF ReachInv, DistinctInv
<1> QED
  BY <1>1, <1>3, <1>5, <1>6, <1>7 DEF IInv

\* ... is kept by every step ...
LEMMA NextIInv == IInv /\ [Next]_vars => IInv'
<1> SUFFICES ASSUME IInv, [Next]_vars PROVE IInv'
  OBVIOUS
<1>1. CASE Next
  <2>1. PICK t \in Threads : Step(t) \/ Call(t)
    BY <1>1 DEF Next
  <2>2. InvStep(t)
    BY <2>1, CountFacts DEF InvStep
  <2> QED
    BY <2>2, TypeOKStep, OneTokenStep, TokenClaimedStep, CountExactStep,
       OwnerInvStep, WaitInvStep, SendInvStep, PopInvStep, ReachInvStep,
       DistinctInvStep, NonEmptyInvStep, OldInvStep DEF IInv
<1>2. CASE UNCHANGED vars
  <2> USE <1>2 DEF IInv, vars, mutex, held, rho, qvars, wvars, locals, popped
  <2>1. TypeOK'
    BY DEF TypeOK
  <2>2. Claims' = Claims /\ Recursing' = Recursing
    BY DEF Claims, Recursing
  <2>3. OneToken' /\ TokenClaimed' /\ OwnerInv' /\ WaitInv' /\ CountExact'
    BY <2>2 DEF OneToken, TokenClaimed, OwnerInv, WaitInv, CountExact, Tok
  <2>4. SendInv' /\ PopInv' /\ NonEmptyInv' /\ OldInv'
    BY SMT DEF SendInv, Target, PopInv, NonEmptyInv, OldInv
  <2>5. ReachInv' /\ DistinctInv'
    BY DEF ReachInv, Reach, Target, DistinctInv
  <2> QED
    BY <2>1, <2>3, <2>4, <2>5
<1> QED
  BY <1>1, <1>2

\* ... and so holds always.
LEMMA Invariance == Spec => []IInv
BY InitIInv, NextIInv, PTL DEF Spec

\* Every variable of the mutex keeps its type, whatever the number of threads,
\* the range of sequence and the recursion depth.
THEOREM TypeCorrectness == Spec => []TypeOK
<1>1. IInv => TypeOK
  BY DEF IInv
<1> QED
  BY <1>1, Invariance, PTL

\* lock(), try_lock(), unlock() and send_lock() never give the mutex to two
\* threads, for any number of threads.
THEOREM Exclusion == Spec => []MutualExclusion
<1>1. ASSUME IInv PROVE MutualExclusion
  <2> DEFINE Sent(t) == \E x \in Threads : pc[x] = "sl_wake" /\ rec[x] = t
  <2> USE <1>1 DEF IInv
  <2>1. ASSUME NEW t \in Threads, Granted(t)
        PROVE  Sent(t) \/ (Tok(t) /\ pc[t] # "sl_wake")
    BY <2>1 DEF Granted, InLock, Tok, TokenLocations, OwnerInv, WaitInv, Pushed
  <2>2. ASSUME NEW t \in Threads, NEW u \in Threads, Granted(t), Granted(u)
        PROVE  t = u
    BY <2>1, <2>2, SMT DEF OneToken, Tok, TokenLocations
  <2> QED
    BY <2>2 DEF MutualExclusion
<1> QED
  BY <1>1, Invariance, PTL

\* The claim of mutex.hh:22-39: there is never more than one thread in pop().
THEOREM OnePopper == Spec => []SinglePopper
<1>1. IInv => SinglePopper
  BY DEF IInv, SinglePopper, Popping, OneToken, Tok, TokenLocations
<1> QED
  BY <1>1, Invariance, PTL

\* No assertion of lfmutex.cc fails.
THEOREM Assertions == Spec => []AssertionsHold
<1>1. ASSUME IInv PROVE AssertionsHold
  <2> USE <1>1 DEF IInv
  <2> SUFFICES ASSUME NEW t \in Threads
               PROVE  /\ owner = t => depth # 0
                      /\ pc[t] = "lk_got" => other[t] # NoThread
                      /\ pc[t] = "lk_got" /\ other[t] # t /\ rec[t] = t => ~ woken[t]
                      /\ pc[t] = "ul_wake" => other[t] # t
    BY DEF AssertionsHold
  <2>1. owner = t => depth # 0
    BY SMTT(40) DEF OwnerInv, TypeOK
  <2>2. pc[t] = "lk_got" => other[t] # NoThread /\ ~ woken[t]
    BY DEF OldInv, WaitInv
  <2>3. pc[t] = "ul_wake" => other[t] # t
    BY DEF ReachInv, Reach, Pushed
  <2> QED
    BY <2>1, <2>2, <2>3
<1> QED
  BY <1>1, Invariance, PTL

\* A wait_record that can still be reached is not yet woken and its thread has
\* not left the function whose stack holds it.
THEOREM RecordLifetime == Spec => []RecordsAlive
<1>1. ASSUME IInv PROVE RecordsAlive
  <2>1. ASSUME NEW s \in Seq(Threads), NEW i \in DOMAIN s PROVE In(s, s[i])
    BY SMT DEF In
  <2>2. ASSUME NEW w \in Threads,
               \/ \E i \in DOMAIN pushlist : pushlist[i] = w
               \/ \E i \in DOMAIN poplist : poplist[i] = w
               \/ \E t \in Threads : \E i \in DOMAIN taken[t] : taken[t][i] = w
               \/ \E t \in Threads : pc[t] \in {"lk_got", "ul_wake"} /\ other[t] = w
        PROVE  Reach(w)
    <3>1. pushlist \in Seq(Threads) /\ poplist \in Seq(Threads)
      BY <1>1 DEF IInv, TypeOK
    <3>2. \A t \in Threads : taken[t] \in Seq(Threads)
      BY <1>1 DEF IInv, TypeOK
    <3> QED
      BY <2>1, <2>2, <3>1, <3>2 DEF Reach
  <2> QED
    BY <2>2, <1>1 DEF RecordsAlive, IInv, ReachInv, Pushed, InLock
<1> QED
  BY <1>1, Invariance, PTL

\* count is exactly the number of claims on the mutex, so the fast paths of
\* lock() and unlock() that look at nothing else are right.
THEOREM CountIsExact == Spec => []CountExact
<1>1. IInv => CountExact
  BY DEF IInv
<1> QED
  BY <1>1, Invariance, PTL
=============================================================================
