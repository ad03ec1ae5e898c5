--------------------------- MODULE WordLockProofs ---------------------------
(***************************************************************************)
(* WordLock excludes: for any number of threads, any spin limit, and with  *)
(* weak compare-and-swaps that may fail, the lock bit and the queue bit    *)
(* each have at most one owner, WordLock implements Mutex, and the queue   *)
(* woven of the waiters' ThreadData is a list without loops whose tail the *)
(* head knows.                                                             *)
(***************************************************************************)
EXTENDS WordLock, FiniteSetTheorems, WellFoundedInduction, NaturalsInduction, TLAPS

USE NilAssumption, SpinLimitAssumption, WeakCASAssumption

\* The two words the fast paths compare with.
LEMMA FastWords == /\ Zero \in Word /\ OnlyLocked \in Word
                   /\ ~IsLocked(Zero) /\ ~IsQueueLocked(Zero) /\ Zero.queueHead = Nil
                   /\ IsLocked(OnlyLocked) /\ ~IsQueueLocked(OnlyLocked)
                   /\ OnlyLocked.queueHead = Nil
  BY DEF Zero, OnlyLocked, Word, IsLocked, IsQueueLocked, isLockedBit, isQueueLockedBit

\* A word is its bits and its pointer.
LEMMA WordUpdate ==
  ASSUME NEW w \in Word
  PROVE  /\ w.bits \in SUBSET {isLockedBit, isQueueLockedBit}
         /\ w.queueHead \in Thread \cup {Nil}
         /\ [w EXCEPT !.bits = @ \cup {isLockedBit}] \in Word
         /\ [w EXCEPT !.bits = @ \cup {isQueueLockedBit}] \in Word
  BY DEF Word

\* A locked word with no queue and no queue lock is the one unlock() expects.
LEMMA LockedWord ==
  ASSUME NEW w \in Word, IsLocked(w), ~IsQueueLocked(w), w.queueHead = Nil
  PROVE  w = OnlyLocked
  <1>1. w.bits = {isLockedBit}
    BY DEF Word, IsLocked, IsQueueLocked, isLockedBit, isQueueLockedBit
  <1>2. w = [bits |-> w.bits, queueHead |-> w.queueHead]
    BY DEF Word
  <1> QED
    BY <1>1, <1>2 DEF OnlyLocked

\* The initial word is zero and every thread is idle.
LEMMA InitIInv == Init => IInv
  BY FastWords
  DEF Init, IInv, TypeOK, MutualExclusion, LocalsFresh, Holding, OwnsQueue,
      PC, LockPC, UnlockPC, WakePC

\* Every step of every thread keeps the types.
LEMMA NextTypeOK == TypeOK /\ LocalsFresh /\ [Next]_vars => TypeOK'
  <1> SUFFICES ASSUME TypeOK, LocalsFresh, [Next]_vars PROVE TypeOK'
    OBVIOUS
  <1> USE FastWords
      DEF TypeOK, PC, LockPC, UnlockPC, WakePC, Goto, Load, Return,
          CASSucceeds, CASFails, queueVars, localVars, LocalsFresh
  <1>1. ASSUME NEW t \in Thread, Lock(t) PROVE TypeOK'
    BY <1>1 DEF Lock
  <1>2. ASSUME NEW t \in Thread, LockSlow(t) PROVE TypeOK'
    BY <1>2 DEF LockSlow, SpinOrQueue, Word
  <1>3. ASSUME NEW t \in Thread, TryAcquire(t) PROVE TypeOK'
    BY <1>3 DEF TryAcquire, SpinOrQueue, Word
  <1>4. ASSUME NEW t \in Thread, Reload(t) PROVE TypeOK'
    BY <1>4 DEF Reload
  <1>5. ASSUME NEW t \in Thread, LockQueue(t) PROVE TypeOK'
    BY <1>5 DEF LockQueue, Word
  <1>6. ASSUME NEW t \in Thread, Link(t) PROVE TypeOK'
    BY <1>6 DEF Link
  <1>7. ASSUME NEW t \in Thread, Publish(t) PROVE TypeOK'
    BY <1>7 DEF Publish, Word
  <1>8. ASSUME NEW t \in Thread, Park(t) PROVE TypeOK'
    BY <1>8 DEF Park
  <1>9. ASSUME NEW t \in Thread, SpuriousWakeup(t) PROVE TypeOK'
    BY <1>9 DEF SpuriousWakeup
  <1>10. ASSUME NEW t \in Thread, Unlock(t) PROVE TypeOK'
    BY <1>10 DEF Unlock
  <1>11. ASSUME NEW t \in Thread, UnlockSlow(t) PROVE TypeOK'
    BY <1>11 DEF UnlockSlow
  <1>12. ASSUME NEW t \in Thread, ReleaseWord(t) PROVE TypeOK'
    BY <1>12 DEF ReleaseWord
  <1>13. ASSUME NEW t \in Thread, TakeQueue(t) PROVE TypeOK'
    BY <1>13, WordUpdate DEF TakeQueue
  <1>14. ASSUME NEW t \in Thread, Dequeue(t) PROVE TypeOK'
    BY <1>14 DEF Dequeue, Word
  <1>15. ASSUME NEW t \in Thread, StoreHead(t) PROVE TypeOK'
    BY <1>15 DEF StoreHead
  <1>16. ASSUME NEW t \in Thread, ClearVictim(t) PROVE TypeOK'
    BY <1>16 DEF ClearVictim
  <1>17. ASSUME NEW t \in Thread, Unpark(t) PROVE TypeOK'
    BY <1>17 DEF Unpark
  <1>18. ASSUME NEW t \in Thread, Notify(t) PROVE TypeOK'
    BY <1>18 DEF Notify
  <1>19. CASE UNCHANGED vars
    BY <1>19 DEF vars
  <1> QED
    BY <1>1, <1>2, <1>3, <1>4, <1>5, <1>6, <1>7, <1>8, <1>9, <1>10, <1>11, <1>12, <1>13, <1>14, <1>15, <1>16, <1>17, <1>18, <1>19
    DEF Next, LockStep, UnlockStep, WakeStep

\* Every step keeps the bits truthful.
LEMMA NextExcludes == IInv /\ [Next]_vars => MutualExclusion'
  <1> SUFFICES ASSUME IInv, [Next]_vars PROVE MutualExclusion'
    OBVIOUS
  <1> USE FastWords
      DEF IInv, TypeOK, MutualExclusion, LocalsFresh, Holding, OwnsQueue, PC, LockPC,
          UnlockPC, WakePC, Goto, Load, Return, CASSucceeds, CASFails,
          queueVars, localVars, Word, IsLocked, IsQueueLocked, isLockedBit, isQueueLockedBit
  <1>1. ASSUME NEW t \in Thread, Lock(t) PROVE MutualExclusion'
    BY <1>1 DEF Lock
  <1>2. ASSUME NEW t \in Thread, LockSlow(t) PROVE MutualExclusion'
    BY <1>2 DEF LockSlow, SpinOrQueue
  <1>3. ASSUME NEW t \in Thread, TryAcquire(t) PROVE MutualExclusion'
    BY <1>3 DEF TryAcquire, SpinOrQueue
  <1>4. ASSUME NEW t \in Thread, Reload(t) PROVE MutualExclusion'
    BY <1>4 DEF Reload
  <1>5. ASSUME NEW t \in Thread, LockQueue(t) PROVE MutualExclusion'
    BY <1>5 DEF LockQueue
  <1>6. ASSUME NEW t \in Thread, Link(t) PROVE MutualExclusion'
    BY <1>6 DEF Link
  <1>7. ASSUME NEW t \in Thread, Publish(t) PROVE MutualExclusion'
    BY <1>7 DEF Publish
  <1>8. ASSUME NEW t \in Thread, Park(t) PROVE MutualExclusion'
    BY <1>8 DEF Park
  <1>9. ASSUME NEW t \in Thread, SpuriousWakeup(t) PROVE MutualExclusion'
    BY <1>9 DEF SpuriousWakeup
  <1>10. ASSUME NEW t \in Thread, Unlock(t) PROVE MutualExclusion'
    BY <1>10 DEF Unlock
  <1>11. ASSUME NEW t \in Thread, UnlockSlow(t) PROVE MutualExclusion'
    BY <1>11 DEF UnlockSlow
  <1>12. ASSUME NEW t \in Thread, ReleaseWord(t) PROVE MutualExclusion'
    BY <1>12 DEF ReleaseWord
  <1>13. ASSUME NEW t \in Thread, TakeQueue(t) PROVE MutualExclusion'
    BY <1>13 DEF TakeQueue
  <1>14. ASSUME NEW t \in Thread, Dequeue(t) PROVE MutualExclusion'
    BY <1>14 DEF Dequeue
  <1>15. ASSUME NEW t \in Thread, StoreHead(t) PROVE MutualExclusion'
    BY <1>15 DEF StoreHead
  <1>16. ASSUME NEW t \in Thread, ClearVictim(t) PROVE MutualExclusion'
    BY <1>16 DEF ClearVictim
  <1>17. ASSUME NEW t \in Thread, Unpark(t) PROVE MutualExclusion'
    BY <1>17 DEF Unpark
  <1>18. ASSUME NEW t \in Thread, Notify(t) PROVE MutualExclusion'
    BY <1>18 DEF Notify
  <1>19. CASE UNCHANGED vars
    BY <1>19 DEF vars
  <1> QED
    BY <1>1, <1>2, <1>3, <1>4, <1>5, <1>6, <1>7, <1>8, <1>9, <1>10, <1>11, <1>12, <1>13, <1>14, <1>15, <1>16, <1>17, <1>18, <1>19
    DEF Next, LockStep, UnlockStep, WakeStep

\* Every step keeps the locals as fresh as they have to be.
LEMMA NextLocals == IInv /\ [Next]_vars => LocalsFresh'
  <1> SUFFICES ASSUME IInv, [Next]_vars PROVE LocalsFresh'
    OBVIOUS
  <1> USE FastWords
      DEF IInv, TypeOK, MutualExclusion, LocalsFresh, Holding, OwnsQueue, PC, LockPC,
          UnlockPC, WakePC, Goto, Load, Return, CASSucceeds, CASFails,
          queueVars, localVars, Word, IsLocked, IsQueueLocked, isLockedBit, isQueueLockedBit
  <1>1. ASSUME NEW t \in Thread, Lock(t) PROVE LocalsFresh'
    BY <1>1 DEF Lock
  <1>2. ASSUME NEW t \in Thread, LockSlow(t) PROVE LocalsFresh'
    BY <1>2 DEF LockSlow, SpinOrQueue
  <1>3. ASSUME NEW t \in Thread, TryAcquire(t) PROVE LocalsFresh'
    BY <1>3 DEF TryAcquire, SpinOrQueue
  <1>4. ASSUME NEW t \in Thread, Reload(t) PROVE LocalsFresh'
    BY <1>4 DEF Reload
  <1>5. ASSUME NEW t \in Thread, LockQueue(t) PROVE LocalsFresh'
    BY <1>5 DEF LockQueue
  <1>6. ASSUME NEW t \in Thread, Link(t) PROVE LocalsFresh'
    BY <1>6 DEF Link
  <1>7. ASSUME NEW t \in Thread, Publish(t) PROVE LocalsFresh'
    BY <1>7 DEF Publish
  <1>8. ASSUME NEW t \in Thread, Park(t) PROVE LocalsFresh'
    BY <1>8 DEF Park
  <1>9. ASSUME NEW t \in Thread, SpuriousWakeup(t) PROVE LocalsFresh'
    BY <1>9 DEF SpuriousWakeup
  <1>10. ASSUME NEW t \in Thread, Unlock(t) PROVE LocalsFresh'
    BY <1>10 DEF Unlock
  <1>11. ASSUME NEW t \in Thread, UnlockSlow(t) PROVE LocalsFresh'
    BY <1>11, LockedWord DEF UnlockSlow
  <1>12. ASSUME NEW t \in Thread, ReleaseWord(t) PROVE LocalsFresh'
    BY <1>12 DEF ReleaseWord
  <1>13. ASSUME NEW t \in Thread, TakeQueue(t) PROVE LocalsFresh'
    BY <1>13 DEF TakeQueue
  <1>14. ASSUME NEW t \in Thread, Dequeue(t) PROVE LocalsFresh'
    BY <1>14 DEF Dequeue
  <1>15. ASSUME NEW t \in Thread, StoreHead(t) PROVE LocalsFresh'
    BY <1>15 DEF StoreHead
  <1>16. ASSUME NEW t \in Thread, ClearVictim(t) PROVE LocalsFresh'
    BY <1>16 DEF ClearVictim
  <1>17. ASSUME NEW t \in Thread, Unpark(t) PROVE LocalsFresh'
    BY <1>17 DEF Unpark
  <1>18. ASSUME NEW t \in Thread, Notify(t) PROVE LocalsFresh'
    BY <1>18 DEF Notify
  <1>19. CASE UNCHANGED vars
    BY <1>19 DEF vars
  <1> QED
    BY <1>1, <1>2, <1>3, <1>4, <1>5, <1>6, <1>7, <1>8, <1>9, <1>10, <1>11, <1>12, <1>13, <1>14, <1>15, <1>16, <1>17, <1>18, <1>19
    DEF Next, LockStep, UnlockStep, WakeStep

\* The inductive step, whole.
LEMMA NextIInv == IInv /\ [Next]_vars => IInv'
  BY NextTypeOK, NextExcludes, NextLocals DEF IInv

\* At every reachable state the locals of every thread are fresh enough, the
\* types hold and the bits of the word are truthful.
THEOREM Invariance == Spec => []IInv
  BY InitIInv, NextIInv, PTL DEF Spec

\* WordLock: the lock bit and the queue bit each have exactly one owner while
\* they are set, and none otherwise (WordLockBase::lockSlow and unlockSlow).
THEOREM WordLockExcludes == Spec => []MutualExclusion
  BY Invariance, PTL DEF IInv

\* No step of WordLock leaves the types of its state.
THEOREM WordLockTypes == Spec => []TypeOK
  BY Invariance, PTL DEF IInv

-----------------------------------------------------------------------------
(* No wakeup is lost *)

\* notify_one() always comes, after shouldPark was cleared, to a thread that
\* began to wait before it was.
LEMMA NextNoLostWakeup == IInv /\ NoLostWakeup /\ [Next]_vars => NoLostWakeup'
  <1> SUFFICES ASSUME IInv, NoLostWakeup, [Next]_vars PROVE NoLostWakeup'
    OBVIOUS
  <1> USE DEF IInv, TypeOK, NoLostWakeup, Goto, Load, Return, queueVars, localVars
  <1>1. ASSUME NEW t \in Thread, Lock(t) PROVE NoLostWakeup'
    BY <1>1 DEF Lock
  <1>2. ASSUME NEW t \in Thread, LockSlow(t) PROVE NoLostWakeup'
    BY <1>2 DEF LockSlow, SpinOrQueue
  <1>3. ASSUME NEW t \in Thread, TryAcquire(t) PROVE NoLostWakeup'
    BY <1>3 DEF TryAcquire, SpinOrQueue
  <1>4. ASSUME NEW t \in Thread, Reload(t) PROVE NoLostWakeup'
    BY <1>4 DEF Reload
  <1>5. ASSUME NEW t \in Thread, LockQueue(t) PROVE NoLostWakeup'
    BY <1>5 DEF LockQueue
  <1>6. ASSUME NEW t \in Thread, Link(t) PROVE NoLostWakeup'
    BY <1>6 DEF Link
  <1>7. ASSUME NEW t \in Thread, Publish(t) PROVE NoLostWakeup'
    BY <1>7 DEF Publish
  <1>8. ASSUME NEW t \in Thread, Park(t) PROVE NoLostWakeup'
    BY <1>8 DEF Park
  <1>9. ASSUME NEW t \in Thread, SpuriousWakeup(t) PROVE NoLostWakeup'
    BY <1>9 DEF SpuriousWakeup
  <1>10. ASSUME NEW t \in Thread, Unlock(t) PROVE NoLostWakeup'
    BY <1>10 DEF Unlock
  <1>11. ASSUME NEW t \in Thread, UnlockSlow(t) PROVE NoLostWakeup'
    BY <1>11 DEF UnlockSlow
  <1>12. ASSUME NEW t \in Thread, ReleaseWord(t) PROVE NoLostWakeup'
    BY <1>12 DEF ReleaseWord
  <1>13. ASSUME NEW t \in Thread, TakeQueue(t) PROVE NoLostWakeup'
    BY <1>13 DEF TakeQueue
  <1>14. ASSUME NEW t \in Thread, Dequeue(t) PROVE NoLostWakeup'
    BY <1>14 DEF Dequeue
  <1>15. ASSUME NEW t \in Thread, StoreHead(t) PROVE NoLostWakeup'
    BY <1>15 DEF StoreHead
  <1>16. ASSUME NEW t \in Thread, ClearVictim(t) PROVE NoLostWakeup'
    BY <1>16 DEF ClearVictim
  <1>17. ASSUME NEW t \in Thread, Unpark(t) PROVE NoLostWakeup'
    BY <1>17 DEF Unpark
  <1>18. ASSUME NEW t \in Thread, Notify(t) PROVE NoLostWakeup'
    BY <1>18 DEF Notify
  <1>19. CASE UNCHANGED vars
    BY <1>19 DEF vars
  <1> QED
    BY <1>1, <1>2, <1>3, <1>4, <1>5, <1>6, <1>7, <1>8, <1>9, <1>10, <1>11, <1>12, <1>13, <1>14, <1>15, <1>16, <1>17, <1>18, <1>19
    DEF Next, LockStep, UnlockStep, WakeStep

\* A thread asleep in parkingCondition.wait() with shouldPark already false has
\* an unlocker that is about to notify it: lockSlow()'s test of shouldPark and
\* its wait are not separated by unlockSlow()'s store and notify.
THEOREM WordLockWakes == Spec => []NoLostWakeup
  <1>1. Init => NoLostWakeup
    BY DEF Init, NoLostWakeup
  <1> QED
    BY <1>1, Invariance, NextNoLostWakeup, PTL DEF Spec

-----------------------------------------------------------------------------
(* WordLock implements Mutex *)

\* Entering "critical" while nobody holds the lock is Mutex's Acquire.
LEMMA Acquires ==
  ASSUME TypeOK, NEW t \in Thread, pc[t] \in {"idle"} \cup LockPC,
         \A u \in Thread : ~Holding(u), Goto(t, "critical")
  PROVE  AsMutex!Acquire(t)
  BY DEF TypeOK, Holding, Goto, LockPC, UnlockPC, MutexStatus, AsMutex!Acquire, AsMutex!Free

\* Leaving the section that holds the lock is Mutex's Release.
LEMMA Releases ==
  ASSUME TypeOK, NEW t \in Thread, Holding(t),
         NEW l \in {"idle", "clearVictim"}, Goto(t, l)
  PROVE  AsMutex!Release(t)
  BY DEF TypeOK, Holding, Goto, LockPC, UnlockPC, MutexStatus, AsMutex!Release

\* Falling into lockSlow() is Mutex's Request.
LEMMA Requests ==
  ASSUME TypeOK, NEW t \in Thread, pc[t] = "idle", Goto(t, "lockSlow")
  PROVE  AsMutex!Request(t)
  BY DEF TypeOK, Holding, Goto, LockPC, UnlockPC, MutexStatus, AsMutex!Request

\* Any other move of a thread, on its side of the lock, leaves Mutex alone.
LEMMA Stutters ==
  ASSUME TypeOK, TypeOK', \A t \in Thread : /\ Holding(t)' <=> Holding(t)
                                            /\ pc'[t] \in LockPC <=> pc[t] \in LockPC
  PROVE  UNCHANGED AsMutex!vars
  BY DEF MutexStatus, AsMutex!vars

\* A thread's step is a step of Mutex, or changes no thread's status.
LEMMA StepRefines == IInv /\ [Next]_vars => [AsMutex!Next]_(AsMutex!vars)
  <1> SUFFICES ASSUME IInv, [Next]_vars PROVE [AsMutex!Next]_(AsMutex!vars)
    OBVIOUS
  <1> USE DEF IInv, TypeOK, AsMutex!Next
  <1>0. TypeOK'
    BY NextTypeOK
  <1>1. ASSUME NEW t \in Thread, Lock(t) PROVE AsMutex!Next
    <2>1. CASE m_word = Zero /\ Goto(t, "critical")
      BY <1>1, <2>1, FastWords, Acquires DEF Lock, MutualExclusion
    <2>2. CASE Goto(t, "lockSlow")
      BY <1>1, <2>2, Requests DEF Lock
    <2> QED
      BY <1>1, <2>1, <2>2 DEF Lock, CASSucceeds
  <1>2. ASSUME NEW t \in Thread, TryAcquire(t) PROVE [AsMutex!Next]_(AsMutex!vars)
    <2>1. CASE m_word = cur[t] /\ Goto(t, "critical")
      BY <1>2, <2>1, Acquires DEF TryAcquire, MutualExclusion, LocalsFresh, LockPC
    <2>2. CASE SpinOrQueue(t, cur[t])
      BY <1>0, <1>2, <2>2, Stutters
      DEF TryAcquire, SpinOrQueue, Goto, Holding, LockPC, UnlockPC
    <2> QED
      BY <1>2, <2>1, <2>2 DEF TryAcquire, CASSucceeds, Return
  <1>3. ASSUME NEW t \in Thread, Unlock(t) \/ ReleaseWord(t) \/ StoreHead(t)
        PROVE  [AsMutex!Next]_(AsMutex!vars)
    <2>1. CASE Goto(t, "idle") \/ Goto(t, "clearVictim")
      BY <1>3, <2>1, Releases DEF Unlock, ReleaseWord, StoreHead, Holding, UnlockPC
    <2>2. CASE Goto(t, "unlockSlow")
      BY <1>0, <1>3, <2>2, Stutters
      DEF Unlock, ReleaseWord, StoreHead, Goto, Holding, LockPC, UnlockPC
    <2> QED
      BY <1>3, <2>1, <2>2 DEF Unlock, ReleaseWord, StoreHead, Return
  <1>4. ASSUME NEW t \in Thread,
               \/ LockSlow(t) \/ Reload(t) \/ LockQueue(t) \/ Link(t) \/ Publish(t)
               \/ Park(t) \/ SpuriousWakeup(t)
        PROVE  UNCHANGED AsMutex!vars
    BY <1>0, <1>4, Stutters
    DEF LockSlow, SpinOrQueue, Reload, LockQueue, Link, Publish, Park, SpuriousWakeup,
        Goto, Holding, LockPC, UnlockPC
  <1>5. ASSUME NEW t \in Thread,
               \/ UnlockSlow(t) \/ TakeQueue(t) \/ Dequeue(t)
               \/ ClearVictim(t) \/ Unpark(t) \/ Notify(t)
        PROVE  UNCHANGED AsMutex!vars
    BY <1>0, <1>5, Stutters
    DEF UnlockSlow, TakeQueue, Dequeue, ClearVictim, Unpark, Notify,
        Goto, Holding, LockPC, UnlockPC
  <1>6. CASE UNCHANGED vars
    BY <1>6 DEF vars, AsMutex!vars, MutexStatus, Holding
  <1> QED
    BY <1>1, <1>2, <1>3, <1>4, <1>5, <1>6 DEF Next, LockStep, UnlockStep, WakeStep

\* WordLock is a mutex: every behaviour of lock() and unlock(), slow paths
\* included, is one of Mutex with waiting threads inside lockSlow().
THEOREM WordLockIsMutex == Spec => ImplementsMutex
  <1>1. Init => AsMutex!Init
    BY DEF Init, AsMutex!Init, MutexStatus, Holding, UnlockPC, LockPC
  <1> QED
    BY <1>1, Invariance, StepRefines, PTL DEF Spec, ImplementsMutex, AsMutex!Spec

-----------------------------------------------------------------------------
(* The queue is sound *)

\* Every step leaves the threads with the truth about the word.
LEMMA NextLocalsTrue == IInv /\ LocalsTrue /\ [Next]_vars => LocalsTrue'
  <1> SUFFICES ASSUME IInv, LocalsTrue, [Next]_vars PROVE LocalsTrue'
    OBVIOUS
  <1> USE FastWords
      DEF IInv, TypeOK, MutualExclusion, LocalsFresh, LocalsTrue, Holding, OwnsQueue,
          PC, LockPC, UnlockPC, WakePC, Goto, Load, Return, CASSucceeds, CASFails,
          queueVars, localVars, Word, IsLocked, IsQueueLocked, isLockedBit, isQueueLockedBit
  <1>1. ASSUME NEW t \in Thread, Lock(t) PROVE LocalsTrue'
    BY <1>1 DEF Lock
  <1>2. ASSUME NEW t \in Thread, LockSlow(t) PROVE LocalsTrue'
    BY <1>2 DEF LockSlow, SpinOrQueue
  <1>3. ASSUME NEW t \in Thread, TryAcquire(t) PROVE LocalsTrue'
    BY <1>3 DEF TryAcquire, SpinOrQueue
  <1>4. ASSUME NEW t \in Thread, Reload(t) PROVE LocalsTrue'
    BY <1>4 DEF Reload
  <1>5. ASSUME NEW t \in Thread, LockQueue(t) PROVE LocalsTrue'
    BY <1>5 DEF LockQueue
  <1>6. ASSUME NEW t \in Thread, Link(t) PROVE LocalsTrue'
    BY <1>6 DEF Link
  <1>7. ASSUME NEW t \in Thread, Publish(t) PROVE LocalsTrue'
    BY <1>7 DEF Publish
  <1>8. ASSUME NEW t \in Thread, Park(t) PROVE LocalsTrue'
    BY <1>8 DEF Park
  <1>9. ASSUME NEW t \in Thread, SpuriousWakeup(t) PROVE LocalsTrue'
    BY <1>9 DEF SpuriousWakeup
  <1>10. ASSUME NEW t \in Thread, Unlock(t) PROVE LocalsTrue'
    BY <1>10 DEF Unlock
  <1>11. ASSUME NEW t \in Thread, UnlockSlow(t) PROVE LocalsTrue'
    BY <1>11 DEF UnlockSlow
  <1>12. ASSUME NEW t \in Thread, ReleaseWord(t) PROVE LocalsTrue'
    BY <1>12 DEF ReleaseWord
  <1>13. ASSUME NEW t \in Thread, TakeQueue(t) PROVE LocalsTrue'
    BY <1>13 DEF TakeQueue
  <1>14. ASSUME NEW t \in Thread, Dequeue(t) PROVE LocalsTrue'
    BY <1>14 DEF Dequeue
  <1>15. ASSUME NEW t \in Thread, StoreHead(t) PROVE LocalsTrue'
    BY <1>15 DEF StoreHead
  <1>16. ASSUME NEW t \in Thread, ClearVictim(t) PROVE LocalsTrue'
    BY <1>16 DEF ClearVictim
  <1>17. ASSUME NEW t \in Thread, Unpark(t) PROVE LocalsTrue'
    BY <1>17 DEF Unpark
  <1>18. ASSUME NEW t \in Thread, Notify(t) PROVE LocalsTrue'
    BY <1>18 DEF Notify
  <1>19. CASE UNCHANGED vars
    BY <1>19 DEF vars
  <1> QED
    BY <1>1, <1>2, <1>3, <1>4, <1>5, <1>6, <1>7, <1>8, <1>9, <1>10, <1>11, <1>12, <1>13, <1>14, <1>15, <1>16, <1>17, <1>18, <1>19
    DEF Next, LockStep, UnlockStep, WakeStep

\* As many threads as are in a queue there are.
LEMMA QueueFits ==
  ASSUME NEW n \in Nat, NEW q \in [1 .. n -> Thread], \A i, j \in 1 .. n : q[i] = q[j] => i = j
  PROVE  n <= Cardinality(Thread)
  <1>1. IsFiniteSet(1 .. n) /\ Cardinality(1 .. n) = n
    BY FS_Interval
  <1>2. q \in Injection(1 .. n, Thread)
    BY DEF Injection, IsInjective
  <1> QED
    BY <1>1, <1>2, FiniteAssumption, FS_Injection DEF ExistsInjection

\* A step that leaves the queue, and those that it is about, alone.
LEMMA QueueUntouched ==
  ASSUME TypeOK, NEW n \in Nat, NEW q \in [1 .. n -> Thread], QueueIs(n, q),
         UNCHANGED queueVars, m_word'.queueHead = m_word.queueHead,
         \A u \in Thread :
            /\ shouldPark[u] /\ pc[u] \in {"park", "asleep"} => pc'[u] \in {"park", "asleep"}
            /\ pc'[u] = "publish" <=> pc[u] = "publish"
            /\ pc'[u] = "storeHead" <=> pc[u] = "storeHead"
            /\ pc'[u] = "clearVictim" <=> pc[u] = "clearVictim"
            /\ pc'[u] = "unpark" <=> pc[u] = "unpark"
            /\ pc[u] \in {"storeHead", "clearVictim", "unpark"} =>
                  victim'[u] = victim[u] /\ cur'[u] = cur[u]
  PROVE  QueueIs(n, q)'
  <1> USE DEF QueueIs, queueVars
  <1>1. Linked(n, q)'
    BY DEF Linked
  <1>2. Waiting(n, q)'
    BY DEF Waiting
  <1>3. HalfWay(n, q)'
    BY DEF HalfWay
  <1>4. Takers' = Takers /\ \A u \in Takers : victim'[u] = victim[u] /\ u \in Thread
    BY DEF Takers
  <1>5. Taken(n, q)'
    BY <1>4 DEF Taken, Takers
  <1>6. Accounted(n, q)'
    BY <1>4 DEF Accounted
  <1> QED
    BY <1>1, <1>2, <1>3, <1>5, <1>6

\* Nobody else owns the queue.
LEMMA OneOwner ==
  ASSUME MutualExclusion, NEW t \in Thread, pc[t] \in {"link", "publish", "dequeue", "storeHead"}
  PROVE  \A u \in Thread : pc[u] \in {"link", "publish", "dequeue", "storeHead"} => u = t
  BY DEF MutualExclusion, OwnsQueue

\* Who need not park is not in the queue, and not taken off it.
LEMMA NotQueued ==
  ASSUME TypeOK, NEW n \in Nat, NEW q \in [1 .. n -> Thread], QueueIs(n, q), NEW t \in Thread,
         pc[t] \notin {"publish", "park", "asleep"}
  PROVE  /\ \A i \in 1 .. n : q[i] # t
         /\ \A u \in Takers : victim[u] # t
         /\ ~shouldPark[t] /\ nextInQueue[t] = Nil /\ queueTail[t] = Nil
  <1>1. \A i \in 1 .. n : q[i] # t
    BY DEF QueueIs, Waiting
  <1>2. \A u \in Takers : victim[u] # t
    BY DEF QueueIs, Taken
  <1> QED
    BY <1>1, <1>2 DEF QueueIs, Accounted, TypeOK

\* The queue a thread joins.
Longer(n, q, t) == [i \in 1 .. n + 1 |-> IF i <= n THEN q[i] ELSE t]

\* A thread linked to the tail makes the queue longer by one.
LEMMA LinkQueues ==
  ASSUME IInv, LocalsTrue, NEW n \in Nat, NEW q \in [1 .. n -> Thread], QueueIs(n, q),
         NEW t \in Thread, Link(t)
  PROVE  Longer(n, q, t) \in [1 .. n + 1 -> Thread] /\ QueueIs(n + 1, Longer(n, q, t))'
  <1> DEFINE r == Longer(n, q, t)
             head == m_word.queueHead
  <1>1. /\ r \in [1 .. n + 1 -> Thread] /\ r[n + 1] = t
        /\ \A i \in 1 .. n : r[i] = q[i] /\ i \in 1 .. n + 1
        /\ \A i \in 1 .. n + 1 : i \in 1 .. n \/ i = n + 1
    BY DEF Longer
  <1> HIDE DEF r
  <1>2. /\ pc[t] = "link" /\ m_word' = m_word /\ victim' = victim
        /\ shouldPark' = [shouldPark EXCEPT ![t] = TRUE] /\ pc' = [pc EXCEPT ![t] = "publish"]
        /\ cur' = [cur EXCEPT ![t] = m_word] /\ cur[t].queueHead = head
    BY DEF Link, Load, Goto, LocalsTrue
  <1>3. /\ \A i \in 1 .. n : q[i] # t
        /\ \A u \in Takers : victim[u] # t
        /\ ~shouldPark[t] /\ nextInQueue[t] = Nil /\ queueTail[t] = Nil
    BY <1>2, NotQueued DEF IInv
  <1>4. /\ \A u \in Thread : pc[u] \notin {"publish", "storeHead"} /\ (u # t => pc'[u] = pc[u])
        /\ pc'[t] = "publish"
    BY <1>2, OneOwner DEF IInv, TypeOK
  <1>5. head = IF n = 0 THEN Nil ELSE q[1]
    BY <1>4 DEF QueueIs, Linked
  <1>6. \A i \in 1 .. n : q[i] \in Thread
    OBVIOUS
  <1>7. /\ \A u \in Thread : nextInQueue'[u] = IF n > 0 /\ u = q[n] THEN t ELSE nextInQueue[u]
        /\ \A u \in Thread : queueTail'[u] = IF u = (IF n > 0 THEN q[1] ELSE t) THEN t ELSE queueTail[u]
        /\ \A u \in Thread : shouldPark'[u] = IF u = t THEN TRUE ELSE shouldPark[u]
    <2>1. CASE n = 0
      <3>1. head = Nil
        BY <1>5, <2>1
      <3>2. nextInQueue' = nextInQueue /\ queueTail' = [queueTail EXCEPT ![t] = t]
        BY <1>2, <3>1 DEF Link
      <3> QED
        BY <1>2, <2>1, <3>2 DEF IInv, TypeOK
    <2>2. CASE n > 0
      <3>1. head = q[1] /\ head # Nil /\ 1 \in 1 .. n /\ n \in 1 .. n
        BY <1>5, <1>6, <2>2
      <3>2. queueTail[head] = q[n]
        BY <2>2, <3>1 DEF QueueIs, Linked
      <3>3. nextInQueue' = [nextInQueue EXCEPT ![q[n]] = t] /\ queueTail' = [queueTail EXCEPT ![head] = t]
        BY <1>2, <3>1, <3>2 DEF Link
      <3> QED
        BY <1>2, <1>6, <2>2, <3>1, <3>3 DEF IInv, TypeOK
    <2>3. n = 0 \/ n > 0
      OBVIOUS
    <2> QED
      BY <2>1, <2>2, <2>3, Zenon
  <1>8. Linked(n + 1, r)'
    <2>1. \A i, j \in 1 .. n + 1 : r[i] = r[j] => i = j
      BY <1>1, <1>3 DEF QueueIs, Linked
    <2>2. ASSUME NEW i \in 1 .. n + 1
          PROVE  nextInQueue'[r[i]] = IF i < n + 1 THEN r[i + 1] ELSE Nil
      <3>1. CASE i = n + 1
        BY <1>1, <1>3, <1>7, <3>1
      <3>2. CASE i \in 1 .. n
        <4>1. r[i] = q[i] /\ q[i] \in Thread /\ i < n + 1 /\ n > 0 /\ n \in 1 .. n
          BY <1>1, <1>6, <3>2
        <4>2. nextInQueue[q[i]] = IF i < n THEN q[i + 1] ELSE Nil
          BY <3>2 DEF QueueIs, Linked
        <4>3. CASE i = n
          BY <1>1, <1>7, <4>1, <4>3
        <4>4. CASE i # n
          <5>1. q[i] # q[n] /\ i + 1 \in 1 .. n /\ i < n
            BY <3>2, <4>1, <4>4 DEF QueueIs, Linked
          <5> QED
            BY <1>1, <1>7, <4>1, <4>2, <5>1
        <4> QED
          BY <4>3, <4>4
      <3> QED
        BY <1>1, <3>1, <3>2
    <2>3. queueTail'[r[1]] = r[n + 1]
      <3>1. CASE n = 0
        BY <1>1, <1>7, <3>1
      <3>2. CASE n > 0
        BY <1>1, <1>6, <1>7, <3>2
      <3> QED
        BY <3>1, <3>2
    <2>4. m_word'.queueHead = IF n + 1 = 0 THEN Nil ELSE IF pc'[r[1]] = "publish" THEN Nil ELSE r[1]
      <3>1. CASE n = 0
        BY <1>1, <1>2, <1>4, <1>5, <3>1
      <3>2. CASE n > 0
        BY <1>1, <1>2, <1>3, <1>4, <1>5, <1>6, <3>2
      <3> QED
        BY <3>1, <3>2
    <2> QED
      BY <2>1, <2>2, <2>3, <2>4 DEF Linked
  <1>9. Waiting(n + 1, r)'
    <2> SUFFICES ASSUME NEW i \in 1 .. n + 1
                 PROVE  /\ shouldPark'[r[i]]
                        /\ \/ pc'[r[i]] \in {"park", "asleep"}
                           \/ i = n + 1 /\ pc'[r[i]] = "publish"
      BY DEF Waiting
    <2>1. CASE i = n + 1
      BY <1>1, <1>4, <1>7, <2>1
    <2>2. CASE i \in 1 .. n
      <3>1. r[i] = q[i] /\ q[i] \in Thread /\ q[i] # t
        BY <1>1, <1>3, <1>6, <2>2
      <3>2. shouldPark[q[i]] /\ pc[q[i]] \in {"park", "asleep"}
        BY <1>4, <2>2, <3>1 DEF QueueIs, Waiting
      <3> QED
        BY <1>4, <1>7, <3>1, <3>2
    <2> QED
      BY <1>1, <2>1, <2>2
  <1>10. HalfWay(n + 1, r)'
    BY <1>1, <1>4 DEF HalfWay
  <1>11. Takers' = Takers
    BY <1>2, <1>4 DEF Takers
  <1>12. Taken(n + 1, r)'
    <2> SUFFICES ASSUME NEW u \in Takers
                 PROVE  /\ victim[u] \in Thread /\ \A i \in 1 .. n + 1 : r[i] # victim[u]
                        /\ shouldPark'[victim[u]] /\ pc'[victim[u]] \in {"park", "asleep"}
                        /\ pc'[u] = "unpark" => /\ nextInQueue'[victim[u]] = Nil
                                                /\ queueTail'[victim[u]] = Nil
      BY <1>2, <1>11 DEF QueueIs, Taken
    <2>1. /\ victim[u] \in Thread /\ victim[u] # t /\ \A i \in 1 .. n : q[i] # victim[u]
          /\ shouldPark[victim[u]] /\ pc[victim[u]] \in {"park", "asleep"}
          /\ pc[u] = "unpark" => nextInQueue[victim[u]] = Nil /\ queueTail[victim[u]] = Nil
      BY <1>3 DEF QueueIs, Taken
    <2>2. u # t /\ u \in Thread
      BY <1>2 DEF Takers
    <2>3. n > 0 => victim[u] # q[n] /\ victim[u] # q[1]
      BY <2>1
    <2> QED
      BY <1>1, <1>4, <1>7, <2>1, <2>2, <2>3
  <1>13. Accounted(n + 1, r)'
    <2> SUFFICES ASSUME NEW u \in Thread
                 PROVE  IF shouldPark'[u]
                        THEN (\E i \in 1 .. n + 1 : r[i] = u) \/ \E w \in Takers : victim[w] = u
                        ELSE nextInQueue'[u] = Nil /\ queueTail'[u] = Nil
      BY <1>2, <1>11 DEF Accounted
    <2>1. CASE u = t
      <3>1. shouldPark'[t]
        BY <1>2 DEF IInv, TypeOK
      <3>2. n + 1 \in 1 .. n + 1
        OBVIOUS
      <3> QED
        BY <1>1, <2>1, <3>1, <3>2
    <2>2. CASE u # t /\ shouldPark[u]
      BY <1>1, <1>7, <2>2 DEF QueueIs, Accounted
    <2>3. CASE u # t /\ ~shouldPark[u]
      <3>1. n > 0 => shouldPark[q[n]] /\ shouldPark[q[1]]
        BY DEF QueueIs, Waiting
      <3>2. nextInQueue[u] = Nil /\ queueTail[u] = Nil
        BY <2>3 DEF QueueIs, Accounted
      <3> QED
        BY <1>7, <2>3, <3>1, <3>2
    <2> QED
      BY <2>1, <2>2, <2>3
  <1> QED
    BY <1>1, <1>8, <1>9, <1>10, <1>12, <1>13 DEF QueueIs, r

\* Publishing the word changes the queue lock and not the queue.
LEMMA PublishQueues ==
  ASSUME IInv, LocalsTrue, NEW n \in Nat, NEW q \in [1 .. n -> Thread], QueueIs(n, q),
         NEW t \in Thread, Publish(t)
  PROVE  QueueIs(n, q)'
  <1>1. /\ pc[t] = "publish" /\ UNCHANGED queueVars /\ UNCHANGED <<cur, victim>>
        /\ pc' = [pc EXCEPT ![t] = "park"] /\ cur[t] = m_word
        /\ m_word' = [cur[t] EXCEPT !.bits = @ \ {isQueueLockedBit},
                                    !.queueHead = IF @ = Nil THEN t ELSE @]
    BY DEF Publish, localVars, Goto, LocalsTrue
  <1>2. m_word'.queueHead = IF m_word.queueHead = Nil THEN t ELSE m_word.queueHead
    BY <1>1 DEF IInv, TypeOK, Word
  <1>3. \A u \in Thread : pc[u] \in {"publish", "storeHead"} => u = t
    BY <1>1, OneOwner DEF IInv
  <1>4. /\ pc'[t] = "park" /\ \A u \in Thread : u # t => pc'[u] = pc[u]
        /\ \A u \in Thread : pc'[u] \notin {"publish", "storeHead"}
    BY <1>1, <1>3 DEF IInv, TypeOK
  <1>5. n > 0 /\ q[n] = t /\ 1 \in 1 .. n /\ q[1] \in Thread
    BY <1>1 DEF QueueIs, HalfWay
  <1>6. m_word'.queueHead = q[1]
    BY <1>2, <1>3, <1>5 DEF QueueIs, Linked
  <1>7. Linked(n, q)'
    BY <1>1, <1>4, <1>5, <1>6 DEF QueueIs, Linked, queueVars
  <1>8. Waiting(n, q)'
    BY <1>1, <1>4 DEF QueueIs, Waiting, queueVars
  <1>9. HalfWay(n, q)'
    BY <1>4 DEF HalfWay
  <1>10. Takers' = Takers
    BY <1>1, <1>4 DEF Takers
  <1>11. \A u \in Takers : pc'[u] = pc[u]
    BY <1>1, <1>4 DEF Takers
  <1>12. Taken(n, q)'
    BY <1>1, <1>4, <1>10, <1>11 DEF QueueIs, Taken, queueVars
  <1>13. Accounted(n, q)'
    BY <1>1, <1>10 DEF QueueIs, Accounted, queueVars
  <1> QED
    BY <1>7, <1>8, <1>9, <1>12, <1>13 DEF QueueIs

\* An unlocker that takes the queue lock leaves the queue as it is.
LEMMA DequeueQueues ==
  ASSUME IInv, NEW n \in Nat, NEW q \in [1 .. n -> Thread], QueueIs(n, q),
         NEW t \in Thread, Dequeue(t)
  PROVE  QueueIs(n, q)'
  <1> DEFINE head == m_word.queueHead
  <1>1. /\ pc[t] = "dequeue" /\ UNCHANGED <<m_word, shouldPark, nextInQueue>>
        /\ pc' = [pc EXCEPT ![t] = "storeHead"] /\ victim' = [victim EXCEPT ![t] = head]
        /\ cur' = [cur EXCEPT ![t] = [bits |-> m_word.bits \ {isLockedBit, isQueueLockedBit},
                                      queueHead |-> nextInQueue[head]]]
        /\ IF nextInQueue[head] # Nil
           THEN queueTail' = [queueTail EXCEPT ![nextInQueue[head]] = queueTail[head]]
           ELSE queueTail' = queueTail
    BY DEF Dequeue, Goto
  <1>2. \A u \in Thread : pc[u] \notin {"publish", "storeHead"}
    BY <1>1, OneOwner DEF IInv
  <1>3. /\ pc'[t] = "storeHead" /\ victim'[t] = head /\ cur'[t].queueHead = nextInQueue[head]
        /\ \A u \in Thread : u # t => pc'[u] = pc[u] /\ victim'[u] = victim[u]
    BY <1>1 DEF IInv, TypeOK
  <1>4. head # Nil
    BY <1>1 DEF IInv, LocalsFresh
  <1>5. n > 0 /\ head = q[1] /\ 1 \in 1 .. n /\ n \in 1 .. n
    BY <1>2, <1>4 DEF QueueIs, Linked
  <1>6. nextInQueue[head] = IF 1 < n THEN q[2] ELSE Nil
    BY <1>5 DEF QueueIs, Linked
  <1>7. \A i \in 1 .. n : q[i] \in Thread /\ shouldPark[q[i]]
    BY DEF QueueIs, Waiting
  <1>8. /\ n > 1 => 2 \in 1 .. n /\ q[2] # q[1]
        /\ \A u \in Thread : queueTail'[u] = IF n > 1 /\ u = q[2] THEN q[n] ELSE queueTail[u]
    <2>1. queueTail[head] = q[n]
      BY <1>5 DEF QueueIs, Linked
    <2>2. n > 1 => 2 \in 1 .. n /\ q[2] # q[1]
      BY <1>5 DEF QueueIs, Linked
    <2>3. CASE n > 1
      <3>1. q[2] \in Thread /\ q[2] # Nil
        BY <1>7, <2>2, <2>3
      <3>2. queueTail' = [queueTail EXCEPT ![q[2]] = q[n]]
        BY <1>1, <1>6, <2>1, <2>3, <3>1
      <3> QED
        BY <2>2, <2>3, <3>1, <3>2 DEF IInv, TypeOK
    <2>4. CASE ~(n > 1)
      BY <1>1, <1>6, <2>4
    <2> QED
      BY <2>2, <2>3, <2>4
  <1>9. /\ \A i \in 1 .. n : q[i] # t
        /\ \A u \in Takers : victim[u] # t
    BY <1>1, NotQueued DEF IInv
  <1>10. Linked(n, q)'
    BY <1>1, <1>2, <1>3, <1>5, <1>7, <1>8, <1>9 DEF QueueIs, Linked
  <1>11. Waiting(n, q)'
    BY <1>1, <1>3, <1>7, <1>9 DEF QueueIs, Waiting
  <1>12. HalfWay(n, q)'
    BY <1>1, <1>2, <1>3, <1>5, <1>7, <1>8 DEF HalfWay
  <1>13. Takers' = Takers /\ \A u \in Takers : u \in Thread /\ u # t
    BY <1>1, <1>3 DEF Takers
  <1>14. Taken(n, q)'
    <2> SUFFICES ASSUME NEW u \in Takers
                 PROVE  /\ victim[u] \in Thread /\ \A i \in 1 .. n : q[i] # victim[u]
                        /\ shouldPark[victim[u]] /\ pc'[victim[u]] \in {"park", "asleep"}
                        /\ pc[u] = "unpark" => /\ nextInQueue[victim[u]] = Nil
                                               /\ queueTail'[victim[u]] = Nil
      BY <1>1, <1>3, <1>13 DEF QueueIs, Taken
    <2>1. /\ victim[u] \in Thread /\ victim[u] # t /\ \A i \in 1 .. n : q[i] # victim[u]
          /\ shouldPark[victim[u]] /\ pc[victim[u]] \in {"park", "asleep"}
          /\ pc[u] = "unpark" => nextInQueue[victim[u]] = Nil /\ queueTail[victim[u]] = Nil
      BY <1>9 DEF QueueIs, Taken
    <2> QED
      BY <1>3, <1>8, <2>1
  <1>15. Accounted(n, q)'
    BY <1>1, <1>3, <1>7, <1>8, <1>13 DEF QueueIs, Accounted
  <1> QED
    BY <1>10, <1>11, <1>12, <1>14, <1>15 DEF QueueIs

\* The queue without its head.
Shorter(n, q) == [i \in 1 .. n - 1 |-> q[i + 1]]

\* The new head makes the queue shorter by one.
LEMMA StoreHeadQueues ==
  ASSUME IInv, NEW n \in Nat, NEW q \in [1 .. n -> Thread], QueueIs(n, q),
         NEW t \in Thread, StoreHead(t)
  PROVE  n - 1 \in Nat /\ Shorter(n, q) \in [1 .. n - 1 -> Thread] /\ QueueIs(n - 1, Shorter(n, q))'
  <1> DEFINE r == Shorter(n, q)
  <1>1. /\ pc[t] = "storeHead" /\ UNCHANGED queueVars /\ UNCHANGED <<cur, victim>>
        /\ pc' = [pc EXCEPT ![t] = "clearVictim"] /\ m_word' = cur[t]
    BY DEF StoreHead, localVars, Goto
  <1>2. \A u \in Thread : pc[u] \notin {"publish"} /\ (pc[u] = "storeHead" => u = t)
    BY <1>1, OneOwner DEF IInv
  <1>3. /\ pc'[t] = "clearVictim" /\ \A u \in Thread : u # t => pc'[u] = pc[u]
        /\ \A u \in Thread : pc'[u] \notin {"publish", "storeHead"}
    BY <1>1, <1>2 DEF IInv, TypeOK
  <1>4. /\ n > 0 /\ victim[t] = q[1] /\ cur[t].queueHead = nextInQueue[q[1]]
        /\ n > 1 => queueTail[q[2]] = q[n]
    BY <1>1 DEF QueueIs, HalfWay
  <1>5. /\ n - 1 \in Nat /\ r \in [1 .. n - 1 -> Thread] /\ 1 \in 1 .. n
        /\ \A i \in 1 .. n - 1 : r[i] = q[i + 1] /\ i + 1 \in 1 .. n
    BY <1>4 DEF Shorter
  <1> HIDE DEF r
  <1>6. /\ \A i \in 1 .. n : q[i] \in Thread /\ shouldPark[q[i]] /\ pc[q[i]] \in {"park", "asleep"}
        /\ \A i \in 1 .. n : q[i] # t
    BY <1>1, <1>2 DEF QueueIs, Waiting
  <1>7. /\ nextInQueue[q[1]] = IF 1 < n THEN q[2] ELSE Nil
        /\ \A i, j \in 1 .. n : q[i] = q[j] => i = j
    BY <1>5 DEF QueueIs, Linked
  <1>8. Linked(n - 1, r)'
    <2>1. \A i, j \in 1 .. n - 1 : r[i] = r[j] => i = j
      BY <1>5, <1>7
    <2>2. ASSUME NEW i \in 1 .. n - 1 PROVE nextInQueue[r[i]] = IF i < n - 1 THEN r[i + 1] ELSE Nil
      <3>1. nextInQueue[q[i + 1]] = IF i + 1 < n THEN q[(i + 1) + 1] ELSE Nil
        BY <1>5 DEF QueueIs, Linked
      <3>2. CASE i < n - 1
        <4>1. i + 1 \in 1 .. n - 1 /\ i + 1 < n
          BY <1>5, <3>2
        <4> QED
          BY <1>5, <3>1, <3>2, <4>1
      <3>3. CASE ~(i < n - 1)
        BY <1>5, <3>1, <3>3
      <3> QED
        BY <3>2, <3>3
    <2>3. n - 1 > 0 => queueTail[r[1]] = r[n - 1]
      <3> SUFFICES ASSUME n - 1 > 0 PROVE queueTail[r[1]] = r[n - 1]
        OBVIOUS
      <3>1. 1 \in 1 .. n - 1 /\ n - 1 \in 1 .. n - 1 /\ (n - 1) + 1 = n /\ n > 1
        BY <1>5
      <3> QED
        BY <1>4, <1>5, <3>1
    <2>4. m_word'.queueHead = IF n - 1 = 0 THEN Nil ELSE IF pc'[r[1]] = "publish" THEN Nil ELSE r[1]
      <3>1. CASE n = 1
        BY <1>1, <1>4, <1>7, <3>1
      <3>2. CASE n > 1
        <4>1. r[1] = q[2] /\ r[1] \in Thread /\ n - 1 # 0
          BY <1>5, <3>2
        <4>2. pc'[r[1]] # "publish"
          BY <1>3, <4>1
        <4> QED
          BY <1>1, <1>4, <1>7, <3>2, <4>1, <4>2
      <3> QED
        BY <1>5, <3>1, <3>2
    <2> QED
      BY <1>1, <2>1, <2>2, <2>3, <2>4 DEF Linked, queueVars
  <1>9. Waiting(n - 1, r)'
    BY <1>1, <1>3, <1>5, <1>6 DEF Waiting, queueVars
  <1>10. HalfWay(n - 1, r)'
    BY <1>3 DEF HalfWay
  <1>11. Takers' = Takers \cup {t} /\ t \notin Takers /\ Takers \subseteq Thread
    BY <1>1, <1>3 DEF Takers
  <1>12. \A i \in 1 .. n - 1 : r[i] # q[1]
    BY <1>5, <1>7
  <1>13. \A u \in Takers : victim[u] # q[1] /\ victim[u] # t
    <2>1. \A u \in Takers : \A i \in 1 .. n : q[i] # victim[u]
      BY DEF QueueIs, Taken
    <2>2. \A u \in Takers : pc[victim[u]] \in {"park", "asleep"}
      BY DEF QueueIs, Taken
    <2> QED
      BY <1>1, <1>5, <2>1, <2>2
  <1>14. Taken(n - 1, r)'
    <2>1. ASSUME NEW u \in Takers'
          PROVE  /\ victim[u] \in Thread /\ \A i \in 1 .. n - 1 : r[i] # victim[u]
                 /\ shouldPark[victim[u]] /\ pc'[victim[u]] \in {"park", "asleep"}
                 /\ pc'[u] = "unpark" => nextInQueue[victim[u]] = Nil /\ queueTail[victim[u]] = Nil
      <3>1. CASE u = t
        BY <1>3, <1>4, <1>5, <1>6, <1>12, <3>1
      <3>2. CASE u \in Takers
        <4>1. /\ victim[u] \in Thread /\ \A i \in 1 .. n : q[i] # victim[u]
              /\ shouldPark[victim[u]] /\ pc[victim[u]] \in {"park", "asleep"}
              /\ pc[u] = "unpark" => nextInQueue[victim[u]] = Nil /\ queueTail[victim[u]] = Nil
          BY <3>2 DEF QueueIs, Taken
        <4>2. u # t /\ u \in Thread /\ victim[u] # t
          BY <1>11, <1>13, <3>2
        <4> QED
          BY <1>3, <1>5, <4>1, <4>2
      <3> QED
        BY <1>11, <3>1, <3>2
    <2>2. \A u, w \in Takers' : victim[u] = victim[w] => u = w
      <3>1. \A u, w \in Takers : victim[u] = victim[w] => u = w
        BY DEF QueueIs, Taken
      <3> QED
        BY <1>4, <1>11, <1>13, <3>1
    <2> QED
      BY <1>1, <2>1, <2>2 DEF Taken, queueVars
  <1>15. Accounted(n - 1, r)'
    <2> SUFFICES ASSUME NEW u \in Thread
                 PROVE  IF shouldPark[u]
                        THEN (\E i \in 1 .. n - 1 : r[i] = u) \/ \E w \in Takers' : victim[w] = u
                        ELSE nextInQueue[u] = Nil /\ queueTail[u] = Nil
      BY <1>1 DEF Accounted, queueVars
    <2>1. CASE ~shouldPark[u]
      BY <2>1 DEF QueueIs, Accounted
    <2>2. CASE shouldPark[u] /\ \E w \in Takers : victim[w] = u
      BY <1>11, <2>2
    <2>3. CASE shouldPark[u] /\ \E i \in 1 .. n : q[i] = u
      <3>1. PICK i \in 1 .. n : q[i] = u
        BY <2>3
      <3>2. CASE i = 1
        BY <1>4, <1>11, <2>3, <3>1, <3>2
      <3>3. CASE i # 1
        <4>1. i - 1 \in 1 .. n - 1 /\ (i - 1) + 1 = i
          BY <1>5, <3>3
        <4> QED
          BY <1>5, <2>3, <3>1, <4>1
      <3> QED
        BY <3>2, <3>3
    <2> QED
      BY <2>1, <2>2, <2>3 DEF QueueIs, Accounted
  <1> QED
    BY <1>5, <1>8, <1>9, <1>10, <1>14, <1>15 DEF QueueIs, r

\* The old head's links are no part of the queue.
LEMMA ClearVictimQueues ==
  ASSUME IInv, NEW n \in Nat, NEW q \in [1 .. n -> Thread], QueueIs(n, q),
         NEW t \in Thread, ClearVictim(t)
  PROVE  QueueIs(n, q)'
  <1> DEFINE v == victim[t]
  <1>1. /\ pc[t] = "clearVictim" /\ UNCHANGED <<m_word, shouldPark, cur, victim>>
        /\ pc' = [pc EXCEPT ![t] = "unpark"]
        /\ nextInQueue' = [nextInQueue EXCEPT ![v] = Nil] /\ queueTail' = [queueTail EXCEPT ![v] = Nil]
    BY DEF ClearVictim, Goto, localVars
  <1>2. t \in Takers /\ Takers \subseteq Thread
    BY <1>1 DEF Takers
  <1>3. /\ v \in Thread /\ \A i \in 1 .. n : q[i] # v
        /\ shouldPark[v] /\ pc[v] \in {"park", "asleep"}
        /\ \A u \in Takers : victim[u] = v => u = t
    BY <1>2 DEF QueueIs, Taken
  <1>4. /\ pc'[t] = "unpark" /\ \A u \in Thread : u # t => pc'[u] = pc[u]
        /\ \A u \in Thread : /\ nextInQueue'[u] = IF u = v THEN Nil ELSE nextInQueue[u]
                             /\ queueTail'[u] = IF u = v THEN Nil ELSE queueTail[u]
    BY <1>1 DEF IInv, TypeOK
  <1>5. \A i \in 1 .. n : q[i] \in Thread /\ q[i] # t /\ q[i] # v
    BY <1>1, <1>3, NotQueued DEF IInv
  <1>6. Linked(n, q)'
    BY <1>1, <1>4, <1>5 DEF QueueIs, Linked
  <1>7. Waiting(n, q)'
    BY <1>1, <1>4, <1>5 DEF QueueIs, Waiting
  <1>8. HalfWay(n, q)'
    BY <1>1, <1>4, <1>5 DEF QueueIs, HalfWay
  <1>9. Takers' = Takers
    BY <1>1, <1>4 DEF Takers
  <1>10. Taken(n, q)'
    BY <1>1, <1>2, <1>3, <1>4, <1>9 DEF QueueIs, Taken
  <1>11. Accounted(n, q)'
    BY <1>1, <1>3, <1>4, <1>9 DEF QueueIs, Accounted
  <1> QED
    BY <1>6, <1>7, <1>8, <1>10, <1>11 DEF QueueIs

\* Nor is its shouldPark.
LEMMA UnparkQueues ==
  ASSUME IInv, NEW n \in Nat, NEW q \in [1 .. n -> Thread], QueueIs(n, q),
         NEW t \in Thread, Unpark(t)
  PROVE  QueueIs(n, q)'
  <1> DEFINE v == victim[t]
  <1>1. /\ pc[t] = "unpark" /\ UNCHANGED <<m_word, nextInQueue, queueTail, cur, victim>>
        /\ pc' = [pc EXCEPT ![t] = "notify"] /\ shouldPark' = [shouldPark EXCEPT ![v] = FALSE]
    BY DEF Unpark, Goto, localVars
  <1>2. t \in Takers /\ Takers \subseteq Thread
    BY <1>1 DEF Takers
  <1>3. /\ v \in Thread /\ \A i \in 1 .. n : q[i] # v
        /\ pc[v] \in {"park", "asleep"} /\ nextInQueue[v] = Nil /\ queueTail[v] = Nil
        /\ \A u \in Takers : victim[u] = v => u = t
    BY <1>1, <1>2 DEF QueueIs, Taken
  <1>4. /\ pc'[t] = "notify" /\ \A u \in Thread : u # t => pc'[u] = pc[u]
        /\ ~shouldPark'[v] /\ \A u \in Thread : u # v => shouldPark'[u] = shouldPark[u]
    BY <1>1, <1>3 DEF IInv, TypeOK
  <1>5. \A i \in 1 .. n : q[i] \in Thread /\ q[i] # t /\ q[i] # v
    BY <1>1, <1>3, NotQueued DEF IInv
  <1>6. Linked(n, q)'
    BY <1>1, <1>4, <1>5 DEF QueueIs, Linked
  <1>7. Waiting(n, q)'
    BY <1>4, <1>5 DEF QueueIs, Waiting
  <1>8. HalfWay(n, q)'
    BY <1>1, <1>4 DEF QueueIs, HalfWay
  <1>9. Takers' = Takers \ {t}
    BY <1>1, <1>4 DEF Takers
  <1>10. Taken(n, q)'
    <2>1. \A u \in Takers' : u \in Takers /\ u # t /\ victim[u] # v /\ victim[u] # t
      BY <1>1, <1>3, <1>9, NotQueued DEF IInv
    <2> QED
      BY <1>1, <1>2, <1>4, <2>1 DEF QueueIs, Taken
  <1>11. Accounted(n, q)'
    <2> SUFFICES ASSUME NEW u \in Thread
                 PROVE  IF shouldPark'[u]
                        THEN (\E i \in 1 .. n : q[i] = u) \/ \E w \in Takers' : victim[w] = u
                        ELSE nextInQueue[u] = Nil /\ queueTail[u] = Nil
      BY <1>1 DEF Accounted
    <2>1. CASE u = v
      BY <1>3, <1>4, <2>1
    <2>2. CASE u # v
      <3>1. shouldPark'[u] = shouldPark[u] /\ victim[t] # u
        BY <1>4, <2>2
      <3> QED
        BY <1>9, <3>1 DEF QueueIs, Accounted
    <2> QED
      BY <2>1, <2>2
  <1> QED
    BY <1>6, <1>7, <1>8, <1>10, <1>11 DEF QueueIs

\* Every step leaves a queue: a longer one, a shorter one, or the same.
LEMMA NextQueue == IInv /\ LocalsTrue /\ SomeQueue /\ [Next]_vars => SomeQueue'
  <1> SUFFICES ASSUME IInv, LocalsTrue, SomeQueue, [Next]_vars PROVE SomeQueue'
    OBVIOUS
  <1>a. PICK n \in 0 .. Cardinality(Thread) : \E q \in [1 .. n -> Thread] : QueueIs(n, q)
    BY DEF SomeQueue
  <1>b. PICK q \in [1 .. n -> Thread] : QueueIs(n, q)
    BY <1>a
  <1>c. n \in Nat
    BY FiniteAssumption, FS_CardinalityType
  <1> USE <1>b, <1>c
  <1>1. ASSUME NEW t \in Thread, Lock(t) PROVE SomeQueue'
    <2>1. UNCHANGED queueVars /\ m_word'.queueHead = m_word.queueHead
      BY <1>1, FastWords DEF Lock, CASSucceeds, CASFails, IInv, TypeOK, Word
    <2>2. \A u \in Thread :
             /\ shouldPark[u] /\ pc[u] \in {"park", "asleep"} => pc'[u] \in {"park", "asleep"}
             /\ pc'[u] = "publish" <=> pc[u] = "publish"
             /\ pc'[u] = "storeHead" <=> pc[u] = "storeHead"
             /\ pc'[u] = "clearVictim" <=> pc[u] = "clearVictim"
             /\ pc'[u] = "unpark" <=> pc[u] = "unpark"
      BY <1>1 DEF Lock, Goto, Return, IInv, TypeOK
    <2>3. \A u \in Thread : pc[u] \in {"storeHead", "clearVictim", "unpark"} =>
             victim'[u] = victim[u] /\ cur'[u] = cur[u]
      BY <1>1 DEF Lock, Load, Return, localVars, IInv, TypeOK
    <2>4. QueueIs(n, q)'
      BY <2>1, <2>2, <2>3, QueueUntouched DEF IInv
    <2> QED
      BY <2>4 DEF SomeQueue
  <1>2. ASSUME NEW t \in Thread, LockSlow(t) PROVE SomeQueue'
    <2>1. UNCHANGED queueVars /\ m_word'.queueHead = m_word.queueHead
      BY <1>2, FastWords DEF LockSlow, SpinOrQueue, CASSucceeds, CASFails, IInv, TypeOK, Word
    <2>2. \A u \in Thread :
             /\ shouldPark[u] /\ pc[u] \in {"park", "asleep"} => pc'[u] \in {"park", "asleep"}
             /\ pc'[u] = "publish" <=> pc[u] = "publish"
             /\ pc'[u] = "storeHead" <=> pc[u] = "storeHead"
             /\ pc'[u] = "clearVictim" <=> pc[u] = "clearVictim"
             /\ pc'[u] = "unpark" <=> pc[u] = "unpark"
      BY <1>2 DEF LockSlow, SpinOrQueue, Goto, Return, IInv, TypeOK
    <2>3. \A u \in Thread : pc[u] \in {"storeHead", "clearVictim", "unpark"} =>
             victim'[u] = victim[u] /\ cur'[u] = cur[u]
      BY <1>2 DEF LockSlow, SpinOrQueue, Load, Return, localVars, IInv, TypeOK
    <2>4. QueueIs(n, q)'
      BY <2>1, <2>2, <2>3, QueueUntouched DEF IInv
    <2> QED
      BY <2>4 DEF SomeQueue
  <1>3. ASSUME NEW t \in Thread, TryAcquire(t) PROVE SomeQueue'
    <2>1. UNCHANGED queueVars /\ m_word'.queueHead = m_word.queueHead
      BY <1>3, FastWords DEF TryAcquire, SpinOrQueue, CASSucceeds, CASFails, IInv, TypeOK, Word
    <2>2. \A u \in Thread :
             /\ shouldPark[u] /\ pc[u] \in {"park", "asleep"} => pc'[u] \in {"park", "asleep"}
             /\ pc'[u] = "publish" <=> pc[u] = "publish"
             /\ pc'[u] = "storeHead" <=> pc[u] = "storeHead"
             /\ pc'[u] = "clearVictim" <=> pc[u] = "clearVictim"
             /\ pc'[u] = "unpark" <=> pc[u] = "unpark"
      BY <1>3 DEF TryAcquire, SpinOrQueue, Goto, Return, IInv, TypeOK
    <2>3. \A u \in Thread : pc[u] \in {"storeHead", "clearVictim", "unpark"} =>
             victim'[u] = victim[u] /\ cur'[u] = cur[u]
      BY <1>3 DEF TryAcquire, SpinOrQueue, Load, Return, localVars, IInv, TypeOK
    <2>4. QueueIs(n, q)'
      BY <2>1, <2>2, <2>3, QueueUntouched DEF IInv
    <2> QED
      BY <2>4 DEF SomeQueue
  <1>4. ASSUME NEW t \in Thread, Reload(t) PROVE SomeQueue'
    <2>1. UNCHANGED queueVars /\ m_word'.queueHead = m_word.queueHead
      BY <1>4, FastWords DEF Reload, CASSucceeds, CASFails, IInv, TypeOK, Word
    <2>2. \A u \in Thread :
             /\ shouldPark[u] /\ pc[u] \in {"park", "asleep"} => pc'[u] \in {"park", "asleep"}
             /\ pc'[u] = "publish" <=> pc[u] = "publish"
             /\ pc'[u] = "storeHead" <=> pc[u] = "storeHead"
             /\ pc'[u] = "clearVictim" <=> pc[u] = "clearVictim"
             /\ pc'[u] = "unpark" <=> pc[u] = "unpark"
      BY <1>4 DEF Reload, Goto, Return, IInv, TypeOK
    <2>3. \A u \in Thread : pc[u] \in {"storeHead", "clearVictim", "unpark"} =>
             victim'[u] = victim[u] /\ cur'[u] = cur[u]
      BY <1>4 DEF Reload, Load, Return, localVars, IInv, TypeOK
    <2>4. QueueIs(n, q)'
      BY <2>1, <2>2, <2>3, QueueUntouched DEF IInv
    <2> QED
      BY <2>4 DEF SomeQueue
  <1>5. ASSUME NEW t \in Thread, LockQueue(t) PROVE SomeQueue'
    <2>1. UNCHANGED queueVars /\ m_word'.queueHead = m_word.queueHead
      BY <1>5, FastWords DEF LockQueue, CASSucceeds, CASFails, IInv, TypeOK, Word
    <2>2. \A u \in Thread :
             /\ shouldPark[u] /\ pc[u] \in {"park", "asleep"} => pc'[u] \in {"park", "asleep"}
             /\ pc'[u] = "publish" <=> pc[u] = "publish"
             /\ pc'[u] = "storeHead" <=> pc[u] = "storeHead"
             /\ pc'[u] = "clearVictim" <=> pc[u] = "clearVictim"
             /\ pc'[u] = "unpark" <=> pc[u] = "unpark"
      BY <1>5 DEF LockQueue, Goto, Return, IInv, TypeOK
    <2>3. \A u \in Thread : pc[u] \in {"storeHead", "clearVictim", "unpark"} =>
             victim'[u] = victim[u] /\ cur'[u] = cur[u]
      BY <1>5 DEF LockQueue, Load, Return, localVars, IInv, TypeOK
    <2>4. QueueIs(n, q)'
      BY <2>1, <2>2, <2>3, QueueUntouched DEF IInv
    <2> QED
      BY <2>4 DEF SomeQueue
  <1>6. ASSUME NEW t \in Thread, Link(t) PROVE SomeQueue'
    <2>1. /\ Longer(n, q, t) \in [1 .. n + 1 -> Thread]
          /\ QueueIs(n + 1, Longer(n, q, t))'
      BY <1>6, LinkQueues
    <2>2. n + 1 \in 0 .. Cardinality(Thread)
      <3> DEFINE r == Longer(n, q, t)
      <3>1. \A i, j \in 1 .. n + 1 : r[i] = r[j] => i = j
        BY <2>1 DEF QueueIs, Linked
      <3>2. n + 1 \in Nat /\ r \in [1 .. n + 1 -> Thread]
        BY <2>1
      <3>3. n + 1 <= Cardinality(Thread)
        <4> HIDE DEF r
        <4> QED
          BY <3>1, <3>2, QueueFits
      <3> QED
        BY <3>3, FiniteAssumption, FS_CardinalityType
    <2> QED
      BY <2>1, <2>2 DEF SomeQueue
  <1>7. ASSUME NEW t \in Thread, Publish(t) PROVE SomeQueue'
    <2>1. QueueIs(n, q)'
      BY <1>7, PublishQueues
    <2> QED
      BY <2>1 DEF SomeQueue
  <1>8. ASSUME NEW t \in Thread, Park(t) PROVE SomeQueue'
    <2>1. UNCHANGED queueVars /\ m_word'.queueHead = m_word.queueHead
      BY <1>8, FastWords DEF Park, CASSucceeds, CASFails, IInv, TypeOK, Word
    <2>2. \A u \in Thread :
             /\ shouldPark[u] /\ pc[u] \in {"park", "asleep"} => pc'[u] \in {"park", "asleep"}
             /\ pc'[u] = "publish" <=> pc[u] = "publish"
             /\ pc'[u] = "storeHead" <=> pc[u] = "storeHead"
             /\ pc'[u] = "clearVictim" <=> pc[u] = "clearVictim"
             /\ pc'[u] = "unpark" <=> pc[u] = "unpark"
      BY <1>8 DEF Park, Goto, Return, IInv, TypeOK
    <2>3. \A u \in Thread : pc[u] \in {"storeHead", "clearVictim", "unpark"} =>
             victim'[u] = victim[u] /\ cur'[u] = cur[u]
      BY <1>8 DEF Park, Load, Return, localVars, IInv, TypeOK
    <2>4. QueueIs(n, q)'
      BY <2>1, <2>2, <2>3, QueueUntouched DEF IInv
    <2> QED
      BY <2>4 DEF SomeQueue
  <1>9. ASSUME NEW t \in Thread, SpuriousWakeup(t) PROVE SomeQueue'
    <2>1. UNCHANGED queueVars /\ m_word'.queueHead = m_word.queueHead
      BY <1>9, FastWords DEF SpuriousWakeup, CASSucceeds, CASFails, IInv, TypeOK, Word
    <2>2. \A u \in Thread :
             /\ shouldPark[u] /\ pc[u] \in {"park", "asleep"} => pc'[u] \in {"park", "asleep"}
             /\ pc'[u] = "publish" <=> pc[u] = "publish"
             /\ pc'[u] = "storeHead" <=> pc[u] = "storeHead"
             /\ pc'[u] = "clearVictim" <=> pc[u] = "clearVictim"
             /\ pc'[u] = "unpark" <=> pc[u] = "unpark"
      BY <1>9 DEF SpuriousWakeup, Goto, Return, IInv, TypeOK
    <2>3. \A u \in Thread : pc[u] \in {"storeHead", "clearVictim", "unpark"} =>
             victim'[u] = victim[u] /\ cur'[u] = cur[u]
      BY <1>9 DEF SpuriousWakeup, Load, Return, localVars, IInv, TypeOK
    <2>4. QueueIs(n, q)'
      BY <2>1, <2>2, <2>3, QueueUntouched DEF IInv
    <2> QED
      BY <2>4 DEF SomeQueue
  <1>10. ASSUME NEW t \in Thread, Unlock(t) PROVE SomeQueue'
    <2>1. UNCHANGED queueVars /\ m_word'.queueHead = m_word.queueHead
      BY <1>10, FastWords DEF Unlock, CASSucceeds, CASFails, IInv, TypeOK, Word
    <2>2. \A u \in Thread :
             /\ shouldPark[u] /\ pc[u] \in {"park", "asleep"} => pc'[u] \in {"park", "asleep"}
             /\ pc'[u] = "publish" <=> pc[u] = "publish"
             /\ pc'[u] = "storeHead" <=> pc[u] = "storeHead"
             /\ pc'[u] = "clearVictim" <=> pc[u] = "clearVictim"
             /\ pc'[u] = "unpark" <=> pc[u] = "unpark"
      BY <1>10 DEF Unlock, Goto, Return, IInv, TypeOK
    <2>3. \A u \in Thread : pc[u] \in {"storeHead", "clearVictim", "unpark"} =>
             victim'[u] = victim[u] /\ cur'[u] = cur[u]
      BY <1>10 DEF Unlock, Load, Return, localVars, IInv, TypeOK
    <2>4. QueueIs(n, q)'
      BY <2>1, <2>2, <2>3, QueueUntouched DEF IInv
    <2> QED
      BY <2>4 DEF SomeQueue
  <1>11. ASSUME NEW t \in Thread, UnlockSlow(t) PROVE SomeQueue'
    <2>1. UNCHANGED queueVars /\ m_word'.queueHead = m_word.queueHead
      BY <1>11, FastWords DEF UnlockSlow, CASSucceeds, CASFails, IInv, TypeOK, Word
    <2>2. \A u \in Thread :
             /\ shouldPark[u] /\ pc[u] \in {"park", "asleep"} => pc'[u] \in {"park", "asleep"}
             /\ pc'[u] = "publish" <=> pc[u] = "publish"
             /\ pc'[u] = "storeHead" <=> pc[u] = "storeHead"
             /\ pc'[u] = "clearVictim" <=> pc[u] = "clearVictim"
             /\ pc'[u] = "unpark" <=> pc[u] = "unpark"
      BY <1>11 DEF UnlockSlow, Goto, Return, IInv, TypeOK
    <2>3. \A u \in Thread : pc[u] \in {"storeHead", "clearVictim", "unpark"} =>
             victim'[u] = victim[u] /\ cur'[u] = cur[u]
      BY <1>11 DEF UnlockSlow, Load, Return, localVars, IInv, TypeOK
    <2>4. QueueIs(n, q)'
      BY <2>1, <2>2, <2>3, QueueUntouched DEF IInv
    <2> QED
      BY <2>4 DEF SomeQueue
  <1>12. ASSUME NEW t \in Thread, ReleaseWord(t) PROVE SomeQueue'
    <2>1. UNCHANGED queueVars /\ m_word'.queueHead = m_word.queueHead
      BY <1>12, FastWords DEF ReleaseWord, CASSucceeds, CASFails, IInv, TypeOK, Word
    <2>2. \A u \in Thread :
             /\ shouldPark[u] /\ pc[u] \in {"park", "asleep"} => pc'[u] \in {"park", "asleep"}
             /\ pc'[u] = "publish" <=> pc[u] = "publish"
             /\ pc'[u] = "storeHead" <=> pc[u] = "storeHead"
             /\ pc'[u] = "clearVictim" <=> pc[u] = "clearVictim"
             /\ pc'[u] = "unpark" <=> pc[u] = "unpark"
      BY <1>12 DEF ReleaseWord, Goto, Return, IInv, TypeOK
    <2>3. \A u \in Thread : pc[u] \in {"storeHead", "clearVictim", "unpark"} =>
             victim'[u] = victim[u] /\ cur'[u] = cur[u]
      BY <1>12 DEF ReleaseWord, Load, Return, localVars, IInv, TypeOK
    <2>4. QueueIs(n, q)'
      BY <2>1, <2>2, <2>3, QueueUntouched DEF IInv
    <2> QED
      BY <2>4 DEF SomeQueue
  <1>13. ASSUME NEW t \in Thread, TakeQueue(t) PROVE SomeQueue'
    <2>1. UNCHANGED queueVars /\ m_word'.queueHead = m_word.queueHead
      BY <1>13, FastWords DEF TakeQueue, CASSucceeds, CASFails, IInv, TypeOK, Word
    <2>2. \A u \in Thread :
             /\ shouldPark[u] /\ pc[u] \in {"park", "asleep"} => pc'[u] \in {"park", "asleep"}
             /\ pc'[u] = "publish" <=> pc[u] = "publish"
             /\ pc'[u] = "storeHead" <=> pc[u] = "storeHead"
             /\ pc'[u] = "clearVictim" <=> pc[u] = "clearVictim"
             /\ pc'[u] = "unpark" <=> pc[u] = "unpark"
      BY <1>13 DEF TakeQueue, Goto, Return, IInv, TypeOK
    <2>3. \A u \in Thread : pc[u] \in {"storeHead", "clearVictim", "unpark"} =>
             victim'[u] = victim[u] /\ cur'[u] = cur[u]
      BY <1>13 DEF TakeQueue, Load, Return, localVars, IInv, TypeOK
    <2>4. QueueIs(n, q)'
      BY <2>1, <2>2, <2>3, QueueUntouched DEF IInv
    <2> QED
      BY <2>4 DEF SomeQueue
  <1>14. ASSUME NEW t \in Thread, Dequeue(t) PROVE SomeQueue'
    <2>1. QueueIs(n, q)'
      BY <1>14, DequeueQueues
    <2> QED
      BY <2>1 DEF SomeQueue
  <1>15. ASSUME NEW t \in Thread, StoreHead(t) PROVE SomeQueue'
    <2>1. n - 1 \in Nat /\ Shorter(n, q) \in [1 .. n - 1 -> Thread] /\ QueueIs(n - 1, Shorter(n, q))'
      BY <1>15, StoreHeadQueues
    <2>2. n - 1 \in 0 .. Cardinality(Thread)
      BY <2>1, FiniteAssumption, FS_CardinalityType
    <2> QED
      BY <2>1, <2>2 DEF SomeQueue
  <1>16. ASSUME NEW t \in Thread, ClearVictim(t) PROVE SomeQueue'
    <2>1. QueueIs(n, q)'
      BY <1>16, ClearVictimQueues
    <2> QED
      BY <2>1 DEF SomeQueue
  <1>17. ASSUME NEW t \in Thread, Unpark(t) PROVE SomeQueue'
    <2>1. QueueIs(n, q)'
      BY <1>17, UnparkQueues
    <2> QED
      BY <2>1 DEF SomeQueue
  <1>18. ASSUME NEW t \in Thread, Notify(t) PROVE SomeQueue'
    <2>1. UNCHANGED queueVars /\ m_word'.queueHead = m_word.queueHead
      BY <1>18, FastWords DEF Notify, CASSucceeds, CASFails, IInv, TypeOK, Word
    <2>2. \A u \in Thread :
             /\ shouldPark[u] /\ pc[u] \in {"park", "asleep"} => pc'[u] \in {"park", "asleep"}
             /\ pc'[u] = "publish" <=> pc[u] = "publish"
             /\ pc'[u] = "storeHead" <=> pc[u] = "storeHead"
             /\ pc'[u] = "clearVictim" <=> pc[u] = "clearVictim"
             /\ pc'[u] = "unpark" <=> pc[u] = "unpark"
      BY <1>18 DEF Notify, Goto, Return, IInv, TypeOK
    <2>3. \A u \in Thread : pc[u] \in {"storeHead", "clearVictim", "unpark"} =>
             victim'[u] = victim[u] /\ cur'[u] = cur[u]
      BY <1>18 DEF Notify, Load, Return, localVars, IInv, TypeOK
    <2>4. QueueIs(n, q)'
      BY <2>1, <2>2, <2>3, QueueUntouched DEF IInv
    <2> QED
      BY <2>4 DEF SomeQueue
  <1>19. CASE UNCHANGED vars
    <2>1. QueueIs(n, q)'
      BY <1>19, QueueUntouched DEF vars, queueVars, localVars, IInv
    <2> QED
      BY <2>1 DEF SomeQueue
  <1> QED
    BY <1>1, <1>2, <1>3, <1>4, <1>5, <1>6, <1>7, <1>8, <1>9, <1>10, <1>11, <1>12, <1>13, <1>14, <1>15, <1>16, <1>17, <1>18, <1>19
    DEF Next, LockStep, UnlockStep, WakeStep

\* There is no queue before the first call.
LEMMA InitQInv == Init => QInv
  <1> SUFFICES ASSUME Init PROVE QInv
    OBVIOUS
  <1> DEFINE q == [i \in 1 .. 0 |-> Nil]
  <1>1. q \in [1 .. 0 -> Thread] /\ 0 \in 0 .. Cardinality(Thread)
    BY FiniteAssumption, FS_CardinalityType
  <1>2. \A i \in 1 .. 0 : FALSE
    OBVIOUS
  <1>3. LocalsTrue
    BY DEF Init, LocalsTrue
  <1> HIDE DEF q
  <1>4. Linked(0, q) /\ Waiting(0, q)
    BY <1>2, FastWords DEF Init, Linked, Waiting
  <1>5. HalfWay(0, q) /\ Accounted(0, q)
    BY DEF Init, HalfWay, Accounted
  <1>6. Taken(0, q)
    BY DEF Init, Taken, Takers
  <1> QED
    BY <1>1, <1>3, <1>4, <1>5, <1>6 DEF QInv, SomeQueue, QueueIs

\* The word, the nodes and the threads always describe one queue.
THEOREM WordLockQueue == Spec => [](IInv /\ QInv)
  <1>1. IInv /\ QInv /\ [Next]_vars => (IInv /\ QInv)'
    BY NextIInv, NextLocalsTrue, NextQueue DEF QInv
  <1> QED
    BY <1>1, InitIInv, InitQInv, PTL DEF Spec

\* A non-empty set of natural numbers has a least one: how the proof below goes
\* along the queue.
LEMMA Least ==
  ASSUME NEW T \in SUBSET Nat, T # {}
  PROVE  \E n \in T : \A m \in T : n <= m
  <1> DEFINE Less == {ss \in Nat \X Nat : ss[1] < ss[2]}
  <1>1. IsWellFoundedOn(Less, Nat)
    BY NatLessThanWellFounded DEF OpToRel
  <1>2. \E n \in T : \A m \in T : ~(<<m, n>> \in Less)
    <2> HIDE DEF Less
    <2> QED
      BY <1>1, WFMin
  <1>3. PICK n \in T : \A m \in T : ~(<<m, n>> \in Less)
    BY <1>2
  <1>4. \A m \in T : <<m, n>> \in Nat \X Nat /\ <<m, n>>[1] = m /\ <<m, n>>[2] = n
    OBVIOUS
  <1>5. \A m \in T : ~(m < n)
    BY <1>3, <1>4
  <1> QED
    BY <1>5

\* Walking from the word finds the queue, in order, and then nothing.
LEMMA WalkIs ==
  ASSUME TypeOK, NEW n \in Nat, NEW q \in [1 .. n -> Thread], Linked(n, q),
         n <= Cardinality(Thread), m_word.queueHead = IF n = 0 THEN Nil ELSE q[1]
  PROVE  /\ DOMAIN Walk = 1 .. Cardinality(Thread) + 1
         /\ \A k \in 1 .. Cardinality(Thread) + 1 : Walk[k] = IF k <= n THEN q[k] ELSE Nil
  <1> DEFINE N == Cardinality(Thread) + 1
             G(w, k) == IF k = 1 THEN m_word.queueHead
                        ELSE IF w[k - 1] = Nil THEN Nil ELSE nextInQueue[w[k - 1]]
             F(w) == [k \in 1 .. N |-> G(w, k)]
             V == [k \in 1 .. N |-> IF k <= n THEN q[k] ELSE Nil]
  <1>0. N \in Nat /\ n < N
    BY FiniteAssumption, FS_CardinalityType
  <1> HIDE DEF N
  <1>1. \A k \in 1 .. N : V[k] = IF k <= n THEN q[k] ELSE Nil
    OBVIOUS
  <1>2. \A k \in 1 .. N : V[k] = G(V, k)
    <2> SUFFICES ASSUME NEW k \in 1 .. N PROVE V[k] = G(V, k)
      OBVIOUS
    <2> HIDE DEF V
    <2>1. CASE k = 1
      BY <1>0, <1>1, <2>1
    <2>2. CASE k # 1 /\ k - 1 <= n
      <3>1. k - 1 \in 1 .. n /\ k - 1 \in 1 .. N
        BY <1>0, <2>2
      <3>2. V[k - 1] = q[k - 1] /\ q[k - 1] \in Thread
        BY <1>1, <3>1
      <3>3. nextInQueue[q[k - 1]] = IF k - 1 < n THEN q[k] ELSE Nil
        BY <3>1 DEF Linked
      <3>4. k - 1 < n <=> k <= n
        BY <1>0
      <3> QED
        BY <1>1, <2>2, <3>2, <3>3, <3>4
    <2>3. CASE k # 1 /\ ~(k - 1 <= n)
      <3>1. k - 1 \in 1 .. N /\ ~(k <= n)
        BY <1>0, <2>3
      <3> QED
        BY <1>1, <2>3, <3>1
    <2> QED
      BY <2>1, <2>2, <2>3
  <1>3. V = F(V)
    <2>1. F(V) = [k \in 1 .. N |-> V[k]]
      <3> HIDE DEF V, G
      <3> QED
        BY <1>2
    <2> QED
      BY <2>1
  <1>4. Walk = CHOOSE w : w = F(w)
    BY Zenon DEF Walk, N
  <1>5. Walk = F(Walk)
    <2> HIDE DEF F, V
    <2> QED
      BY <1>3, <1>4
  <1>6. DOMAIN Walk = 1 .. N /\ \A k \in 1 .. N : Walk[k] = G(Walk, k)
    <2> DEFINE W == Walk
    <2>1. W = F(W)
      BY <1>5
    <2> HIDE DEF W, G
    <2>2. DOMAIN W = 1 .. N /\ \A k \in 1 .. N : W[k] = G(W, k)
      BY <2>1
    <2> QED
      BY <2>2 DEF W
  <1> DEFINE Bad == {k \in 1 .. N : Walk[k] # V[k]}
  <1>7. Bad = {}
    <2> SUFFICES ASSUME Bad # {} PROVE FALSE
      OBVIOUS
    <2>1. Bad \in SUBSET Nat /\ Bad \subseteq 1 .. N
      BY <1>0
    <2>2. PICK k \in Bad : \A m \in Bad : k <= m
      <3> HIDE DEF Bad
      <3> QED
        BY <2>1, Least
    <2>3. k \in 1 .. N /\ Walk[k] # V[k]
      BY <2>2
    <2>4. k = 1 \/ (k - 1 \in 1 .. N /\ k - 1 \notin Bad)
      <3> HIDE DEF Bad
      <3> QED
        BY <1>0, <2>1, <2>2
    <2>5. k = 1 \/ Walk[k - 1] = V[k - 1]
      BY <2>4
    <2> HIDE DEF V, Bad
    <2>6. G(Walk, k) = G(V, k)
      BY <2>5
    <2> HIDE DEF G
    <2> QED
      BY <1>2, <1>6, <2>3, <2>6
  <1>8. \A k \in 1 .. N : Walk[k] = V[k]
    BY <1>7
  <1> HIDE DEF V
  <1> QED
    BY <1>1, <1>6, <1>8 DEF N

\* So its length and its members are those of the queue.
LEMMA QueuedIs ==
  ASSUME TypeOK, NEW n \in Nat, NEW q \in [1 .. n -> Thread], Linked(n, q),
         n <= Cardinality(Thread), m_word.queueHead = IF n = 0 THEN Nil ELSE q[1]
  PROVE  Queued = {q[i] : i \in 1 .. n} /\ Cardinality(Queued) = n
  <1> DEFINE N == Cardinality(Thread) + 1
  <1>0. N \in Nat /\ n < N
    BY FiniteAssumption, FS_CardinalityType
  <1>1. DOMAIN Walk = 1 .. N /\ \A k \in 1 .. N : Walk[k] = IF k <= n THEN q[k] ELSE Nil
    BY WalkIs
  <1> HIDE DEF N
  <1>2. Queued = {q[i] : i \in 1 .. n}
    <2> DEFINE W == Walk
    <2>0. DOMAIN W = 1 .. N /\ \A k \in 1 .. N : W[k] = IF k <= n THEN q[k] ELSE Nil
      BY <1>1
    <2>1. Queued = {W[k] : k \in DOMAIN W} \ {Nil}
      BY DEF Queued
    <2> HIDE DEF W
    <2>2. ASSUME NEW x \in Queued PROVE x \in {q[i] : i \in 1 .. n}
      <3>1. PICK k \in 1 .. N : x = W[k] /\ x # Nil
        BY <2>0, <2>1
      <3>2. k <= n /\ x = q[k] /\ k \in 1 .. n
        BY <1>0, <2>0, <3>1
      <3> QED
        BY <3>2
    <2>3. ASSUME NEW i \in 1 .. n PROVE q[i] \in Queued
      <3>1. i \in 1 .. N /\ W[i] = q[i] /\ q[i] # Nil
        BY <1>0, <2>0
      <3> QED
        BY <2>0, <2>1, <3>1
    <2> QED
      BY <2>2, <2>3
  <1>3. q \in Bijection(1 .. n, Queued)
    <2>1. q \in Injection(1 .. n, Queued)
      BY <1>2 DEF Injection, IsInjective, Linked
    <2>2. q \in Surjection(1 .. n, Queued)
      BY <1>2 DEF Surjection
    <2> QED
      BY <2>1, <2>2 DEF Bijection
  <1>4. IsFiniteSet(1 .. n) /\ Cardinality(1 .. n) = n
    BY FS_Interval
  <1>5. IsFiniteSet(Queued) /\ Cardinality(Queued) = Cardinality(1 .. n)
    BY <1>3, <1>4, FS_Bijection DEF ExistsBijection
  <1> QED
    BY <1>2, <1>4, <1>5

\* The invariant says what the code asserts and what its queue is for.
LEMMA QInvSound == IInv /\ QInv => QueueSound
  <1> SUFFICES ASSUME IInv, QInv PROVE QueueSound
    OBVIOUS
  <1>a. PICK n \in 0 .. Cardinality(Thread) : \E q \in [1 .. n -> Thread] : QueueIs(n, q)
    BY DEF QInv, SomeQueue
  <1>b. PICK q \in [1 .. n -> Thread] : QueueIs(n, q)
    BY <1>a
  <1>c. n \in Nat /\ n <= Cardinality(Thread) /\ Cardinality(Thread) \in Nat
    BY FiniteAssumption, FS_CardinalityType
  <1>d. Linked(n, q) /\ Waiting(n, q) /\ HalfWay(n, q) /\ Taken(n, q) /\ Accounted(n, q)
    BY <1>b DEF QueueIs
  <1>e. TypeOK /\ MutualExclusion /\ LocalsFresh /\ LocalsTrue
    BY DEF IInv, QInv
  <1> USE <1>c
  <1>1. Asserted
    <2>1. \A t \in Thread : pc[t] = "tryAcquire" => ~IsQueueLocked(cur[t])
      BY <1>e DEF LocalsTrue
    <2>2. ASSUME NEW t \in Thread, pc[t] \in LockPC \ {"publish", "park", "asleep"}
          PROVE  ~shouldPark[t] /\ nextInQueue[t] = Nil /\ queueTail[t] = Nil
      <3>1. \A i \in 1 .. n : q[i] # t
        BY <1>d, <2>2 DEF Waiting
      <3>2. \A u \in Takers : victim[u] # t
        BY <1>d, <2>2 DEF Taken
      <3> QED
        BY <1>d, <3>1, <3>2 DEF Accounted
    <2>3. ASSUME NEW t \in Thread, pc[t] = "publish" PROVE IsLocked(cur[t]) /\ IsQueueLocked(cur[t])
      BY <1>e, <2>3 DEF LocalsFresh, LocalsTrue, MutualExclusion, OwnsQueue
    <2>4. \A t \in Thread : pc[t] = "takeQueue" => cur[t].queueHead # Nil
      BY <1>e DEF LocalsFresh
    <2>5. \A t \in Thread : pc[t] = "dequeue" => m_word.queueHead # Nil
      BY <1>e DEF LocalsFresh
    <2>6. ASSUME NEW t \in Thread, pc[t] = "storeHead" PROVE m_word.queueHead = victim[t]
      <3>1. n > 0 /\ victim[t] = q[1] /\ q[1] \in Thread
        BY <1>d, <2>6 DEF HalfWay
      <3>2. pc[q[1]] # "publish"
        BY <1>e, <2>6, <3>1 DEF MutualExclusion, OwnsQueue
      <3> QED
        BY <1>d, <3>1, <3>2 DEF Linked
    <2> QED
      BY <2>1, <2>2, <2>3, <2>4, <2>5, <2>6 DEF Asserted
  <1>2. ASSUME n > 0, pc[q[1]] # "publish"
        PROVE  /\ m_word.queueHead = q[1]
               /\ Queued = {q[i] : i \in 1 .. n} /\ Cardinality(Queued) = n
               /\ Walk[n] = q[n]
    <2>1. m_word.queueHead = q[1]
      BY <1>d, <1>2 DEF Linked
    <2>2. n \in 1 .. Cardinality(Thread) + 1
      BY <1>2
    <2> QED
      BY <1>d, <1>e, <1>2, <2>1, <2>2, QueuedIs, WalkIs
  <1>3. ASSUME NEW t \in Thread, shouldPark[t], pc[t] \in {"park", "asleep"}
        PROVE  \/ t \in Queued
               \/ \E u \in Thread : victim[u] = t /\ pc[u] \in {"clearVictim", "unpark"}
    <2>1. (\E i \in 1 .. n : q[i] = t) \/ \E u \in Takers : victim[u] = t
      BY <1>d, <1>3 DEF Accounted
    <2>2. CASE \E u \in Takers : victim[u] = t
      BY <2>2 DEF Takers
    <2>3. ASSUME NEW i \in 1 .. n, q[i] = t PROVE t \in Queued
      <3>1. n > 0 /\ 1 \in 1 .. n
        OBVIOUS
      <3>2. pc[q[1]] # "publish"
        <4>1. ASSUME pc[q[1]] = "publish" PROVE FALSE
          <5>1. n = 1
            BY <1>d, <3>1, <4>1 DEF Waiting
          <5> QED
            BY <1>3, <2>3, <4>1, <5>1
        <4> QED
          BY <4>1
      <3> QED
        BY <1>2, <2>3, <3>1, <3>2
    <2> QED
      BY <2>1, <2>2, <2>3
  <1>4. ASSUME ~IsQueueLocked(m_word), m_word.queueHead # Nil
        PROVE  \E k \in 1 .. Cardinality(Thread) :
                  /\ Cardinality(Queued) = k
                  /\ Walk[k] = queueTail[m_word.queueHead]
                  /\ nextInQueue[Walk[k]] = Nil
                  /\ \A t \in Queued : shouldPark[t] /\ pc[t] \in {"park", "asleep"}
    <2>1. n > 0 /\ n \in 1 .. Cardinality(Thread) /\ 1 \in 1 .. n /\ n \in 1 .. n
      BY <1>d, <1>4 DEF Linked
    <2>2. \A i \in 1 .. n : q[i] \in Thread /\ pc[q[i]] # "publish"
      BY <1>e, <1>4 DEF MutualExclusion, OwnsQueue
    <2>3. /\ m_word.queueHead = q[1] /\ Walk[n] = q[n]
          /\ Queued = {q[i] : i \in 1 .. n} /\ Cardinality(Queued) = n
      BY <1>2, <2>1, <2>2
    <2>4. Walk[n] = queueTail[m_word.queueHead] /\ nextInQueue[Walk[n]] = Nil
      BY <1>d, <2>1, <2>3 DEF Linked
    <2>5. \A i \in 1 .. n : shouldPark[q[i]] /\ pc[q[i]] \in {"park", "asleep"}
      BY <1>d, <2>2 DEF Waiting
    <2>6. \A t \in Queued : shouldPark[t] /\ pc[t] \in {"park", "asleep"}
      BY <2>3, <2>5
    <2> QED
      BY <2>1, <2>3, <2>4, <2>6
  <1> QED
    BY <1>1, <1>3, <1>4 DEF QueueSound

\* The queue that lockSlow() and unlockSlow() keep in the word and in the nodes
\* is sound: their ASSERTs hold, the links form one list up to the tail that the
\* head records, and whoever must park can be found by the thread that will wake
\* it, for any number of threads.
THEOREM WordLockQueueSound == Spec => []QueueSound
  BY WordLockQueue, QInvSound, PTL

=============================================================================
