-------------------------------- MODULE Lock --------------------------------
(***************************************************************************)
(* WTF::Lock: the one-byte adaptive mutex (WTF/wtf/Lock.h, Lock.cpp,       *)
(* LockAlgorithm.h, LockAlgorithmInlines.h) over the ParkingLot queue of   *)
(* its address (ParkingLot.cpp).                                           *)
(*                                                                         *)
(* m_byte is the set of the bits that are on.  The ParkingLot is seen as   *)
(* this lock sees it: one FIFO queue guarded by the bucket's WordLock,     *)
(* which module WordLock shows to be a mutex, and a ThreadData per thread  *)
(* (address: does it still name this lock; token).  Parking has no timeout *)
(* here: compareAndPark() waits for ever.  How the queue stays findable    *)
(* while the hashtable is rehashed is module ParkingLot.                   *)
(***************************************************************************)
EXTENDS Naturals, FiniteSets, Sequences

CONSTANTS Thread,
          Nil,             \* the null ThreadData*, and "nobody" as an owner
          SpinLimit,       \* spinLimit of lockSlow, 40 in the code
          WeakCASMayFail,  \* may compareExchangeWeak fail spuriously (LL/SC)?
          Collisions       \* may other addresses have threads in this bucket?

ASSUME NilAssumption == Nil \notin Thread
ASSUME SpinLimitAssumption == SpinLimit \in Nat
ASSUME WeakCASAssumption == WeakCASMayFail \in BOOLEAN
ASSUME CollisionsAssumption == Collisions \in BOOLEAN

isHeldBit == "isHeld"
hasParkedBit == "hasParked"
mask == {isHeldBit, hasParkedBit}

VARIABLES m_byte,      \* the lock byte
          bucketLock,  \* the thread that owns Bucket::lock, or Nil
          queue,       \* the threads parked on this lock, head first
          address,     \* the threads whose ThreadData::address is set
          token,       \* ThreadData::token
          pc,          \* where each thread is
          cur,         \* local currentByteValue of lockSlow
          spinCount,   \* local spinCount of lockSlow
          fairness,    \* fairness of unlockSlow, joined with timeToBeFair
          target,      \* local threadData of unparkOneImpl
          more,        \* unlockers told mayHaveMoreThreads
          relock       \* threads in safepointSlow(), to lock after the unlock

parkingVars == <<queue, address, token>>
lockLocals == <<cur, spinCount>>
unlockLocals == <<fairness, target, more, relock>>
vars == <<m_byte, bucketLock, parkingVars, pc, lockLocals, unlockLocals>>

Waiting == {"lockSlow", "tryAcquire", "setParked", "lockBucket", "validate",
            "append", "park", "asleep"}
Releasing == {"unlockSlow", "releaseByte", "unparkOne", "dequeue", "callback"}
Waking == {"clearAddress", "signal"}
PC == {"idle", "critical", "relock"} \cup Waiting \cup Releasing \cup Waking

Init == /\ m_byte = {}
        /\ bucketLock = Nil
        /\ queue = <<>>
        /\ address = {}
        /\ token = [t \in Thread |-> "none"]
        /\ pc = [t \in Thread |-> "idle"]
        /\ cur = [t \in Thread |-> {}]
        /\ spinCount = [t \in Thread |-> 0]
        /\ fairness = [t \in Thread |-> "Unfair"]
        /\ target = [t \in Thread |-> Nil]
        /\ more = {}
        /\ relock = {}

-----------------------------------------------------------------------------
Goto(t, l) == pc' = [pc EXCEPT ![t] = l]

CASSucceeds(old, new) == m_byte = old /\ m_byte' = new

CASFails(old) == (m_byte # old \/ WeakCASMayFail) /\ UNCHANGED m_byte

\* lockSlow() returns with the lock: its locals die.
Acquired(t) == /\ Goto(t, "critical")
               /\ cur' = [cur EXCEPT ![t] = {}]
               /\ spinCount' = [spinCount EXCEPT ![t] = 0]

\* Around lockSlow()'s loop again: currentByteValue is local to its body.
Continue(t) == Goto(t, "lockSlow") /\ cur' = [cur EXCEPT ![t] = {}]

-----------------------------------------------------------------------------
(* lock(), tryLock() and lockSlow() *)

Lock(t) ==
    /\ pc[t] = "idle"
    /\ \/ CASSucceeds({}, {isHeldBit}) /\ Goto(t, "critical")
       \/ CASFails({}) /\ Goto(t, "lockSlow")
    /\ UNCHANGED <<bucketLock, parkingVars, lockLocals, unlockLocals>>

\* The iteration of tryLock() that ends in success, whoever is parked.  A failed
\* tryLock() changes nothing.
TryLock(t) ==
    /\ pc[t] = "idle"
    /\ isHeldBit \notin m_byte
    /\ m_byte' = m_byte \cup {isHeldBit}
    /\ Goto(t, "critical")
    /\ UNCHANGED <<bucketLock, parkingVars, lockLocals, unlockLocals>>

\* The lock was not obtained with byte value b: spin when nobody is parked and
\* we have not spun too much, else make sure that the parked bit is set.
SpinOrPark(t, b) ==
    \/ /\ hasParkedBit \notin b /\ spinCount[t] < SpinLimit
       /\ spinCount' = [spinCount EXCEPT ![t] = @ + 1]
       /\ Continue(t)
    \/ /\ hasParkedBit \in b \/ spinCount[t] >= SpinLimit
       /\ Goto(t, IF hasParkedBit \in b THEN "lockBucket" ELSE "setParked")
       /\ cur' = [cur EXCEPT ![t] = b]
       /\ UNCHANGED spinCount

LockSlow(t) ==
    /\ pc[t] = "lockSlow"
    /\ \/ /\ isHeldBit \notin m_byte
          /\ cur' = [cur EXCEPT ![t] = m_byte]
          /\ Goto(t, "tryAcquire")
          /\ UNCHANGED spinCount
       \/ isHeldBit \in m_byte /\ SpinOrPark(t, m_byte)
    /\ UNCHANGED <<m_byte, bucketLock, parkingVars, unlockLocals>>

\* Barging.
TryAcquire(t) ==
    /\ pc[t] = "tryAcquire"
    /\ \/ CASSucceeds(cur[t], cur[t] \cup {isHeldBit}) /\ Acquired(t)
       \/ CASFails(cur[t]) /\ SpinOrPark(t, cur[t])
    /\ UNCHANGED <<bucketLock, parkingVars, unlockLocals>>

\* Mutant: a plain store where the code has a compare-and-swap.
SetParkedPlainStore(t) ==
    /\ pc[t] = "setParked"
    /\ m_byte' = cur[t] \cup {hasParkedBit}
    /\ Goto(t, "lockBucket")
    /\ UNCHANGED <<cur, bucketLock, parkingVars, spinCount, unlockLocals>>

\* Also reached, after a spurious CAS failure, with the lock not held.
SetParked(t) ==
    /\ pc[t] = "setParked"
    /\ \/ /\ CASSucceeds(cur[t], cur[t] \cup {hasParkedBit})
          /\ Goto(t, "lockBucket")
          /\ UNCHANGED cur
       \/ CASFails(cur[t]) /\ Continue(t)
    /\ UNCHANGED <<bucketLock, parkingVars, spinCount, unlockLocals>>

-----------------------------------------------------------------------------
(* compareAndPark(): parkConditionallyImpl() and enqueue() *)

LockBucket(t) ==
    /\ pc[t] = "lockBucket"
    /\ bucketLock = Nil
    /\ bucketLock' = t
    /\ Goto(t, "validate")
    /\ UNCHANGED <<m_byte, parkingVars, lockLocals, unlockLocals>>

\* The validation functor: is the byte still what it was, both bits on?
Validate(t) ==
    /\ pc[t] = "validate"
    /\ \/ /\ m_byte = cur[t] \cup mask
          /\ Goto(t, "append")
          /\ UNCHANGED <<bucketLock, cur>>
       \/ /\ m_byte # cur[t] \cup mask
          /\ bucketLock' = Nil
          /\ Continue(t)
    /\ UNCHANGED <<m_byte, parkingVars, spinCount, unlockLocals>>

\* Bucket::enqueue() and the end of the bucket's critical section.
Enqueue(t) ==
    /\ pc[t] = "append"
    /\ address' = address \cup {t}
    /\ queue' = Append(queue, t)
    /\ bucketLock' = Nil
    /\ Goto(t, "park")
    /\ UNCHANGED <<m_byte, token, lockLocals, unlockLocals>>

\* Under parkingLock: sleep while address is set.  Then a DirectHandoff is the
\* lock itself, and a BargingOpportunity another round.  The token is read into
\* the ParkResult and is then dead: it is zeroed here, not when t parks next.
Park(t) ==
    /\ pc[t] = "park"
    /\ \/ t \in address /\ Goto(t, "asleep") /\ UNCHANGED <<token, lockLocals>>
       \/ /\ t \notin address
          /\ token' = [token EXCEPT ![t] = "none"]
          /\ \/ token[t] = "DirectHandoff" /\ Acquired(t)
             \/ token[t] # "DirectHandoff" /\ Continue(t) /\ UNCHANGED spinCount
    /\ UNCHANGED <<m_byte, bucketLock, queue, address, unlockLocals>>

\* The system's condition variable may return for no reason.
SpuriousWakeup(t) ==
    /\ pc[t] = "asleep"
    /\ Goto(t, "park")
    /\ UNCHANGED <<m_byte, bucketLock, parkingVars, lockLocals, unlockLocals>>

-----------------------------------------------------------------------------
(* unlock(), unlockFairly(), safepoint() and unlockSlow() *)

\* The unlock, or the unlock half of safepointSlow(), is over.
Unlocked(t) == /\ fairness' = [fairness EXCEPT ![t] = "Unfair"]
               /\ target' = [target EXCEPT ![t] = Nil]
               /\ more' = more \ {t}
               /\ UNCHANGED relock
AfterUnlock(t) == IF t \in relock THEN "relock" ELSE "idle"

\* f is "Unfair" for unlock() and "Fair" for unlockFairly().
Unlock(t, f) ==
    /\ pc[t] = "critical"
    /\ \/ /\ CASSucceeds({isHeldBit}, {})
          /\ Goto(t, "idle")
          /\ UNCHANGED fairness
       \/ /\ CASFails({isHeldBit})
          /\ Goto(t, "unlockSlow")
          /\ fairness' = [fairness EXCEPT ![t] = f]
    /\ UNCHANGED <<bucketLock, parkingVars, lockLocals, target, more, relock>>

\* With somebody parked, a fair unlock and then a lock.  The fast unlock that
\* safepointSlow() tries first needs the parked bit off, which we just saw on
\* and only the holder clears.
Safepoint(t) ==
    /\ pc[t] = "critical"
    /\ hasParkedBit \in m_byte
    /\ fairness' = [fairness EXCEPT ![t] = "Fair"]
    /\ relock' = relock \cup {t}
    /\ Goto(t, "unlockSlow")
    /\ UNCHANGED <<m_byte, bucketLock, parkingVars, lockLocals, target, more>>

\* lockFast() of the lock half of safepointSlow().
Relock(t) ==
    /\ pc[t] = "relock"
    /\ relock' = relock \ {t}
    /\ \/ /\ isHeldBit \notin m_byte
          /\ m_byte' = m_byte \cup {isHeldBit}
          /\ Goto(t, "critical")
       \/ isHeldBit \in m_byte /\ Goto(t, "lockSlow") /\ UNCHANGED m_byte
    /\ UNCHANGED <<bucketLock, parkingVars, lockLocals, fairness, target, more>>

UnlockSlow(t) ==
    /\ pc[t] = "unlockSlow"
    /\ Goto(t, IF m_byte = {isHeldBit} THEN "releaseByte" ELSE "unparkOne")
    /\ UNCHANGED <<m_byte, bucketLock, parkingVars, lockLocals, unlockLocals>>

ReleaseByte(t) ==
    /\ pc[t] = "releaseByte"
    /\ \/ CASSucceeds({isHeldBit}, {}) /\ Goto(t, "idle") /\ Unlocked(t)
       \/ CASFails({isHeldBit}) /\ Goto(t, "unlockSlow") /\ UNCHANGED unlockLocals
    /\ UNCHANGED <<bucketLock, parkingVars, lockLocals>>

UnparkOne(t) ==
    /\ pc[t] = "unparkOne"
    /\ bucketLock = Nil
    /\ bucketLock' = t
    /\ Goto(t, "dequeue")
    /\ UNCHANGED <<m_byte, parkingVars, lockLocals, unlockLocals>>

\* genericDequeue(): take the first thread parked here, if any.  The bucket's
\* nextFairTime decides timeToBeFair, and whether the bucket is empty is all
\* that mayHaveMoreThreads knows.
Dequeue(t) ==
    /\ pc[t] = "dequeue"
    /\ \/ /\ queue # <<>>
          /\ target' = [target EXCEPT ![t] = Head(queue)]
          /\ queue' = Tail(queue)
          /\ \E collision \in {FALSE, Collisions} :
                more' = IF Tail(queue) # <<>> \/ collision THEN more \cup {t} ELSE more
          /\ \E timeToBeFair \in BOOLEAN :
                fairness' = [fairness EXCEPT ![t] = IF timeToBeFair THEN "Fair" ELSE @]
       \/ queue = <<>> /\ UNCHANGED <<queue, target, more, fairness>>
    /\ Goto(t, "callback")
    /\ UNCHANGED <<m_byte, bucketLock, address, token, lockLocals, relock>>

\* Mutant: releases the byte whatever mayHaveMoreThreads says.
CallbackForgetsParked(t) ==
    /\ pc[t] = "callback"
    /\ m_byte' = m_byte \ mask
    /\ token' = [u \in Thread |-> IF u = target[t] THEN "BargingOpportunity" ELSE token[u]]
    /\ bucketLock' = Nil
    /\ \/ target[t] # Nil /\ Goto(t, "clearAddress") /\ UNCHANGED unlockLocals
       \/ target[t] = Nil /\ Goto(t, AfterUnlock(t)) /\ Unlocked(t)
    /\ UNCHANGED <<queue, address, lockLocals>>

\* Mutant: hands the lock over and releases the byte as well.
CallbackHandsOverAndReleases(t) ==
    /\ pc[t] = "callback"
    /\ m_byte' = (m_byte \ mask) \cup (IF t \in more THEN {hasParkedBit} ELSE {})
    /\ token' = [u \in Thread |-> IF u = target[t] THEN "DirectHandoff" ELSE token[u]]
    /\ bucketLock' = Nil
    /\ \/ target[t] # Nil /\ Goto(t, "clearAddress") /\ UNCHANGED unlockLocals
       \/ target[t] = Nil /\ Goto(t, AfterUnlock(t)) /\ Unlocked(t)
    /\ UNCHANGED <<queue, address, lockLocals>>

\* Mutant: dequeues a thread and leaves it asleep.
CallbackSkipsWakeup(t) ==
    /\ pc[t] = "callback"
    /\ m_byte' = (m_byte \ mask) \cup (IF t \in more THEN {hasParkedBit} ELSE {})
    /\ bucketLock' = Nil
    /\ Goto(t, AfterUnlock(t))
    /\ Unlocked(t)
    /\ UNCHANGED <<parkingVars, lockLocals>>

\* The callback given to unparkOne(), still under the bucket lock: hand the
\* lock over, or release it and keep the parked bit if it may be needed.
Callback(t) ==
    /\ pc[t] = "callback"
    /\ \/ /\ target[t] # Nil /\ fairness[t] = "Fair"
          /\ token' = [token EXCEPT ![target[t]] = "DirectHandoff"]
          /\ UNCHANGED m_byte
       \/ /\ ~(target[t] # Nil /\ fairness[t] = "Fair")
          /\ m_byte' = (m_byte \ mask) \cup (IF t \in more THEN {hasParkedBit} ELSE {})
          /\ token' = [u \in Thread |-> IF u = target[t] THEN "BargingOpportunity"
                                                         ELSE token[u]]
    /\ bucketLock' = Nil
    /\ \/ target[t] # Nil /\ Goto(t, "clearAddress") /\ UNCHANGED unlockLocals
       \/ target[t] = Nil /\ Goto(t, AfterUnlock(t)) /\ Unlocked(t)
    /\ UNCHANGED <<queue, address, lockLocals>>

\* Under the target's parkingLock.
ClearAddress(t) ==
    /\ pc[t] = "clearAddress"
    /\ address' = address \ {target[t]}
    /\ Goto(t, "signal")
    /\ UNCHANGED <<m_byte, bucketLock, queue, token, lockLocals, unlockLocals>>

Signal(t) ==
    /\ pc[t] = "signal"
    /\ pc' = [pc EXCEPT ![t] = AfterUnlock(t),
                        ![target[t]] = IF @ = "asleep" THEN "park" ELSE @]
    /\ Unlocked(t)
    /\ UNCHANGED <<m_byte, bucketLock, parkingVars, lockLocals>>

-----------------------------------------------------------------------------
LockStep(t) == \/ LockSlow(t) \/ TryAcquire(t) \/ SetParked(t) \/ LockBucket(t)
               \/ Validate(t) \/ Enqueue(t) \/ Park(t) \/ Relock(t)

SlowUnlockStep(t) == \/ UnlockSlow(t) \/ ReleaseByte(t) \/ UnparkOne(t)
                     \/ Dequeue(t) \/ Callback(t) \/ ClearAddress(t) \/ Signal(t)

UnlockStep(t) == (\E f \in {"Unfair", "Fair"} : Unlock(t, f)) \/ SlowUnlockStep(t)

Next == \E t \in Thread : \/ Lock(t) \/ TryLock(t) \/ LockStep(t)
                          \/ SpuriousWakeup(t) \/ Safepoint(t) \/ UnlockStep(t)

Spec == Init /\ [][Next]_vars

\* Threads are scheduled and critical sections end, in an unlock or in a
\* safepoint.  Nothing obliges a thread to call lock(), and taking the bucket
\* lock is only weakly fair: a WordLock lets others barge.
\* A weak CAS does not fail for ever without a reason.
CASFailsSpuriously(t) ==
    /\ pc[t] \in {"tryAcquire", "setParked"} /\ m_byte = cur[t]
    /\ UNCHANGED m_byte /\ pc'[t] # pc[t]

Fairness == /\ \A t \in Thread : WF_vars(LockStep(t) \/ UnlockStep(t))
            /\ <>[][\A t \in Thread : ~CASFailsSpuriously(t)]_vars

FairSpec == Spec /\ Fairness
-----------------------------------------------------------------------------
(* Properties *)

Parked(t) == pc[t] \in {"park", "asleep"}
Elements(q) == {q[i] : i \in 1 .. Len(q)}
Queued == Elements(queue)
OwnsBucket(t) == pc[t] \in {"validate", "append", "dequeue", "callback"}

\* t has the lock: it is in its critical section or on its way out of it, or
\* it was handed the lock while parked and has not noticed.
Holding(t) == \/ pc[t] \in {"critical"} \cup Releasing
              \/ Parked(t) /\ token[t] = "DirectHandoff"

TypeOK ==
    /\ m_byte \in SUBSET mask
    /\ bucketLock \in Thread \cup {Nil}
    /\ queue \in Seq(Thread)
    /\ address \in SUBSET Thread
    /\ token \in [Thread -> {"none", "BargingOpportunity", "DirectHandoff"}]
    /\ pc \in [Thread -> PC]
    /\ cur \in [Thread -> SUBSET mask]
    /\ spinCount \in [Thread -> 0 .. SpinLimit]
    /\ fairness \in [Thread -> {"Unfair", "Fair"}]
    /\ target \in [Thread -> Thread \cup {Nil}]
    /\ more \in SUBSET Thread
    /\ relock \in SUBSET Thread

\* The held bit is on exactly while one thread has the lock, counting a thread
\* that received it by direct handoff and still sleeps.
MutualExclusion ==
    /\ \A s, t \in Thread : Holding(s) /\ Holding(t) => s = t
    /\ isHeldBit \in m_byte <=> \E t \in Thread : Holding(t)

\* No unlock() can overlook a parked thread: while the queue is not empty the
\* parked bit is on, so that the fast path fails.
ParkedBitTruthful == queue # <<>> => hasParkedBit \in m_byte

\* unlockSlow()'s RELEASE_ASSERT and its callback's ASSERT (the holder finds
\* its own bits as it left them), RELEASE_ASSERT(isLocked) after a handoff, and
\* parkConditionallyImpl's RELEASE_ASSERT that nobody parks twice at once.
AssertionsHold ==
    \A t \in Thread :
        /\ pc[t] = "unlockSlow" => m_byte \in {{isHeldBit}, mask}
        /\ pc[t] \in {"unparkOne", "dequeue", "callback"} => m_byte = mask
        /\ Parked(t) /\ token[t] = "DirectHandoff" => isHeldBit \in m_byte
        /\ pc[t] = "lockBucket" => t \notin address

\* Every thread that must sleep is on the queue, or in the hands of an unparker
\* that has still to clear its address; and it is in one such place only.
NobodyForgotten ==
    \A t \in address :
        /\ Parked(t)
        /\ \/ t \in Queued
           \/ \E u \in Thread : target[u] = t /\ pc[u] \in {"callback", "clearAddress"}
        /\ ~(t \in Queued /\ \E u \in Thread : target[u] = t /\ pc[u] = "clearAddress")

\* The rest of the inductive invariant.  The bucket lock has one owner, who may
\* rely on the byte and on the queue as it found them.
BucketFacts ==
    /\ \A t \in Thread : OwnsBucket(t) <=> bucketLock = t
    /\ \A t \in Thread : pc[t] = "append" => m_byte = mask
    /\ \A t \in Thread : pc[t] = "callback" /\ queue # <<>> => t \in more
    /\ \A t \in Thread : pc[t] = "tryAcquire" => isHeldBit \notin cur[t]

\* Who is queued is queued once, sleeps, and has no token yet.
QueueFacts ==
    /\ \A i, j \in 1 .. Len(queue) : queue[i] = queue[j] => i = j
    /\ \A t \in Queued : t \in address /\ token[t] = "none"
    /\ \A t \in Thread : token[t] # "none" => Parked(t)

\* Who was dequeued belongs to one unlocker until its address is cleared.
Unparking(u) == pc[u] \in {"callback", "clearAddress"} /\ target[u] # Nil
TargetFacts ==
    /\ \A u \in Thread : target[u] # Nil => pc[u] \in {"callback"} \cup Waking
    /\ \A u \in Thread : pc[u] \in Waking => target[u] # Nil
    /\ \A u \in Thread : Unparking(u) => target[u] \in address \ Queued
    /\ \A u, v \in Thread : Unparking(u) /\ Unparking(v) /\ target[u] = target[v] => u = v
    /\ \A u \in Thread : pc[u] = "callback" /\ target[u] # Nil => token[target[u]] = "none"

IInv == /\ TypeOK /\ MutualExclusion /\ ParkedBitTruthful /\ AssertionsHold
        /\ NobodyForgotten /\ BucketFacts /\ QueueFacts /\ TargetFacts

\* Lock is a mutex with direct handoff.  A thread in the lock half of a
\* safepoint has not asked for the lock before its fast path fails.
MutexStatus == [t \in Thread |-> IF Holding(t) THEN "holding"
                                 ELSE IF pc[t] \in Waiting THEN "waiting"
                                 ELSE "outside"]
AsMutex == INSTANCE Mutex WITH status <- MutexStatus
ImplementsMutex == AsMutex!Spec

\* Once unlockFairly() or a safepoint has dequeued a thread, nobody barges: the
\* lock goes to that thread and to no other.
FairUnlockHandsOver ==
    [][\A t \in Thread :
          pc[t] = "callback" /\ target[t] # Nil /\ fairness[t] = "Fair" /\ pc'[t] # "callback"
              => Holding(target[t])' /\ isHeldBit \in m_byte']_vars

\* No thread sleeps for ever.
SleeperIsWoken == \A t \in Thread : (pc[t] = "asleep") ~> (pc[t] # "asleep")
=============================================================================
