----------------------------- MODULE LockProofs -----------------------------
(***************************************************************************)
(* For any number of threads, any spin limit, with weak compare-and-swaps  *)
(* that may fail and buckets that may be shared: the bits of a Lock are    *)
(* truthful, no parked thread is forgotten, its assertions hold, and Lock  *)
(* implements Mutex, direct handoffs included.                             *)
(***************************************************************************)
EXTENDS Lock, TLAPS

USE NilAssumption, SpinLimitAssumption, WeakCASAssumption, CollisionsAssumption

\* What Bucket::enqueue() does to the queue.
LEMMA AppendFacts ==
  ASSUME NEW q \in Seq(Thread), NEW t \in Thread
  PROVE  /\ Append(q, t) \in Seq(Thread)
         /\ Append(q, t) # <<>>
         /\ Elements(Append(q, t)) = Elements(q) \cup {t}
  BY DEF Elements

\* Appending a thread that is not there repeats nobody.
LEMMA AppendDistinct ==
  ASSUME NEW q \in Seq(Thread), NEW t \in Thread, t \notin Elements(q),
         \A i, j \in 1 .. Len(q) : q[i] = q[j] => i = j
  PROVE  \A i, j \in 1 .. Len(Append(q, t)) : Append(q, t)[i] = Append(q, t)[j] => i = j
  BY DEF Elements

\* What genericDequeue() does to the queue.
LEMMA TailFacts ==
  ASSUME NEW q \in Seq(Thread), q # <<>>,
         \A i, j \in 1 .. Len(q) : q[i] = q[j] => i = j
  PROVE  /\ Head(q) \in Elements(q)
         /\ Elements(Tail(q)) = Elements(q) \ {Head(q)}
         /\ \A i, j \in 1 .. Len(Tail(q)) : Tail(q)[i] = Tail(q)[j] => i = j
  <1>1. Len(q) \in Nat /\ Len(q) > 0 /\ Head(q) = q[1]
    OBVIOUS
  <1>2. Len(Tail(q)) = Len(q) - 1 /\ \A i \in 1 .. Len(q) - 1 : Tail(q)[i] = q[i + 1]
    OBVIOUS
  <1>3. Elements(Tail(q)) \subseteq Elements(q) \ {Head(q)}
    BY <1>1, <1>2 DEF Elements
  <1>4. ASSUME NEW x \in Elements(q) \ {Head(q)} PROVE x \in Elements(Tail(q))
    <2>1. PICK i \in 1 .. Len(q) : x = q[i] /\ i # 1
      BY <1>1, <1>4 DEF Elements
    <2>2. i - 1 \in 1 .. Len(Tail(q)) /\ Tail(q)[i - 1] = x
      BY <1>1, <1>2, <2>1
    <2> QED
      BY <2>2 DEF Elements
  <1>5. \A i, j \in 1 .. Len(Tail(q)) : Tail(q)[i] = Tail(q)[j] => i = j
    BY <1>1, <1>2
  <1>6. Head(q) \in Elements(q)
    BY <1>1 DEF Elements
  <1> QED
    BY <1>3, <1>4, <1>5, <1>6

\* Members of the queue are threads, and there are none when it is empty.
LEMMA QueueMembers ==
  ASSUME NEW q \in Seq(Thread)
  PROVE  /\ Elements(q) \subseteq Thread
         /\ q = <<>> <=> Elements(q) = {}
         /\ q # <<>> => Head(q) \in Thread /\ Tail(q) \in Seq(Thread)
  <1>1. q # <<>> => 1 \in 1 .. Len(q)
    OBVIOUS
  <1> QED
    BY <1>1 DEF Elements

\* A byte is its two bits.
LEMMA Bytes ==
  /\ isHeldBit # hasParkedBit
  /\ {} \in SUBSET mask /\ {isHeldBit} \in SUBSET mask /\ mask \in SUBSET mask
  /\ \A b \in SUBSET mask :
        /\ b \cup {isHeldBit} \in SUBSET mask /\ b \cup {hasParkedBit} \in SUBSET mask
        /\ b = {} <=> isHeldBit \notin b /\ hasParkedBit \notin b
        /\ b = {isHeldBit} <=> isHeldBit \in b /\ hasParkedBit \notin b
        /\ b = mask <=> isHeldBit \in b /\ hasParkedBit \in b
        /\ isHeldBit \notin b \ mask /\ hasParkedBit \notin b \ mask
  BY DEF mask, isHeldBit, hasParkedBit

\* Idle threads, a free byte and an empty queue.
LEMMA InitIInv == Init => IInv
  BY DEF Init, IInv, TypeOK, MutualExclusion, ParkedBitTruthful, AssertionsHold,
         NobodyForgotten, BucketFacts, QueueFacts, TargetFacts, Holding, Parked,
         OwnsBucket, Unparking, Queued, Elements, PC, Waiting, Releasing, Waking, mask,
         isHeldBit, hasParkedBit

-----------------------------------------------------------------------------
(* Types *)

\* Around lockSlow()'s loop or on to the queue, with any byte value.
LEMMA SpinTypes ==
  ASSUME TypeOK, NEW t \in Thread, NEW b \in SUBSET mask, SpinOrPark(t, b)
  PROVE  /\ pc' \in [Thread -> PC]
         /\ cur' \in [Thread -> SUBSET mask]
         /\ spinCount' \in [Thread -> 0 .. SpinLimit]
  <1> USE DEF TypeOK, SpinOrPark, Continue, Goto
  <1>1. pc' \in [Thread -> PC]
    BY DEF PC, Waiting
  <1>2. cur' \in [Thread -> SUBSET mask]
    <2>1. {} \in SUBSET mask
      OBVIOUS
    <2> QED
      BY <2>1
  <1>3. spinCount' \in [Thread -> 0 .. SpinLimit]
    OBVIOUS
  <1> QED
    BY <1>1, <1>2, <1>3

\* Out of lockSlow() with the lock.
LEMMA AcquiredTypes ==
  ASSUME TypeOK, NEW t \in Thread, Acquired(t)
  PROVE  /\ pc' \in [Thread -> PC]
         /\ cur' \in [Thread -> SUBSET mask]
         /\ spinCount' \in [Thread -> 0 .. SpinLimit]
  <1>1. pc' \in [Thread -> PC]
    BY DEF TypeOK, Acquired, Goto, PC
  <1>2. cur' \in [Thread -> SUBSET mask]
    <2>1. {} \in SUBSET mask
      OBVIOUS
    <2> QED
      BY <2>1 DEF TypeOK, Acquired
  <1>3. spinCount' \in [Thread -> 0 .. SpinLimit]
    BY DEF TypeOK, Acquired
  <1> QED
    BY <1>1, <1>2, <1>3

\* Every step of every thread keeps the types.
LEMMA NextTypeOK == TypeOK /\ TargetFacts /\ [Next]_vars => TypeOK'
  <1> SUFFICES ASSUME TypeOK, TargetFacts, [Next]_vars PROVE TypeOK'
    OBVIOUS
  <1> USE DEF TypeOK, PC, Waiting, Releasing, Waking, Goto, CASSucceeds, CASFails, mask,
              isHeldBit, hasParkedBit, parkingVars, lockLocals, unlockLocals
  <1>1. ASSUME NEW t \in Thread, Lock(t) PROVE TypeOK'
    BY <1>1 DEF Lock
  <1>2. ASSUME NEW t \in Thread, TryLock(t) PROVE TypeOK'
    BY <1>2 DEF TryLock
  <1>3. ASSUME NEW t \in Thread, LockSlow(t) PROVE TypeOK'
    <2>1. CASE isHeldBit \in m_byte
      BY <1>3, <2>1, SpinTypes DEF LockSlow
    <2>2. CASE isHeldBit \notin m_byte
      BY <1>3, <2>2 DEF LockSlow
    <2> QED
      BY <2>1, <2>2
  <1>4. ASSUME NEW t \in Thread, TryAcquire(t) PROVE TypeOK'
    <2>1. CASE SpinOrPark(t, cur[t])
      BY <1>4, <2>1, SpinTypes DEF TryAcquire
    <2>2. CASE Acquired(t)
      BY <1>4, <2>2, AcquiredTypes DEF TryAcquire, SpinOrPark
    <2> QED
      BY <1>4, <2>1, <2>2 DEF TryAcquire
  <1>5. ASSUME NEW t \in Thread, SetParked(t) PROVE TypeOK'
    BY <1>5 DEF SetParked, Continue
  <1>6. ASSUME NEW t \in Thread, LockBucket(t) PROVE TypeOK'
    BY <1>6 DEF LockBucket
  <1>7. ASSUME NEW t \in Thread, Validate(t) PROVE TypeOK'
    BY <1>7 DEF Validate, Continue
  <1>8. ASSUME NEW t \in Thread, Enqueue(t) PROVE TypeOK'
    <2>1. queue' \in Seq(Thread)
      BY <1>8, AppendFacts DEF Enqueue
    <2> QED
      BY <1>8, <2>1 DEF Enqueue
  <1>9. ASSUME NEW t \in Thread, Park(t) PROVE TypeOK'
    <2>1. CASE Acquired(t)
      BY <1>9, <2>1, AcquiredTypes DEF Park
    <2>2. CASE Continue(t) /\ UNCHANGED spinCount
      BY <1>9, <2>2 DEF Park, Continue
    <2>3. CASE Goto(t, "asleep") /\ UNCHANGED <<token, lockLocals>>
      BY <1>9, <2>3 DEF Park
    <2> QED
      BY <1>9, <2>1, <2>2, <2>3 DEF Park
  <1>10. ASSUME NEW t \in Thread, Relock(t) PROVE TypeOK'
    BY <1>10 DEF Relock
  <1>11. ASSUME NEW t \in Thread, SpuriousWakeup(t) PROVE TypeOK'
    BY <1>11 DEF SpuriousWakeup
  <1>12. ASSUME NEW t \in Thread, Safepoint(t) PROVE TypeOK'
    BY <1>12 DEF Safepoint
  <1>13. ASSUME NEW t \in Thread, UnlockSlow(t) PROVE TypeOK'
    BY <1>13 DEF UnlockSlow
  <1>14. ASSUME NEW t \in Thread, ReleaseByte(t) PROVE TypeOK'
    <2>1. CASE Unlocked(t)
      BY <1>14, <2>1 DEF ReleaseByte, Unlocked
    <2>2. CASE ~Unlocked(t)
      BY <1>14, <2>2 DEF ReleaseByte
    <2> QED
      BY <2>1, <2>2
  <1>15. ASSUME NEW t \in Thread, UnparkOne(t) PROVE TypeOK'
    BY <1>15 DEF UnparkOne
  <1>16. ASSUME NEW t \in Thread, Dequeue(t) PROVE TypeOK'
    <2>1. queue' \in Seq(Thread) /\ target' \in [Thread -> Thread \cup {Nil}]
      <3>1. CASE queue # <<>>
        <4>1. Head(queue) \in Thread /\ Tail(queue) \in Seq(Thread)
          BY <3>1, QueueMembers
        <4>2. queue' = Tail(queue) /\ target' = [target EXCEPT ![t] = Head(queue)]
          BY <1>16, <3>1 DEF Dequeue
        <4> QED
          BY <4>1, <4>2
      <3>2. CASE queue = <<>>
        BY <1>16, <3>2 DEF Dequeue
      <3> QED
        BY <3>1, <3>2
    <2>2. more' \in SUBSET Thread
      BY <1>16 DEF Dequeue
    <2>3. fairness' \in [Thread -> {"Unfair", "Fair"}]
      BY <1>16 DEF Dequeue
    <2> QED
      BY <1>16, <2>1, <2>2, <2>3 DEF Dequeue
  <1>17. ASSUME NEW t \in Thread, Callback(t) PROVE TypeOK'
    <2>1. m_byte' \in SUBSET mask
      BY <1>17 DEF Callback
    <2>2. token' \in [Thread -> {"none", "BargingOpportunity", "DirectHandoff"}]
      BY <1>17 DEF Callback
    <2>3. CASE Unlocked(t)
      <3>1. pc' \in [Thread -> PC]
        <4>1. AfterUnlock(t) \in PC /\ "clearAddress" \in PC
          BY DEF AfterUnlock
        <4>2. pc' = [pc EXCEPT ![t] = "clearAddress"] \/ pc' = [pc EXCEPT ![t] = AfterUnlock(t)]
          BY <1>17 DEF Callback
        <4> QED
          BY <4>1, <4>2
      <3> QED
        BY <1>17, <2>1, <2>2, <2>3, <3>1 DEF Callback, Unlocked
    <2>4. CASE ~Unlocked(t)
      BY <1>17, <2>1, <2>2, <2>4 DEF Callback
    <2> QED
      BY <2>3, <2>4
  <1>18. ASSUME NEW t \in Thread, ClearAddress(t) PROVE TypeOK'
    BY <1>18 DEF ClearAddress
  <1>19. ASSUME NEW t \in Thread, Signal(t) PROVE TypeOK'
    <2>1. target[t] \in Thread
      BY <1>19 DEF Signal, TargetFacts
    <2>2. pc' \in [Thread -> PC]
      BY <1>19, <2>1 DEF Signal, AfterUnlock
    <2> QED
      BY <1>19, <2>2 DEF Signal, Unlocked
  <1>20. ASSUME NEW t \in Thread, NEW f \in {"Unfair", "Fair"}, Unlock(t, f) PROVE TypeOK'
    <2>1. m_byte' \in SUBSET mask
      BY <1>20 DEF Unlock
    <2>2. pc' \in [Thread -> PC]
      <3>1. \E l \in PC : pc' = [pc EXCEPT ![t] = l]
        BY <1>20 DEF Unlock
      <3> QED
        BY <3>1
    <2>3. fairness' \in [Thread -> {"Unfair", "Fair"}]
      <3>1. fairness' = fairness \/ fairness' = [fairness EXCEPT ![t] = f]
        BY <1>20 DEF Unlock
      <3> QED
        BY <3>1
    <2> QED
      BY <1>20, <2>1, <2>2, <2>3 DEF Unlock
  <1>21. CASE UNCHANGED vars
    BY <1>21 DEF vars
  <1> QED
    BY <1>1, <1>2, <1>3, <1>4, <1>5, <1>6, <1>7, <1>8, <1>9, <1>10, <1>11,
       <1>12, <1>13, <1>14, <1>15, <1>16, <1>17, <1>18, <1>19, <1>20, <1>21
    DEF Next, LockStep, UnlockStep, SlowUnlockStep

-----------------------------------------------------------------------------
(* Kinds of steps.  What most steps do to the lock is one of five things. *)

Trying == {"lockSlow", "tryAcquire", "setParked", "lockBucket"}
Outside == {"idle", "relock"} \cup Trying
Inside == {"critical", "unlockSlow", "releaseByte", "unparkOne"}

\* The bucket, its queue and the other threads are as they were.
Frame(t) == /\ UNCHANGED <<bucketLock, queue, address, token, target>>
            /\ \A u \in Thread \ {t} : cur'[u] = cur[u] /\ (u \in more' <=> u \in more)

\* Moving on without the lock.
Moves(t) == /\ pc[t] \in Outside
            /\ \E l \in Trying : /\ Goto(t, l)
                                 /\ l = "tryAcquire" => isHeldBit \notin cur'[t]
            /\ UNCHANGED m_byte
            /\ Frame(t)

\* Setting the parked bit.
Marks(t) == /\ pc[t] \in Trying
            /\ Goto(t, "lockBucket")
            /\ m_byte' = m_byte \cup {hasParkedBit}
            /\ Frame(t)

\* Taking a lock that nobody holds.
Takes(t) == /\ pc[t] \in Outside
            /\ Goto(t, "critical")
            /\ isHeldBit \notin m_byte
            /\ m_byte' = m_byte \cup {isHeldBit}
            /\ Frame(t)

\* Moving on with the lock.
Keeps(t) == /\ pc[t] \in Inside
            /\ \E l \in Inside : Goto(t, l) /\ (l = "unparkOne" => m_byte # {isHeldBit})
            /\ UNCHANGED m_byte
            /\ Frame(t)

\* Giving up a lock nobody is parked on.
Drops(t) == /\ pc[t] \in Inside
            /\ Goto(t, "idle")
            /\ m_byte = {isHeldBit}
            /\ m_byte' = {}
            /\ Frame(t)

Kind(t) == \/ Moves(t) \/ Marks(t) \/ Takes(t) \/ Keeps(t) \/ Drops(t)
           \/ LockBucket(t) \/ Validate(t) \/ Enqueue(t) \/ Park(t) \/ SpuriousWakeup(t)
           \/ UnparkOne(t) \/ Dequeue(t) \/ Callback(t) \/ ClearAddress(t) \/ Signal(t)

\* Not getting the lock in lockSlow() is moving on without it.
LEMMA SpinMoves ==
  ASSUME TypeOK, NEW t \in Thread, NEW b \in SUBSET mask, SpinOrPark(t, b),
         pc[t] \in Outside, UNCHANGED <<m_byte, bucketLock, parkingVars, unlockLocals>>
  PROVE  Moves(t)
  <1>1. \E l \in Trying : Goto(t, l) /\ l # "tryAcquire"
    BY DEF SpinOrPark, Continue, Trying
  <1>2. Frame(t)
    BY DEF SpinOrPark, Continue, Frame, TypeOK, parkingVars, unlockLocals
  <1> QED
    BY <1>1, <1>2 DEF Moves

\* Every step is of one of the kinds.
LEMMA NextKinds == IInv /\ [Next]_vars => (\E t \in Thread : Kind(t)) \/ UNCHANGED vars
  <1> SUFFICES ASSUME IInv, [Next]_vars PROVE (\E t \in Thread : Kind(t)) \/ UNCHANGED vars
    OBVIOUS
  <1> USE DEF IInv, TypeOK, Trying, Outside, Inside, CASSucceeds, CASFails, parkingVars,
              lockLocals, unlockLocals
  <1>1. ASSUME NEW t \in Thread, Lock(t) PROVE Moves(t) \/ Takes(t)
    BY <1>1 DEF Lock, Moves, Takes, Frame
  <1>2. ASSUME NEW t \in Thread, TryLock(t) PROVE Takes(t)
    BY <1>2 DEF TryLock, Takes, Frame
  <1>3. ASSUME NEW t \in Thread, LockSlow(t) PROVE Moves(t)
    <2>1. CASE isHeldBit \in m_byte
      BY <1>3, <2>1, SpinMoves DEF LockSlow
    <2>2. CASE isHeldBit \notin m_byte
      BY <1>3, <2>2 DEF LockSlow, Moves, Frame
    <2> QED
      BY <2>1, <2>2
  <1>4. ASSUME NEW t \in Thread, TryAcquire(t) PROVE Moves(t) \/ Takes(t)
    <2>1. CASE CASFails(cur[t]) /\ SpinOrPark(t, cur[t])
      BY <1>4, <2>1, SpinMoves DEF TryAcquire
    <2>2. CASE CASSucceeds(cur[t], cur[t] \cup {isHeldBit}) /\ Acquired(t)
      <3>1. isHeldBit \notin m_byte
        BY <1>4, <2>2 DEF TryAcquire, BucketFacts
      <3> QED
        BY <1>4, <2>2, <3>1 DEF TryAcquire, Acquired, Takes, Frame
    <2> QED
      BY <1>4, <2>1, <2>2 DEF TryAcquire
  <1>5. ASSUME NEW t \in Thread, SetParked(t) PROVE Moves(t) \/ Marks(t)
    BY <1>5 DEF SetParked, Continue, Moves, Marks, Frame
  <1>6. ASSUME NEW t \in Thread, Relock(t) PROVE Moves(t) \/ Takes(t)
    BY <1>6 DEF Relock, Moves, Takes, Frame
  <1>7. ASSUME NEW t \in Thread, Safepoint(t) PROVE Keeps(t)
    BY <1>7 DEF Safepoint, Keeps, Frame
  <1>8. ASSUME NEW t \in Thread, UnlockSlow(t) PROVE Keeps(t)
    <2>1. CASE m_byte = {isHeldBit}
      BY <1>8, <2>1 DEF UnlockSlow, Keeps, Frame
    <2>2. CASE m_byte # {isHeldBit}
      BY <1>8, <2>2 DEF UnlockSlow, Keeps, Frame
    <2> QED
      BY <2>1, <2>2
  <1>9. ASSUME NEW t \in Thread, ReleaseByte(t) PROVE Keeps(t) \/ Drops(t)
    <2>1. CASE CASSucceeds({isHeldBit}, {}) /\ Goto(t, "idle") /\ Unlocked(t)
      <3>1. target[t] = Nil
        BY <1>9 DEF ReleaseByte, TargetFacts, Waking
      <3>2. target' = target
        BY <2>1, <3>1 DEF Unlocked
      <3> QED
        BY <1>9, <2>1, <3>2 DEF ReleaseByte, Unlocked, Drops, Frame
    <2>2. CASE Goto(t, "unlockSlow") /\ UNCHANGED <<m_byte, unlockLocals>>
      BY <1>9, <2>2 DEF ReleaseByte, Keeps, Frame
    <2> QED
      BY <1>9, <2>1, <2>2 DEF ReleaseByte
  <1>10. ASSUME NEW t \in Thread, NEW f \in {"Unfair", "Fair"}, Unlock(t, f)
         PROVE  Keeps(t) \/ Drops(t)
    BY <1>10 DEF Unlock, Keeps, Drops, Frame
  <1> QED
    BY <1>1, <1>2, <1>3, <1>4, <1>5, <1>6, <1>7, <1>8, <1>9, <1>10
    DEF Next, LockStep, UnlockStep, SlowUnlockStep, Kind

-----------------------------------------------------------------------------
(* The invariant *)

\* A step that changes neither the holders nor the held bit.
LEMMA SameHolders ==
  ASSUME MutualExclusion, \A u \in Thread : Holding(u)' <=> Holding(u),
         isHeldBit \in m_byte' <=> isHeldBit \in m_byte
  PROVE  MutualExclusion'
  BY DEF MutualExclusion

\* Every step keeps the lock with one thread and the held bit truthful.
LEMMA NextExcludes == IInv /\ [Next]_vars => MutualExclusion'
  <1> SUFFICES ASSUME IInv, [Next]_vars PROVE MutualExclusion'
    OBVIOUS
  <1>0. TypeOK /\ MutualExclusion
    BY DEF IInv
  <1> USE <1>0, Bytes
      DEF TypeOK, MutualExclusion, Holding, Parked, Releasing, Goto, Trying, Outside, Inside,
          parkingVars, lockLocals, unlockLocals
  <1>1. ASSUME NEW t \in Thread, Moves(t) PROVE MutualExclusion'
    BY <1>1 DEF Moves, Frame
  <1>2. ASSUME NEW t \in Thread, Marks(t) PROVE MutualExclusion'
    BY <1>2 DEF Marks, Frame
  <1>3. ASSUME NEW t \in Thread, Takes(t) PROVE MutualExclusion'
    BY <1>3 DEF Takes, Frame
  <1>4. ASSUME NEW t \in Thread, Keeps(t) PROVE MutualExclusion'
    BY <1>4 DEF Keeps, Frame
  <1>5. ASSUME NEW t \in Thread, Drops(t) PROVE MutualExclusion'
    BY <1>5 DEF Drops, Frame
  <1>6. ASSUME NEW t \in Thread, LockBucket(t) PROVE MutualExclusion'
    BY <1>6 DEF LockBucket
  <1>7. ASSUME NEW t \in Thread, Validate(t) PROVE MutualExclusion'
    <2>1. \A u \in Thread : Holding(u)' <=> Holding(u)
      <3>1. CASE Goto(t, "append")
        BY <1>7, <3>1 DEF Validate
      <3>2. CASE Goto(t, "lockSlow")
        BY <1>7, <3>2 DEF Validate
      <3> QED
        BY <1>7, <3>1, <3>2 DEF Validate, Continue
    <2> QED
      BY <1>7, <2>1, SameHolders DEF Validate
  <1>8. ASSUME NEW t \in Thread, Enqueue(t) PROVE MutualExclusion'
    <2>1. token[t] = "none"
      BY <1>8 DEF Enqueue, IInv, QueueFacts
    <2>2. \A u \in Thread : Holding(u)' <=> Holding(u)
      BY <1>8, <2>1 DEF Enqueue
    <2> QED
      BY <1>8, <2>2, SameHolders DEF Enqueue
  <1>9. ASSUME NEW t \in Thread, Park(t) PROVE MutualExclusion'
    <2>1. CASE Goto(t, "asleep") /\ UNCHANGED token
      <3>1. \A u \in Thread : Holding(u)' <=> Holding(u)
        BY <1>9, <2>1 DEF Park
      <3> QED
        BY <1>9, <3>1, SameHolders DEF Park
    <2>2. CASE Goto(t, "critical") /\ token[t] = "DirectHandoff" /\ token' = [token EXCEPT ![t] = "none"]
      <3>1. \A u \in Thread : Holding(u)' <=> Holding(u)
        BY <1>9, <2>2 DEF Park
      <3> QED
        BY <1>9, <3>1, SameHolders DEF Park
    <2>3. CASE Goto(t, "lockSlow") /\ token[t] # "DirectHandoff" /\ token' = [token EXCEPT ![t] = "none"]
      <3>1. \A u \in Thread : Holding(u)' <=> Holding(u)
        BY <1>9, <2>3 DEF Park
      <3> QED
        BY <1>9, <3>1, SameHolders DEF Park
    <2> QED
      BY <1>9, <2>1, <2>2, <2>3 DEF Park, Acquired, Continue
  <1>10. ASSUME NEW t \in Thread, SpuriousWakeup(t) PROVE MutualExclusion'
    BY <1>10 DEF SpuriousWakeup
  <1>11. ASSUME NEW t \in Thread, UnparkOne(t) PROVE MutualExclusion'
    BY <1>11 DEF UnparkOne
  <1>12. ASSUME NEW t \in Thread, Dequeue(t) PROVE MutualExclusion'
    BY <1>12 DEF Dequeue
  <1>13. ASSUME NEW t \in Thread, Callback(t) PROVE MutualExclusion'
    <2>1. PICK l \in {"clearAddress", "relock", "idle"} : Goto(t, l)
      BY <1>13 DEF Callback, AfterUnlock
    <2>2. Holding(t) /\ isHeldBit \in m_byte
      BY <1>13 DEF Callback
    <2>3. CASE target[t] # Nil /\ fairness[t] = "Fair"
      <3>1. target[t] \in Thread /\ Parked(target[t]) /\ target[t] # t
        BY <1>13, <2>3 DEF Callback, IInv, TargetFacts, NobodyForgotten, Unparking
      <3>2. UNCHANGED m_byte /\ token' = [token EXCEPT ![target[t]] = "DirectHandoff"]
        BY <1>13, <2>3 DEF Callback
      <3>3. \A u \in Thread : Holding(u)' <=> u = target[t]
        BY <1>13, <2>1, <2>2, <3>1, <3>2 DEF Callback
      <3> QED
        BY <2>2, <3>1, <3>2, <3>3
    <2>4. CASE ~(target[t] # Nil /\ fairness[t] = "Fair")
      <3>1. isHeldBit \notin m_byte'
        BY <1>13, <2>4 DEF Callback, isHeldBit, hasParkedBit, mask
      <3>2. \A u \in Thread : token'[u] = "DirectHandoff" => token[u] = "DirectHandoff"
        BY <1>13, <2>4 DEF Callback
      <3>3. \A u \in Thread : ~Holding(u)'
        BY <1>13, <2>1, <2>2, <3>2 DEF Callback
      <3> QED
        BY <3>1, <3>3
    <2> QED
      BY <2>3, <2>4
  <1>14. ASSUME NEW t \in Thread, ClearAddress(t) PROVE MutualExclusion'
    BY <1>14 DEF ClearAddress
  <1>15. ASSUME NEW t \in Thread, Signal(t) PROVE MutualExclusion'
    <2>1. AfterUnlock(t) \in {"idle", "relock"}
      BY DEF AfterUnlock
    <2>2. target[t] \in Thread
      BY <1>15 DEF Signal, IInv, TargetFacts, Waking
    <2>3. \A u \in Thread : Holding(u)' <=> Holding(u)
      BY <1>15, <2>1, <2>2 DEF Signal
    <2> QED
      BY <1>15, <2>3, SameHolders DEF Signal
  <1>16. CASE UNCHANGED vars
    BY <1>16 DEF vars
  <1> QED
    BY NextKinds, <1>1, <1>2, <1>3, <1>4, <1>5, <1>6, <1>7, <1>8,
       <1>9, <1>10, <1>11, <1>12, <1>13, <1>14, <1>15, <1>16 DEF Kind

\* Every step keeps the bucket lock with one thread.
LEMMA NextBucket == IInv /\ [Next]_vars => BucketFacts'
  <1> SUFFICES ASSUME IInv, [Next]_vars PROVE BucketFacts'
    OBVIOUS
  <1>0. TypeOK /\ BucketFacts
    BY DEF IInv
  <1> USE <1>0, Bytes
      DEF TypeOK, BucketFacts, OwnsBucket, Goto, Trying, Outside, Inside, parkingVars, lockLocals,
          unlockLocals
  <1>1. ASSUME NEW t \in Thread, Moves(t) PROVE BucketFacts'
    BY <1>1 DEF Moves, Frame
  <1>2. ASSUME NEW t \in Thread, Marks(t) PROVE BucketFacts'
    BY <1>2 DEF Marks, Frame
  <1>3. ASSUME NEW t \in Thread, Takes(t) PROVE BucketFacts'
    BY <1>3 DEF Takes, Frame
  <1>4. ASSUME NEW t \in Thread, Keeps(t) PROVE BucketFacts'
    BY <1>4 DEF Keeps, Frame
  <1>5. ASSUME NEW t \in Thread, Drops(t) PROVE BucketFacts'
    BY <1>5 DEF Drops, Frame
  <1>6. ASSUME NEW t \in Thread, LockBucket(t) PROVE BucketFacts'
    BY <1>6 DEF LockBucket
  <1>7. ASSUME NEW t \in Thread, Validate(t) PROVE BucketFacts'
    <2>1. CASE Goto(t, "append") /\ m_byte = mask /\ UNCHANGED bucketLock
      BY <1>7, <2>1 DEF Validate
    <2>2. CASE Goto(t, "lockSlow") /\ bucketLock' = Nil
      BY <1>7, <2>2 DEF Validate, Continue
    <2>3. m_byte = cur[t] \cup mask => m_byte = mask
      BY DEF mask
    <2> QED
      BY <1>7, <2>1, <2>2, <2>3 DEF Validate, Continue
  <1>8. ASSUME NEW t \in Thread, Enqueue(t) PROVE BucketFacts'
    BY <1>8 DEF Enqueue
  <1>9. ASSUME NEW t \in Thread, Park(t) PROVE BucketFacts'
    <2>1. \E l \in {"asleep", "critical", "lockSlow"} : Goto(t, l)
      BY <1>9 DEF Park, Acquired, Continue
    <2>2. \A u \in Thread \ {t} : cur'[u] = cur[u]
      BY <1>9 DEF Park, Acquired, Continue
    <2> QED
      BY <1>9, <2>1, <2>2 DEF Park
  <1>10. ASSUME NEW t \in Thread, SpuriousWakeup(t) PROVE BucketFacts'
    BY <1>10 DEF SpuriousWakeup
  <1>11. ASSUME NEW t \in Thread, UnparkOne(t) PROVE BucketFacts'
    BY <1>11 DEF UnparkOne
  <1>12. ASSUME NEW t \in Thread, Dequeue(t) PROVE BucketFacts'
    <2>1. \A u \in Thread \ {t} : pc[u] # "callback"
      BY <1>12 DEF Dequeue
    <2>2. queue' # <<>> => t \in more'
      <3>1. CASE queue = <<>>
        BY <1>12, <3>1 DEF Dequeue
      <3>2. CASE queue # <<>>
        <4>1. queue' = Tail(queue)
          BY <1>12, <3>2 DEF Dequeue
        <4>2. Tail(queue) # <<>> => more' = more \cup {t}
          BY <1>12, <3>2 DEF Dequeue
        <4> QED
          BY <4>1, <4>2
      <3> QED
        BY <3>1, <3>2
    <2> QED
      BY <1>12, <2>1, <2>2 DEF Dequeue
  <1>13. ASSUME NEW t \in Thread, Callback(t) PROVE BucketFacts'
    <2>1. \E l \in {"clearAddress", "relock", "idle"} : Goto(t, l)
      BY <1>13 DEF Callback, AfterUnlock
    <2>2. \A u \in Thread \ {t} : pc[u] \notin {"append", "callback"}
      BY <1>13 DEF Callback
    <2> QED
      BY <1>13, <2>1, <2>2 DEF Callback
  <1>14. ASSUME NEW t \in Thread, ClearAddress(t) PROVE BucketFacts'
    BY <1>14 DEF ClearAddress
  <1>15. ASSUME NEW t \in Thread, Signal(t) PROVE BucketFacts'
    <2>1. AfterUnlock(t) \in {"idle", "relock"}
      BY DEF AfterUnlock
    <2>2. target[t] \in Thread
      BY <1>15 DEF Signal, IInv, TargetFacts, Waking
    <2>3. \A u \in Thread : pc'[u] # pc[u] => pc'[u] \in {"idle", "relock", "park"}
      BY <1>15, <2>1, <2>2 DEF Signal
    <2>4. \A u \in Thread : pc'[u] # pc[u] => pc[u] \in {"signal", "asleep"}
      BY <1>15, <2>1, <2>2 DEF Signal
    <2>5. more' = more \ {t}
      BY <1>15 DEF Signal, Unlocked
    <2>6. UNCHANGED <<m_byte, bucketLock, queue, cur>>
      BY <1>15 DEF Signal
    <2>7. \A u \in Thread : OwnsBucket(u)' <=> OwnsBucket(u)
      BY <2>3, <2>4
    <2>8. \A u \in Thread : OwnsBucket(u)' <=> bucketLock' = u
      BY <2>6, <2>7
    <2>9. \A u \in Thread : /\ pc'[u] = "append" => pc[u] = "append"
                            /\ pc'[u] = "tryAcquire" => pc[u] = "tryAcquire"
                            /\ pc'[u] = "callback" => pc[u] = "callback" /\ u # t
      <3>1. pc[t] = "signal"
        BY <1>15 DEF Signal
      <3> QED
        BY <2>3, <2>4, <3>1
    <2> QED
      BY <2>5, <2>6, <2>8, <2>9
  <1>16. CASE UNCHANGED vars
    BY <1>16 DEF vars
  <1> QED
    BY NextKinds, <1>1, <1>2, <1>3, <1>4, <1>5, <1>6, <1>7, <1>8,
       <1>9, <1>10, <1>11, <1>12, <1>13, <1>14, <1>15, <1>16 DEF Kind

\* Every step keeps the parked bit on while anybody is queued.
LEMMA NextParkedBit == IInv /\ [Next]_vars => ParkedBitTruthful'
  <1> SUFFICES ASSUME IInv, [Next]_vars PROVE ParkedBitTruthful'
    OBVIOUS
  <1>0. TypeOK /\ ParkedBitTruthful
    BY DEF IInv
  <1> USE <1>0, Bytes DEF TypeOK, ParkedBitTruthful, parkingVars, lockLocals, unlockLocals
  <1>1. ASSUME NEW t \in Thread, Moves(t) PROVE ParkedBitTruthful'
    BY <1>1 DEF Moves, Frame
  <1>2. ASSUME NEW t \in Thread, Marks(t) PROVE ParkedBitTruthful'
    BY <1>2 DEF Marks, Frame
  <1>3. ASSUME NEW t \in Thread, Takes(t) PROVE ParkedBitTruthful'
    BY <1>3 DEF Takes, Frame
  <1>4. ASSUME NEW t \in Thread, Keeps(t) PROVE ParkedBitTruthful'
    BY <1>4 DEF Keeps, Frame
  <1>5. ASSUME NEW t \in Thread, Drops(t) PROVE ParkedBitTruthful'
    BY <1>5 DEF Drops, Frame
  <1>6. ASSUME NEW t \in Thread, LockBucket(t) PROVE ParkedBitTruthful'
    BY <1>6 DEF LockBucket
  <1>7. ASSUME NEW t \in Thread, Validate(t) PROVE ParkedBitTruthful'
    BY <1>7 DEF Validate, Continue
  <1>8. ASSUME NEW t \in Thread, Enqueue(t) PROVE ParkedBitTruthful'
    BY <1>8 DEF Enqueue, IInv, BucketFacts
  <1>9. ASSUME NEW t \in Thread, Park(t) PROVE ParkedBitTruthful'
    BY <1>9 DEF Park, Acquired, Continue
  <1>10. ASSUME NEW t \in Thread, SpuriousWakeup(t) PROVE ParkedBitTruthful'
    BY <1>10 DEF SpuriousWakeup
  <1>11. ASSUME NEW t \in Thread, UnparkOne(t) PROVE ParkedBitTruthful'
    BY <1>11 DEF UnparkOne
  <1>12. ASSUME NEW t \in Thread, Dequeue(t) PROVE ParkedBitTruthful'
    BY <1>12, QueueMembers DEF Dequeue
  <1>13. ASSUME NEW t \in Thread, Callback(t) PROVE ParkedBitTruthful'
    <2>1. queue # <<>> => t \in more
      BY <1>13 DEF Callback, IInv, BucketFacts
    <2> QED
      BY <1>13, <2>1 DEF Callback
  <1>14. ASSUME NEW t \in Thread, ClearAddress(t) PROVE ParkedBitTruthful'
    BY <1>14 DEF ClearAddress
  <1>15. ASSUME NEW t \in Thread, Signal(t) PROVE ParkedBitTruthful'
    BY <1>15 DEF Signal, Unlocked, AfterUnlock
  <1>16. CASE UNCHANGED vars
    BY <1>16 DEF vars
  <1> QED
    BY NextKinds, <1>1, <1>2, <1>3, <1>4, <1>5, <1>6, <1>7, <1>8,
       <1>9, <1>10, <1>11, <1>12, <1>13, <1>14, <1>15, <1>16 DEF Kind

\* Every step keeps what the holder, and a thread given the lock, ASSERT.
LEMMA NextAssertions ==
  IInv /\ [Next]_vars /\ MutualExclusion' /\ BucketFacts' => AssertionsHold'
  <1> SUFFICES ASSUME IInv, [Next]_vars, MutualExclusion', BucketFacts' PROVE AssertionsHold'
    OBVIOUS
  <1>0. TypeOK /\ TypeOK' /\ AssertionsHold
    BY NextTypeOK DEF IInv
  <1>a. \A t \in Thread : pc[t] \in Outside => t \notin address
    BY DEF IInv, NobodyForgotten, Parked, Trying, Outside
  <1>b. \A t \in Thread : pc[t] \in Inside \cup Releasing => isHeldBit \in m_byte
    BY DEF IInv, MutualExclusion, Holding, Inside, Releasing
  <1>c. \A t, u \in Thread : pc[t] = "callback" /\ pc[u] \in {"unparkOne", "dequeue", "callback"} => u = t
    BY DEF IInv, MutualExclusion, Holding, Releasing
  <1> DEFINE Bits(t) == pc'[t] \in {"unparkOne", "dequeue", "callback"} => hasParkedBit \in m_byte'
  <1> DEFINE Clear(t) == pc'[t] = "lockBucket" => t \notin address'
  <1> SUFFICES ASSUME NEW s \in Thread PROVE Bits(s) /\ Clear(s)
    <2>1. \A t \in Thread : Holding(t)' => isHeldBit \in m_byte'
      BY DEF MutualExclusion
    <2> QED
      BY <1>0, <2>1, Bytes DEF AssertionsHold, Holding, Parked, Releasing, TypeOK
  <1> USE <1>0, Bytes
      DEF TypeOK, AssertionsHold, Goto, Trying, Outside, Inside, parkingVars, lockLocals, unlockLocals
  <1>1. ASSUME NEW t \in Thread, Moves(t) PROVE Bits(s) /\ Clear(s)
    <2>1. PICK l \in Outside : Goto(t, l)
      BY <1>1 DEF Moves
    <2>2. Bits(s)
      BY <1>1, <2>1 DEF Moves, Frame
    <2>3. Clear(s)
      BY <1>1, <1>a, <2>1 DEF Moves, Frame
    <2> QED
      BY <2>2, <2>3
  <1>2. ASSUME NEW t \in Thread, Marks(t) PROVE Bits(s) /\ Clear(s)
    <2>1. PICK l \in {"lockBucket"} : Goto(t, l)
      BY <1>2 DEF Marks
    <2>2. Bits(s)
      BY <1>2, <2>1 DEF Marks, Frame
    <2>3. Clear(s)
      BY <1>2, <1>a, <2>1 DEF Marks, Frame
    <2> QED
      BY <2>2, <2>3
  <1>3. ASSUME NEW t \in Thread, Takes(t) PROVE Bits(s) /\ Clear(s)
    BY <1>3 DEF Takes, Frame
  <1>4. ASSUME NEW t \in Thread, Keeps(t) PROVE Bits(s) /\ Clear(s)
    <2>1. PICK l \in Inside : Goto(t, l) /\ (l = "unparkOne" => m_byte # {isHeldBit})
      BY <1>4 DEF Keeps
    <2>a. isHeldBit \in m_byte
      BY <1>4, <1>b DEF Keeps
    <2>b. m_byte # {isHeldBit} => hasParkedBit \in m_byte
      BY <2>a
    <2>2. Bits(s)
      BY <1>4, <2>1, <2>b DEF Keeps, Frame
    <2>3. Clear(s)
      BY <1>4, <1>a, <2>1 DEF Keeps, Frame
    <2> QED
      BY <2>2, <2>3
  <1>5. ASSUME NEW t \in Thread, Drops(t) PROVE Bits(s) /\ Clear(s)
    BY <1>5 DEF Drops, Frame
  <1>6. ASSUME NEW t \in Thread, LockBucket(t) PROVE Bits(s) /\ Clear(s)
    BY <1>6 DEF LockBucket
  <1>7. ASSUME NEW t \in Thread, Validate(t) PROVE Bits(s) /\ Clear(s)
    <2>1. \E l \in {"append", "lockSlow"} : Goto(t, l)
      BY <1>7 DEF Validate, Continue
    <2> QED
      BY <1>7, <2>1 DEF Validate
  <1>8. ASSUME NEW t \in Thread, Enqueue(t) PROVE Bits(s) /\ Clear(s)
    BY <1>8 DEF Enqueue
  <1>9. ASSUME NEW t \in Thread, Park(t) PROVE Bits(s) /\ Clear(s)
    BY <1>9 DEF Park, Acquired, Continue
  <1>10. ASSUME NEW t \in Thread, SpuriousWakeup(t) PROVE Bits(s) /\ Clear(s)
    BY <1>10 DEF SpuriousWakeup
  <1>11. ASSUME NEW t \in Thread, UnparkOne(t) PROVE Bits(s) /\ Clear(s)
    BY <1>11 DEF UnparkOne
  <1>12. ASSUME NEW t \in Thread, Dequeue(t) PROVE Bits(s) /\ Clear(s)
    BY <1>12 DEF Dequeue
  <1>13. ASSUME NEW t \in Thread, Callback(t) PROVE Bits(s) /\ Clear(s)
    <2>1. \E l \in {"clearAddress", "relock", "idle"} : Goto(t, l)
      BY <1>13 DEF Callback, AfterUnlock
    <2>2. UNCHANGED address
      BY <1>13 DEF Callback
    <2> QED
      BY <1>13, <1>c, <2>1, <2>2 DEF Callback
  <1>14. ASSUME NEW t \in Thread, ClearAddress(t) PROVE Bits(s) /\ Clear(s)
    BY <1>14 DEF ClearAddress
  <1>15. ASSUME NEW t \in Thread, Signal(t) PROVE Bits(s) /\ Clear(s)
    BY <1>15 DEF Signal, Unlocked, AfterUnlock
  <1>16. CASE UNCHANGED vars
    BY <1>16 DEF vars
  <1> QED
    BY NextKinds, <1>1, <1>2, <1>3, <1>4, <1>5, <1>6, <1>7, <1>8,
       <1>9, <1>10, <1>11, <1>12, <1>13, <1>14, <1>15, <1>16 DEF Kind

\* A thread that is about to be queued is on no queue, and nobody's target.
LEMMA EnqueueFacts ==
  ASSUME IInv, NEW t \in Thread, Enqueue(t)
  PROVE  /\ t \notin address /\ t \notin Queued /\ token[t] = "none"
         /\ Queued' = Queued \cup {t}
         /\ queue' = Append(queue, t)
         /\ address' = address \cup {t}
  <1>1. pc[t] \notin {"park", "asleep"}
    BY DEF Enqueue
  <1>2. t \notin address
    BY <1>1 DEF IInv, NobodyForgotten, Parked
  <1>3. t \notin Queued /\ token[t] = "none"
    BY <1>1, <1>2 DEF IInv, QueueFacts, Parked
  <1>4. Queued' = Queued \cup {t}
    BY AppendFacts DEF IInv, TypeOK, Enqueue, Queued
  <1> QED
    BY <1>2, <1>3, <1>4 DEF Enqueue

\* A dequeue takes nobody, or the head of the queue.
LEMMA DequeueFacts ==
  ASSUME IInv, NEW t \in Thread, Dequeue(t)
  PROVE  \/ Queued' = Queued /\ queue' = queue /\ target' = target
         \/ \E x \in Queued : /\ Queued' = Queued \ {x}
                              /\ target' = [target EXCEPT ![t] = x]
                              /\ queue' = Tail(queue) /\ queue # <<>>
  <1>0. /\ queue \in Seq(Thread)
        /\ \A i, j \in 1 .. Len(queue) : queue[i] = queue[j] => i = j
    BY DEF IInv, TypeOK, QueueFacts
  <1>1. CASE queue = <<>>
    BY <1>1 DEF Dequeue, Queued
  <1>2. CASE queue # <<>>
    <2>1. target' = [target EXCEPT ![t] = Head(queue)] /\ queue' = Tail(queue)
      BY <1>2 DEF Dequeue
    <2>2. Head(queue) \in Queued /\ Queued' = Queued \ {Head(queue)}
      BY <1>0, <1>2, <2>1, TailFacts DEF Queued
    <2> QED
      BY <1>2, <2>1, <2>2
  <1> QED
    BY <1>1, <1>2

\* Every step keeps the queue free of doubles and of threads that have a token.
LEMMA NextQueue == IInv /\ [Next]_vars => QueueFacts'
  <1> SUFFICES ASSUME IInv, [Next]_vars PROVE QueueFacts'
    OBVIOUS
  <1>0. TypeOK /\ QueueFacts /\ Queued \subseteq Thread
    BY QueueMembers DEF IInv, TypeOK, Queued
  <1>a. ASSUME UNCHANGED <<queue, address, token>>,
               \A u \in Thread : Parked(u) => Parked(u)' PROVE QueueFacts'
    BY <1>0, <1>a DEF QueueFacts, Queued
  <1> USE <1>0 DEF TypeOK, Parked, Goto, Trying, Outside, Inside, parkingVars, lockLocals, unlockLocals
  <1>1. ASSUME NEW t \in Thread, Moves(t) PROVE QueueFacts'
    <2>1. \A u \in Thread : Parked(u) => Parked(u)'
      BY <1>1 DEF Moves, Frame
    <2> QED
      BY <1>1, <1>a, <2>1 DEF Moves, Frame
  <1>2. ASSUME NEW t \in Thread, Marks(t) PROVE QueueFacts'
    <2>1. \A u \in Thread : Parked(u) => Parked(u)'
      BY <1>2 DEF Marks, Frame
    <2> QED
      BY <1>2, <1>a, <2>1 DEF Marks, Frame
  <1>3. ASSUME NEW t \in Thread, Takes(t) PROVE QueueFacts'
    <2>1. \A u \in Thread : Parked(u) => Parked(u)'
      BY <1>3 DEF Takes, Frame
    <2> QED
      BY <1>3, <1>a, <2>1 DEF Takes, Frame
  <1>4. ASSUME NEW t \in Thread, Keeps(t) PROVE QueueFacts'
    <2>1. \A u \in Thread : Parked(u) => Parked(u)'
      BY <1>4 DEF Keeps, Frame
    <2> QED
      BY <1>4, <1>a, <2>1 DEF Keeps, Frame
  <1>5. ASSUME NEW t \in Thread, Drops(t) PROVE QueueFacts'
    <2>1. \A u \in Thread : Parked(u) => Parked(u)'
      BY <1>5 DEF Drops, Frame
    <2> QED
      BY <1>5, <1>a, <2>1 DEF Drops, Frame
  <1>6. ASSUME NEW t \in Thread, LockBucket(t) PROVE QueueFacts'
    <2>1. \A u \in Thread : Parked(u) => Parked(u)'
      BY <1>6 DEF LockBucket
    <2> QED
      BY <1>6, <1>a, <2>1 DEF LockBucket
  <1>7. ASSUME NEW t \in Thread, Validate(t) PROVE QueueFacts'
    <2>1. \A u \in Thread : Parked(u) => Parked(u)'
      BY <1>7 DEF Validate, Continue
    <2> QED
      BY <1>7, <1>a, <2>1 DEF Validate, Continue
  <1>8. ASSUME NEW t \in Thread, Enqueue(t) PROVE QueueFacts'
    <2>1. \A u \in Queued' : u \in address' /\ token'[u] = "none"
      BY <1>8, EnqueueFacts DEF Enqueue, QueueFacts
    <2>2. \A u \in Thread : token'[u] # "none" => Parked(u)'
      BY <1>8 DEF Enqueue, QueueFacts
    <2>3. \A i, j \in 1 .. Len(queue') : queue'[i] = queue'[j] => i = j
      <3>1. queue' = Append(queue, t) /\ t \notin Elements(queue)
        BY <1>8, EnqueueFacts DEF Queued
      <3>2. \A i, j \in 1 .. Len(queue) : queue[i] = queue[j] => i = j
        BY DEF QueueFacts
      <3>3. queue \in Seq(Thread)
        OBVIOUS
      <3> HIDE DEF TypeOK
      <3> QED
        BY <3>1, <3>2, <3>3, AppendDistinct
    <2> QED
      BY <2>1, <2>2, <2>3 DEF QueueFacts
  <1>9. ASSUME NEW t \in Thread, Park(t) PROVE QueueFacts'
    <2>1. CASE t \in address
      <3>1. UNCHANGED <<queue, address, token>> /\ Goto(t, "asleep")
        BY <1>9, <2>1 DEF Park
      <3> QED
        BY <3>1, <1>a
    <2>2. CASE t \notin address
      <3>1. /\ UNCHANGED <<queue, address>> /\ token' = [token EXCEPT ![t] = "none"]
            /\ \A u \in Thread \ {t} : pc'[u] = pc[u]
        BY <1>9, <2>2 DEF Park, Acquired, Continue
      <3> QED
        BY <2>2, <3>1 DEF QueueFacts, Queued
    <2> QED
      BY <2>1, <2>2
  <1>10. ASSUME NEW t \in Thread, SpuriousWakeup(t) PROVE QueueFacts'
    <2>1. \A u \in Thread : Parked(u) => Parked(u)'
      BY <1>10 DEF SpuriousWakeup
    <2> QED
      BY <1>10, <1>a, <2>1 DEF SpuriousWakeup
  <1>11. ASSUME NEW t \in Thread, UnparkOne(t) PROVE QueueFacts'
    <2>1. \A u \in Thread : Parked(u) => Parked(u)'
      BY <1>11 DEF UnparkOne
    <2> QED
      BY <1>11, <1>a, <2>1 DEF UnparkOne
  <1>12. ASSUME NEW t \in Thread, Dequeue(t) PROVE QueueFacts'
    <2>1. \A u \in Queued' : u \in address' /\ token'[u] = "none"
      BY <1>12, DequeueFacts DEF Dequeue, QueueFacts
    <2>2. \A u \in Thread : token'[u] # "none" => Parked(u)'
      BY <1>12 DEF Dequeue, QueueFacts
    <2>3. \A i, j \in 1 .. Len(queue') : queue'[i] = queue'[j] => i = j
      <3>1. queue' = queue \/ (queue' = Tail(queue) /\ queue # <<>>)
        BY <1>12, DequeueFacts
      <3>2. \A i, j \in 1 .. Len(queue) : queue[i] = queue[j] => i = j
        BY DEF QueueFacts
      <3>3. queue \in Seq(Thread)
        OBVIOUS
      <3> HIDE DEF TypeOK
      <3> QED
        BY <3>1, <3>2, <3>3, TailFacts
    <2> QED
      BY <2>1, <2>2, <2>3 DEF QueueFacts
  <1>13. ASSUME NEW t \in Thread, Callback(t) PROVE QueueFacts'
    <2>1. \A u \in Thread \ {t} : pc'[u] = pc[u]
      BY <1>13 DEF Callback
    <2>2. Queued' = Queued
      BY <1>13 DEF Callback, Queued
    <2>3. target[t] # Nil => target[t] \notin Queued /\ Parked(target[t])
      BY <1>13 DEF Callback, IInv, TargetFacts, Unparking, NobodyForgotten
    <2>4. \A u \in Thread : u # target[t] \/ target[t] = Nil => token'[u] = token[u]
      BY <1>13 DEF Callback
    <2>5. \A u \in Queued' : u \in address' /\ token'[u] = "none"
      BY <1>13, <2>2, <2>3, <2>4 DEF Callback, QueueFacts
    <2>6. \A u \in Thread : token'[u] # "none" => Parked(u)'
      BY <1>13, <2>1, <2>3, <2>4 DEF Callback, QueueFacts
    <2> QED
      BY <1>13, <2>5, <2>6 DEF Callback, QueueFacts
  <1>14. ASSUME NEW t \in Thread, ClearAddress(t) PROVE QueueFacts'
    <2>1. target[t] \notin Queued
      BY <1>14 DEF ClearAddress, IInv, TargetFacts, Unparking, Waking
    <2> QED
      BY <1>14, <2>1 DEF ClearAddress, QueueFacts, Queued
  <1>15. ASSUME NEW t \in Thread, Signal(t) PROVE QueueFacts'
    <2>1. AfterUnlock(t) \in {"idle", "relock"} /\ target[t] \in Thread
      BY <1>15 DEF Signal, AfterUnlock, IInv, TargetFacts, Waking
    <2>2. \A u \in Thread : Parked(u) => Parked(u)'
      BY <1>15, <2>1 DEF Signal
    <2> QED
      BY <1>15, <1>a, <2>2 DEF Signal
  <1>16. CASE UNCHANGED vars
    BY <1>16, <1>a DEF vars
  <1> QED
    BY NextKinds, <1>1, <1>2, <1>3, <1>4, <1>5, <1>6, <1>7, <1>8,
       <1>9, <1>10, <1>11, <1>12, <1>13, <1>14, <1>15, <1>16 DEF Kind

\* Every step keeps a dequeued thread with the one unlocker that dequeued it.
LEMMA NextTarget == IInv /\ [Next]_vars => TargetFacts'
  <1> SUFFICES ASSUME IInv, [Next]_vars PROVE TargetFacts'
    OBVIOUS
  <1>0. TypeOK /\ TargetFacts /\ Queued \subseteq Thread
    BY QueueMembers DEF IInv, TypeOK, Queued
  <1> DEFINE Unlocking == {"callback"} \cup Waking
  <1>a. ASSUME NEW t \in Thread, UNCHANGED <<queue, address, token, target>>,
               \A u \in Thread \ {t} : pc'[u] = pc[u],
               pc[t] \notin Unlocking, pc'[t] \notin Unlocking
        PROVE  TargetFacts'
    <2>1. Queued' = Queued
      BY <1>a DEF Queued
    <2>2. target[t] = Nil
      BY <1>0, <1>a DEF TargetFacts
    <2>3. \A u \in Thread : Unparking(u)' <=> Unparking(u)
      BY <1>a, <2>2 DEF Unparking, Waking
    <2> QED
      BY <1>0, <1>a, <2>1, <2>2, <2>3 DEF TargetFacts, Waking
  <1> USE <1>0 DEF TypeOK, Goto, Trying, Outside, Inside, Waking, parkingVars, lockLocals, unlockLocals
  <1>1. ASSUME NEW t \in Thread, Moves(t) PROVE TargetFacts'
    BY <1>1, <1>a DEF Moves, Frame
  <1>2. ASSUME NEW t \in Thread, Marks(t) PROVE TargetFacts'
    BY <1>2, <1>a DEF Marks, Frame
  <1>3. ASSUME NEW t \in Thread, Takes(t) PROVE TargetFacts'
    BY <1>3, <1>a DEF Takes, Frame
  <1>4. ASSUME NEW t \in Thread, Keeps(t) PROVE TargetFacts'
    BY <1>4, <1>a DEF Keeps, Frame
  <1>5. ASSUME NEW t \in Thread, Drops(t) PROVE TargetFacts'
    BY <1>5, <1>a DEF Drops, Frame
  <1>6. ASSUME NEW t \in Thread, LockBucket(t) PROVE TargetFacts'
    BY <1>6, <1>a DEF LockBucket
  <1>7. ASSUME NEW t \in Thread, Validate(t) PROVE TargetFacts'
    BY <1>7, <1>a DEF Validate, Continue
  <1>8. ASSUME NEW t \in Thread, Enqueue(t) PROVE TargetFacts'
    <2>1. /\ \A u \in Thread : Unparking(u)' <=> Unparking(u)
          /\ \A u \in Thread : pc'[u] \in Unlocking <=> pc[u] \in Unlocking
          /\ \A u \in Thread : pc'[u] \in Waking <=> pc[u] \in Waking
          /\ \A u \in Thread : pc'[u] = "callback" <=> pc[u] = "callback"
      BY <1>8 DEF Enqueue, Unparking
    <2>2. UNCHANGED <<target, token>>
      BY <1>8 DEF Enqueue
    <2>3. \A u \in Thread : Unparking(u)' => target'[u] \in address' \ Queued'
      BY <1>8, <2>1, <2>2, EnqueueFacts DEF TargetFacts
    <2> QED
      BY <2>1, <2>2, <2>3 DEF TargetFacts
  <1>9. ASSUME NEW t \in Thread, Park(t) PROVE TargetFacts'
    <2>1. /\ \A u \in Thread : Unparking(u)' <=> Unparking(u)
          /\ \A u \in Thread : pc'[u] \in Unlocking <=> pc[u] \in Unlocking
          /\ \A u \in Thread : pc'[u] \in Waking <=> pc[u] \in Waking
          /\ \A u \in Thread : pc'[u] = "callback" <=> pc[u] = "callback"
      BY <1>9 DEF Park, Acquired, Continue, Unparking
    <2>2. UNCHANGED <<target, address, queue>>
      BY <1>9 DEF Park
    <2>3. \A u \in Thread : token[u] = "none" => token'[u] = "none"
      BY <1>9 DEF Park
    <2>4. Queued' = Queued
      BY <2>2 DEF Queued
    <2>5. \A u \in Thread : pc'[u] = "callback" /\ target'[u] # Nil => token'[target'[u]] = "none"
      BY <2>1, <2>2, <2>3 DEF TargetFacts
    <2> QED
      BY <2>1, <2>2, <2>4, <2>5 DEF TargetFacts
  <1>10. ASSUME NEW t \in Thread, SpuriousWakeup(t) PROVE TargetFacts'
    BY <1>10, <1>a DEF SpuriousWakeup
  <1>11. ASSUME NEW t \in Thread, UnparkOne(t) PROVE TargetFacts'
    BY <1>11, <1>a DEF UnparkOne
  <1>12. ASSUME NEW t \in Thread, Dequeue(t) PROVE TargetFacts'
    <2>1. pc[t] = "dequeue" /\ pc' = [pc EXCEPT ![t] = "callback"] /\ UNCHANGED <<address, token>>
      BY <1>12 DEF Dequeue
    <2>2. target[t] = Nil
      BY <2>1 DEF TargetFacts
    <2>3. CASE Queued' = Queued /\ target' = target
      BY <2>1, <2>2, <2>3 DEF TargetFacts, Unparking
    <2>4. CASE \E x \in Queued : Queued' = Queued \ {x} /\ target' = [target EXCEPT ![t] = x]
      <3>1. PICK x \in Queued : Queued' = Queued \ {x} /\ target' = [target EXCEPT ![t] = x]
        BY <2>4
      <3>2. x \in address /\ token[x] = "none"
        BY <3>1 DEF IInv, QueueFacts
      <3>3. /\ \A u \in Thread \ {t} : target'[u] = target[u] /\ pc'[u] = pc[u]
            /\ \A u \in Thread \ {t} : Unparking(u)' <=> Unparking(u)
        BY <2>1, <3>1 DEF Unparking
      <3>4. \A u \in Thread \ {t} : Unparking(u) => target[u] # x
        BY <3>1 DEF TargetFacts
      <3>5. target'[t] = x /\ pc'[t] = "callback" /\ x \in Thread /\ x # Nil
        BY <2>1, <3>1
      <3>6. /\ \A u \in Thread : target'[u] # Nil => pc'[u] \in Unlocking
            /\ \A u \in Thread : pc'[u] \in Waking => target'[u] # Nil
        <4>1. ASSUME NEW u \in Thread \ {t}
              PROVE  /\ target'[u] # Nil => pc'[u] \in Unlocking
                     /\ pc'[u] \in Waking => target'[u] # Nil
          BY <3>3 DEF TargetFacts
        <4> QED
          BY <3>5, <4>1
      <3>7. \A u \in Thread : Unparking(u)' => target'[u] \in address' \ Queued'
        BY <2>1, <3>1, <3>2, <3>3, <3>5 DEF TargetFacts
      <3>8. \A u, v \in Thread : Unparking(u)' /\ Unparking(v)' /\ target'[u] = target'[v] => u = v
        <4>1. ASSUME NEW u \in Thread \ {t}, Unparking(u)' PROVE target'[u] # target'[t]
          BY <3>3, <3>4, <3>5, <4>1
        <4>2. ASSUME NEW u \in Thread \ {t}, NEW v \in Thread \ {t},
                     Unparking(u)', Unparking(v)', target'[u] = target'[v]
              PROVE  u = v
          BY <3>3, <4>2 DEF TargetFacts
        <4> QED
          BY <4>1, <4>2
      <3>9. \A u \in Thread : pc'[u] = "callback" /\ target'[u] # Nil => token'[target'[u]] = "none"
        <4>1. token'[target'[t]] = "none"
          BY <2>1, <3>2, <3>5
        <4>2. ASSUME NEW u \in Thread \ {t}, pc'[u] = "callback", target'[u] # Nil
              PROVE  token'[target'[u]] = "none"
          BY <2>1, <3>3, <4>2 DEF TargetFacts
        <4> QED
          BY <4>1, <4>2
      <3> QED
        BY <3>6, <3>7, <3>8, <3>9 DEF TargetFacts
    <2> QED
      BY <1>12, <2>3, <2>4, DequeueFacts
  <1>13. ASSUME NEW t \in Thread, Callback(t) PROVE TargetFacts'
    <2>1. pc[t] = "callback" /\ UNCHANGED <<address, queue>> /\ target' = target
      BY <1>13 DEF Callback, Unlocked
    <2>2. Queued' = Queued
      BY <2>1 DEF Queued
    <2>3. /\ target[t] # Nil => pc' = [pc EXCEPT ![t] = "clearAddress"]
          /\ target[t] = Nil => \E l \in {"idle", "relock"} : pc' = [pc EXCEPT ![t] = l]
      BY <1>13 DEF Callback, AfterUnlock
    <2>4. \A u \in Thread : Unparking(u)' <=> Unparking(u)
      BY <2>1, <2>3 DEF Unparking
    <2>5. \A u \in Thread : u # target[t] => token'[u] = token[u]
      BY <1>13 DEF Callback
    <2>6. \A u \in Thread : pc'[u] = "callback" => pc[u] = "callback" /\ u # t
      BY <2>1, <2>3
    <2>7. \A u \in Thread : pc'[u] = "callback" /\ target'[u] # Nil => token'[target'[u]] = "none"
      BY <2>1, <2>5, <2>6 DEF TargetFacts, Unparking
    <2>8. /\ \A u \in Thread : target'[u] # Nil => pc'[u] \in Unlocking
          /\ \A u \in Thread : pc'[u] \in Waking => target'[u] # Nil
      BY <2>1, <2>3 DEF TargetFacts
    <2> QED
      BY <2>1, <2>2, <2>4, <2>7, <2>8 DEF TargetFacts
  <1>14. ASSUME NEW t \in Thread, ClearAddress(t) PROVE TargetFacts'
    <2>1. /\ pc[t] = "clearAddress" /\ pc' = [pc EXCEPT ![t] = "signal"]
          /\ UNCHANGED <<queue, token, target>> /\ address' = address \ {target[t]}
      BY <1>14 DEF ClearAddress
    <2>2. Queued' = Queued
      BY <2>1 DEF Queued
    <2>3. \A u \in Thread : Unparking(u)' <=> Unparking(u) /\ u # t
      BY <2>1 DEF Unparking
    <2>4. Unparking(t)
      BY <2>1 DEF Unparking, TargetFacts
    <2>5. \A u \in Thread : Unparking(u)' => target'[u] \in address' \ Queued'
      BY <2>1, <2>2, <2>3, <2>4 DEF TargetFacts
    <2> QED
      BY <2>1, <2>3, <2>5 DEF TargetFacts
  <1>15. ASSUME NEW t \in Thread, Signal(t) PROVE TargetFacts'
    <2>1. AfterUnlock(t) \in {"idle", "relock"} /\ target[t] \in Thread
      BY <1>15 DEF Signal, AfterUnlock, TargetFacts
    <2>2. UNCHANGED <<queue, address, token>> /\ target' = [target EXCEPT ![t] = Nil]
      BY <1>15 DEF Signal, Unlocked
    <2>3. pc[t] = "signal" /\ pc'[t] \in {"idle", "relock"}
      BY <1>15, <2>1 DEF Signal
    <2>4. \A u \in Thread \ {t} : pc'[u] = pc[u] \/ (pc[u] = "asleep" /\ pc'[u] = "park")
      BY <1>15, <2>1 DEF Signal
    <2>5. Queued' = Queued
      BY <2>2 DEF Queued
    <2>6. \A u \in Thread : Unparking(u)' <=> Unparking(u)
      BY <2>2, <2>3, <2>4 DEF Unparking
    <2> QED
      BY <2>2, <2>3, <2>4, <2>5, <2>6 DEF TargetFacts, Unparking
  <1>16. CASE UNCHANGED vars
    BY <1>16 DEF vars, TargetFacts, Unparking, Queued
  <1> QED
    BY NextKinds, <1>1, <1>2, <1>3, <1>4, <1>5, <1>6, <1>7, <1>8,
       <1>9, <1>10, <1>11, <1>12, <1>13, <1>14, <1>15, <1>16 DEF Kind

\* Every step keeps the threads that must sleep within somebody's reach.
LEMMA NextRemembers == IInv /\ TargetFacts' /\ [Next]_vars => NobodyForgotten'
  <1> SUFFICES ASSUME IInv, TargetFacts', [Next]_vars PROVE NobodyForgotten'
    OBVIOUS
  <1> DEFINE Found(x) == x \in Queued \/ \E u \in Thread : Unparking(u) /\ target[u] = x
  <1>0. TypeOK /\ TypeOK' /\ Queued \subseteq Thread
    BY QueueMembers, NextTypeOK DEF IInv, TypeOK, Queued
  <1>a. \A x \in address : Parked(x) /\ Found(x)
    BY <1>0 DEF IInv, NobodyForgotten, Unparking, TypeOK
  <1> SUFFICES ASSUME NEW x \in address' PROVE Parked(x)' /\ Found(x)'
    BY <1>0 DEF NobodyForgotten, TargetFacts, Unparking, TypeOK
  <1>b. ASSUME UNCHANGED <<queue, address>>, Parked(x) => Parked(x)',
               \A u \in Thread : Unparking(u) => Unparking(u)' /\ target'[u] = target[u]
        PROVE  Parked(x)' /\ Found(x)'
    BY <1>a, <1>b DEF Queued
  <1> USE <1>0 DEF TypeOK, Parked, Goto, Trying, Outside, Inside, parkingVars, lockLocals, unlockLocals
  <1>1. ASSUME NEW t \in Thread, Moves(t) PROVE Parked(x)' /\ Found(x)'
    <2>1. /\ UNCHANGED <<queue, address>>
          /\ Parked(x) => Parked(x)'
          /\ \A u \in Thread : Unparking(u) => Unparking(u)' /\ target'[u] = target[u]
      BY <1>1 DEF Moves, Frame, Unparking
    <2> QED
      BY <1>b, <2>1
  <1>2. ASSUME NEW t \in Thread, Marks(t) PROVE Parked(x)' /\ Found(x)'
    <2>1. /\ UNCHANGED <<queue, address>>
          /\ Parked(x) => Parked(x)'
          /\ \A u \in Thread : Unparking(u) => Unparking(u)' /\ target'[u] = target[u]
      BY <1>2 DEF Marks, Frame, Unparking
    <2> QED
      BY <1>b, <2>1
  <1>3. ASSUME NEW t \in Thread, Takes(t) PROVE Parked(x)' /\ Found(x)'
    <2>1. /\ UNCHANGED <<queue, address>>
          /\ Parked(x) => Parked(x)'
          /\ \A u \in Thread : Unparking(u) => Unparking(u)' /\ target'[u] = target[u]
      BY <1>3 DEF Takes, Frame, Unparking
    <2> QED
      BY <1>b, <2>1
  <1>4. ASSUME NEW t \in Thread, Keeps(t) PROVE Parked(x)' /\ Found(x)'
    <2>1. /\ UNCHANGED <<queue, address>>
          /\ Parked(x) => Parked(x)'
          /\ \A u \in Thread : Unparking(u) => Unparking(u)' /\ target'[u] = target[u]
      BY <1>4 DEF Keeps, Frame, Unparking
    <2> QED
      BY <1>b, <2>1
  <1>5. ASSUME NEW t \in Thread, Drops(t) PROVE Parked(x)' /\ Found(x)'
    <2>1. /\ UNCHANGED <<queue, address>>
          /\ Parked(x) => Parked(x)'
          /\ \A u \in Thread : Unparking(u) => Unparking(u)' /\ target'[u] = target[u]
      BY <1>5 DEF Drops, Frame, Unparking
    <2> QED
      BY <1>b, <2>1
  <1>6. ASSUME NEW t \in Thread, LockBucket(t) PROVE Parked(x)' /\ Found(x)'
    <2>1. /\ UNCHANGED <<queue, address>>
          /\ Parked(x) => Parked(x)'
          /\ \A u \in Thread : Unparking(u) => Unparking(u)' /\ target'[u] = target[u]
      BY <1>6 DEF LockBucket, Unparking
    <2> QED
      BY <1>b, <2>1
  <1>7. ASSUME NEW t \in Thread, Validate(t) PROVE Parked(x)' /\ Found(x)'
    <2>1. /\ UNCHANGED <<queue, address>>
          /\ Parked(x) => Parked(x)'
          /\ \A u \in Thread : Unparking(u) => Unparking(u)' /\ target'[u] = target[u]
      BY <1>7 DEF Validate, Continue, Unparking
    <2> QED
      BY <1>b, <2>1
  <1>8. ASSUME NEW t \in Thread, Enqueue(t) PROVE Parked(x)' /\ Found(x)'
    <2>1. \A u \in Thread : Unparking(u) => Unparking(u)' /\ target'[u] = target[u]
      BY <1>8 DEF Enqueue, Unparking
    <2>2. CASE x = t
      <3>1. t \in Queued'
        BY <1>8, EnqueueFacts
      <3>2. pc'[t] = "park"
        BY <1>8 DEF Enqueue
      <3> QED
        BY <2>2, <3>1, <3>2
    <2>3. CASE x # t
      <3>1. x \in address
        BY <1>8, <2>3, EnqueueFacts
      <3>2. Parked(x)'
        BY <1>8, <1>a, <2>3, <3>1 DEF Enqueue
      <3>3. Found(x)'
        BY <1>8, <1>a, <2>1, <3>1, EnqueueFacts
      <3> QED
        BY <3>2, <3>3
    <2> QED
      BY <2>2, <2>3
  <1>9. ASSUME NEW t \in Thread, Park(t) PROVE Parked(x)' /\ Found(x)'
    <2>1. /\ UNCHANGED <<queue, address>>
          /\ \A u \in Thread : Unparking(u) => Unparking(u)' /\ target'[u] = target[u]
      BY <1>9 DEF Park, Acquired, Continue, Unparking
    <2>2. Parked(x) => Parked(x)'
      BY <1>9, <2>1 DEF Park, Acquired, Continue
    <2> QED
      BY <1>b, <2>1, <2>2
  <1>10. ASSUME NEW t \in Thread, SpuriousWakeup(t) PROVE Parked(x)' /\ Found(x)'
    <2>1. /\ UNCHANGED <<queue, address>>
          /\ Parked(x) => Parked(x)'
          /\ \A u \in Thread : Unparking(u) => Unparking(u)' /\ target'[u] = target[u]
      BY <1>10 DEF SpuriousWakeup, Unparking
    <2> QED
      BY <1>b, <2>1
  <1>11. ASSUME NEW t \in Thread, UnparkOne(t) PROVE Parked(x)' /\ Found(x)'
    <2>1. /\ UNCHANGED <<queue, address>>
          /\ Parked(x) => Parked(x)'
          /\ \A u \in Thread : Unparking(u) => Unparking(u)' /\ target'[u] = target[u]
      BY <1>11 DEF UnparkOne, Unparking
    <2> QED
      BY <1>b, <2>1
  <1>12. ASSUME NEW t \in Thread, Dequeue(t) PROVE Parked(x)' /\ Found(x)'
    <2>1. UNCHANGED address
      BY <1>12 DEF Dequeue
    <2>2. x \in address /\ Parked(x)'
      BY <1>12, <1>a, <2>1 DEF Dequeue
    <2>3. target[t] = Nil
      BY <1>12 DEF Dequeue, IInv, TargetFacts, Waking
    <2>4. \A u \in Thread : Unparking(u) => Unparking(u)' /\ target'[u] = target[u]
      BY <1>12, <2>3 DEF Dequeue, Unparking
    <2>5. CASE x \in Queued \ Queued'
      <3>1. target'[t] = x /\ pc'[t] = "callback" /\ x # Nil
        <4>1. PICK y \in Queued : Queued' = Queued \ {y} /\ target' = [target EXCEPT ![t] = y]
          BY <1>12, <2>5, DequeueFacts
        <4>2. x = y /\ x \in Thread
          BY <2>5, <4>1
        <4> QED
          BY <1>12, <4>1, <4>2 DEF Dequeue
      <3> QED
        BY <2>2, <3>1 DEF Unparking
    <2>6. CASE x \notin Queued \ Queued'
      BY <1>a, <2>2, <2>4, <2>6
    <2> QED
      BY <2>5, <2>6
  <1>13. ASSUME NEW t \in Thread, Callback(t) PROVE Parked(x)' /\ Found(x)'
    <2>1. UNCHANGED <<queue, address>> /\ target' = target
      BY <1>13 DEF Callback, Unlocked
    <2>2. \E l \in {"clearAddress", "idle", "relock"} :
             pc' = [pc EXCEPT ![t] = l] /\ (target[t] # Nil => l = "clearAddress")
      BY <1>13 DEF Callback, AfterUnlock
    <2>3. \A u \in Thread : Unparking(u) => Unparking(u)' /\ target'[u] = target[u]
      BY <2>1, <2>2 DEF Unparking
    <2>4. Parked(x) => Parked(x)'
      BY <1>13, <2>1, <2>2 DEF Callback
    <2> QED
      BY <1>b, <2>1, <2>3, <2>4
  <1>14. ASSUME NEW t \in Thread, ClearAddress(t) PROVE Parked(x)' /\ Found(x)'
    <2>1. x \in address /\ x # target[t] /\ UNCHANGED <<queue, target>>
      BY <1>14 DEF ClearAddress
    <2>2. Parked(x)'
      BY <1>14, <1>a, <2>1 DEF ClearAddress
    <2>3. \A u \in Thread \ {t} : Unparking(u) => Unparking(u)'
      BY <1>14 DEF ClearAddress, Unparking
    <2>4. Queued' = Queued
      BY <2>1 DEF Queued
    <2> QED
      BY <1>a, <2>1, <2>2, <2>3, <2>4
  <1>15. ASSUME NEW t \in Thread, Signal(t) PROVE Parked(x)' /\ Found(x)'
    <2>1. AfterUnlock(t) \in {"idle", "relock"} /\ target[t] \in Thread
      BY <1>15 DEF Signal, AfterUnlock, IInv, TargetFacts, Waking
    <2>2. UNCHANGED <<queue, address>> /\ target' = [target EXCEPT ![t] = Nil]
      BY <1>15 DEF Signal, Unlocked
    <2>3. pc[t] = "signal"
      BY <1>15 DEF Signal
    <2>4. \A u \in Thread \ {t} : pc'[u] = pc[u] \/ (pc[u] = "asleep" /\ pc'[u] = "park")
      BY <1>15, <2>1 DEF Signal
    <2>5. \A u \in Thread : Unparking(u) => Unparking(u)' /\ target'[u] = target[u]
      BY <2>2, <2>3, <2>4 DEF Unparking
    <2>6. Parked(x) => Parked(x)'
      BY <2>2, <2>3, <2>4
    <2> QED
      BY <1>b, <2>2, <2>5, <2>6
  <1>16. CASE UNCHANGED vars
    BY <1>16, <1>b DEF vars, Unparking
  <1> QED
    BY NextKinds, <1>1, <1>2, <1>3, <1>4, <1>5, <1>6, <1>7, <1>8,
       <1>9, <1>10, <1>11, <1>12, <1>13, <1>14, <1>15, <1>16 DEF Kind

\* The invariant is inductive.
LEMMA NextIInv == IInv /\ [Next]_vars => IInv'
  BY NextTypeOK, NextExcludes, NextBucket, NextParkedBit, NextAssertions, NextQueue,
     NextTarget, NextRemembers
  DEF IInv

\* Every reachable state satisfies the inductive invariant.
THEOREM Invariance == Spec => []IInv
  BY InitIInv, NextIInv, PTL DEF Spec

\* The held bit of a Lock is on exactly while one thread has the lock, whether it
\* took it, barged in, or was handed it in its sleep (LockAlgorithm::lockSlow and
\* unlockSlow).
THEOREM LockExcludes == Spec => []MutualExclusion
  BY Invariance, PTL DEF IInv

\* No unlock() takes the fast path while a thread is queued.
THEOREM LockKnowsParked == Spec => []ParkedBitTruthful
  BY Invariance, PTL DEF IInv

\* The RELEASE_ASSERTs and ASSERTs of lockSlow(), unlockSlow() and
\* parkConditionallyImpl() hold.
THEOREM LockAsserts == Spec => []AssertionsHold
  BY Invariance, PTL DEF IInv

\* A thread that must sleep is on the queue or with the one unlocker that took
\* it off.
THEOREM LockForgetsNobody == Spec => []NobodyForgotten
  BY Invariance, PTL DEF IInv

-----------------------------------------------------------------------------
(* Lock implements Mutex *)

\* A step that leaves every thread on its side of the lock.
LEMMA Stutters ==
  ASSUME \A u \in Thread : Holding(u)' <=> Holding(u),
         \A u \in Thread : pc'[u] \in Waiting <=> pc[u] \in Waiting
  PROVE  UNCHANGED AsMutex!vars
  BY DEF MutexStatus, AsMutex!vars

\* A step of t alone takes t where its own status says.
LEMMA StatusOf ==
  ASSUME NEW t \in Thread, \A u \in Thread \ {t} : Holding(u)' <=> Holding(u),
         \A u \in Thread \ {t} : pc'[u] \in Waiting <=> pc[u] \in Waiting,
         NEW s, MutexStatus'[t] = s
  PROVE  MutexStatus' = [MutexStatus EXCEPT ![t] = s]
  BY DEF MutexStatus

\* A thread's step is a step of Mutex, or changes no thread's status.
LEMMA StepRefines == IInv /\ [Next]_vars => [AsMutex!Next]_(AsMutex!vars)
  <1> SUFFICES ASSUME IInv, [Next]_vars PROVE [AsMutex!Next]_(AsMutex!vars)
    OBVIOUS
  <1>0. TypeOK /\ MutualExclusion
    BY DEF IInv
  <1> USE <1>0
      DEF TypeOK, Holding, Parked, Releasing, Goto, Trying, Outside, Inside, parkingVars,
          lockLocals, unlockLocals
  <1>1. ASSUME NEW t \in Thread, Moves(t) PROVE [AsMutex!Next]_(AsMutex!vars)
    <2>1. /\ \A u \in Thread : Holding(u)' <=> Holding(u)
          /\ \A u \in Thread \ {t} : pc'[u] \in Waiting <=> pc[u] \in Waiting
      BY <1>1 DEF Moves, Frame
    <2>2. ~Holding(t) /\ pc'[t] \in Waiting
      BY <1>1 DEF Moves, Frame, Waiting
    <2>3. CASE pc[t] \in Waiting
      BY <2>1, <2>2, <2>3, Stutters
    <2>4. CASE pc[t] \notin Waiting
      <3>1. MutexStatus[t] = "outside" /\ MutexStatus'[t] = "waiting"
        BY <2>1, <2>2, <2>4 DEF MutexStatus
      <3>2. AsMutex!Request(t)
        BY <2>1, <3>1, StatusOf DEF AsMutex!Request
      <3> QED
        BY <3>2 DEF AsMutex!Next
    <2> QED
      BY <2>3, <2>4
  <1>2. ASSUME NEW t \in Thread, Marks(t) PROVE [AsMutex!Next]_(AsMutex!vars)
    <2>1. \A u \in Thread : Holding(u)' <=> Holding(u)
      BY <1>2 DEF Marks, Frame
    <2>2. \A u \in Thread : pc'[u] \in Waiting <=> pc[u] \in Waiting
      BY <1>2 DEF Marks, Frame, Waiting
    <2> QED
      BY <2>1, <2>2, Stutters
  <1>3. ASSUME NEW t \in Thread, Takes(t) PROVE [AsMutex!Next]_(AsMutex!vars)
    <2>1. /\ \A u \in Thread \ {t} : Holding(u)' <=> Holding(u)
          /\ \A u \in Thread \ {t} : pc'[u] \in Waiting <=> pc[u] \in Waiting
      BY <1>3 DEF Takes, Frame
    <2>2. \A u \in Thread : ~Holding(u)
      BY <1>3 DEF Takes, MutualExclusion
    <2>3. Holding(t)'
      BY <1>3 DEF Takes
    <2>4. AsMutex!Free /\ MutexStatus[t] \in {"outside", "waiting"}
      BY <2>2 DEF AsMutex!Free, MutexStatus
    <2>5. MutexStatus'[t] = "holding"
      BY <2>3 DEF MutexStatus
    <2>6. AsMutex!Acquire(t)
      BY <2>1, <2>4, <2>5, StatusOf DEF AsMutex!Acquire
    <2> QED
      BY <2>6 DEF AsMutex!Next
  <1>4. ASSUME NEW t \in Thread, Keeps(t) PROVE [AsMutex!Next]_(AsMutex!vars)
    <2>1. \A u \in Thread : Holding(u)' <=> Holding(u)
      BY <1>4 DEF Keeps, Frame
    <2>2. \A u \in Thread : pc'[u] \in Waiting <=> pc[u] \in Waiting
      BY <1>4 DEF Keeps, Frame, Waiting
    <2> QED
      BY <2>1, <2>2, Stutters
  <1>5. ASSUME NEW t \in Thread, Drops(t) PROVE [AsMutex!Next]_(AsMutex!vars)
    <2>1. /\ \A u \in Thread \ {t} : Holding(u)' <=> Holding(u)
          /\ \A u \in Thread \ {t} : pc'[u] \in Waiting <=> pc[u] \in Waiting
      BY <1>5 DEF Drops, Frame
    <2>2. Holding(t) /\ ~Holding(t)' /\ pc'[t] \notin Waiting
      BY <1>5 DEF Drops, Waiting
    <2>3. MutexStatus[t] = "holding" /\ MutexStatus'[t] = "outside"
      BY <2>2 DEF MutexStatus
    <2>4. AsMutex!Release(t)
      BY <2>1, <2>3, StatusOf DEF AsMutex!Release
    <2> QED
      BY <2>4 DEF AsMutex!Next
  <1>6. ASSUME NEW t \in Thread, LockBucket(t) PROVE [AsMutex!Next]_(AsMutex!vars)
    <2>1. \A u \in Thread : Holding(u)' <=> Holding(u)
      BY <1>6 DEF LockBucket
    <2>2. \A u \in Thread : pc'[u] \in Waiting <=> pc[u] \in Waiting
      BY <1>6 DEF LockBucket, Waiting
    <2> QED
      BY <2>1, <2>2, Stutters
  <1>7. ASSUME NEW t \in Thread, Validate(t) PROVE [AsMutex!Next]_(AsMutex!vars)
    <2>1. \A u \in Thread : Holding(u)' <=> Holding(u)
      BY <1>7 DEF Validate, Continue
    <2>2. \A u \in Thread : pc'[u] \in Waiting <=> pc[u] \in Waiting
      BY <1>7 DEF Validate, Continue, Waiting
    <2> QED
      BY <2>1, <2>2, Stutters
  <1>8. ASSUME NEW t \in Thread, Enqueue(t) PROVE [AsMutex!Next]_(AsMutex!vars)
    <2>1. token[t] = "none"
      BY <1>8, EnqueueFacts
    <2>2. \A u \in Thread : Holding(u)' <=> Holding(u)
      BY <1>8, <2>1 DEF Enqueue
    <2>3. \A u \in Thread : pc'[u] \in Waiting <=> pc[u] \in Waiting
      BY <1>8 DEF Enqueue, Waiting
    <2> QED
      BY <2>2, <2>3, Stutters
  <1>9. ASSUME NEW t \in Thread, Park(t) PROVE [AsMutex!Next]_(AsMutex!vars)
    <2>1. /\ pc[t] \in Waiting
          /\ \A u \in Thread \ {t} : pc'[u] = pc[u] /\ token'[u] = token[u]
      BY <1>9 DEF Park, Acquired, Continue, Waiting
    <2>2. CASE t \in address
      <3>1. Goto(t, "asleep") /\ UNCHANGED token
        BY <1>9, <2>2 DEF Park
      <3>2. \A u \in Thread : Holding(u)' <=> Holding(u)
        BY <1>9, <3>1 DEF Park
      <3>3. \A u \in Thread : pc'[u] \in Waiting <=> pc[u] \in Waiting
        BY <1>9, <3>1 DEF Park, Waiting
      <3> QED
        BY <3>2, <3>3, Stutters
    <2>3. CASE t \notin address /\ token[t] = "DirectHandoff"
      <3>1. Goto(t, "critical")
        BY <1>9, <2>3 DEF Park, Acquired
      <3>2. Holding(t) /\ Holding(t)'
        BY <1>9, <2>3, <3>1 DEF Park
      <3>3. MutexStatus' = MutexStatus
        BY <2>1, <3>2 DEF MutexStatus
      <3> QED
        BY <3>3 DEF AsMutex!vars
    <2>4. CASE t \notin address /\ token[t] # "DirectHandoff"
      <3>1. Goto(t, "lockSlow")
        BY <1>9, <2>4 DEF Park, Continue
      <3>2. \A u \in Thread : Holding(u)' <=> Holding(u)
        BY <1>9, <2>1, <2>4, <3>1 DEF Park
      <3>3. \A u \in Thread : pc'[u] \in Waiting <=> pc[u] \in Waiting
        BY <2>1, <3>1 DEF Waiting
      <3> QED
        BY <3>2, <3>3, Stutters
    <2> QED
      BY <2>2, <2>3, <2>4
  <1>10. ASSUME NEW t \in Thread, SpuriousWakeup(t) PROVE [AsMutex!Next]_(AsMutex!vars)
    <2>1. \A u \in Thread : Holding(u)' <=> Holding(u)
      BY <1>10 DEF SpuriousWakeup
    <2>2. \A u \in Thread : pc'[u] \in Waiting <=> pc[u] \in Waiting
      BY <1>10 DEF SpuriousWakeup, Waiting
    <2> QED
      BY <2>1, <2>2, Stutters
  <1>11. ASSUME NEW t \in Thread, UnparkOne(t) PROVE [AsMutex!Next]_(AsMutex!vars)
    <2>1. \A u \in Thread : Holding(u)' <=> Holding(u)
      BY <1>11 DEF UnparkOne
    <2>2. \A u \in Thread : pc'[u] \in Waiting <=> pc[u] \in Waiting
      BY <1>11 DEF UnparkOne, Waiting
    <2> QED
      BY <2>1, <2>2, Stutters
  <1>12. ASSUME NEW t \in Thread, Dequeue(t) PROVE [AsMutex!Next]_(AsMutex!vars)
    <2>1. \A u \in Thread : Holding(u)' <=> Holding(u)
      BY <1>12 DEF Dequeue
    <2>2. \A u \in Thread : pc'[u] \in Waiting <=> pc[u] \in Waiting
      BY <1>12 DEF Dequeue, Waiting
    <2> QED
      BY <2>1, <2>2, Stutters
  <1>13. ASSUME NEW t \in Thread, Callback(t) PROVE [AsMutex!Next]_(AsMutex!vars)
    <2>1. /\ pc[t] = "callback" /\ Holding(t)
          /\ \A u \in Thread : pc'[u] \in Waiting <=> pc[u] \in Waiting
      BY <1>13 DEF Callback, AfterUnlock, Waiting
    <2>2. pc[t] \notin Waiting
      BY <2>1 DEF Waiting
    <2>3. \A u \in Thread : Holding(u) => u = t
      BY <2>1 DEF MutualExclusion
    <2>4. pc'[t] \notin {"critical", "park", "asleep"} \cup Releasing
      BY <1>13 DEF Callback, AfterUnlock
    <2>5. \A u \in Thread \ {t} : pc'[u] = pc[u]
      BY <1>13 DEF Callback
    <2>6. CASE target[t] # Nil /\ fairness[t] = "Fair"
      <3>1. target[t] \in Thread /\ target[t] # t /\ Parked(target[t])
        BY <1>13, <2>1, <2>6 DEF IInv, TargetFacts, Unparking, NobodyForgotten
      <3>2. \A u \in Thread : Holding(u)' <=> u = target[t]
        BY <1>13, <2>3, <2>4, <2>5, <2>6, <3>1 DEF Callback
      <3>3. MutexStatus[t] = "holding" /\ MutexStatus[target[t]] = "waiting"
        BY <2>1, <2>3, <3>1 DEF MutexStatus, Waiting
      <3>4. MutexStatus' = [MutexStatus EXCEPT ![t] = "outside", ![target[t]] = "holding"]
        BY <2>1, <2>2, <2>3, <3>1, <3>2 DEF MutexStatus
      <3>5. AsMutex!Handoff(t, target[t])
        BY <3>3, <3>4 DEF AsMutex!Handoff
      <3> QED
        BY <3>1, <3>5 DEF AsMutex!Next
    <2>7. CASE ~(target[t] # Nil /\ fairness[t] = "Fair")
      <3>1. \A u \in Thread : ~Holding(u)'
        BY <1>13, <2>3, <2>4, <2>5, <2>7 DEF Callback
      <3>2. MutexStatus[t] = "holding"
        BY <2>1 DEF MutexStatus
      <3>3. MutexStatus' = [MutexStatus EXCEPT ![t] = "outside"]
        BY <2>1, <2>2, <2>3, <3>1 DEF MutexStatus
      <3>4. AsMutex!Release(t)
        BY <3>2, <3>3 DEF AsMutex!Release
      <3> QED
        BY <3>4 DEF AsMutex!Next
    <2> QED
      BY <2>6, <2>7
  <1>14. ASSUME NEW t \in Thread, ClearAddress(t) PROVE [AsMutex!Next]_(AsMutex!vars)
    <2>1. \A u \in Thread : Holding(u)' <=> Holding(u)
      BY <1>14 DEF ClearAddress
    <2>2. \A u \in Thread : pc'[u] \in Waiting <=> pc[u] \in Waiting
      BY <1>14 DEF ClearAddress, Waiting
    <2> QED
      BY <2>1, <2>2, Stutters
  <1>15. ASSUME NEW t \in Thread, Signal(t) PROVE [AsMutex!Next]_(AsMutex!vars)
    <2>1. AfterUnlock(t) \in {"idle", "relock"} /\ target[t] \in Thread
      BY <1>15 DEF Signal, AfterUnlock, IInv, TargetFacts, Waking
    <2>2. \A u \in Thread : Holding(u)' <=> Holding(u)
      BY <1>15, <2>1 DEF Signal
    <2>3. \A u \in Thread : pc'[u] \in Waiting <=> pc[u] \in Waiting
      BY <1>15, <2>1 DEF Signal, Waiting
    <2> QED
      BY <2>2, <2>3, Stutters
  <1>16. CASE UNCHANGED vars
    BY <1>16 DEF vars, AsMutex!vars, MutexStatus
  <1> QED
    BY NextKinds, <1>1, <1>2, <1>3, <1>4, <1>5, <1>6, <1>7, <1>8,
       <1>9, <1>10, <1>11, <1>12, <1>13, <1>14, <1>15, <1>16 DEF Kind

\* Lock is a mutex with direct handoff: every behaviour of lock(), tryLock(),
\* unlock(), unlockFairly() and safepoint(), slow paths included, is one of Mutex.
THEOREM LockIsMutex == Spec => ImplementsMutex
  <1>1. Init => AsMutex!Init
    BY DEF Init, AsMutex!Init, MutexStatus, Holding, Parked, Releasing, Waiting
  <1> QED
    BY <1>1, Invariance, StepRefines, PTL DEF Spec, ImplementsMutex, AsMutex!Spec

\* Nobody but the unlocker itself leaves its callback, and a target that leaves
\* it behind is asleep or about to sleep, with the lock in its token.
LEMMA FairStep ==
  ASSUME IInv, [Next]_vars, NEW t \in Thread,
         pc[t] = "callback", target[t] # Nil, fairness[t] = "Fair", pc'[t] # "callback"
  PROVE  Holding(target[t])' /\ isHeldBit \in m_byte'
  <1> USE DEF Goto
  <1>1. Callback(t)
    <2>1. PICK u \in Thread : Kind(u)
      BY NextKinds DEF vars
    <2>2. CASE u = t
      BY <2>1, <2>2 DEF Kind, Moves, Marks, Takes, Keeps, Drops, Trying, Outside, Inside,
            LockBucket, Validate, Enqueue, Park, SpuriousWakeup, UnparkOne, Dequeue,
            ClearAddress, Signal
    <2>3. CASE u # t
      <3>1. pc'[t] = pc[t]
        BY <2>1, <2>3 DEF Kind, Moves, Marks, Takes, Keeps, Drops, LockBucket, Validate, Enqueue,
              Park, Acquired, Continue, SpuriousWakeup, UnparkOne, Dequeue, Callback,
              ClearAddress, Signal, IInv, TypeOK
      <3> QED
        BY <3>1
    <2> QED
      BY <2>2, <2>3
  <1>2. target[t] \in Thread /\ target[t] # t /\ Parked(target[t])
    BY DEF IInv, TypeOK, TargetFacts, Unparking, NobodyForgotten, Parked
  <1>3. /\ target' = target /\ m_byte' = m_byte
        /\ pc'[target[t]] = pc[target[t]] /\ token'[target[t]] = "DirectHandoff"
    BY <1>1, <1>2 DEF Callback, IInv, TypeOK, unlockLocals
  <1>4. isHeldBit \in m_byte
    BY DEF IInv, MutualExclusion, Holding, Releasing
  <1> QED
    BY <1>2, <1>3, <1>4 DEF Holding, Parked

\* Once unlockFairly() or a safepoint has dequeued a thread, the lock goes to
\* that thread and to no other.
THEOREM LockHandsOver == Spec => FairUnlockHandsOver
  <1>1. IInv /\ [Next]_vars
          => [\A t \in Thread :
                pc[t] = "callback" /\ target[t] # Nil /\ fairness[t] = "Fair" /\ pc'[t] # "callback"
                    => Holding(target[t])' /\ isHeldBit \in m_byte']_vars
    BY FairStep
  <1> QED
    BY <1>1, Invariance, PTL DEF Spec, FairUnlockHandsOver
=============================================================================
