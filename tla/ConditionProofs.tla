--------------------------- MODULE ConditionProofs ---------------------------
(***************************************************************************)
(* For any number of threads and with or without timeouts, the byte of a   *)
(* Condition is never false while a thread is queued that no notifyAll()   *)
(* is about to unpark, although notifyAll() clears it without a lock; no   *)
(* notification is lost, and a waiter is queued or in the hands of one     *)
(* notifier.  The readers and writers of a ReadWriteLock, which wait on a  *)
(* Condition, exclude each other and are not stranded by its one           *)
(* notification.                                                           *)
(***************************************************************************)
EXTENDS Condition, ReadWriteLockState, FiniteSetTheorems, SequenceTheorems, TLAPS

USE NilAssumption, FiniteAssumption, MaxItemsAssumption, TimeoutsAssumption, CollisionsAssumption

\* What the queue operations of the ParkingLot keep: threads.
LEMMA QueueOps ==
  ASSUME NEW q \in Seq(Thread), NEW t \in Thread
  PROVE  /\ Append(q, t) \in Seq(Thread)
         /\ q # <<>> => Head(q) \in Thread /\ Tail(q) \in Seq(Thread)
         /\ \A i \in 1 .. Len(q) : SubSeq(q, 1, i - 1) \o SubSeq(q, i + 1, Len(q)) \in Seq(Thread)
         /\ <<t>> \in Seq(Thread) /\ <<>> \in Seq(Thread)
  OBVIOUS

\* Nobody is queued and nobody notifies.
LEMMA InitIInv == Init => IInv
  BY DEF Init, IInv, TypeOK, HasWaitersTruthful, BucketInv, PC, Checking, Parking,
         Notifying, HasWaiters

\* Every step of every thread keeps the types.
LEMMA NextTypeOK == TypeOK /\ [Next]_vars => TypeOK'
  <1> SUFFICES ASSUME TypeOK, [Next]_vars PROVE TypeOK'
    OBVIOUS
  <1> USE DEF TypeOK, PC, Checking, Parking, Notifying, Goto, parkingVars
  <1>1. ASSUME NEW t \in Thread, Consume(t) PROVE TypeOK'
    BY <1>1 DEF Consume
  <1>2. ASSUME NEW t \in Thread, LockMutex(t) PROVE TypeOK'
    BY <1>2 DEF LockMutex
  <1>3. ASSUME NEW t \in Thread, Predicate(t) PROVE TypeOK'
    <2>1. CASE Take(t)
      <3>1. items' \in 0 .. MaxItems
        BY <2>1 DEF Take
      <3> QED
        BY <1>3, <2>1, <3>1 DEF Predicate, Take
    <2>2. CASE ~Take(t)
      BY <1>3, <2>2 DEF Predicate
    <2> QED
      BY <2>1, <2>2
  <1>4. ASSUME NEW t \in Thread, LastPredicate(t) PROVE TypeOK'
    <2>1. CASE Take(t)
      <3>1. items' \in 0 .. MaxItems
        BY <2>1 DEF Take
      <3> QED
        BY <1>4, <2>1, <3>1 DEF LastPredicate, Take
    <2>2. CASE ~Take(t)
      BY <1>4, <2>2 DEF LastPredicate
    <2> QED
      BY <2>1, <2>2
  <1>5. ASSUME NEW t \in Thread, Validate(t) PROVE TypeOK'
    BY <1>5 DEF Validate
  <1>6. ASSUME NEW t \in Thread, Enqueue(t) PROVE TypeOK'
    BY <1>6, QueueOps DEF Enqueue
  <1>7. ASSUME NEW t \in Thread, BeforeSleep(t) PROVE TypeOK'
    BY <1>7 DEF BeforeSleep
  <1>8. ASSUME NEW t \in Thread, Park(t) PROVE TypeOK'
    BY <1>8 DEF Park
  <1>9. ASSUME NEW t \in Thread, TimedOut(t) PROVE TypeOK'
    <2>1. queue' \in Seq(Thread)
      <3>1. CASE queue' = queue
        BY <3>1
      <3>2. CASE queue' # queue
        <4>1. PICK i \in 1 .. Len(queue) :
                 queue' = SubSeq(queue, 1, i - 1) \o SubSeq(queue, i + 1, Len(queue))
          BY <1>9, <3>2 DEF TimedOut
        <4> QED
          BY <4>1, QueueOps
      <3> QED
        BY <3>1, <3>2
    <2> QED
      BY <1>9, <2>1 DEF TimedOut
  <1>10. ASSUME NEW t \in Thread, AwaitUnparker(t) PROVE TypeOK'
    BY <1>10 DEF AwaitUnparker
  <1>11. ASSUME NEW t \in Thread, NotifyOne(t) PROVE TypeOK'
    BY <1>11 DEF NotifyOne, Notified
  <1>12. ASSUME NEW t \in Thread, UnparkOne(t) PROVE TypeOK'
    <2>1. queue' \in Seq(Thread)
      BY <1>12, QueueOps DEF UnparkOne
    <2>2. targets' \in [Thread -> Seq(Thread)]
      <3>1. CASE queue # <<>>
        <4>1. <<Head(queue)>> \in Seq(Thread)
          BY <3>1, QueueOps
        <4> QED
          BY <1>12, <3>1, <4>1 DEF UnparkOne
      <3>2. CASE queue = <<>>
        BY <1>12, <3>2 DEF UnparkOne
      <3> QED
        BY <3>1, <3>2
    <2>3. more' \in SUBSET Thread
      BY <1>12 DEF UnparkOne
    <2> QED
      BY <1>12, <2>1, <2>2, <2>3 DEF UnparkOne
  <1>13. ASSUME NEW t \in Thread, Callback(t) PROVE TypeOK'
    BY <1>13 DEF Callback
  <1>14. ASSUME NEW t \in Thread, NotifyAll(t) PROVE TypeOK'
    BY <1>14 DEF NotifyAll, Notified
  <1>15. ASSUME NEW t \in Thread, ClearHasWaiters(t) PROVE TypeOK'
    BY <1>15 DEF ClearHasWaiters
  <1>16. ASSUME NEW t \in Thread, UnparkAll(t) PROVE TypeOK'
    BY <1>16, QueueOps DEF UnparkAll
  <1>17. ASSUME NEW t \in Thread, Wake(t) PROVE TypeOK'
    <2>1. targets' \in [Thread -> Seq(Thread)]
      <3>1. CASE targets[t] # <<>>
        <4>1. Tail(targets[t]) \in Seq(Thread)
          BY <3>1, QueueOps
        <4> QED
          BY <1>17, <3>1, <4>1 DEF Wake
      <3>2. CASE targets[t] = <<>>
        BY <1>17, <3>2 DEF Wake
      <3> QED
        BY <3>1, <3>2
    <2> QED
      BY <1>17, <2>1 DEF Wake, Notified
  <1>18. ASSUME NEW t \in Thread, NEW call \in {"notifyOne", "notifyAll"}, Produce(t, call) PROVE TypeOK'
    BY <1>18 DEF Produce
  <1>19. CASE UNCHANGED vars
    BY <1>19 DEF vars
  <1> QED
    BY <1>1, <1>2, <1>3, <1>4, <1>5, <1>6, <1>7, <1>8, <1>9, <1>10,
       <1>11, <1>12, <1>13, <1>14, <1>15, <1>16, <1>17, <1>18, <1>19
    DEF Next, WaitStep, NotifyStep

\* Every step keeps the byte truthful, and what the holder of the bucket lock
\* knows true.
LEMMA NextTruthful ==
  IInv /\ [Next]_vars => HasWaitersTruthful' /\ BucketInv'
  <1> SUFFICES ASSUME IInv, [Next]_vars PROVE HasWaitersTruthful' /\ BucketInv'
    OBVIOUS
  <1> USE DEF IInv, TypeOK, HasWaitersTruthful, BucketInv, HasWaiters, PC, Checking,
              Parking, Notifying, Goto, parkingVars
  <1>1. ASSUME NEW t \in Thread, Consume(t) PROVE HasWaitersTruthful' /\ BucketInv'
    BY <1>1 DEF Consume
  <1>2. ASSUME NEW t \in Thread, LockMutex(t) PROVE HasWaitersTruthful' /\ BucketInv'
    BY <1>2 DEF LockMutex
  <1>3. ASSUME NEW t \in Thread, Predicate(t) PROVE HasWaitersTruthful' /\ BucketInv'
    BY <1>3 DEF Predicate, Take
  <1>4. ASSUME NEW t \in Thread, LastPredicate(t) PROVE HasWaitersTruthful' /\ BucketInv'
    BY <1>4 DEF LastPredicate, Take
  <1>5. ASSUME NEW t \in Thread, Validate(t) PROVE HasWaitersTruthful' /\ BucketInv'
    BY <1>5 DEF Validate
  <1>6. ASSUME NEW t \in Thread, Enqueue(t) PROVE HasWaitersTruthful' /\ BucketInv'
    BY <1>6 DEF Enqueue
  <1>7. ASSUME NEW t \in Thread, BeforeSleep(t) PROVE HasWaitersTruthful' /\ BucketInv'
    BY <1>7 DEF BeforeSleep
  <1>8. ASSUME NEW t \in Thread, Park(t) PROVE HasWaitersTruthful' /\ BucketInv'
    BY <1>8 DEF Park
  <1>9. ASSUME NEW t \in Thread, TimedOut(t) PROVE HasWaitersTruthful' /\ BucketInv'
    <2>1. queue' # <<>> => queue # <<>>
      <3>1. Len(<<>>) = 0
        OBVIOUS
      <3>2. queue' = queue \/ \E i \in 1 .. Len(queue) : TRUE
        BY <1>9 DEF TimedOut
      <3> QED
        BY <3>1, <3>2
    <2> QED
      BY <1>9, <2>1 DEF TimedOut
  <1>10. ASSUME NEW t \in Thread, AwaitUnparker(t) PROVE HasWaitersTruthful' /\ BucketInv'
    BY <1>10 DEF AwaitUnparker
  <1>11. ASSUME NEW t \in Thread, NotifyOne(t) PROVE HasWaitersTruthful' /\ BucketInv'
    BY <1>11 DEF NotifyOne, Notified
  <1>12. ASSUME NEW t \in Thread, UnparkOne(t) PROVE HasWaitersTruthful' /\ BucketInv'
    BY <1>12 DEF UnparkOne
  <1>13. ASSUME NEW t \in Thread, Callback(t) PROVE HasWaitersTruthful' /\ BucketInv'
    BY <1>13 DEF Callback
  <1>14. ASSUME NEW t \in Thread, NotifyAll(t) PROVE HasWaitersTruthful' /\ BucketInv'
    BY <1>14 DEF NotifyAll, Notified
  <1>15. ASSUME NEW t \in Thread, ClearHasWaiters(t) PROVE HasWaitersTruthful' /\ BucketInv'
    BY <1>15 DEF ClearHasWaiters
  <1>16. ASSUME NEW t \in Thread, UnparkAll(t) PROVE HasWaitersTruthful' /\ BucketInv'
    BY <1>16 DEF UnparkAll
  <1>17. ASSUME NEW t \in Thread, Wake(t) PROVE HasWaitersTruthful' /\ BucketInv'
    BY <1>17 DEF Wake, Notified
  <1>18. ASSUME NEW t \in Thread, NEW call \in {"notifyOne", "notifyAll"}, Produce(t, call) PROVE HasWaitersTruthful' /\ BucketInv'
    BY <1>18 DEF Produce
  <1>19. CASE UNCHANGED vars
    BY <1>19 DEF vars
  <1> QED
    BY <1>1, <1>2, <1>3, <1>4, <1>5, <1>6, <1>7, <1>8, <1>9, <1>10,
       <1>11, <1>12, <1>13, <1>14, <1>15, <1>16, <1>17, <1>18, <1>19
    DEF Next, WaitStep, NotifyStep

\* Every step keeps the client's lock with the waiter around its wait.
LEMMA NextLockHeld ==
  TypeOK /\ LockHeldAroundWait /\ [Next]_vars => LockHeldAroundWait'
  <1> SUFFICES ASSUME TypeOK, LockHeldAroundWait, [Next]_vars PROVE LockHeldAroundWait'
    OBVIOUS
  <1> USE DEF TypeOK, LockHeldAroundWait, PC, Checking, Parking, Notifying, Goto,
              parkingVars
  <1>1. ASSUME NEW t \in Thread, Consume(t) PROVE LockHeldAroundWait'
    BY <1>1 DEF Consume
  <1>2. ASSUME NEW t \in Thread, LockMutex(t) PROVE LockHeldAroundWait'
    BY <1>2 DEF LockMutex
  <1>3. ASSUME NEW t \in Thread, Predicate(t) PROVE LockHeldAroundWait'
    BY <1>3 DEF Predicate, Take
  <1>4. ASSUME NEW t \in Thread, LastPredicate(t) PROVE LockHeldAroundWait'
    BY <1>4 DEF LastPredicate, Take
  <1>5. ASSUME NEW t \in Thread, Validate(t) PROVE LockHeldAroundWait'
    BY <1>5 DEF Validate
  <1>6. ASSUME NEW t \in Thread, Enqueue(t) PROVE LockHeldAroundWait'
    BY <1>6 DEF Enqueue
  <1>7. ASSUME NEW t \in Thread, BeforeSleep(t) PROVE LockHeldAroundWait'
    BY <1>7 DEF BeforeSleep
  <1>8. ASSUME NEW t \in Thread, Park(t) PROVE LockHeldAroundWait'
    BY <1>8 DEF Park
  <1>9. ASSUME NEW t \in Thread, TimedOut(t) PROVE LockHeldAroundWait'
    BY <1>9 DEF TimedOut
  <1>10. ASSUME NEW t \in Thread, AwaitUnparker(t) PROVE LockHeldAroundWait'
    BY <1>10 DEF AwaitUnparker
  <1>11. ASSUME NEW t \in Thread, NotifyOne(t) PROVE LockHeldAroundWait'
    BY <1>11 DEF NotifyOne, Notified
  <1>12. ASSUME NEW t \in Thread, UnparkOne(t) PROVE LockHeldAroundWait'
    BY <1>12 DEF UnparkOne
  <1>13. ASSUME NEW t \in Thread, Callback(t) PROVE LockHeldAroundWait'
    BY <1>13 DEF Callback
  <1>14. ASSUME NEW t \in Thread, NotifyAll(t) PROVE LockHeldAroundWait'
    BY <1>14 DEF NotifyAll, Notified
  <1>15. ASSUME NEW t \in Thread, ClearHasWaiters(t) PROVE LockHeldAroundWait'
    BY <1>15 DEF ClearHasWaiters
  <1>16. ASSUME NEW t \in Thread, UnparkAll(t) PROVE LockHeldAroundWait'
    BY <1>16 DEF UnparkAll
  <1>17. ASSUME NEW t \in Thread, Wake(t) PROVE LockHeldAroundWait'
    BY <1>17 DEF Wake, Notified
  <1>18. ASSUME NEW t \in Thread, NEW call \in {"notifyOne", "notifyAll"}, Produce(t, call) PROVE LockHeldAroundWait'
    BY <1>18 DEF Produce
  <1>19. CASE UNCHANGED vars
    BY <1>19 DEF vars
  <1> QED
    BY <1>1, <1>2, <1>3, <1>4, <1>5, <1>6, <1>7, <1>8, <1>9, <1>10,
       <1>11, <1>12, <1>13, <1>14, <1>15, <1>16, <1>17, <1>18, <1>19
    DEF Next, WaitStep, NotifyStep

\* The fast paths of notifyOne() and notifyAll() overlook nobody.
THEOREM ConditionTruthful == Spec => []HasWaitersTruthful
  <1>1. IInv /\ [Next]_vars => IInv'
    BY NextTypeOK, NextTruthful DEF IInv
  <1>2. IInv => HasWaitersTruthful
    BY DEF IInv
  <1> QED
    BY InitIInv, <1>1, <1>2, PTL DEF Spec

\* A waiter is queued before it gives up the client's lock, and has the lock
\* again whenever it looks at the predicate.
THEOREM ConditionHoldsLock == Spec => []LockHeldAroundWait
  <1>1. Init => TypeOK /\ LockHeldAroundWait
    BY InitIInv DEF Init, IInv, LockHeldAroundWait
  <1>2. TypeOK /\ LockHeldAroundWait /\ [Next]_vars => (TypeOK /\ LockHeldAroundWait)'
    BY NextTypeOK, NextLockHeld
  <1> QED
    BY <1>1, <1>2, PTL DEF Spec

-----------------------------------------------------------------------------
(* No notification is lost *)

\* What Bucket::enqueue() does to the queue.
LEMMA AppendFacts ==
  ASSUME NEW q \in Seq(Thread), NEW t \in Thread, t \notin Elements(q), Distinct(q)
  PROVE  /\ Elements(Append(q, t)) = Elements(q) \cup {t}
         /\ Distinct(Append(q, t))
  BY DEF Elements, Distinct

\* What Bucket::genericDequeue() does to it for one thread.
LEMMA TailFacts ==
  ASSUME NEW q \in Seq(Thread), q # <<>>, Distinct(q)
  PROVE  /\ Head(q) \in Elements(q)
         /\ Elements(Tail(q)) = Elements(q) \ {Head(q)}
         /\ Distinct(Tail(q))
  <1>1. Len(q) \in Nat /\ Len(q) > 0 /\ Head(q) = q[1]
    OBVIOUS
  <1>2. Len(Tail(q)) = Len(q) - 1 /\ \A i \in 1 .. Len(q) - 1 : Tail(q)[i] = q[i + 1]
    OBVIOUS
  <1>3. Elements(Tail(q)) \subseteq Elements(q) \ {Head(q)}
    BY <1>1, <1>2 DEF Elements, Distinct
  <1>4. ASSUME NEW x \in Elements(q) \ {Head(q)} PROVE x \in Elements(Tail(q))
    <2>1. PICK i \in 1 .. Len(q) : x = q[i] /\ i # 1
      BY <1>1, <1>4 DEF Elements
    <2>2. i - 1 \in 1 .. Len(Tail(q)) /\ Tail(q)[i - 1] = x
      BY <1>1, <1>2, <2>1
    <2> QED
      BY <2>2 DEF Elements
  <1>5. Distinct(Tail(q))
    BY <1>1, <1>2 DEF Distinct
  <1>6. Head(q) \in Elements(q)
    BY <1>1 DEF Elements
  <1> QED
    BY <1>3, <1>4, <1>5, <1>6

\* The queue without its k-th thread.
LEMMA RemoveAt ==
  ASSUME NEW q \in Seq(Thread), NEW k \in 1 .. Len(q)
  PROVE  LET r == SubSeq(q, 1, k - 1) \o SubSeq(q, k + 1, Len(q)) IN
         /\ Len(r) = Len(q) - 1
         /\ \A i \in 1 .. k - 1 : r[i] = q[i]
         /\ \A i \in k .. Len(q) - 1 : r[i] = q[i + 1]
  <1> DEFINE a == SubSeq(q, 1, k - 1)
             b == SubSeq(q, k + 1, Len(q))
             r == a \o b
  <1>1. Len(q) \in Nat
    OBVIOUS
  <1>2. /\ a \in Seq(Thread) /\ Len(a) = k - 1
        /\ \A i \in 1 .. k - 1 : a[i] = q[i]
    BY SubSeqProperties
  <1>3. /\ b \in Seq(Thread) /\ Len(b) = Len(q) - k
        /\ \A i \in 1 .. Len(q) - k : b[i] = q[k + i]
    BY SubSeqProperties
  <1>4. /\ Len(r) = Len(a) + Len(b)
        /\ \A i \in 1 .. Len(a) + Len(b) : r[i] = IF i <= Len(a) THEN a[i] ELSE b[i - Len(a)]
    BY <1>2, <1>3, ConcatProperties
  <1> HIDE DEF a, b, r
  <1>5. Len(r) = Len(q) - 1
    BY <1>1, <1>2, <1>3, <1>4
  <1>6. ASSUME NEW i \in 1 .. k - 1 PROVE r[i] = q[i]
    BY <1>1, <1>2, <1>3, <1>4
  <1>7. ASSUME NEW i \in k .. Len(q) - 1 PROVE r[i] = q[i + 1]
    <2>1. i - (k - 1) \in 1 .. Len(q) - k /\ ~(i <= k - 1) /\ i \in 1 .. Len(a) + Len(b)
      BY <1>1, <1>2, <1>3
    <2>2. r[i] = b[i - (k - 1)]
      BY <1>2, <1>4, <2>1
    <2>3. b[i - (k - 1)] = q[k + (i - (k - 1))] /\ k + (i - (k - 1)) = i + 1
      BY <1>1, <1>3, <2>1
    <2> QED
      BY <2>2, <2>3
  <1> QED
    BY <1>5, <1>6, <1>7 DEF a, b, r

\* What dequeue() does to the queue for a thread that timed out.
LEMMA RemoveFacts ==
  ASSUME NEW q \in Seq(Thread), Distinct(q), NEW k \in 1 .. Len(q), NEW r,
         Len(r) = Len(q) - 1,
         \A i \in 1 .. k - 1 : r[i] = q[i],
         \A i \in k .. Len(q) - 1 : r[i] = q[i + 1]
  PROVE  /\ Elements(r) = Elements(q) \ {q[k]}
         /\ Distinct(r)
  <1>1. Len(q) \in Nat
    OBVIOUS
  <1>2. Elements(r) \subseteq Elements(q) \ {q[k]}
    <2> SUFFICES ASSUME NEW i \in 1 .. Len(r) PROVE r[i] \in Elements(q) \ {q[k]}
      BY DEF Elements
    <2>1. \E j \in 1 .. Len(q) : j # k /\ r[i] = q[j]
      <3>1. CASE i < k
        BY <1>1, <3>1
      <3>2. CASE i >= k
        BY <1>1, <3>2
      <3> QED
        BY <1>1, <3>1, <3>2
    <2> QED
      BY <2>1 DEF Elements, Distinct
  <1>3. ASSUME NEW x \in Elements(q) \ {q[k]} PROVE x \in Elements(r)
    <2>1. PICK i \in 1 .. Len(q) : x = q[i] /\ i # k
      BY <1>3 DEF Elements
    <2>2. CASE i < k
      <3>1. i \in 1 .. Len(r) /\ r[i] = x
        BY <1>1, <2>1, <2>2
      <3> QED
        BY <3>1 DEF Elements
    <2>3. CASE i > k
      <3>1. i - 1 \in 1 .. Len(r) /\ r[i - 1] = x
        BY <1>1, <2>1, <2>3
      <3> QED
        BY <3>1 DEF Elements
    <2> QED
      BY <1>1, <2>1, <2>2, <2>3
  <1>4. Distinct(r)
    <2> SUFFICES ASSUME NEW i \in 1 .. Len(r), NEW j \in 1 .. Len(r), r[i] = r[j], i < j
                 PROVE FALSE
      BY <1>1 DEF Distinct
    <2> DEFINE old(m) == IF m < k THEN m ELSE m + 1
    <2>1. ASSUME NEW m \in 1 .. Len(r) PROVE old(m) \in 1 .. Len(q) /\ r[m] = q[old(m)]
      <3>0. m \in Nat /\ k \in Nat /\ Len(q) \in Nat /\ 1 <= m /\ m <= Len(q) - 1
        BY <1>1
      <3>1. CASE m < k
        <4>1. m \in 1 .. k - 1
          BY <3>0, <3>1
        <4> QED
          BY <1>1, <3>0, <3>1, <4>1
      <3>2. CASE m >= k
        <4>1. m \in k .. Len(q) - 1
          BY <3>0, <3>2
        <4> QED
          BY <1>1, <3>0, <3>2, <4>1
      <3> QED
        BY <3>0, <3>1, <3>2
    <2>2. old(i) # old(j)
      BY <1>1
    <2> QED
      BY <2>1, <2>2 DEF Distinct
  <1> QED
    BY <1>2, <1>3, <1>4

\* Who is on a queue is a thread, and nobody is on an empty one.
LEMMA Members ==
  ASSUME NEW q \in Seq(Thread)
  PROVE  /\ Elements(q) \subseteq Thread
         /\ q = <<>> <=> Elements(q) = {}
         /\ Elements(<<>>) = {} /\ Distinct(<<>>)
         /\ \A t \in Thread : Elements(<<t>>) = {t} /\ Distinct(<<t>>)
  <1>1. q # <<>> => 1 \in 1 .. Len(q)
    OBVIOUS
  <1>2. Len(<<>>) = 0 /\ 1 .. 0 = {}
    OBVIOUS
  <1>3. \A t \in Thread : Len(<<t>>) = 1 /\ <<t>>[1] = t /\ 1 .. 1 = {1}
    OBVIOUS
  <1>4. Elements(q) \subseteq Thread
    BY DEF Elements
  <1>5. Elements(<<>>) = {} /\ Distinct(<<>>)
    BY <1>2 DEF Elements, Distinct
  <1>6. \A t \in Thread : Elements(<<t>>) = {t} /\ Distinct(<<t>>)
    BY <1>3 DEF Elements, Distinct
  <1>7. q # <<>> => q[1] \in Elements(q)
    BY <1>1 DEF Elements
  <1> QED
    BY <1>4, <1>5, <1>6, <1>7

\* A step that leaves queue, addresses and targets alone, and whose thread does
\* not leave the parking or the notifying it is in.
LEMMA HandsUntouched ==
  ASSUME TypeOK, WaitersAccounted, UNCHANGED <<queue, address, targets>>, NEW t \in Thread,
         \A u \in Thread \ {t} : pc'[u] = pc[u],
         t \in address => pc'[t] \in Parking,
         targets[t] # <<>> => pc'[t] \in {"callback", "wake"}
  PROVE  WaitersAccounted'
  BY DEF TypeOK, WaitersAccounted, QueuedOnce, AddressAccounted, TargetsHeld, OneUnparker, Queued

\* parkConditionally() appends a thread that is neither queued nor chosen.
LEMMA EnqueueHands ==
  ASSUME TypeOK, WaitersAccounted, NEW t \in Thread, Enqueue(t)
  PROVE  WaitersAccounted'
  <1>1. t \notin address /\ t \notin Queued
    BY DEF Enqueue, WaitersAccounted, QueuedOnce, AddressAccounted, Parking
  <1>2. queue \in Seq(Thread) /\ queue' = Append(queue, t) /\ address' = address \cup {t}
    BY DEF Enqueue, TypeOK
  <1>3. Queued' = Queued \cup {t} /\ Distinct(queue')
    BY <1>1, <1>2, AppendFacts DEF WaitersAccounted, QueuedOnce, Queued
  <1>4. targets' = targets /\ \A u \in Thread : pc'[u] = IF u = t THEN "beforeSleep" ELSE pc[u]
    BY DEF Enqueue, TypeOK, Goto
  <1>5. \A u \in Thread : targets[u] # <<>> => u # t
    BY DEF Enqueue, WaitersAccounted, TargetsHeld
  <1>6. AddressAccounted'
    <2> SUFFICES ASSUME NEW x \in address'
                 PROVE  /\ pc'[x] \in Parking
                        /\ x \in Queued' \/ \E u \in Thread : x \in Elements(targets'[u])
      BY DEF AddressAccounted
    <2>1. CASE x = t
      BY <1>3, <1>4, <2>1 DEF Parking
    <2>2. CASE x # t
      BY <1>2, <1>3, <1>4, <2>2 DEF WaitersAccounted, AddressAccounted, TypeOK
    <2> QED
      BY <2>1, <2>2
  <1>7. TargetsHeld'
    BY <1>1, <1>2, <1>3, <1>4, <1>5 DEF WaitersAccounted, TargetsHeld
  <1>8. OneUnparker'
    BY <1>4 DEF WaitersAccounted, OneUnparker
  <1>9. QueuedOnce'
    BY <1>2, <1>3 DEF WaitersAccounted, QueuedOnce
  <1> QED
    BY <1>6, <1>7, <1>8, <1>9 DEF WaitersAccounted

\* A thread that timed out takes itself off the queue, or is left to its unparker.
LEMMA TimedOutHands ==
  ASSUME TypeOK, WaitersAccounted, NEW t \in Thread, TimedOut(t)
  PROVE  WaitersAccounted'
  <1>1. pc[t] = "timedOut" /\ targets[t] = <<>> /\ targets' = targets
    BY DEF TimedOut, WaitersAccounted, TargetsHeld
  <1>2. CASE t \notin Queued
    <2>1. \A i \in 1 .. Len(queue) : queue[i] # t
      BY <1>2 DEF Queued, Elements
    <2>2. UNCHANGED <<queue, address>> /\ pc' = [pc EXCEPT ![t] = "awaitUnparker"]
      BY <2>1 DEF TimedOut, Goto
    <2> QED
      BY <1>1, <2>2, HandsUntouched DEF TypeOK, Parking
  <1>3. CASE t \in Queued
    <2>1. PICK k \in 1 .. Len(queue) :
             queue[k] = t /\ queue' = SubSeq(queue, 1, k - 1) \o SubSeq(queue, k + 1, Len(queue))
      BY <1>3 DEF TimedOut
    <2>2. address' = address \ {t} /\ pc' = [pc EXCEPT ![t] = "lockTimedOut"]
      BY <1>3 DEF TimedOut, Goto
    <2>3. queue \in Seq(Thread) /\ Distinct(queue)
      BY DEF TypeOK, WaitersAccounted, QueuedOnce
    <2>4. Queued' = Queued \ {t} /\ Distinct(queue')
      BY <2>1, <2>3, RemoveAt, RemoveFacts DEF Queued
    <2>5. \A u \in Thread : pc'[u] = IF u = t THEN "lockTimedOut" ELSE pc[u]
      BY <2>2 DEF TypeOK
    <2>6. \A u \in Thread : t \notin Elements(targets[u])
      BY <1>3 DEF WaitersAccounted, TargetsHeld
    <2> QED
      BY <1>1, <2>2, <2>4, <2>5, <2>6 DEF WaitersAccounted, QueuedOnce, AddressAccounted, TargetsHeld, OneUnparker, TypeOK
  <1> QED
    BY <1>2, <1>3

\* notifyOne() takes the first thread off the queue into its hands.
LEMMA UnparkOneHands ==
  ASSUME TypeOK, WaitersAccounted, NEW t \in Thread, UnparkOne(t)
  PROVE  WaitersAccounted'
  <1>1. pc[t] = "unparkOne" /\ targets[t] = <<>> /\ address' = address
    BY DEF UnparkOne, WaitersAccounted, TargetsHeld
  <1>2. \A u \in Thread : pc'[u] = IF u = t THEN "callback" ELSE pc[u]
    BY DEF UnparkOne, TypeOK, Goto
  <1>3. t \notin address
    BY <1>1 DEF WaitersAccounted, AddressAccounted, Parking
  <1>4. CASE queue = <<>>
    <2>1. UNCHANGED <<queue, targets>>
      BY <1>4 DEF UnparkOne
    <2> QED
      BY <1>1, <1>2, <1>3, <2>1, HandsUntouched
  <1>5. CASE queue # <<>>
    <2>1. queue \in Seq(Thread) /\ Distinct(queue) /\ Head(queue) \in Thread
      BY <1>5, QueueOps DEF TypeOK, WaitersAccounted, QueuedOnce
    <2>2. queue' = Tail(queue) /\ targets' = [targets EXCEPT ![t] = <<Head(queue)>>]
      BY <1>5 DEF UnparkOne
    <2>3. Queued' = Queued \ {Head(queue)} /\ Head(queue) \in Queued /\ Distinct(queue')
      BY <1>5, <2>1, <2>2, TailFacts DEF Queued
    <2>4. \A u \in Thread : targets'[u] = IF u = t THEN <<Head(queue)>> ELSE targets[u]
      BY <2>2 DEF TypeOK
    <2>5. Elements(<<Head(queue)>>) = {Head(queue)} /\ Distinct(<<Head(queue)>>) /\ Elements(<<>>) = {}
      BY <2>1, Members
    <2>6. \A u \in Thread : Elements(targets'[u]) =
             IF u = t THEN {Head(queue)} ELSE Elements(targets[u])
      BY <2>4, <2>5
    <2>7. \A u \in Thread : Head(queue) \notin Elements(targets[u])
      BY <2>3 DEF WaitersAccounted, TargetsHeld
    <2>8. AddressAccounted'
      <3> SUFFICES ASSUME NEW x \in address
                   PROVE  /\ pc'[x] \in Parking
                          /\ x \in Queued' \/ \E u \in Thread : x \in Elements(targets'[u])
        BY <1>1 DEF AddressAccounted
      <3>1. x \in Thread /\ pc'[x] \in Parking
        BY <1>2, <1>3 DEF WaitersAccounted, AddressAccounted, TypeOK
      <3>2. CASE x \in Queued
        <4>1. x = Head(queue) => x \in Elements(targets'[t])
          BY <2>6
        <4>2. x # Head(queue) => x \in Queued'
          BY <2>3, <3>2
        <4> QED
          BY <3>1, <4>1, <4>2
      <3>3. CASE x \notin Queued
        <4>1. PICK u \in Thread : x \in Elements(targets[u])
          BY <3>3 DEF WaitersAccounted, AddressAccounted
        <4>2. u # t
          BY <1>1, <2>5, <4>1
        <4> QED
          BY <2>6, <3>1, <4>1, <4>2
      <3> QED
        BY <3>1, <3>2, <3>3
    <2>9. TargetsHeld'
      BY <1>1, <1>2, <2>3, <2>4, <2>5, <2>6 DEF WaitersAccounted, QueuedOnce, TargetsHeld
    <2>10. OneUnparker'
      BY <2>6, <2>7 DEF WaitersAccounted, OneUnparker
    <2>11. QueuedOnce'
      BY <1>1, <2>3 DEF WaitersAccounted, QueuedOnce
    <2> QED
      BY <2>8, <2>9, <2>10, <2>11 DEF WaitersAccounted
  <1> QED
    BY <1>4, <1>5

\* notifyAll() takes all of them.
LEMMA UnparkAllHands ==
  ASSUME TypeOK, WaitersAccounted, NEW t \in Thread, UnparkAll(t)
  PROVE  WaitersAccounted'
  <1>1. pc[t] = "unparkAll" /\ targets[t] = <<>> /\ address' = address /\ queue' = <<>>
    BY DEF UnparkAll, WaitersAccounted, TargetsHeld
  <1>2. \A u \in Thread : /\ pc'[u] = IF u = t THEN "wake" ELSE pc[u]
                         /\ targets'[u] = IF u = t THEN queue ELSE targets[u]
    BY DEF UnparkAll, TypeOK, Goto
  <1>3. t \notin address
    BY <1>1 DEF WaitersAccounted, AddressAccounted, Parking
  <1>4. queue \in Seq(Thread) /\ Elements(<<>>) = {} /\ Distinct(<<>>)
    BY Members DEF TypeOK
  <1>5. Queued' = {} /\ Distinct(queue')
    BY <1>1, <1>4 DEF Queued
  <1>6. \A u \in Thread : Elements(targets'[u]) = IF u = t THEN Queued ELSE Elements(targets[u])
    BY <1>2 DEF Queued
  <1>7. Elements(targets[t]) = {}
    BY <1>1, <1>4
  <1>8. \A x \in address' : pc'[x] \in Parking /\ \E u \in Thread : x \in Elements(targets'[u])
    <2> SUFFICES ASSUME NEW x \in address
                 PROVE  pc'[x] \in Parking /\ \E u \in Thread : x \in Elements(targets'[u])
      BY <1>1
    <2>1. pc'[x] \in Parking
      BY <1>2, <1>3 DEF WaitersAccounted, AddressAccounted, TypeOK
    <2>2. CASE x \in Queued
      BY <1>6, <2>1, <2>2
    <2>3. CASE x \notin Queued
      <3>1. PICK u \in Thread : x \in Elements(targets[u])
        BY <2>3 DEF WaitersAccounted, AddressAccounted
      <3> QED
        BY <1>6, <1>7, <2>1, <3>1
    <2> QED
      BY <2>2, <2>3
  <1>9. \A u \in Thread : /\ targets'[u] # <<>> => pc'[u] \in {"callback", "wake"}
                         /\ Distinct(targets'[u])
    BY <1>2 DEF WaitersAccounted, QueuedOnce, TargetsHeld
  <1> QED
    BY <1>1, <1>5, <1>6, <1>8, <1>9 DEF WaitersAccounted, QueuedOnce, AddressAccounted, TargetsHeld, OneUnparker

\* A notifier lets go of the threads in its hands one by one.
LEMMA WakeHands ==
  ASSUME TypeOK, WaitersAccounted, NEW t \in Thread, Wake(t)
  PROVE  WaitersAccounted'
  <1>1. pc[t] = "wake" /\ queue' = queue
    BY DEF Wake
  <1>2. t \notin address
    BY <1>1 DEF WaitersAccounted, AddressAccounted, Parking
  <1>3. CASE targets[t] = <<>>
    <2>1. UNCHANGED <<address, targets>> /\ \A u \in Thread \ {t} : pc'[u] = pc[u]
      BY <1>3 DEF Wake, Notified, Goto, TypeOK
    <2> QED
      BY <1>1, <1>2, <1>3, <2>1, HandsUntouched
  <1>4. CASE targets[t] # <<>>
    <2> DEFINE x == Head(targets[t])
    <2>1. /\ pc' = pc /\ address' = address \ {x}
          /\ targets' = [targets EXCEPT ![t] = Tail(@)]
      BY <1>4 DEF Wake
    <2>2. \A u \in Thread : targets'[u] = IF u = t THEN Tail(targets[t]) ELSE targets[u]
      BY <2>1 DEF TypeOK
    <2>3. targets[t] \in Seq(Thread) /\ Distinct(targets[t])
      BY DEF TypeOK, WaitersAccounted, TargetsHeld
    <2>4. /\ x \in Elements(targets[t])
          /\ Elements(Tail(targets[t])) = Elements(targets[t]) \ {x}
          /\ Distinct(Tail(targets[t]))
      BY <1>4, <2>3, TailFacts
    <2> HIDE DEF x
    <2>5. \A u \in Thread : Elements(targets'[u]) = Elements(targets[u]) \ {x}
      BY <2>2, <2>4 DEF WaitersAccounted, OneUnparker
    <2>6. Queued' = Queued /\ x \notin Queued
      BY <1>1, <2>4 DEF Queued, WaitersAccounted, TargetsHeld
    <2>7. TargetsHeld'
      BY <1>1, <2>1, <2>2, <2>4, <2>5, <2>6 DEF WaitersAccounted, TargetsHeld
    <2>8. AddressAccounted'
      BY <2>1, <2>5, <2>6 DEF WaitersAccounted, AddressAccounted
    <2>9. OneUnparker'
      <3> SUFFICES ASSUME NEW u \in Thread, NEW v \in Thread,
                          NEW y \in Elements(targets'[u]), y \in Elements(targets'[v])
                   PROVE  u = v
        BY DEF OneUnparker
      <3>1. y \in Elements(targets[u]) /\ y \in Elements(targets[v])
        BY <2>5
      <3> QED
        BY <3>1 DEF WaitersAccounted, OneUnparker
    <2>10. QueuedOnce'
      BY <1>1, <2>1, <2>6 DEF WaitersAccounted, QueuedOnce
    <2> QED
      BY <2>7, <2>8, <2>9, <2>10 DEF WaitersAccounted
  <1> QED
    BY <1>3, <1>4

\* Where a thread is that has an address, or threads in its hands.
LEMMA HandsPC ==
  ASSUME WaitersAccounted, NEW t \in Thread
  PROVE  /\ t \in address => pc[t] \in Parking
         /\ targets[t] # <<>> => pc[t] \in {"callback", "wake"}
  BY DEF WaitersAccounted, AddressAccounted, TargetsHeld

\* Every step of every thread keeps track of the threads that have an address.
LEMMA NextHands ==
  TypeOK /\ WaitersAccounted /\ [Next]_vars => WaitersAccounted'
  <1> SUFFICES ASSUME TypeOK, WaitersAccounted, [Next]_vars PROVE WaitersAccounted'
    OBVIOUS
  <1> USE DEF PC, Goto, parkingVars
  <1>1. ASSUME NEW t \in Thread, Consume(t) PROVE WaitersAccounted'
    BY <1>1, HandsPC, HandsUntouched DEF TypeOK, Parking, Consume
  <1>2. ASSUME NEW t \in Thread, LockMutex(t) PROVE WaitersAccounted'
    BY <1>2, HandsPC, HandsUntouched DEF TypeOK, Parking, LockMutex
  <1>3. ASSUME NEW t \in Thread, Predicate(t) PROVE WaitersAccounted'
    BY <1>3, HandsPC, HandsUntouched DEF TypeOK, Parking, Predicate, Take
  <1>4. ASSUME NEW t \in Thread, LastPredicate(t) PROVE WaitersAccounted'
    BY <1>4, HandsPC, HandsUntouched DEF TypeOK, Parking, LastPredicate, Take
  <1>5. ASSUME NEW t \in Thread, Validate(t) PROVE WaitersAccounted'
    BY <1>5, HandsPC, HandsUntouched DEF TypeOK, Parking, Validate
  <1>6. ASSUME NEW t \in Thread, Enqueue(t) PROVE WaitersAccounted'
    BY <1>6, EnqueueHands
  <1>7. ASSUME NEW t \in Thread, BeforeSleep(t) PROVE WaitersAccounted'
    BY <1>7, HandsPC, HandsUntouched DEF TypeOK, Parking, BeforeSleep
  <1>8. ASSUME NEW t \in Thread, Park(t) PROVE WaitersAccounted'
    BY <1>8, HandsPC, HandsUntouched DEF TypeOK, Parking, Park
  <1>9. ASSUME NEW t \in Thread, TimedOut(t) PROVE WaitersAccounted'
    BY <1>9, TimedOutHands
  <1>10. ASSUME NEW t \in Thread, AwaitUnparker(t) PROVE WaitersAccounted'
    BY <1>10, HandsPC, HandsUntouched DEF TypeOK, Parking, AwaitUnparker
  <1>11. ASSUME NEW t \in Thread, NotifyOne(t) PROVE WaitersAccounted'
    BY <1>11, HandsPC, HandsUntouched DEF TypeOK, Parking, NotifyOne, Notified
  <1>12. ASSUME NEW t \in Thread, UnparkOne(t) PROVE WaitersAccounted'
    BY <1>12, UnparkOneHands
  <1>13. ASSUME NEW t \in Thread, Callback(t) PROVE WaitersAccounted'
    BY <1>13, HandsPC, HandsUntouched DEF TypeOK, Parking, Callback
  <1>14. ASSUME NEW t \in Thread, NotifyAll(t) PROVE WaitersAccounted'
    BY <1>14, HandsPC, HandsUntouched DEF TypeOK, Parking, NotifyAll, Notified
  <1>15. ASSUME NEW t \in Thread, ClearHasWaiters(t) PROVE WaitersAccounted'
    BY <1>15, HandsPC, HandsUntouched DEF TypeOK, Parking, ClearHasWaiters
  <1>16. ASSUME NEW t \in Thread, UnparkAll(t) PROVE WaitersAccounted'
    BY <1>16, UnparkAllHands
  <1>17. ASSUME NEW t \in Thread, Wake(t) PROVE WaitersAccounted'
    BY <1>17, WakeHands
  <1>18. ASSUME NEW t \in Thread, NEW call \in {"notifyOne", "notifyAll"}, Produce(t, call) PROVE WaitersAccounted'
    BY <1>18, HandsPC, HandsUntouched DEF TypeOK, Parking, Produce
  <1>19. CASE UNCHANGED vars
    BY <1>19 DEF vars, WaitersAccounted, QueuedOnce, AddressAccounted, TargetsHeld, OneUnparker, Queued
  <1> QED
    BY <1>1, <1>2, <1>3, <1>4, <1>5, <1>6, <1>7, <1>8, <1>9, <1>10,
       <1>11, <1>12, <1>13, <1>14, <1>15, <1>16, <1>17, <1>18, <1>19
    DEF Next, WaitStep, NotifyStep

\* Every step keeps those who queue up without an item in sight: the items do
\* not change while one of them has the client's lock.
LEMMA NextEmptyHanded ==
  TypeOK /\ LockHeldAroundWait /\ EmptyHanded /\ [Next]_vars => EmptyHanded'
  <1> SUFFICES ASSUME TypeOK, LockHeldAroundWait, EmptyHanded, [Next]_vars PROVE EmptyHanded'
    OBVIOUS
  <1> USE DEF TypeOK, LockHeldAroundWait, EmptyHanded, PC, Goto, parkingVars
  <1>1. ASSUME NEW t \in Thread, Consume(t) PROVE EmptyHanded'
    BY <1>1 DEF Consume
  <1>2. ASSUME NEW t \in Thread, LockMutex(t) PROVE EmptyHanded'
    BY <1>2 DEF LockMutex
  <1>3. ASSUME NEW t \in Thread, Predicate(t) PROVE EmptyHanded'
    BY <1>3 DEF Predicate, Take
  <1>4. ASSUME NEW t \in Thread, LastPredicate(t) PROVE EmptyHanded'
    BY <1>4 DEF LastPredicate, Take
  <1>5. ASSUME NEW t \in Thread, Validate(t) PROVE EmptyHanded'
    BY <1>5 DEF Validate
  <1>6. ASSUME NEW t \in Thread, Enqueue(t) PROVE EmptyHanded'
    BY <1>6 DEF Enqueue
  <1>7. ASSUME NEW t \in Thread, BeforeSleep(t) PROVE EmptyHanded'
    BY <1>7 DEF BeforeSleep
  <1>8. ASSUME NEW t \in Thread, Park(t) PROVE EmptyHanded'
    BY <1>8 DEF Park
  <1>9. ASSUME NEW t \in Thread, TimedOut(t) PROVE EmptyHanded'
    BY <1>9 DEF TimedOut
  <1>10. ASSUME NEW t \in Thread, AwaitUnparker(t) PROVE EmptyHanded'
    BY <1>10 DEF AwaitUnparker
  <1>11. ASSUME NEW t \in Thread, NotifyOne(t) PROVE EmptyHanded'
    BY <1>11 DEF NotifyOne, Notified
  <1>12. ASSUME NEW t \in Thread, UnparkOne(t) PROVE EmptyHanded'
    BY <1>12 DEF UnparkOne
  <1>13. ASSUME NEW t \in Thread, Callback(t) PROVE EmptyHanded'
    BY <1>13 DEF Callback
  <1>14. ASSUME NEW t \in Thread, NotifyAll(t) PROVE EmptyHanded'
    BY <1>14 DEF NotifyAll, Notified
  <1>15. ASSUME NEW t \in Thread, ClearHasWaiters(t) PROVE EmptyHanded'
    BY <1>15 DEF ClearHasWaiters
  <1>16. ASSUME NEW t \in Thread, UnparkAll(t) PROVE EmptyHanded'
    BY <1>16 DEF UnparkAll
  <1>17. ASSUME NEW t \in Thread, Wake(t) PROVE EmptyHanded'
    BY <1>17 DEF Wake, Notified
  <1>18. ASSUME NEW t \in Thread, NEW call \in {"notifyOne", "notifyAll"}, Produce(t, call) PROVE EmptyHanded'
    BY <1>18 DEF Produce
  <1>19. CASE UNCHANGED vars
    BY <1>19 DEF vars
  <1> QED
    BY <1>1, <1>2, <1>3, <1>4, <1>5, <1>6, <1>7, <1>8, <1>9, <1>10,
       <1>11, <1>12, <1>13, <1>14, <1>15, <1>16, <1>17, <1>18, <1>19
    DEF Next, WaitStep, NotifyStep

\* How sets of threads compare that differ by one thread or two.
LEMMA Counting ==
  ASSUME NEW A \in SUBSET Thread, NEW B \in SUBSET Thread, NEW t \in Thread, NEW x \in Thread
  PROVE  /\ Cardinality(A) \in Nat /\ Cardinality(B) \in Nat
         /\ A \subseteq B => Cardinality(A) <= Cardinality(B)
         /\ A \ {t} \subseteq B => Cardinality(A) <= Cardinality(B) + 1
         /\ A \ {t} \subseteq B /\ x \in B /\ x \notin A => Cardinality(A) <= Cardinality(B)
         /\ A \subseteq B /\ x \in B /\ x \notin A => Cardinality(A) + 1 <= Cardinality(B)
  <1>1. \A C \in SUBSET Thread : IsFiniteSet(C) /\ Cardinality(C) \in Nat
    BY FS_Subset, FS_CardinalityType
  <1>2. \A C, D \in SUBSET Thread : C \subseteq D => Cardinality(C) <= Cardinality(D)
    BY <1>1, FS_Subset
  <1>3. \A C \in SUBSET Thread, y \in Thread :
           y \notin C => Cardinality(C \cup {y}) = Cardinality(C) + 1
    BY <1>1, FS_AddElement
  <1>4. \A C, D \in SUBSET Thread, y \in Thread :
           C \subseteq D /\ y \in D /\ y \notin C => Cardinality(C) + 1 <= Cardinality(D)
    <2> SUFFICES ASSUME NEW C \in SUBSET Thread, NEW D \in SUBSET Thread, NEW y \in Thread,
                        C \subseteq D, y \in D, y \notin C
                 PROVE  Cardinality(C) + 1 <= Cardinality(D)
      OBVIOUS
    <2>1. C \cup {y} \subseteq D /\ C \cup {y} \in SUBSET Thread
      OBVIOUS
    <2>2. Cardinality(C \cup {y}) <= Cardinality(D)
      BY <1>2, <2>1
    <2> QED
      BY <1>3, <2>2
  <1>5. Cardinality(A) <= Cardinality(A \ {t}) + 1
    <2>1. CASE t \in A
      <3>1. A = (A \ {t}) \cup {t} /\ A \ {t} \in SUBSET Thread /\ t \notin A \ {t}
        BY <2>1
      <3>2. Cardinality((A \ {t}) \cup {t}) = Cardinality(A \ {t}) + 1
        BY <1>3, <3>1
      <3> QED
        BY <1>1, <3>1, <3>2
    <2>2. CASE t \notin A
      <3>1. A = A \ {t}
        BY <2>2
      <3> QED
        BY <1>1, <3>1
    <2> QED
      BY <2>1, <2>2
  <1>6. A \ {t} \in SUBSET Thread
    OBVIOUS
  <1>7. A \ {t} \subseteq B => Cardinality(A \ {t}) <= Cardinality(B)
    BY <1>2, <1>6
  <1>8. A \ {t} \subseteq B /\ x \in B /\ x \notin A => Cardinality(A \ {t}) + 1 <= Cardinality(B)
    BY <1>4, <1>6
  <1> QED
    BY <1>1, <1>2, <1>4, <1>5, <1>6, <1>7, <1>8

\* Nobody but the thread that takes a step, and whoever it queues, loses credit.
LEMMA OthersKeepCredit ==
  ASSUME NEW t \in Thread, \A u \in Thread \ {t} : pc'[u] = pc[u], Queued' \subseteq Queued
  PROVE  Credit \ {t} \subseteq Credit'
  BY DEF Credit

\* A step that keeps the items and its thread's credit.
LEMMA CoveredUntouched ==
  ASSUME TypeOK, ItemsCovered, NEW t \in Thread,
         \A u \in Thread \ {t} : pc'[u] = pc[u],
         pc[t] # "unparkAll", items' = items,
         Queued' \subseteq Queued, queue' # <<>> => queue # <<>>,
         t \in Credit => t \in Credit'
  PROVE  ItemsCovered'
  <1>1. Credit \subseteq Credit' /\ Credit \in SUBSET Thread /\ Credit' \in SUBSET Thread
    <2>1. Credit \ {t} \subseteq Credit'
      BY OthersKeepCredit
    <2>2. Credit \in SUBSET Thread /\ Credit' \in SUBSET Thread
      BY DEF Credit
    <2> QED
      BY <2>1, <2>2
  <1>2. /\ Cardinality(Credit) \in Nat /\ Cardinality(Credit') \in Nat
        /\ Cardinality(Credit) <= Cardinality(Credit')
    BY <1>1, Counting
  <1>3. ASSUME queue' # <<>>, \A u \in Thread : pc'[u] # "unparkAll" PROVE items' <= Cardinality(Credit')
    <2>1. items <= Cardinality(Credit)
      BY <1>3 DEF ItemsCovered
    <2> QED
      BY <1>2, <2>1 DEF TypeOK
  <1> QED
    BY <1>3 DEF ItemsCovered

\* Without items there is nothing to cover.
LEMMA NothingToCover ==
  ASSUME items' = 0
  PROVE  ItemsCovered'
  <1>1. Credit' \in SUBSET Thread
    BY DEF Credit
  <1>2. Cardinality(Credit') \in Nat
    BY <1>1, FS_Subset, FS_CardinalityType
  <1> QED
    BY <1>2 DEF ItemsCovered

\* A consumer gives up its credit with the item it takes.
LEMMA TakeCovered ==
  ASSUME TypeOK, ItemsCovered, NEW t \in Thread, Take(t), pc[t] # "unparkAll",
         UNCHANGED queue
  PROVE  ItemsCovered'
  <1>1. items \in Nat /\ items' = items - 1 /\ \A u \in Thread \ {t} : pc'[u] = pc[u]
    BY DEF Take, Goto, TypeOK
  <1>2. Credit \ {t} \subseteq Credit'
    BY <1>1, OthersKeepCredit DEF Queued
  <1>3. Credit \in SUBSET Thread /\ Credit' \in SUBSET Thread
    BY DEF Credit
  <1>4. /\ Cardinality(Credit) \in Nat /\ Cardinality(Credit') \in Nat
        /\ Cardinality(Credit) <= Cardinality(Credit') + 1
    BY <1>2, <1>3, Counting
  <1>5. ASSUME queue' # <<>>, \A u \in Thread : pc'[u] # "unparkAll" PROVE items' <= Cardinality(Credit')
    <2>1. items <= Cardinality(Credit)
      BY <1>1, <1>5 DEF ItemsCovered
    <2> QED
      BY <1>1, <1>4, <2>1
  <1> QED
    BY <1>5 DEF ItemsCovered

\* A producer answers for the item it adds.
LEMMA ProduceCovered ==
  ASSUME TypeOK, ItemsCovered, NEW t \in Thread, NEW call \in {"notifyOne", "notifyAll"},
         Produce(t, call)
  PROVE  ItemsCovered'
  <1>1. /\ items \in Nat /\ items' = items + 1 /\ queue' = queue
        /\ pc[t] = "idle" /\ pc'[t] = call
        /\ \A u \in Thread \ {t} : pc'[u] = pc[u]
    BY DEF Produce, Goto, TypeOK, parkingVars
  <1>2. Credit \ {t} \subseteq Credit'
    BY <1>1, OthersKeepCredit DEF Queued
  <1>3. t \in Credit' /\ t \notin Credit /\ Credit \in SUBSET Thread /\ Credit' \in SUBSET Thread
    BY <1>1 DEF Credit, Checking, Parking
  <1>4. Credit \subseteq Credit'
    BY <1>2, <1>3
  <1>5. /\ Cardinality(Credit) \in Nat /\ Cardinality(Credit') \in Nat
        /\ Cardinality(Credit) + 1 <= Cardinality(Credit')
    BY <1>3, <1>4, Counting
  <1>6. ASSUME queue' # <<>>, \A u \in Thread : pc'[u] # "unparkAll" PROVE items' <= Cardinality(Credit')
    <2>1. items <= Cardinality(Credit)
      BY <1>1, <1>6 DEF ItemsCovered
    <2> QED
      BY <1>1, <1>5, <2>1
  <1> QED
    BY <1>6 DEF ItemsCovered

\* notifyOne() hands its credit to the thread that it dequeues.
LEMMA UnparkOneCovered ==
  ASSUME TypeOK, WaitersAccounted, ItemsCovered, NEW t \in Thread, UnparkOne(t)
  PROVE  ItemsCovered'
  <1>1. CASE queue = <<>>
    BY <1>1 DEF UnparkOne, ItemsCovered
  <1>2. CASE queue # <<>>
    <2> DEFINE x == Head(queue)
    <2>1. /\ items \in Nat /\ items' = items /\ queue' = Tail(queue)
          /\ pc[t] = "unparkOne" /\ pc' = [pc EXCEPT ![t] = "callback"]
      BY <1>2 DEF UnparkOne, Goto, TypeOK
    <2>2. x \in Queued /\ Queued' = Queued \ {x}
      BY <1>2, <2>1, TailFacts DEF TypeOK, WaitersAccounted, QueuedOnce, Queued
    <2> HIDE DEF x
    <2>3. x \in Thread /\ pc[x] \in Parking /\ x # t
      BY <2>1, <2>2 DEF WaitersAccounted, QueuedOnce, AddressAccounted, TypeOK, Parking
    <2>4. pc'[x] \in Parking /\ \A u \in Thread \ {t} : pc'[u] = pc[u]
      BY <2>1, <2>3 DEF TypeOK
    <2>5. x \notin Credit /\ x \in Credit'
      BY <2>2, <2>3, <2>4 DEF Credit, Checking, Parking
    <2>6. Credit \ {t} \subseteq Credit'
      BY <2>2, <2>4, OthersKeepCredit
    <2>7. Credit \in SUBSET Thread /\ Credit' \in SUBSET Thread
      BY DEF Credit
    <2>8. /\ Cardinality(Credit) \in Nat /\ Cardinality(Credit') \in Nat
          /\ Cardinality(Credit) <= Cardinality(Credit')
      BY <2>3, <2>5, <2>6, <2>7, Counting
    <2>9. ASSUME \A u \in Thread : pc'[u] # "unparkAll" PROVE items' <= Cardinality(Credit')
      <3>1. items <= Cardinality(Credit)
        BY <1>2, <2>1, <2>4, <2>9 DEF ItemsCovered
      <3> QED
        BY <2>1, <2>8, <3>1
    <2> QED
      BY <2>9 DEF ItemsCovered
  <1> QED
    BY <1>1, <1>2

\* A notifier that sees no waiters gives its credit up: nobody is queued, or a
\* notifyAll() is about to empty the queue.
LEMMA NoWaitersCovered ==
  ASSUME TypeOK, HasWaitersTruthful, ~HasWaiters, NEW t \in Thread, pc[t] # "unparkAll",
         \A u \in Thread \ {t} : pc'[u] = pc[u], queue' = queue
  PROVE  ItemsCovered'
  BY DEF HasWaitersTruthful, ItemsCovered

\* A thread that timed out looks at the items itself once more.
LEMMA TimedOutCovered ==
  ASSUME TypeOK, WaitersAccounted, ItemsCovered, NEW t \in Thread, TimedOut(t)
  PROVE  ItemsCovered'
  <1>1. /\ pc[t] = "timedOut" /\ items' = items
        /\ \A u \in Thread \ {t} : pc'[u] = pc[u]
    BY DEF TimedOut, TypeOK, Goto
  <1>2. CASE t \notin Queued
    <2>1. \A i \in 1 .. Len(queue) : queue[i] # t
      BY <1>2 DEF Queued, Elements
    <2>2. queue' = queue /\ pc'[t] = "awaitUnparker"
      BY <2>1 DEF TimedOut, Goto, TypeOK
    <2>3. t \in Credit'
      BY <1>2, <2>2 DEF Credit, Parking, Queued
    <2> QED
      BY <1>1, <2>2, <2>3, CoveredUntouched DEF Queued
  <1>3. CASE t \in Queued
    <2>1. PICK k \in 1 .. Len(queue) :
             queue[k] = t /\ queue' = SubSeq(queue, 1, k - 1) \o SubSeq(queue, k + 1, Len(queue))
      BY <1>3 DEF TimedOut
    <2>2. Queued' = Queued \ {t}
      BY <2>1, RemoveAt, RemoveFacts DEF Queued, TypeOK, WaitersAccounted, QueuedOnce
    <2>3. queue # <<>>
      BY <1>3, Members DEF Queued, TypeOK
    <2>4. pc'[t] = "lockTimedOut"
      BY <1>3 DEF TimedOut, Goto, TypeOK
    <2>5. t \in Credit'
      BY <2>4 DEF Credit, Checking
    <2> QED
      BY <1>1, <2>2, <2>3, <2>5, CoveredUntouched
  <1> QED
    BY <1>2, <1>3

\* Every step leaves every item to a thread of its own while anybody is queued.
LEMMA NextItemsCovered ==
  NotifyInv /\ [Next]_vars => ItemsCovered'
  <1> SUFFICES ASSUME NotifyInv, [Next]_vars PROVE ItemsCovered'
    OBVIOUS
  <1> USE DEF NotifyInv, IInv, TypeOK, PC, Checking, Parking, Notifying, Goto, parkingVars, Queued
  <1>1. ASSUME NEW t \in Thread, Consume(t) PROVE ItemsCovered'
    BY <1>1, CoveredUntouched DEF Consume, Credit
  <1>2. ASSUME NEW t \in Thread, LockMutex(t) PROVE ItemsCovered'
    BY <1>2, CoveredUntouched DEF LockMutex, Credit
  <1>3. ASSUME NEW t \in Thread, Predicate(t) PROVE ItemsCovered'
    <2>1. CASE Take(t)
      BY <1>3, <2>1, TakeCovered DEF Predicate
    <2>2. CASE ~Take(t)
      BY <1>3, <2>2, NothingToCover DEF Predicate
    <2> QED
      BY <2>1, <2>2
  <1>4. ASSUME NEW t \in Thread, LastPredicate(t) PROVE ItemsCovered'
    <2>1. CASE Take(t)
      BY <1>4, <2>1, TakeCovered DEF LastPredicate
    <2>2. CASE ~Take(t)
      BY <1>4, <2>2, NothingToCover DEF LastPredicate
    <2> QED
      BY <2>1, <2>2
  <1>5. ASSUME NEW t \in Thread, Validate(t) PROVE ItemsCovered'
    BY <1>5, CoveredUntouched DEF Validate, Credit
  <1>6. ASSUME NEW t \in Thread, Enqueue(t) PROVE ItemsCovered'
    BY <1>6, NothingToCover DEF Enqueue, EmptyHanded
  <1>7. ASSUME NEW t \in Thread, BeforeSleep(t) PROVE ItemsCovered'
    BY <1>7, CoveredUntouched DEF BeforeSleep, Credit
  <1>8. ASSUME NEW t \in Thread, Park(t) PROVE ItemsCovered'
    BY <1>8, CoveredUntouched DEF Park, Credit
  <1>9. ASSUME NEW t \in Thread, TimedOut(t) PROVE ItemsCovered'
    BY <1>9, TimedOutCovered
  <1>10. ASSUME NEW t \in Thread, AwaitUnparker(t) PROVE ItemsCovered'
    BY <1>10, CoveredUntouched DEF AwaitUnparker, Credit
  <1>11. ASSUME NEW t \in Thread, NotifyOne(t) PROVE ItemsCovered'
    <2>1. CASE HasWaiters
      BY <1>11, <2>1, CoveredUntouched DEF NotifyOne, Credit
    <2>2. CASE ~HasWaiters
      BY <1>11, <2>2, NoWaitersCovered DEF NotifyOne, Notified, IInv
    <2> QED
      BY <2>1, <2>2
  <1>12. ASSUME NEW t \in Thread, UnparkOne(t) PROVE ItemsCovered'
    BY <1>12, UnparkOneCovered
  <1>13. ASSUME NEW t \in Thread, Callback(t) PROVE ItemsCovered'
    BY <1>13, CoveredUntouched DEF Callback, Credit
  <1>14. ASSUME NEW t \in Thread, NotifyAll(t) PROVE ItemsCovered'
    <2>1. CASE HasWaiters
      BY <1>14, <2>1, CoveredUntouched DEF NotifyAll, Credit
    <2>2. CASE ~HasWaiters
      BY <1>14, <2>2, NoWaitersCovered DEF NotifyAll, Notified, IInv
    <2> QED
      BY <2>1, <2>2
  <1>15. ASSUME NEW t \in Thread, ClearHasWaiters(t) PROVE ItemsCovered'
    BY <1>15 DEF ClearHasWaiters, ItemsCovered
  <1>16. ASSUME NEW t \in Thread, UnparkAll(t) PROVE ItemsCovered'
    BY <1>16 DEF UnparkAll, ItemsCovered
  <1>17. ASSUME NEW t \in Thread, Wake(t) PROVE ItemsCovered'
    BY <1>17, CoveredUntouched DEF Wake, Credit, Notified
  <1>18. ASSUME NEW t \in Thread, NEW call \in {"notifyOne", "notifyAll"}, Produce(t, call) PROVE ItemsCovered'
    BY <1>18, ProduceCovered
  <1>19. CASE UNCHANGED vars
    BY <1>19 DEF vars, ItemsCovered, Credit
  <1> QED
    BY <1>1, <1>2, <1>3, <1>4, <1>5, <1>6, <1>7, <1>8, <1>9, <1>10,
       <1>11, <1>12, <1>13, <1>14, <1>15, <1>16, <1>17, <1>18, <1>19
    DEF Next, WaitStep, NotifyStep

\* Nobody waits and nothing was produced.
LEMMA InitNotifyInv == Init => NotifyInv
  <1> SUFFICES ASSUME Init PROVE NotifyInv
    OBVIOUS
  <1>1. IInv
    BY InitIInv
  <1>2. Queued = {} /\ Distinct(queue) /\ \A t \in Thread : Elements(targets[t]) = {} /\ Distinct(targets[t])
    <2>1. <<>> \in Seq(Thread)
      OBVIOUS
    <2> QED
      BY <2>1, Members DEF Init, Queued
  <1>3. WaitersAccounted
    BY <1>2 DEF Init, WaitersAccounted, QueuedOnce, AddressAccounted, TargetsHeld, OneUnparker
  <1>4. LockHeldAroundWait /\ EmptyHanded /\ ItemsCovered
    BY DEF Init, LockHeldAroundWait, EmptyHanded, ItemsCovered
  <1> QED
    BY <1>1, <1>3, <1>4 DEF NotifyInv

\* A thread with credit is notifying, or awake, or parked and dequeued; then its
\* unparker is notifying unless it is done with it.
LEMMA NothingLost == NotifyInv => NoLostNotification
  <1> SUFFICES ASSUME NotifyInv, items > 0, queue # <<>>
               PROVE  \E t \in Thread : \/ pc[t] \in Notifying
                                        \/ pc[t] \in Checking
                                        \/ pc[t] \in Parking /\ t \notin address
    BY DEF NoLostNotification
  <1>1. CASE \E t \in Thread : pc[t] = "unparkAll"
    BY <1>1 DEF Notifying
  <1>2. CASE \A t \in Thread : pc[t] # "unparkAll"
    <2>1. items <= Cardinality(Credit) /\ items \in Nat
      BY <1>2 DEF NotifyInv, IInv, TypeOK, ItemsCovered
    <2>2. Credit # {}
      <3> SUFFICES ASSUME Credit = {} PROVE FALSE
        OBVIOUS
      <3>1. Cardinality(Credit) = 0
        BY FS_EmptySet
      <3> QED
        BY <2>1, <3>1
    <2>3. PICK t \in Thread : t \in Credit
      BY <2>2 DEF Credit
    <2>4. CASE pc[t] \in Parking /\ t \notin Queued /\ t \in address
      <3>1. PICK u \in Thread : t \in Elements(targets[u])
        BY <2>4 DEF NotifyInv, WaitersAccounted, AddressAccounted
      <3>2. targets[u] # <<>>
        BY <3>1, Members DEF NotifyInv, IInv, TypeOK
      <3> QED
        BY <3>2 DEF NotifyInv, WaitersAccounted, TargetsHeld, Notifying
    <2>5. CASE ~(pc[t] \in Parking /\ t \notin Queued /\ t \in address)
      BY <2>3, <2>5 DEF Credit, Notifying
    <2> QED
      BY <2>4, <2>5
  <1> QED
    BY <1>1, <1>2

\* No notification is lost, to the unlocked accesses of m_hasWaiters or to a
\* timeout.
THEOREM ConditionLosesNothing == Spec => []NoLostNotification
  <1>1. NotifyInv /\ [Next]_vars => NotifyInv'
    BY NextTypeOK, NextTruthful, NextLockHeld, NextHands, NextEmptyHanded, NextItemsCovered
    DEF NotifyInv, IInv
  <1> QED
    BY InitNotifyInv, <1>1, NothingLost, PTL DEF Spec

\* A waiter is queued or in the hands of exactly one notifier, although timeouts
\* and notifications cross.
THEOREM ConditionAccounts == Spec => []WaitersAccounted
  <1>1. Init => TypeOK /\ WaitersAccounted
    BY InitNotifyInv DEF NotifyInv, IInv
  <1>2. TypeOK /\ WaitersAccounted /\ [Next]_vars => (TypeOK /\ WaitersAccounted)'
    BY NextTypeOK, NextHands
  <1> QED
    BY <1>1, <1>2, PTL DEF Spec

-----------------------------------------------------------------------------
(* ReadWriteLock, whose readers and writers wait on one Condition: its      *)
(* fields are exactly the sizes of three sets of threads; each action adds  *)
(* one thread to one of them, removes one, or leaves all three alone.       *)

CONSTANT MayWrite

RW == INSTANCE ReadWriteLock

\* The instance counts as everybody does.
LEMMA RWCardinality == \A S : RW!Cardinality(S) = Cardinality(S)
  BY DEF RW!Cardinality, Cardinality

\* What each kind of set of threads is: finite, empty when it counts nothing,
\* and one larger or smaller when a thread joins or leaves.
LEMMA RWCounting ==
    ASSUME NEW S \in SUBSET Thread, NEW t \in Thread
    PROVE  /\ Cardinality(S) \in Nat
           /\ Cardinality(S) = 0 <=> S = {}
           /\ t \notin S => Cardinality(S \cup {t}) = Cardinality(S) + 1
           /\ t \in S => Cardinality(S \ {t}) = Cardinality(S) - 1
  <1>1. IsFiniteSet(S)
    BY FiniteAssumption, FS_Subset
  <1> QED
    BY <1>1, FS_CardinalityType, FS_EmptySet, FS_AddElement, FS_RemoveElement

\* Nobody reads or writes.
LEMMA RWInit == RW!Init => RW!IInv
  <1> SUFFICES ASSUME RW!Init PROVE RW!IInv
    OBVIOUS
  <1>1. RW!Readers = {} /\ RW!Writers = {} /\ RW!WaitingWriters = {}
    BY DEF RW!Init, RW!Readers, RW!Writers, RW!WaitingWriters
  <1>2. RW!TypeOK
    BY DEF RW!Init, RW!TypeOK, RW!PC
  <1>3. RW!Exclusion /\ RW!WriterInv /\ RW!NobodyStranded
    BY <1>1 DEF RW!Init, RW!Exclusion, RW!WriterInv, RW!NobodyStranded, RW!Sleeping
  <1>4. RW!CountersTruthful
    BY <1>1, FS_EmptySet, RWCardinality DEF RW!Init, RW!CountersTruthful, RW!Locked
  <1> QED
    BY <1>2, <1>3, <1>4 DEF RW!IInv

\* The type invariant is inductive by itself.
LEMMA RWTypeOK == RW!TypeOK /\ [RW!Next]_RW!vars => RW!TypeOK'
  <1> SUFFICES ASSUME RW!TypeOK, [RW!Next]_RW!vars PROVE RW!TypeOK'
    OBVIOUS
  <1> USE DEF RW!TypeOK, RW!Goto, RW!counters, RW!PC, RW!Entering, RW!Locked, RW!Sleeping, RW!Woken
  <1>1. ASSUME NEW t \in Thread, RW!Call(t) PROVE RW!TypeOK'
    BY <1>1 DEF RW!Call
  <1>2. ASSUME NEW t \in Thread, RW!HoldLock(t) PROVE RW!TypeOK'
    BY <1>2 DEF RW!HoldLock
  <1>3. ASSUME NEW t \in Thread, RW!Resume(t) PROVE RW!TypeOK'
    BY <1>3 DEF RW!Resume
  <1>4. ASSUME NEW t \in Thread, RW!ReadCheck(t) PROVE RW!TypeOK'
    BY <1>4 DEF RW!ReadCheck
  <1>5. ASSUME NEW t \in Thread, RW!WriteCheck(t) PROVE RW!TypeOK'
    <2>1. m_writeLocked' = m_writeLocked \/ m_writeLocked' = {"writer"}
      BY <1>5 DEF RW!WriteCheck
    <2>2. m_writeLocked' \in SUBSET {"writer"}
      BY <2>1
    <2> QED
      BY <1>5, <2>2 DEF RW!WriteCheck
  <1>6. ASSUME NEW t \in Thread, RW!ReadLeave(t) PROVE RW!TypeOK'
    BY <1>6 DEF RW!ReadLeave, RW!NotifyAll
  <1>7. ASSUME NEW t \in Thread, RW!WriteLeave(t) PROVE RW!TypeOK'
    <2>1. m_writeLocked' \in SUBSET {"writer"}
      BY <1>7 DEF RW!WriteLeave
    <2> QED
      BY <1>7, <2>1 DEF RW!WriteLeave, RW!NotifyAll
  <1>8. CASE UNCHANGED RW!vars
    BY <1>8 DEF RW!vars
  <1> QED
    BY <1>1, <1>2, <1>3, <1>4, <1>5, <1>6, <1>7, <1>8 DEF RW!Next, RW!Step

-----------------------------------------------------------------------------
\* What each action does to the sets of readers, writers and waiting writers.
SameSets == RW!Readers' = RW!Readers /\ RW!Writers' = RW!Writers /\ RW!WaitingWriters' = RW!WaitingWriters

\* A call changes none of the sets.
LEMMA CallSets ==
    ASSUME RW!TypeOK, NEW t \in Thread, RW!Call(t) \/ RW!HoldLock(t) PROVE SameSets
  BY DEF RW!TypeOK, RW!Call, RW!HoldLock, RW!Goto, SameSets, RW!Readers, RW!Writers, RW!WaitingWriters

\* A woken writer is one that waits no more.
LEMMA ResumeSets ==
    ASSUME RW!TypeOK, NEW t \in Thread, RW!Resume(t)
    PROVE  /\ RW!Readers' = RW!Readers /\ RW!Writers' = RW!Writers
           /\ \/ /\ place[t] = "readWoken"
                 /\ RW!WaitingWriters' = RW!WaitingWriters
              \/ /\ place[t] = "writeWoken"
                 /\ t \in RW!WaitingWriters
                 /\ RW!WaitingWriters' = RW!WaitingWriters \ {t}
  <1> USE DEF RW!TypeOK, RW!Resume, RW!Goto
  <1>1. RW!Readers' = RW!Readers /\ RW!Writers' = RW!Writers
    BY DEF RW!Readers, RW!Writers
  <1>2. CASE place[t] = "readWoken"
    BY <1>1, <1>2 DEF RW!WaitingWriters
  <1>3. CASE place[t] = "writeWoken"
    BY <1>1, <1>3 DEF RW!WaitingWriters
  <1> QED
    BY <1>2, <1>3

\* A reader enters or goes to sleep.
LEMMA ReadCheckSets ==
    ASSUME RW!TypeOK, NEW t \in Thread, RW!ReadCheck(t)
    PROVE  /\ RW!Writers' = RW!Writers /\ RW!WaitingWriters' = RW!WaitingWriters
           /\ \/ /\ m_writeLocked # {} \/ m_numWaitingWriters # 0
                 /\ RW!Readers' = RW!Readers /\ m_numReaders' = m_numReaders
              \/ /\ m_writeLocked = {} /\ m_numWaitingWriters = 0
                 /\ t \notin RW!Readers
                 /\ RW!Readers' = RW!Readers \cup {t} /\ m_numReaders' = m_numReaders + 1
  <1> USE DEF RW!TypeOK, RW!ReadCheck, RW!Goto
  <1>1. RW!Writers' = RW!Writers /\ RW!WaitingWriters' = RW!WaitingWriters
    BY DEF RW!Writers, RW!WaitingWriters
  <1>2. CASE m_writeLocked # {} \/ m_numWaitingWriters # 0
    BY <1>1, <1>2 DEF RW!Readers
  <1>3. CASE m_writeLocked = {} /\ m_numWaitingWriters = 0
    BY <1>1, <1>3 DEF RW!Readers
  <1> QED
    BY <1>2, <1>3

\* A writer enters or goes to sleep.
LEMMA WriteCheckSets ==
    ASSUME RW!TypeOK, NEW t \in Thread, RW!WriteCheck(t)
    PROVE  /\ RW!Readers' = RW!Readers
           /\ \/ /\ m_writeLocked # {} \/ m_numReaders # 0
                 /\ t \notin RW!WaitingWriters
                 /\ RW!WaitingWriters' = RW!WaitingWriters \cup {t}
                 /\ m_numWaitingWriters' = m_numWaitingWriters + 1
                 /\ RW!Writers' = RW!Writers /\ m_writeLocked' = m_writeLocked
              \/ /\ m_writeLocked = {} /\ m_numReaders = 0
                 /\ RW!Writers' = RW!Writers \cup {t} /\ m_writeLocked' # {}
                 /\ RW!WaitingWriters' = RW!WaitingWriters
                 /\ m_numWaitingWriters' = m_numWaitingWriters
  <1> USE DEF RW!TypeOK, RW!WriteCheck, RW!Goto
  <1>1. RW!Readers' = RW!Readers
    BY DEF RW!Readers
  <1>2. CASE m_writeLocked # {} \/ m_numReaders # 0
    BY <1>1, <1>2 DEF RW!Writers, RW!WaitingWriters
  <1>3. CASE m_writeLocked = {} /\ m_numReaders = 0
    BY <1>1, <1>3 DEF RW!Writers, RW!WaitingWriters
  <1> QED
    BY <1>2, <1>3

\* A reader or a writer leaves.
LEMMA LeaveSets ==
    ASSUME RW!TypeOK, NEW t \in Thread
    PROVE  /\ RW!ReadLeave(t) => /\ t \in RW!Readers /\ RW!Readers' = RW!Readers \ {t}
                              /\ RW!Writers' = RW!Writers /\ RW!WaitingWriters' = RW!WaitingWriters
           /\ RW!WriteLeave(t) => /\ t \in RW!Writers /\ RW!Writers' = RW!Writers \ {t}
                               /\ RW!Readers' = RW!Readers /\ RW!WaitingWriters' = RW!WaitingWriters
  <1> USE DEF RW!TypeOK, RW!Goto, RW!NotifyAll, RW!Readers, RW!Writers, RW!WaitingWriters
  <1>1. ASSUME RW!ReadLeave(t)
        PROVE  /\ t \in RW!Readers /\ RW!Readers' = RW!Readers \ {t}
               /\ RW!Writers' = RW!Writers /\ RW!WaitingWriters' = RW!WaitingWriters
    BY <1>1 DEF RW!ReadLeave
  <1>2. ASSUME RW!WriteLeave(t)
        PROVE  /\ t \in RW!Writers /\ RW!Writers' = RW!Writers \ {t}
               /\ RW!Readers' = RW!Readers /\ RW!WaitingWriters' = RW!WaitingWriters
    BY <1>2 DEF RW!WriteLeave
  <1> QED
    BY <1>1, <1>2

-----------------------------------------------------------------------------
\* Every step keeps the fields equal to what they count.
LEMMA NextCounters == RW!IInv /\ [RW!Next]_RW!vars => RW!CountersTruthful'
  <1> SUFFICES ASSUME RW!IInv, [RW!Next]_RW!vars PROVE RW!CountersTruthful'
    OBVIOUS
  <1>0. RW!TypeOK /\ RW!TypeOK' /\ RW!Exclusion /\ RW!CountersTruthful
    BY RWTypeOK DEF RW!IInv
  <1>k. \A S : RW!Cardinality(S) = Cardinality(S)
    BY RWCardinality
  <1>a. \A S \in SUBSET Thread, t \in Thread :
           /\ Cardinality(S) \in Nat
           /\ Cardinality(S) = 0 <=> S = {}
           /\ t \notin S => Cardinality(S \cup {t}) = Cardinality(S) + 1
           /\ t \in S => Cardinality(S \ {t}) = Cardinality(S) - 1
    BY RWCounting
  <1>b. /\ RW!Readers \in SUBSET Thread /\ RW!Writers \in SUBSET Thread
        /\ RW!WaitingWriters \in SUBSET Thread
    BY DEF RW!Readers, RW!Writers, RW!WaitingWriters
  <1>c. \A t \in Thread : RW!Call(t) \/ RW!Step(t) =>
            \A u \in Thread : place'[u] \in RW!Locked => m_lock' = u
    <2> SUFFICES ASSUME NEW t \in Thread, RW!Call(t) \/ RW!Step(t), NEW u \in Thread,
                        place'[u] \in RW!Locked
                 PROVE  m_lock' = u
      OBVIOUS
    <2> USE <1>0, NilAssumption DEF RW!TypeOK, RW!CountersTruthful, RW!Locked, RW!Goto, RW!counters
    <2>1. CASE RW!Call(t)
      BY <2>1 DEF RW!Call
    <2>2. CASE RW!HoldLock(t) \/ RW!Resume(t)
      BY <2>2 DEF RW!HoldLock, RW!Resume
    <2>3. CASE RW!ReadCheck(t) \/ RW!WriteCheck(t)
      BY <2>3 DEF RW!ReadCheck, RW!WriteCheck
    <2>4. CASE RW!ReadLeave(t) \/ RW!WriteLeave(t)
      BY <2>4 DEF RW!ReadLeave, RW!WriteLeave, RW!NotifyAll
    <2> QED
      BY <2>1, <2>2, <2>3, <2>4 DEF RW!Step
  <1> USE <1>0, <1>a, <1>b, <1>c, <1>k DEF RW!CountersTruthful, RW!counters, RW!Step
  <1>1. ASSUME NEW t \in Thread, RW!Call(t) \/ RW!HoldLock(t) PROVE RW!CountersTruthful'
    BY <1>1, CallSets DEF RW!Call, RW!HoldLock, SameSets
  <1>2. ASSUME NEW t \in Thread, RW!Resume(t) PROVE RW!CountersTruthful'
    BY <1>2, ResumeSets DEF RW!Resume
  <1>3. ASSUME NEW t \in Thread, RW!ReadCheck(t) PROVE RW!CountersTruthful'
    BY <1>3, ReadCheckSets DEF RW!ReadCheck
  <1>4. ASSUME NEW t \in Thread, RW!WriteCheck(t) PROVE RW!CountersTruthful'
    <2>1. m_numReaders' = m_numReaders
      BY <1>4 DEF RW!WriteCheck
    <2>2. m_numReaders' = Cardinality(RW!Readers')
      BY <1>4, <2>1, WriteCheckSets
    <2>3. m_numWaitingWriters' = Cardinality(RW!WaitingWriters')
      BY <1>4, WriteCheckSets
    <2>4. m_writeLocked' # {} <=> RW!Writers' # {}
      BY <1>4, WriteCheckSets
    <2> QED
      BY <1>4, <2>2, <2>3, <2>4
  <1>5. ASSUME NEW t \in Thread, RW!ReadLeave(t) PROVE RW!CountersTruthful'
    BY <1>5, LeaveSets DEF RW!ReadLeave
  <1>6. ASSUME NEW t \in Thread, RW!WriteLeave(t) PROVE RW!CountersTruthful'
    <2>1. RW!Writers' = {}
      BY <1>6, LeaveSets DEF RW!Exclusion
    <2> QED
      BY <1>6, <2>1, LeaveSets DEF RW!WriteLeave
  <1>7. CASE UNCHANGED RW!vars
    BY <1>7 DEF RW!vars, RW!Readers, RW!Writers, RW!WaitingWriters
  <1> QED
    BY <1>1, <1>2, <1>3, <1>4, <1>5, <1>6, <1>7 DEF RW!Next

\* Every step leaves writers alone.
LEMMA NextExclusion == RW!IInv /\ [RW!Next]_RW!vars => RW!Exclusion'
  <1> SUFFICES ASSUME RW!IInv, [RW!Next]_RW!vars PROVE RW!Exclusion'
    OBVIOUS
  <1>0. RW!TypeOK /\ RW!Exclusion /\ RW!CountersTruthful
    BY DEF RW!IInv
  <1>a. RW!Readers \in SUBSET Thread /\ RW!Writers \in SUBSET Thread
    BY DEF RW!Readers, RW!Writers
  <1>b. m_numReaders = 0 => RW!Readers = {}
    BY <1>0, <1>a, FiniteAssumption, FS_Subset, FS_EmptySet, RWCardinality DEF RW!CountersTruthful
  <1> USE <1>0 DEF RW!Exclusion
  <1>1. ASSUME NEW t \in Thread, RW!Call(t) \/ RW!HoldLock(t) PROVE RW!Exclusion'
    BY <1>1, CallSets DEF SameSets
  <1>2. ASSUME NEW t \in Thread, RW!Resume(t) PROVE RW!Exclusion'
    BY <1>2, ResumeSets
  <1>3. ASSUME NEW t \in Thread, RW!ReadCheck(t) PROVE RW!Exclusion'
    BY <1>3, ReadCheckSets DEF RW!CountersTruthful
  <1>4. ASSUME NEW t \in Thread, RW!WriteCheck(t) PROVE RW!Exclusion'
    BY <1>4, <1>b, WriteCheckSets DEF RW!CountersTruthful
  <1>5. ASSUME NEW t \in Thread, RW!ReadLeave(t) \/ RW!WriteLeave(t) PROVE RW!Exclusion'
    BY <1>5, LeaveSets
  <1>6. CASE UNCHANGED RW!vars
    BY <1>6 DEF RW!vars, RW!Readers, RW!Writers
  <1> QED
    BY <1>1, <1>2, <1>3, <1>4, <1>5, <1>6 DEF RW!Next, RW!Step

\* Whoever leaves the lock free leaves nobody asleep, and whoever falls asleep
\* has seen a reason: a holder, or a waiting writer.
LEMMA NextStranded == RW!IInv /\ [RW!Next]_RW!vars => RW!NobodyStranded' /\ RW!WriterInv'
  <1> SUFFICES ASSUME RW!IInv, [RW!Next]_RW!vars PROVE RW!NobodyStranded' /\ RW!WriterInv'
    OBVIOUS
  <1>0. RW!TypeOK /\ RW!Exclusion /\ RW!CountersTruthful /\ RW!NobodyStranded /\ RW!WriterInv
    BY DEF RW!IInv
  <1>a. \A S \in SUBSET Thread : Cardinality(S) = 0 <=> S = {}
    BY FiniteAssumption, FS_Subset, FS_EmptySet
  <1>b. /\ RW!Readers \in SUBSET Thread /\ RW!Writers \in SUBSET Thread
        /\ RW!WaitingWriters \in SUBSET Thread
    BY DEF RW!Readers, RW!Writers, RW!WaitingWriters
  <1>c. /\ m_numReaders = 0 <=> RW!Readers = {}
        /\ m_numWaitingWriters = 0 <=> RW!WaitingWriters = {}
        /\ m_writeLocked = {} <=> RW!Writers = {}
    BY <1>0, <1>a, <1>b, RWCardinality DEF RW!CountersTruthful
  <1> USE <1>0 DEF RW!TypeOK, RW!NobodyStranded, RW!WriterInv, RW!Sleeping, RW!Goto
  <1>1. ASSUME NEW t \in Thread, RW!Call(t) \/ RW!HoldLock(t) PROVE RW!NobodyStranded' /\ RW!WriterInv'
    BY <1>1, CallSets DEF SameSets, RW!Call, RW!HoldLock
  <1>2. ASSUME NEW t \in Thread, RW!Resume(t) PROVE RW!NobodyStranded' /\ RW!WriterInv'
    BY <1>2, ResumeSets DEF RW!Resume
  <1>3. ASSUME NEW t \in Thread, RW!ReadCheck(t) PROVE RW!NobodyStranded' /\ RW!WriterInv'
    <2>1. CASE m_writeLocked # {} \/ m_numWaitingWriters # 0
      <3>1. RW!Readers' = RW!Readers /\ RW!Writers' = RW!Writers
        BY <1>3, <2>1, ReadCheckSets
      <3>2. \A u \in Thread \ {t} : place'[u] = place[u]
        BY <1>3 DEF RW!ReadCheck
      <3>3. place[t] = "readCheck" /\ place'[t] = "readWait"
        BY <1>3, <2>1 DEF RW!ReadCheck
      <3>4. RW!Readers \cup RW!Writers # {} \/ \E u \in Thread : place[u] = "writeWoken"
        BY <2>1, <1>c DEF RW!WaitingWriters
      <3> QED
        BY <3>1, <3>2, <3>3, <3>4
    <2>2. CASE m_writeLocked = {} /\ m_numWaitingWriters = 0
      BY <1>3, <2>2, ReadCheckSets
    <2> QED
      BY <2>1, <2>2
  <1>4. ASSUME NEW t \in Thread, RW!WriteCheck(t) PROVE RW!NobodyStranded' /\ RW!WriterInv'
    BY <1>4, <1>c, WriteCheckSets
  <1>5. ASSUME NEW t \in Thread, RW!ReadLeave(t) PROVE RW!NobodyStranded' /\ RW!WriterInv'
    <2>1. CASE m_numReaders' = 0
      BY <1>5, <2>1 DEF RW!ReadLeave, RW!NotifyAll
    <2>2. CASE m_numReaders' # 0
      <3>1. RW!Readers' # {}
        BY <1>5, <2>2, NextCounters, FS_EmptySet, RWCardinality DEF RW!CountersTruthful
      <3> QED
        BY <3>1
    <2> QED
      BY <2>1, <2>2
  <1>6. ASSUME NEW t \in Thread, RW!WriteLeave(t) PROVE RW!NobodyStranded' /\ RW!WriterInv'
    BY <1>6 DEF RW!WriteLeave, RW!NotifyAll
  <1>7. CASE UNCHANGED RW!vars
    BY <1>7 DEF RW!vars, RW!Readers, RW!Writers
  <1> QED
    BY <1>1, <1>2, <1>3, <1>4, <1>5, <1>6, <1>7 DEF RW!Next, RW!Step

\* Every step keeps the invariant.
LEMMA RWNext == RW!IInv /\ [RW!Next]_RW!vars => RW!IInv'
  <1> SUFFICES ASSUME RW!IInv, [RW!Next]_RW!vars PROVE RW!IInv'
    OBVIOUS
  <1>1. RW!TypeOK'
    BY RWTypeOK DEF RW!IInv
  <1> QED
    BY <1>1, NextCounters, NextExclusion, NextStranded DEF RW!IInv

-----------------------------------------------------------------------------
\* The instance's readers and writers are the readers and writers.
LEMMA SameSetsOfThreads == /\ RW!Readers = Readers /\ RW!Writers = Writers
                           /\ RW!WaitingWriters = WaitingWriters
  BY DEF RW!Readers, Readers, RW!Writers, Writers, RW!WaitingWriters, WaitingWriters

\* A writer is alone between writeLock() and writeUnlock(), for any number of
\* threads.
THEOREM ReadWriteLockExcludes == RW!Spec => []Exclusion
  <1>1. RW!IInv => Exclusion
    BY SameSetsOfThreads DEF RW!IInv, RW!Exclusion, Exclusion
  <1> QED
    BY RWInit, RWNext, <1>1, PTL DEF RW!Spec

\* Nobody waits on m_cond for a lock that is free and that nobody is about to
\* take: readUnlock() and writeUnlock() notify whenever they must.
THEOREM ReadWriteLockStrandsNobody == RW!Spec => []NobodyStranded
  <1>1. RW!IInv => NobodyStranded
    BY SameSetsOfThreads DEF RW!IInv, RW!NobodyStranded, NobodyStranded, RW!Sleeping, Sleeping
  <1> QED
    BY RWInit, RWNext, <1>1, PTL DEF RW!Spec

\* No reader gets past a writer that waits in writeLock().
THEOREM ReadWriteLockPrefersWriters == RW!Spec => WriterPreference
  <1>1. RW!IInv /\ [RW!Next]_RW!vars
          => [WaitingWriters # {} => Readers' \subseteq Readers]_<<m_lock, m_writeLocked,
                m_numReaders, m_numWaitingWriters, place>>
    <2> SUFFICES ASSUME RW!IInv, RW!Next, RW!WaitingWriters # {} PROVE RW!Readers' \subseteq RW!Readers
      BY SameSetsOfThreads DEF RW!vars, RW!counters, RW!Readers, Readers
    <2>0. RW!TypeOK /\ RW!CountersTruthful
      BY DEF RW!IInv
    <2>1. m_numWaitingWriters # 0
      <3>1. RW!WaitingWriters \in SUBSET Thread
        BY DEF RW!WaitingWriters
      <3> QED
        BY <2>0, <3>1, FiniteAssumption, FS_Subset, FS_EmptySet, RWCardinality DEF RW!CountersTruthful
    <2>2. PICK t \in Thread : RW!Call(t) \/ RW!Step(t)
      BY DEF RW!Next
    <2> QED
      BY <2>0, <2>1, <2>2, CallSets, ResumeSets, ReadCheckSets, WriteCheckSets, LeaveSets
      DEF RW!Step, SameSets
  <1> QED
    BY RWInit, RWNext, <1>1, PTL DEF RW!Spec, WriterPreference
=============================================================================
