------------------------------ MODULE WordLock ------------------------------
(***************************************************************************)
(* WTF::WordLock, the adaptive mutex under ParkingLot (WTF/wtf/WordLock.h  *)
(* and WordLock.cpp).  One action is one atomic access to m_word, or the   *)
(* plain accesses to queue nodes made between two of them by the thread    *)
(* that owns the queue, or one section under a node's parkingLock.         *)
(*                                                                         *)
(* m_word packs two bits and a pointer, and is a record of them here.  A   *)
(* thread's ThreadData is the entry for that thread of shouldPark,         *)
(* nextInQueue and queueTail.  The pc value "asleep" is a thread blocked   *)
(* in parkingCondition.wait().                                             *)
(***************************************************************************)
EXTENDS Naturals, FiniteSets

CONSTANTS Thread,
          Nil,             \* the null ThreadData*
          SpinLimit,       \* spinLimit of lockSlow, 40 in the code
          WeakCASMayFail   \* may compareExchangeWeak fail spuriously (LL/SC)?

ASSUME NilAssumption == Nil \notin Thread
ASSUME FiniteAssumption == IsFiniteSet(Thread)
ASSUME SpinLimitAssumption == SpinLimit \in Nat
ASSUME WeakCASAssumption == WeakCASMayFail \in BOOLEAN

VARIABLES m_word,        \* the lock word
          shouldPark,    \* ThreadData::shouldPark
          nextInQueue,   \* ThreadData::nextInQueue
          queueTail,     \* ThreadData::queueTail, meaningful at the head
          pc,            \* where each thread is
          cur,           \* local currentWordValue (newWordValue when dequeuing)
          victim,        \* local queueHead of unlockSlow: the thread to wake
          spinCount      \* local spinCount of lockSlow

queueVars == <<shouldPark, nextInQueue, queueTail>>
localVars == <<cur, victim, spinCount>>
vars == <<m_word, queueVars, pc, localVars>>

isLockedBit == "isLocked"
isQueueLockedBit == "isQueueLocked"

\* The low bits that are set, and the pointer in the others.
Word == [bits : SUBSET {isLockedBit, isQueueLockedBit}, queueHead : Thread \cup {Nil}]

Zero == [bits |-> {}, queueHead |-> Nil]
OnlyLocked == [bits |-> {isLockedBit}, queueHead |-> Nil]

IsLocked(w) == isLockedBit \in w.bits
IsQueueLocked(w) == isQueueLockedBit \in w.bits

LockPC == {"lockSlow", "tryAcquire", "reload", "lockQueue", "link", "publish",
           "park", "asleep"}
UnlockPC == {"unlockSlow", "releaseWord", "takeQueue", "dequeue", "storeHead"}
WakePC == {"clearVictim", "unpark", "notify"}
PC == {"idle", "critical"} \cup LockPC \cup UnlockPC \cup WakePC

Init == /\ m_word = Zero
        /\ shouldPark = [t \in Thread |-> FALSE]
        /\ nextInQueue = [t \in Thread |-> Nil]
        /\ queueTail = [t \in Thread |-> Nil]
        /\ pc = [t \in Thread |-> "idle"]
        /\ cur = [t \in Thread |-> Zero]
        /\ victim = [t \in Thread |-> Nil]
        /\ spinCount = [t \in Thread |-> 0]

-----------------------------------------------------------------------------
Goto(t, l) == pc' = [pc EXCEPT ![t] = l]

\* Load m_word into t's local.
Load(t) == cur' = [cur EXCEPT ![t] = m_word]

CASSucceeds(old, new) == m_word = old /\ m_word' = new

CASFails(old) == (m_word # old \/ WeakCASMayFail) /\ UNCHANGED m_word

\* A call returns: its locals die.
Return(t, l) == /\ Goto(t, l)
                /\ cur' = [cur EXCEPT ![t] = Zero]
                /\ victim' = [victim EXCEPT ![t] = Nil]
                /\ spinCount' = [spinCount EXCEPT ![t] = 0]

-----------------------------------------------------------------------------
(* lock() and lockSlow() *)

Lock(t) ==
    /\ pc[t] = "idle"
    /\ \/ CASSucceeds(Zero, OnlyLocked) /\ Goto(t, "critical")
       \/ CASFails(Zero) /\ Goto(t, "lockSlow")
    /\ UNCHANGED <<queueVars, localVars>>

\* With word value w and the lock not obtained: spin if nobody is queued and
\* we have not spun too much, else go and queue up.
SpinOrQueue(t, w) ==
    \/ /\ w.queueHead = Nil /\ spinCount[t] < SpinLimit
       /\ spinCount' = [spinCount EXCEPT ![t] = @ + 1]
       /\ Goto(t, "lockSlow")
    \/ /\ ~(w.queueHead = Nil /\ spinCount[t] < SpinLimit)
       /\ Goto(t, "reload")
       /\ UNCHANGED spinCount

LockSlow(t) ==
    /\ pc[t] = "lockSlow"
    /\ Load(t)
    /\ \/ ~IsLocked(m_word) /\ Goto(t, "tryAcquire") /\ UNCHANGED spinCount
       \/ IsLocked(m_word) /\ SpinOrQueue(t, m_word)
    /\ UNCHANGED <<m_word, queueVars, victim>>

\* Mutant: a plain store where the code has a compare-and-swap.
TryAcquirePlainStore(t) ==
    /\ pc[t] = "tryAcquire"
    /\ m_word' = [cur[t] EXCEPT !.bits = @ \cup {isLockedBit}]
    /\ Return(t, "critical")
    /\ UNCHANGED queueVars

\* Barging: take the lock whether or not others are queued for it.
TryAcquire(t) ==
    /\ pc[t] = "tryAcquire"
    /\ \/ /\ CASSucceeds(cur[t], [cur[t] EXCEPT !.bits = @ \cup {isLockedBit}])
          /\ Return(t, "critical")
       \/ /\ CASFails(cur[t])
          /\ SpinOrQueue(t, cur[t])
          /\ UNCHANGED <<cur, victim>>
    /\ UNCHANGED queueVars

Reload(t) ==
    /\ pc[t] = "reload"
    /\ Load(t)
    /\ Goto(t, IF IsQueueLocked(m_word) \/ ~IsLocked(m_word) THEN "lockSlow"
                                                          ELSE "lockQueue")
    /\ UNCHANGED <<m_word, queueVars, victim, spinCount>>

LockQueue(t) ==
    /\ pc[t] = "lockQueue"
    /\ \/ /\ CASSucceeds(cur[t], [cur[t] EXCEPT !.bits = @ \cup {isQueueLockedBit}])
          /\ Goto(t, "link")
       \/ CASFails(cur[t]) /\ Goto(t, "lockSlow")
    /\ UNCHANGED <<queueVars, localVars>>

\* Owning the queue: put ourselves at its end, or be its head.
Link(t) ==
    /\ pc[t] = "link"
    /\ shouldPark' = [shouldPark EXCEPT ![t] = TRUE]
    /\ LET head == cur[t].queueHead IN
         IF head # Nil
         THEN /\ nextInQueue' = [nextInQueue EXCEPT ![queueTail[head]] = t]
              /\ queueTail' = [queueTail EXCEPT ![head] = t]
         ELSE /\ queueTail' = [queueTail EXCEPT ![t] = t]
              /\ UNCHANGED nextInQueue
    /\ Load(t)
    /\ Goto(t, "publish")
    /\ UNCHANGED <<m_word, victim, spinCount>>

\* Release the queue lock with a plain store, installing a new head if needed.
Publish(t) ==
    /\ pc[t] = "publish"
    /\ m_word' = [cur[t] EXCEPT !.bits = @ \ {isQueueLockedBit},
                                !.queueHead = IF @ = Nil THEN t ELSE @]
    /\ Goto(t, "park")
    /\ UNCHANGED <<queueVars, localVars>>

\* Under parkingLock: the check and the start of the wait are one step.
Park(t) ==
    /\ pc[t] = "park"
    /\ Goto(t, IF shouldPark[t] THEN "asleep" ELSE "lockSlow")
    /\ UNCHANGED <<m_word, queueVars, localVars>>

\* std::condition_variable::wait() may return for no reason.
SpuriousWakeup(t) ==
    /\ pc[t] = "asleep"
    /\ Goto(t, "park")
    /\ UNCHANGED <<m_word, queueVars, localVars>>

-----------------------------------------------------------------------------
(* unlock() and unlockSlow() *)

Unlock(t) ==
    /\ pc[t] = "critical"
    /\ \/ CASSucceeds(OnlyLocked, Zero) /\ Goto(t, "idle")
       \/ CASFails(OnlyLocked) /\ Goto(t, "unlockSlow")
    /\ UNCHANGED <<queueVars, localVars>>

\* The code spins while somebody owns the queue: the guard waits instead.
UnlockSlow(t) ==
    /\ pc[t] = "unlockSlow"
    /\ ~IsQueueLocked(m_word)
    /\ Load(t)
    /\ Goto(t, IF m_word = OnlyLocked THEN "releaseWord" ELSE "takeQueue")
    /\ UNCHANGED <<m_word, queueVars, victim, spinCount>>

ReleaseWord(t) ==
    /\ pc[t] = "releaseWord"
    /\ \/ CASSucceeds(OnlyLocked, Zero) /\ Return(t, "idle")
       \/ CASFails(OnlyLocked) /\ Goto(t, "unlockSlow") /\ UNCHANGED localVars
    /\ UNCHANGED queueVars

TakeQueue(t) ==
    /\ pc[t] = "takeQueue"
    /\ \/ /\ CASSucceeds(cur[t], [cur[t] EXCEPT !.bits = @ \cup {isQueueLockedBit}])
          /\ Goto(t, "dequeue")
       \/ CASFails(cur[t]) /\ Goto(t, "unlockSlow")
    /\ UNCHANGED <<queueVars, localVars>>

\* Mutant: the new head does not inherit the tail.
DequeueLosesTail(t) ==
    /\ pc[t] = "dequeue"
    /\ victim' = [victim EXCEPT ![t] = m_word.queueHead]
    /\ cur' = [cur EXCEPT ![t] = [bits |-> m_word.bits \ {isLockedBit, isQueueLockedBit},
                                  queueHead |-> nextInQueue[m_word.queueHead]]]
    /\ Goto(t, "storeHead")
    /\ UNCHANGED <<m_word, shouldPark, nextInQueue, queueTail, spinCount>>

\* Make the second queued thread, if any, the bookkeeping head, and compute
\* the word that drops both locks and names the new head.
Dequeue(t) ==
    /\ pc[t] = "dequeue"
    /\ LET head == m_word.queueHead
           newHead == nextInQueue[head]
       IN /\ victim' = [victim EXCEPT ![t] = head]
          /\ cur' = [cur EXCEPT ![t] = [bits |-> m_word.bits \ {isLockedBit, isQueueLockedBit},
                                     queueHead |-> newHead]]
          /\ IF newHead # Nil
             THEN queueTail' = [queueTail EXCEPT ![newHead] = queueTail[head]]
             ELSE UNCHANGED queueTail
    /\ Goto(t, "storeHead")
    /\ UNCHANGED <<m_word, shouldPark, nextInQueue, spinCount>>

\* The plain store that releases the WordLock and the queue lock together.
StoreHead(t) ==
    /\ pc[t] = "storeHead"
    /\ m_word' = cur[t]
    /\ Goto(t, "clearVictim")
    /\ UNCHANGED <<queueVars, localVars>>

ClearVictim(t) ==
    /\ pc[t] = "clearVictim"
    /\ nextInQueue' = [nextInQueue EXCEPT ![victim[t]] = Nil]
    /\ queueTail' = [queueTail EXCEPT ![victim[t]] = Nil]
    /\ Goto(t, "unpark")
    /\ UNCHANGED <<m_word, shouldPark, localVars>>

\* Mutant: forgets to notify.
UnparkWithoutNotify(t) ==
    /\ pc[t] = "unpark"
    /\ shouldPark' = [shouldPark EXCEPT ![victim[t]] = FALSE]
    /\ Return(t, "idle")
    /\ UNCHANGED <<m_word, nextInQueue, queueTail>>

\* Under the victim's parkingLock.
Unpark(t) ==
    /\ pc[t] = "unpark"
    /\ shouldPark' = [shouldPark EXCEPT ![victim[t]] = FALSE]
    /\ Goto(t, "notify")
    /\ UNCHANGED <<m_word, nextInQueue, queueTail, localVars>>

\* notify_one(), after parkingLock was released.
Notify(t) ==
    /\ pc[t] = "notify"
    /\ pc' = [pc EXCEPT ![t] = "idle",
                        ![victim[t]] = IF @ = "asleep" THEN "park" ELSE @]
    /\ cur' = [cur EXCEPT ![t] = Zero]
    /\ victim' = [victim EXCEPT ![t] = Nil]
    /\ UNCHANGED <<m_word, queueVars, spinCount>>

-----------------------------------------------------------------------------
LockStep(t) == \/ LockSlow(t) \/ TryAcquire(t) \/ Reload(t) \/ LockQueue(t)
               \/ Link(t) \/ Publish(t) \/ Park(t)

UnlockStep(t) == \/ Unlock(t) \/ UnlockSlow(t) \/ ReleaseWord(t) \/ TakeQueue(t)
                 \/ Dequeue(t) \/ StoreHead(t)

WakeStep(t) == ClearVictim(t) \/ Unpark(t) \/ Notify(t)

Next == \E t \in Thread : \/ Lock(t) \/ LockStep(t) \/ SpuriousWakeup(t)
                          \/ UnlockStep(t) \/ WakeStep(t)

Spec == Init /\ [][Next]_vars

\* Threads are scheduled, and a critical section ends.  Nothing obliges a
\* thread to call lock(), and nobody counts on a spurious wakeup.
\* A weak CAS does not fail for ever without a reason.
CASFailsSpuriously(t) ==
    /\ pc[t] \in {"tryAcquire", "lockQueue", "releaseWord", "takeQueue"} /\ m_word = cur[t]
    /\ UNCHANGED m_word /\ pc'[t] # pc[t]

Fairness == /\ \A t \in Thread : WF_vars(LockStep(t) \/ UnlockStep(t) \/ WakeStep(t))
            /\ <>[][\A t \in Thread : ~CASFailsSpuriously(t)]_vars

FairSpec == Spec /\ Fairness
-----------------------------------------------------------------------------
(* Properties *)

Holding(t) == pc[t] \in {"critical"} \cup UnlockPC
OwnsQueue(t) == pc[t] \in {"link", "publish", "dequeue", "storeHead"}

\* The threads found from the lock word along nextInQueue, in order.
Walk == LET walk[n \in 1 .. Cardinality(Thread) + 1] ==
              IF n = 1 THEN m_word.queueHead
              ELSE IF walk[n - 1] = Nil THEN Nil ELSE nextInQueue[walk[n - 1]]
        IN  walk
Queued == {Walk[n] : n \in DOMAIN Walk} \ {Nil}

TypeOK ==
    /\ m_word \in Word
    /\ shouldPark \in [Thread -> BOOLEAN]
    /\ nextInQueue \in [Thread -> Thread \cup {Nil}]
    /\ queueTail \in [Thread -> Thread \cup {Nil}]
    /\ pc \in [Thread -> PC]
    /\ cur \in [Thread -> Word]
    /\ victim \in [Thread -> Thread \cup {Nil}]
    /\ spinCount \in [Thread -> 0 .. SpinLimit]

\* The word's two bits tell the truth: the lock bit is set exactly while one
\* thread is between acquiring and releasing, the queue bit exactly while one
\* thread is linking or unlinking, and the queue is only touched under the lock.
MutualExclusion ==
    /\ \A s, t \in Thread : Holding(s) /\ Holding(t) => s = t
    /\ IsLocked(m_word) <=> \E t \in Thread : Holding(t)
    /\ \A s, t \in Thread : OwnsQueue(s) /\ OwnsQueue(t) => s = t
    /\ IsQueueLocked(m_word) <=> \E t \in Thread : OwnsQueue(t)
    /\ IsQueueLocked(m_word) => IsLocked(m_word)

\* What a thread's local copy of the word still says about it: the part of the
\* inductive invariant that mutual exclusion needs beyond itself.
LocalsFresh ==
    \A t \in Thread :
        /\ pc[t] = "tryAcquire" => ~IsLocked(cur[t])
        /\ pc[t] = "lockQueue" => IsLocked(cur[t]) /\ ~IsQueueLocked(cur[t])
        /\ pc[t] = "publish" => IsLocked(cur[t])
        /\ pc[t] = "takeQueue" => ~IsQueueLocked(cur[t]) /\ cur[t].queueHead # Nil
        /\ pc[t] = "dequeue" => m_word.queueHead # Nil
        /\ pc[t] = "storeHead" => ~IsLocked(cur[t]) /\ ~IsQueueLocked(cur[t])

IInv == TypeOK /\ MutualExclusion /\ LocalsFresh

\* What lockSlow() and unlockSlow() ASSERT where they ASSERT it: a thread comes
\* to the queue with a clean node, publishes into a word still locked twice,
\* and an unlocker that skips the fast path finds somebody to wake.
Asserted ==
    /\ \A t \in Thread : pc[t] = "tryAcquire" => ~IsQueueLocked(cur[t])
    /\ \A t \in Thread : pc[t] \in LockPC \ {"publish", "park", "asleep"} =>
          ~shouldPark[t] /\ nextInQueue[t] = Nil /\ queueTail[t] = Nil
    /\ \A t \in Thread : pc[t] = "publish" => IsLocked(cur[t]) /\ IsQueueLocked(cur[t])
    /\ \A t \in Thread : pc[t] = "takeQueue" => cur[t].queueHead # Nil
    /\ \A t \in Thread : pc[t] = "dequeue" => m_word.queueHead # Nil
    /\ \A t \in Thread : pc[t] = "storeHead" => m_word.queueHead = victim[t]

\* The queue that is spread over the word and the ThreadData is sound: the
\* assertions hold, and a thread that must park can be found by whoever will
\* wake it: it is on the queue, or an unlocker took it off and has not yet
\* cleared shouldPark.  While nobody owns the queue, the links form one list
\* from the head to the tail the head records, and every member is a thread
\* that wants to park.
QueueSound ==
    /\ Asserted
    /\ \A t \in Thread : shouldPark[t] /\ pc[t] \in {"park", "asleep"} =>
          \/ t \in Queued
          \/ \E u \in Thread : victim[u] = t /\ pc[u] \in {"clearVictim", "unpark"}
    /\ ~IsQueueLocked(m_word) /\ m_word.queueHead # Nil =>
          \E n \in 1 .. Cardinality(Thread) :
              /\ Cardinality(Queued) = n
              /\ Walk[n] = queueTail[m_word.queueHead]
              /\ nextInQueue[Walk[n]] = Nil
              /\ \A t \in Queued : shouldPark[t] /\ pc[t] \in {"park", "asleep"}

\* A thread asleep with shouldPark cleared is about to be notified.
NoLostWakeup ==
    \A t \in Thread : pc[t] = "asleep" /\ ~shouldPark[t] =>
        \E u \in Thread : pc[u] = "notify" /\ victim[u] = t

\* WordLock is a mutex.  Its releasing thread leaves the lock when it stores
\* the word, before it wakes the old queue head.
MutexStatus == [t \in Thread |-> IF Holding(t) THEN "holding"
                                 ELSE IF pc[t] \in LockPC THEN "waiting"
                                 ELSE "outside"]
AsMutex == INSTANCE Mutex WITH status <- MutexStatus
ImplementsMutex == AsMutex!Spec

\* While some thread wants the lock, the lock keeps being acquired.
Progress == (\E t \in Thread : pc[t] \in LockPC)
                ~> (\E t \in Thread : pc[t] = "critical")

-----------------------------------------------------------------------------
(* The inductive invariant of the queue.  Its n threads are q[1] to q[n]; a  *)
(* thread that has linked itself and not yet published the word is the last. *)

\* The links, and the tail that the head records.  Before it publishes, a
\* thread that found no queue is its head and not in the word.
Linked(n, q) ==
    /\ \A i, j \in 1 .. n : q[i] = q[j] => i = j
    /\ \A i \in 1 .. n : nextInQueue[q[i]] = IF i < n THEN q[i + 1] ELSE Nil
    /\ n > 0 => queueTail[q[1]] = q[n]
    /\ m_word.queueHead = IF n = 0 THEN Nil ELSE IF pc[q[1]] = "publish" THEN Nil ELSE q[1]

\* Whoever is in the queue waits to be woken.
Waiting(n, q) ==
    \A i \in 1 .. n : /\ shouldPark[q[i]]
                      /\ \/ pc[q[i]] \in {"park", "asleep"}
                         \/ i = n /\ pc[q[i]] = "publish"

\* The owner of the queue, half way.
HalfWay(n, q) ==
    \A t \in Thread :
        /\ pc[t] = "publish" => n > 0 /\ q[n] = t
        /\ pc[t] = "storeHead" =>
              /\ n > 0 /\ victim[t] = q[1]
              /\ cur[t].queueHead = nextInQueue[q[1]]
              /\ n > 1 => queueTail[q[2]] = q[n]

\* The threads taken off the queue and not yet told.
Takers == {u \in Thread : pc[u] \in {"clearVictim", "unpark"}}
Taken(n, q) ==
    /\ \A u \in Takers : /\ victim[u] \in Thread /\ \A i \in 1 .. n : q[i] # victim[u]
                         /\ shouldPark[victim[u]] /\ pc[victim[u]] \in {"park", "asleep"}
                         /\ pc[u] = "unpark" => /\ nextInQueue[victim[u]] = Nil
                                               /\ queueTail[victim[u]] = Nil
    /\ \A u, w \in Takers : victim[u] = victim[w] => u = w

\* A thread that must park is in the queue or taken off it, and the node of any
\* other is clean.
Accounted(n, q) ==
    \A t \in Thread :
        IF shouldPark[t]
        THEN (\E i \in 1 .. n : q[i] = t) \/ \E u \in Takers : victim[u] = t
        ELSE nextInQueue[t] = Nil /\ queueTail[t] = Nil

\* What the threads know of the word besides LocalsFresh.
LocalsTrue ==
    \A t \in Thread :
        /\ pc[t] = "tryAcquire" => ~IsQueueLocked(cur[t])
        /\ pc[t] = "link" => cur[t].queueHead = m_word.queueHead
        /\ pc[t] = "publish" => cur[t] = m_word

QueueIs(n, q) ==
    Linked(n, q) /\ Waiting(n, q) /\ HalfWay(n, q) /\ Taken(n, q) /\ Accounted(n, q)
SomeQueue == \E n \in 0 .. Cardinality(Thread) : \E q \in [1 .. n -> Thread] : QueueIs(n, q)
QInv == LocalsTrue /\ SomeQueue
=============================================================================
