----------------------------- MODULE Condition -----------------------------
(***************************************************************************)
(* WTF::Condition (WTF/wtf/Condition.h): a condition variable of one byte, *)
(* m_hasWaiters, over the ParkingLot queue of its address.  notifyOne()    *)
(* and notifyAll() read the byte without a lock, and notifyAll() clears it *)
(* without one.                                                            *)
(*                                                                         *)
(* The clients are the consumers and producers of the repository's own     *)
(* test of Condition: a consumer waits for the predicate items > 0 with    *)
(* the predicate forms of wait() and waitUntil(), a producer adds an item  *)
(* and notifies, with or without the client's lock.  The client's lock is  *)
(* a mutex (module Lock) and parking is FIFO (module ParkingLot); steps    *)
(* under the bucket lock that touch nothing but the queue are one step.    *)
(***************************************************************************)
EXTENDS Threads, Sequences

CONSTANTS MaxItems,     \* bound on the items not consumed yet
          Timeouts,     \* may waits time out (waitUntil) or not (wait)?
          Collisions    \* may other addresses have threads in this bucket?

ASSUME MaxItemsAssumption == MaxItems \in Nat
ASSUME TimeoutsAssumption == Timeouts \in BOOLEAN
ASSUME CollisionsAssumption == Collisions \in BOOLEAN

VARIABLES m_hasWaiters,  \* set: {"waiters"} for true, {} for false
          bucketLock,    \* the thread that owns Bucket::lock, or Nil
          queue,         \* the threads parked on the condition, head first
          address,       \* the threads whose ThreadData::address is set
          owner,         \* the thread that holds the client's lock, or Nil
          items,         \* the client's state, guarded by its lock
          pc,
          targets,       \* threads a notifier dequeued and has yet to unpark
          more           \* notifyOne()s told mayHaveMoreThreads

parkingVars == <<bucketLock, queue, address>>
vars == <<m_hasWaiters, parkingVars, owner, items, pc, targets, more>>

\* In waitUntil() before and after the wait, and parked.
Checking == {"lock", "lockTimedOut", "predicate", "lastPredicate", "validate", "append"}
Parking == {"beforeSleep", "park", "timedOut", "awaitUnparker"}
Notifying == {"notifyOne", "unparkOne", "callback", "notifyAll", "clear",
              "unparkAll", "wake"}
PC == {"idle"} \cup Checking \cup Parking \cup Notifying

HasWaiters == m_hasWaiters # {}

Elements(q) == {q[i] : i \in 1 .. Len(q)}
Queued == Elements(queue)

Init == /\ m_hasWaiters = {}
        /\ bucketLock = Nil
        /\ queue = <<>>
        /\ address = {}
        /\ owner = Nil
        /\ items = 0
        /\ pc = [t \in Thread |-> "idle"]
        /\ targets = [t \in Thread |-> <<>>]
        /\ more = {}

-----------------------------------------------------------------------------
Goto(t, l) == pc' = [pc EXCEPT ![t] = l]

(* A consumer: lock, wait(lock, items > 0), take an item, unlock. *)

Consume(t) ==
    /\ pc[t] = "idle"
    /\ Goto(t, "lock")
    /\ UNCHANGED <<m_hasWaiters, parkingVars, owner, items, targets, more>>

\* The client's lock.lock(), and the one that ends every waitUntil().
LockMutex(t) ==
    /\ owner = Nil
    /\ owner' = t
    /\ \/ pc[t] = "lock" /\ Goto(t, "predicate")
       \/ pc[t] = "lockTimedOut" /\ Goto(t, "lastPredicate")
    /\ UNCHANGED <<m_hasWaiters, parkingVars, items, targets, more>>

Take(t) == /\ items > 0
           /\ items' = items - 1
           /\ owner' = Nil
           /\ Goto(t, "idle")

\* while (!predicate()) waitUntil(): a timeout in the past only unlocks.
Predicate(t) ==
    /\ pc[t] = "predicate"
    /\ \/ Take(t)
       \/ items = 0 /\ Goto(t, "validate") /\ UNCHANGED <<owner, items>>
       \/ /\ items = 0 /\ Timeouts
          /\ owner' = Nil
          /\ Goto(t, "lockTimedOut")
          /\ UNCHANGED items
    /\ UNCHANGED <<m_hasWaiters, parkingVars, targets, more>>

\* waitUntil() returned false: return predicate().
LastPredicate(t) ==
    /\ pc[t] = "lastPredicate"
    /\ \/ Take(t)
       \/ items = 0 /\ owner' = Nil /\ Goto(t, "idle") /\ UNCHANGED items
    /\ UNCHANGED <<m_hasWaiters, parkingVars, targets, more>>

-----------------------------------------------------------------------------
(* waitUntil(): parkConditionally() on &m_hasWaiters *)

\* The validation functor, under the bucket lock.
Validate(t) ==
    /\ pc[t] = "validate"
    /\ bucketLock = Nil
    /\ bucketLock' = t
    /\ m_hasWaiters' = {"waiters"}
    /\ Goto(t, "append")
    /\ UNCHANGED <<queue, address, owner, items, targets, more>>

Enqueue(t) ==
    /\ pc[t] = "append"
    /\ queue' = Append(queue, t)
    /\ address' = address \cup {t}
    /\ bucketLock' = Nil
    /\ Goto(t, "beforeSleep")
    /\ UNCHANGED <<m_hasWaiters, owner, items, targets, more>>

\* beforeSleep(): only now is the client's lock released.
BeforeSleep(t) ==
    /\ pc[t] = "beforeSleep"
    /\ owner' = Nil
    /\ Goto(t, "park")
    /\ UNCHANGED <<m_hasWaiters, parkingVars, items, targets, more>>

\* Unparked, or out of time with the address still set.
Park(t) ==
    /\ pc[t] = "park"
    /\ \/ t \notin address /\ Goto(t, "lock")
       \/ t \in address /\ Timeouts /\ Goto(t, "timedOut")
    /\ UNCHANGED <<m_hasWaiters, parkingVars, owner, items, targets, more>>

\* Mutant: returns at once, even when a notifier has dequeued the thread and is
\* about to clear its address.
TimedOutReturnsFalse(t) ==
    /\ pc[t] = "timedOut"
    /\ bucketLock = Nil
    /\ queue' = SelectSeq(queue, LAMBDA u : u # t)
    /\ address' = address \ {t}
    /\ Goto(t, "lockTimedOut")
    /\ UNCHANGED <<m_hasWaiters, bucketLock, owner, items, targets, more>>

\* Leave the queue; whoever is not in it any more was dequeued by a notifier.
TimedOut(t) ==
    /\ pc[t] = "timedOut"
    /\ bucketLock = Nil
    /\ \/ /\ \E i \in 1 .. Len(queue) :
                /\ queue[i] = t
                /\ queue' = SubSeq(queue, 1, i - 1) \o SubSeq(queue, i + 1, Len(queue))
          /\ address' = address \ {t}
          /\ Goto(t, "lockTimedOut")
       \/ t \notin Queued /\ Goto(t, "awaitUnparker") /\ UNCHANGED <<queue, address>>
    /\ UNCHANGED <<m_hasWaiters, bucketLock, owner, items, targets, more>>

\* Late, but unparked: waitUntil() returns true.
AwaitUnparker(t) ==
    /\ pc[t] = "awaitUnparker"
    /\ t \notin address
    /\ Goto(t, "lock")
    /\ UNCHANGED <<m_hasWaiters, parkingVars, owner, items, targets, more>>

-----------------------------------------------------------------------------
(* A producer: add an item under the client's lock and call notifyOne() or  *)
(* notifyAll(), before or after unlocking.                                  *)

Produce(t, call) ==
    /\ pc[t] = "idle"
    /\ owner = Nil
    /\ items < MaxItems
    /\ items' = items + 1
    /\ owner' \in {Nil, t}
    /\ Goto(t, call)
    /\ UNCHANGED <<m_hasWaiters, parkingVars, targets, more>>

\* The notification is over; unlock if the producer still holds the lock.
Notified(t) == /\ owner' = (IF owner = t THEN Nil ELSE owner)
               /\ Goto(t, "idle")

NotifyOne(t) ==
    /\ pc[t] = "notifyOne"
    /\ \/ HasWaiters /\ Goto(t, "unparkOne") /\ UNCHANGED owner
       \/ ~HasWaiters /\ Notified(t)
    /\ UNCHANGED <<m_hasWaiters, parkingVars, items, targets, more>>

\* genericDequeue() under the bucket lock.
UnparkOne(t) ==
    /\ pc[t] = "unparkOne"
    /\ bucketLock = Nil
    /\ bucketLock' = t
    /\ \/ /\ queue # <<>>
          /\ targets' = [targets EXCEPT ![t] = <<Head(queue)>>]
          /\ queue' = Tail(queue)
          /\ \E collision \in {FALSE, Collisions} :
                more' = IF Tail(queue) # <<>> \/ collision THEN more \cup {t} ELSE more
       \/ queue = <<>> /\ UNCHANGED <<queue, targets, more>>
    /\ Goto(t, "callback")
    /\ UNCHANGED <<m_hasWaiters, address, owner, items>>

\* Mutant: clears m_hasWaiters although others are waiting.
CallbackIgnoresMore(t) ==
    /\ pc[t] = "callback"
    /\ m_hasWaiters' = {}
    /\ more' = more \ {t}
    /\ bucketLock' = Nil
    /\ Goto(t, "wake")
    /\ UNCHANGED <<queue, address, owner, items, targets>>

\* The callback, still under the bucket lock.
Callback(t) ==
    /\ pc[t] = "callback"
    /\ \/ t \in more /\ UNCHANGED m_hasWaiters
       \/ t \notin more /\ m_hasWaiters' = {}
    /\ more' = more \ {t}
    /\ bucketLock' = Nil
    /\ Goto(t, "wake")
    /\ UNCHANGED <<queue, address, owner, items, targets>>

NotifyAll(t) ==
    /\ pc[t] = "notifyAll"
    /\ \/ HasWaiters /\ Goto(t, "clear") /\ UNCHANGED owner
       \/ ~HasWaiters /\ Notified(t)
    /\ UNCHANGED <<m_hasWaiters, parkingVars, items, targets, more>>

\* m_hasWaiters.store(false) "without any locking".
ClearHasWaiters(t) ==
    /\ pc[t] = "clear"
    /\ m_hasWaiters' = {}
    /\ Goto(t, "unparkAll")
    /\ UNCHANGED <<parkingVars, owner, items, targets, more>>

UnparkAll(t) ==
    /\ pc[t] = "unparkAll"
    /\ bucketLock = Nil
    /\ targets' = [targets EXCEPT ![t] = queue]
    /\ queue' = <<>>
    /\ Goto(t, "wake")
    /\ UNCHANGED <<m_hasWaiters, bucketLock, address, owner, items, more>>

\* Clear the address of the next dequeued thread and signal it.
Wake(t) ==
    /\ pc[t] = "wake"
    /\ \/ /\ targets[t] # <<>>
          /\ address' = address \ {Head(targets[t])}
          /\ targets' = [targets EXCEPT ![t] = Tail(@)]
          /\ UNCHANGED <<owner, pc>>
       \/ targets[t] = <<>> /\ Notified(t) /\ UNCHANGED <<address, targets>>
    /\ UNCHANGED <<m_hasWaiters, bucketLock, queue, items, more>>

-----------------------------------------------------------------------------
WaitStep(t) == \/ LockMutex(t) \/ Predicate(t) \/ LastPredicate(t)
               \/ Validate(t) \/ Enqueue(t) \/ BeforeSleep(t)
               \/ Park(t) \/ TimedOut(t) \/ AwaitUnparker(t)

NotifyStep(t) == \/ NotifyOne(t) \/ UnparkOne(t) \/ Callback(t)
                 \/ NotifyAll(t) \/ ClearHasWaiters(t) \/ UnparkAll(t) \/ Wake(t)

Next == \E t \in Thread :
            \/ Consume(t) \/ WaitStep(t) \/ NotifyStep(t)
            \/ \E call \in {"notifyOne", "notifyAll"} : Produce(t, call)

Spec == Init /\ [][Next]_vars

\* Threads are scheduled.  Nobody is obliged to produce or to consume, no time
\* has to run out, and neither the client's lock nor the bucket lock is fair.
TimesOut(t) == pc[t] = "park" /\ pc'[t] = "timedOut"
Fairness == \A t \in Thread : WF_vars(WaitStep(t) /\ ~TimesOut(t)) /\ WF_vars(NotifyStep(t))

FairSpec == Spec /\ Fairness
-----------------------------------------------------------------------------
(* Properties *)

TypeOK ==
    /\ m_hasWaiters \in SUBSET {"waiters"}
    /\ bucketLock \in Thread \cup {Nil}
    /\ queue \in Seq(Thread)
    /\ address \in SUBSET Thread
    /\ owner \in Thread \cup {Nil}
    /\ items \in 0 .. MaxItems
    /\ pc \in [Thread -> PC]
    /\ targets \in [Thread -> Seq(Thread)]
    /\ more \in SUBSET Thread

\* The fast paths of notifyOne() and notifyAll() overlook nobody: while a thread
\* is queued the byte is true, or a notifyAll() that cleared it has still to
\* empty the queue.
HasWaitersTruthful ==
    queue # <<>> => HasWaiters \/ \E t \in Thread : pc[t] = "unparkAll"

\* The same while the bucket lock is held: its holder is about to queue up, or
\* has seen how many threads are left.
BucketInv ==
    /\ \A t \in Thread : pc[t] \in {"append", "callback"} => bucketLock = t
    /\ (\E t \in Thread : pc[t] = "append")
          => HasWaiters \/ \E t \in Thread : pc[t] = "unparkAll"
    /\ \A t \in Thread : pc[t] = "callback" /\ queue # <<>> => t \in more

\* The inductive invariant behind HasWaitersTruthful.
IInv == TypeOK /\ HasWaitersTruthful /\ BucketInv

\* No notification is lost, to the unlocked accesses of m_hasWaiters or to a
\* timeout: while there are items and threads waiting for them, some thread is
\* still notifying, or is awake and will look at the items.
NoLostNotification ==
    items > 0 /\ queue # <<>> =>
        \E t \in Thread : \/ pc[t] \in Notifying
                          \/ pc[t] \in Checking
                          \/ pc[t] \in Parking /\ t \notin address

Distinct(q) == \A i, j \in 1 .. Len(q) : q[i] = q[j] => i = j
QueuedOnce == Distinct(queue) /\ Queued \subseteq address
AddressAccounted ==
    \A t \in address : /\ pc[t] \in Parking
                       /\ t \in Queued \/ \E u \in Thread : t \in Elements(targets[u])
TargetsHeld ==
    \A u \in Thread : /\ targets[u] # <<>> => pc[u] \in {"callback", "wake"}
                      /\ Distinct(targets[u])
                      /\ Elements(targets[u]) \subseteq address \ Queued
OneUnparker ==
    \A u, v \in Thread : \A t \in Elements(targets[u]) : t \in Elements(targets[v]) => u = v

\* A waiter is in one pair of hands: while its ThreadData::address is set it is
\* parked, and is in the queue, once, or among the threads that exactly one
\* notifier has dequeued and will unpark; and no notifier has a thread that has
\* left.  A timeout that crosses the notification neither strands the waiter
\* nor lets the late unpark hit its next wait.
WaitersAccounted == QueuedOnce /\ AddressAccounted /\ TargetsHeld /\ OneUnparker

\* Nobody queues up beside an item.
EmptyHanded ==
    \A t \in Thread : pc[t] \in {"validate", "append", "beforeSleep"} => items = 0

\* The threads that will look at the items, or choose one that will: a notifier
\* passes its credit on to the thread it dequeues.
Credit == {t \in Thread :
              \/ pc[t] \in Checking \cup {"notifyOne", "unparkOne", "notifyAll", "clear", "unparkAll"}
              \/ pc[t] \in Parking /\ t \notin Queued}

\* While anybody is queued every item has a thread of its own that answers for
\* it, unless a notifyAll() is about to empty the queue.
ItemsCovered ==
    queue # <<>> /\ (\A t \in Thread : pc[t] # "unparkAll") => items <= Cardinality(Credit)

\* A waiter has the client's lock until it is queued and again when it looks at
\* the predicate, and nobody else changes the items meanwhile.
LockHeldAroundWait ==
    \A t \in Thread :
        pc[t] \in {"predicate", "lastPredicate", "validate", "append", "beforeSleep"}
            => owner = t

\* The inductive invariant behind NoLostNotification.
NotifyInv == IInv /\ LockHeldAroundWait /\ WaitersAccounted /\ EmptyHanded /\ ItemsCovered

\* Items and waiters do not stay side by side for ever.
ItemsReachWaiters == (items > 0 /\ queue # <<>>) ~> (items = 0 \/ queue = <<>>)
=============================================================================
