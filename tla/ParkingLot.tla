----------------------------- MODULE ParkingLot -----------------------------
(***************************************************************************)
(* WTF::ParkingLot (WTF/wtf/ParkingLot.cpp): parkConditionally() with its  *)
(* timeout, unparkOne() with and without a callback, unparkCount() and     *)
(* unparkAll(), thread creation and exit, and the concurrent hashtable of  *)
(* buckets that creation rehashes under everybody's feet.                  *)
(*                                                                         *)
(* hashtables is the list of all spines ever installed; none is freed, and *)
(* the last one is the current one.  A spine maps an index to a bucket or  *)
(* to null.  A Bucket is its number, which stands for its memory address   *)
(* (buckets are locked in that order).  A section under one bucket's lock  *)
(* is one step, possible when nobody owns the bucket: it touches nothing   *)
(* that may be touched without that lock.  lockHashtable(), which takes    *)
(* all the locks, takes one per step.                                      *)
(***************************************************************************)
EXTENDS Naturals, FiniteSets, Sequences, SequencesExt

CONSTANTS Thread,
          Address,
          Nil,             \* null: no address, no bucket, no owner
          Hash,            \* hashAddress(), from addresses to numbers
          Bucket,          \* the buckets that can be allocated, as numbers
          Malloc,          \* where new Bucket() may put one, given the allocated ones
          maxLoadFactor,   \* 3 in the code
          growthFactor,    \* 2 in the code
          Calls,           \* the unparks that are called on an address: see AllCalls
          ThreadsExit      \* do threads that parked also exit?

ASSUME NilAssumption == Nil \notin Thread \cup Address \cup Bucket
ASSUME HashAssumption == Hash \in [Address -> Nat]
ASSUME BucketAssumption == Bucket \subseteq Nat
ASSUME MallocAssumption == /\ Malloc \in [SUBSET Bucket -> SUBSET Bucket]
                           /\ \A A \in SUBSET Bucket : Malloc[A] \cap A = {}
ASSUME FactorAssumption == maxLoadFactor \in Nat \ {0} /\ growthFactor \in Nat \ {0}

\* unparkOne(), unparkOne() with a callback, and unparkCount().
AllCalls == {[kind |-> k, count |-> 1] : k \in {"one", "callback"}}
               \cup [kind : {"count"}, count : Nat \ {0}]
ASSUME CallsAssumption == Calls \in [Address -> SUBSET AllCalls]
ASSUME ThreadsExitAssumption == ThreadsExit \in BOOLEAN

VARIABLES hashtables,   \* the spines, the current one last
          queue,        \* Bucket::queueHead ... queueTail
          lock,         \* Bucket::lock: its owner or Nil
          numThreads,
          alive,        \* threads that have a ThreadData
          address,      \* ThreadData::address
          token,        \* ThreadData::token
          pc,
          arg,          \* the address a call of t is about
          currentNumThreads,  \* local of ThreadData's constructor
          myTable,      \* local myHashtable, as an index of hashtables
          myBucket,     \* local bucket
          buckets,      \* local buckets of lockHashtable()
          call,         \* which unpark, with its count
          targets,      \* local threadData or threadDatas, still to be woken
          didDequeue    \* local of parkConditionallyImpl(): did we take ourselves off?

tableVars == <<hashtables, lock, numThreads, alive>>
threadVars == <<address, token>>
locals == <<arg, currentNumThreads, myTable, myBucket, buckets, call, targets, didDequeue>>
vars == <<tableVars, queue, threadVars, pc, locals>>

NoCall == [kind |-> "none", count |-> 0]

hashtable == Len(hashtables)
Size(g) == Cardinality(DOMAIN hashtables[g])
Index(a, size) == Hash[a] % size

Init == /\ hashtables = <<>>
        /\ queue = [b \in Bucket |-> <<>>]
        /\ lock = [b \in Bucket |-> Nil]
        /\ numThreads = 0
        /\ alive = {}
        /\ address = [t \in Thread |-> Nil]
        /\ token = [t \in Thread |-> 0]
        /\ pc = [t \in Thread |-> "idle"]
        /\ arg = [t \in Thread |-> Nil]
        /\ currentNumThreads = [t \in Thread |-> 0]
        /\ myTable = [t \in Thread |-> 0]
        /\ myBucket = [t \in Thread |-> Nil]
        /\ buckets = [t \in Thread |-> {}]
        /\ call = [t \in Thread |-> NoCall]
        /\ targets = [t \in Thread |-> <<>>]
        /\ didDequeue = [t \in Thread |-> FALSE]

-----------------------------------------------------------------------------
Goto(t, l) == pc' = [pc EXCEPT ![t] = l]

\* A call returns: its locals die.
Return(t) == /\ Goto(t, "idle")
             /\ arg' = [arg EXCEPT ![t] = Nil]
             /\ currentNumThreads' = [currentNumThreads EXCEPT ![t] = 0]
             /\ myTable' = [myTable EXCEPT ![t] = 0]
             /\ myBucket' = [myBucket EXCEPT ![t] = Nil]
             /\ buckets' = [buckets EXCEPT ![t] = {}]
             /\ call' = [call EXCEPT ![t] = NoCall]
             /\ targets' = [targets EXCEPT ![t] = <<>>]
             /\ didDequeue' = [didDequeue EXCEPT ![t] = FALSE]

EmptySpine(size) == [i \in 0 .. size - 1 |-> Nil]

\* ensureHashtable(): the spines, with an initial one if there was none.
Ensured == IF hashtables = <<>> THEN <<EmptySpine(maxLoadFactor)>> ELSE hashtables

Spine(tables) == tables[Len(tables)]
Slot(tables, a) == Index(a, Cardinality(DOMAIN Spine(tables)))
InSpine(spine) == {spine[i] : i \in DOMAIN spine} \ {Nil}
Allocated(tables) == UNION {InSpine(tables[g]) : g \in DOMAIN tables}

\* tables with a bucket in every slot of I of the current spine: from the last
\* slot down, load the bucket or install a new one with a CAS.
Filled(tables, I) ==
    LET spine == Spine(tables)
        empty == {i \in I : spine[i] = Nil}
        New == {f \in [empty -> Bucket] : \A i \in empty :
                   f[i] \in Malloc[Allocated(tables) \cup {f[j] : j \in {j \in empty : j > i}}]}
    IN {[tables EXCEPT ![Len(tables)] =
            [i \in DOMAIN spine |-> IF i \in empty THEN f[i] ELSE spine[i]]] : f \in New}

\* The sequence s without the elements that are not in S.
Only(s, S) ==
    LET only[i \in 0 .. Len(s)] ==
            IF i = 0 THEN <<>>
            ELSE IF s[i] \in S THEN Append(only[i - 1], s[i]) ELSE only[i - 1]
    IN  only[Len(s)]

\* What sorting S yields.
Sorted(S) == {s \in [1 .. Cardinality(S) -> S] :
                 ToSet(s) = S /\ \A i, j \in DOMAIN s : i < j => s[i] < s[j]}
-----------------------------------------------------------------------------
(* ThreadData's constructor and destructor, ensureHashtableSize() *)

\* The first call of myThreadData() on a thread.
CreateThreadData(t) ==
    /\ pc[t] = "idle" /\ t \notin alive
    /\ alive' = alive \cup {t}
    /\ numThreads' = numThreads + 1
    /\ currentNumThreads' = [currentNumThreads EXCEPT ![t] = numThreads + 1]
    /\ Goto(t, "ensureSize")
    /\ UNCHANGED <<hashtables, lock, queue, threadVars, arg, myTable, myBucket,
                   buckets, call, targets, didDequeue>>

\* The thread is gone and so is the last RefPtr an unparker had on its data.
DestroyThreadData(t) ==
    /\ ThreadsExit
    /\ pc[t] = "idle" /\ t \in alive
    /\ \A u \in Thread : ~Contains(targets[u], t)
    /\ alive' = alive \ {t}
    /\ numThreads' = numThreads - 1
    /\ UNCHANGED <<hashtables, lock, queue, threadVars, pc, locals>>

LargeEnough(g, n) == g # 0 /\ Size(g) >= maxLoadFactor * n

FastSizeCheck(t) ==
    /\ pc[t] = "ensureSize"
    /\ \/ LargeEnough(hashtable, currentNumThreads[t]) /\ Return(t)
       \/ ~LargeEnough(hashtable, currentNumThreads[t]) /\ Goto(t, "lockHashtable") /\ UNCHANGED locals
    /\ UNCHANGED <<tableVars, queue, threadVars>>

\* lockHashtable(): fill the spine with buckets, to be able to lock them all.
CollectBuckets(t) ==
    /\ pc[t] = "lockHashtable"
    /\ \E full \in Filled(Ensured, DOMAIN Spine(Ensured)) :
          /\ hashtables' = full
          /\ myTable' = [myTable EXCEPT ![t] = Len(full)]
          /\ buckets' = [buckets EXCEPT ![t] = InSpine(Spine(full))]
    /\ Goto(t, "lockBuckets")
    /\ UNCHANGED <<lock, numThreads, alive, queue, threadVars, arg, currentNumThreads,
                   myBucket, call, targets, didDequeue>>

Locked(t) == {b \in Bucket : lock[b] = t}

LockNextBucket(t) ==
    /\ pc[t] = "lockBuckets"
    /\ LET b == Min(buckets[t] \ Locked(t))
       IN lock[b] = Nil /\ lock' = [lock EXCEPT ![b] = t]
    /\ Goto(t, IF buckets[t] = Locked(t)' THEN "checkHashtable" ELSE "lockBuckets")
    /\ UNCHANGED <<hashtables, numThreads, alive, queue, threadVars, locals>>

\* Mutant: trusts that the table it locked is still the current one.
CheckHashtableTrusting(t) ==
    /\ pc[t] = "checkHashtable"
    /\ Goto(t, IF LargeEnough(myTable[t], currentNumThreads[t]) THEN "unlockHashtable"
                                                               ELSE "rehash")
    /\ UNCHANGED <<tableVars, queue, threadVars, locals>>

\* Did somebody else rehash while we were locking?  If not, look at the size
\* again: we may have created the initial hashtable.
CheckHashtable(t) ==
    /\ pc[t] = "checkHashtable"
    /\ Goto(t, IF myTable[t] # hashtable THEN "unlockAndRetry"
               ELSE IF LargeEnough(hashtable, currentNumThreads[t]) THEN "unlockHashtable"
               ELSE "rehash")
    /\ UNCHANGED <<tableVars, queue, threadVars, locals>>

UnlockBuckets(t) == lock' = [b \in Bucket |-> IF lock[b] = t THEN Nil ELSE lock[b]]

UnlockAndRetry(t) ==
    /\ pc[t] = "unlockAndRetry"
    /\ UnlockBuckets(t)
    /\ Goto(t, "lockHashtable")
    /\ UNCHANGED <<hashtables, numThreads, alive, queue, threadVars, locals>>

UnlockHashtable(t) ==
    /\ pc[t] = "unlockHashtable"
    /\ UnlockBuckets(t)
    /\ Return(t)
    /\ UNCHANGED <<hashtables, numThreads, alive, queue, threadVars>>

\* The new spines that threadDatas can end up in: the slots that its threads
\* need, as they come, then the others from 0 up, are given the last of the old
\* buckets that are left.  When none is left, a thread gets a new one.
NewSpines(old, threadDatas, size) ==
    LET order == [k \in 1 .. Len(threadDatas) + size |->
                     IF k <= Len(threadDatas) THEN Index(address[threadDatas[k]], size)
                     ELSE k - Len(threadDatas) - 1]
        turn == [i \in 0 .. size - 1 |-> Min({k \in DOMAIN order : order[k] = i})]
        Given(f, i) == {f[j] : j \in {j \in 0 .. size - 1 : turn[j] < turn[i]}}
        Left(f, i) == old \ Given(f, i)
    IN {f \in [0 .. size - 1 -> Bucket \cup {Nil}] : \A i \in 0 .. size - 1 :
           f[i] \in IF Left(f, i) # {} THEN {b \in Left(f, i) : \A c \in Left(f, i) : c <= b}
                   ELSE IF turn[i] <= Len(threadDatas)
                   THEN Malloc[Allocated(hashtables) \cup (Given(f, i) \ {Nil})]
                   ELSE {Nil}}

\* Owning every bucket: empty them in order, put the threads where the new
\* spine wants them, and install it; everybody is still locked out.
Rehash(t) ==
    /\ pc[t] = "rehash"
    /\ \E size \in {currentNumThreads[t] * growthFactor * maxLoadFactor},
          old \in Sorted(buckets[t]) :
       \E threadDatas \in {FlattenSeq([i \in DOMAIN old |-> queue[old[i]]])} :
       \E spine \in NewSpines(buckets[t], threadDatas, size) :
          /\ hashtables' = Append(hashtables, spine)
          /\ queue' = [b \in Bucket |->
                IF b \in buckets[t] \cup InSpine(spine)
                THEN Only(threadDatas, {u \in ToSet(threadDatas) :
                                           spine[Index(address[u], size)] = b})
                ELSE queue[b]]
    /\ Goto(t, "unlockHashtable")
    /\ UNCHANGED <<lock, numThreads, alive, threadVars, locals>>

-----------------------------------------------------------------------------
(* parkConditionallyImpl() *)

\* The start of enqueue() and of dequeue(): load the hashtable, find or create
\* the bucket, and go on to lock it.
Locate(t, next) ==
    \E tables \in Filled(Ensured, {Slot(Ensured, arg[t])}) :
       /\ hashtables' = tables
       /\ myTable' = [myTable EXCEPT ![t] = Len(tables)]
       /\ myBucket' = [myBucket EXCEPT ![t] = Spine(tables)[Slot(tables, arg[t])]]
       /\ Goto(t, next)
       /\ UNCHANGED <<lock, numThreads, alive, queue, threadVars, arg, currentNumThreads,
                      buckets, call, targets, didDequeue>>

\* With BucketMode::IgnoreEmpty, no bucket means no work.
NoBucket(t) == Spine(Ensured)[Slot(Ensured, arg[t])] = Nil

\* Nobody owns the bucket that t wants to lock.
BucketAvailable(t) == lock[myBucket[t]] = Nil
\* Mutant: does not look whether the hashtable changed.
CurrentUnchecked(t) == t \in Thread
\* With the bucket locked: has the hashtable been rehashed under t?
Current(t) == myTable[t] = hashtable

\* It has: unlock the bucket and start over.
Retry(t, from, to) ==
    /\ pc[t] = from /\ BucketAvailable(t) /\ ~Current(t)
    /\ Goto(t, to)
    /\ UNCHANGED <<tableVars, queue, threadVars, locals>>

ParkConditionally(t, a) ==
    /\ pc[t] = "idle" /\ t \in alive
    /\ arg' = [arg EXCEPT ![t] = a]
    /\ Goto(t, "locate")
    /\ UNCHANGED <<tableVars, queue, threadVars, currentNumThreads, myTable, myBucket, buckets,
                   call, targets, didDequeue>>

LocateBucket(t) == pc[t] = "locate" /\ Locate(t, "enqueue")

\* The caller's validation said yes.
Enqueue(t) ==
    /\ pc[t] = "enqueue" /\ BucketAvailable(t) /\ Current(t)
    /\ address' = [address EXCEPT ![t] = arg[t]]
    /\ queue' = [queue EXCEPT ![myBucket[t]] = Append(@, t)]
    /\ Goto(t, "park")
    /\ UNCHANGED <<tableVars, token, locals>>

Refuse(t) ==
    /\ pc[t] = "enqueue" /\ BucketAvailable(t) /\ Current(t)
    /\ Return(t)
    /\ UNCHANGED <<tableVars, queue, threadVars>>

\* Mutant: keeps the token of an earlier unpark.
ParkKeepsToken(t) ==
    /\ pc[t] = "park"
    /\ \/ address[t] # Nil /\ Goto(t, "asleep") /\ UNCHANGED locals
       \/ address[t] = Nil /\ Return(t)
    /\ UNCHANGED <<tableVars, queue, threadVars>>

\* Under parkingLock.  The token is returned in the ParkResult and is then dead:
\* it is zeroed at the return, not at the start of the next call.
Park(t) ==
    /\ pc[t] = "park"
    /\ \/ address[t] # Nil /\ Goto(t, "asleep") /\ UNCHANGED <<token, locals>>
       \/ /\ address[t] = Nil
          /\ token' = [token EXCEPT ![t] = 0]
          /\ Return(t)
    /\ UNCHANGED <<tableVars, queue, address>>

\* The clock reached the timeout: before the wait or during it.
TimeOut(t) ==
    /\ pc[t] = "park" /\ address[t] # Nil
    /\ Goto(t, "timedOut")
    /\ UNCHANGED <<tableVars, queue, threadVars, locals>>

Awoken(l) == CASE l = "asleep" -> "park" [] l = "asleepFinish" -> "finish" [] OTHER -> l

\* A wait returns without a signal: timeout, or no reason at all.
StopWaiting(t) ==
    /\ pc[t] \in {"asleep", "asleepFinish"}
    /\ Goto(t, Awoken(pc[t]))
    /\ UNCHANGED <<tableVars, queue, threadVars, locals>>

\* dequeue() of ourselves, from the bucket of the current hashtable.
LocateSelf(t) ==
    /\ pc[t] = "timedOut"
    /\ \/ ~NoBucket(t) /\ Locate(t, "removeSelf")
       \/ /\ NoBucket(t)
          /\ Goto(t, "finish")
          /\ UNCHANGED <<tableVars, queue, threadVars, locals>>

RemoveSelf(t) ==
    /\ pc[t] = "removeSelf" /\ BucketAvailable(t) /\ Current(t)
    /\ didDequeue' = [didDequeue EXCEPT ![t] = Contains(queue[myBucket[t]], t)]
    /\ queue' = [queue EXCEPT ![myBucket[t]] = Only(@, Thread \ {t})]
    /\ Goto(t, "finish")
    /\ UNCHANGED <<tableVars, threadVars, arg, currentNumThreads, myTable, myBucket,
                   buckets, call, targets>>

\* Mutant: does not wait for the thread that dequeued us.
FinishWithoutWaiting(t) ==
    /\ pc[t] = "finish"
    /\ address' = [address EXCEPT ![t] = Nil]
    /\ token' = [token EXCEPT ![t] = 0]
    /\ Return(t)
    /\ UNCHANGED <<tableVars, queue>>

\* Under parkingLock: if somebody else dequeued us, wait for him to say so.
Finish(t) ==
    /\ pc[t] = "finish"
    /\ \/ /\ ~didDequeue[t] /\ address[t] # Nil
          /\ Goto(t, "asleepFinish")
          /\ UNCHANGED <<threadVars, locals>>
       \/ /\ didDequeue[t] \/ address[t] = Nil
          /\ address' = [address EXCEPT ![t] = Nil]
          /\ token' = [token EXCEPT ![t] = 0]
          /\ Return(t)
    /\ UNCHANGED <<tableVars, queue>>

-----------------------------------------------------------------------------
(* unparkOne(), unparkOneImpl() and unparkCount() *)

Unpark(t, a, c) ==
    /\ pc[t] = "idle"
    /\ arg' = [arg EXCEPT ![t] = a]
    /\ call' = [call EXCEPT ![t] = c]
    /\ Goto(t, "unpark")
    /\ UNCHANGED <<tableVars, queue, threadVars, currentNumThreads, myTable, myBucket,
                   buckets, targets, didDequeue>>

\* Only unparkCount() ignores an empty slot.
LocateTargets(t) ==
    /\ pc[t] = "unpark"
    /\ \/ (NoBucket(t) => call[t].kind # "count") /\ Locate(t, "dequeue")
       \/ /\ NoBucket(t) /\ call[t].kind = "count"
          /\ hashtables' = Ensured
          /\ Return(t)
          /\ UNCHANGED <<lock, numThreads, alive, queue, threadVars>>

\* The threads that have an address.
OnAddress(a) == {u \in Thread : address[u] = a}

\* Mutant: takes the latest threads instead of the first.
LastOf(b, a, n) == LET all == Only(queue[b], OnAddress(a))
                   IN SubSeq(all, IF n < Len(all) THEN Len(all) - n + 1 ELSE 1, Len(all))

\* The first threads of address a in bucket b, at most n of them.
FirstOf(b, a, n) == LET all == Only(queue[b], OnAddress(a))
                    IN SubSeq(all, 1, IF n < Len(all) THEN n ELSE Len(all))

\* genericDequeue(), and unparkOneImpl()'s callback, under the bucket lock.
Dequeue(t) ==
    /\ pc[t] = "dequeue" /\ BucketAvailable(t) /\ Current(t)
    /\ LET b == myBucket[t]
           found == FirstOf(b, arg[t], call[t].count)
       IN /\ queue' = [queue EXCEPT ![b] = Only(@, Thread \ ToSet(found))]
          /\ token' = IF call[t].kind = "callback" /\ found # <<>>
                      THEN [token EXCEPT ![found[1]] = 1] ELSE token
          /\ \/ /\ found # <<>>
                /\ Goto(t, "clearAddress")
                /\ targets' = [targets EXCEPT ![t] = found]
                /\ UNCHANGED <<arg, currentNumThreads, myTable, myBucket, buckets, call,
                               didDequeue>>
             \/ found = <<>> /\ Return(t)
    /\ UNCHANGED <<tableVars, address>>

\* Mutant: forgets to signal the last thread.
ClearAddressWithoutSignal(t) ==
    /\ pc[t] = "clearAddress"
    /\ address' = [address EXCEPT ![targets[t][1]] = Nil]
    /\ Return(t)
    /\ UNCHANGED <<tableVars, queue, token>>

\* Under the parkingLock of the next thread to wake.
ClearAddress(t) ==
    /\ pc[t] = "clearAddress"
    /\ address' = [address EXCEPT ![targets[t][1]] = Nil]
    /\ token' = IF call[t].kind = "one" THEN [token EXCEPT ![targets[t][1]] = 0] ELSE token
    /\ Goto(t, "signal")
    /\ UNCHANGED <<tableVars, queue, locals>>

Signal(t) ==
    /\ pc[t] = "signal"
    /\ LET u == targets[t][1]
           rest == Tail(targets[t])
       IN /\ pc' = [pc EXCEPT ![t] = IF rest = <<>> THEN "idle" ELSE "clearAddress",
                              ![u] = Awoken(@)]
          /\ targets' = [targets EXCEPT ![t] = rest]
          /\ IF rest = <<>>
             THEN /\ arg' = [arg EXCEPT ![t] = Nil]
                  /\ myTable' = [myTable EXCEPT ![t] = 0]
                  /\ myBucket' = [myBucket EXCEPT ![t] = Nil]
                  /\ call' = [call EXCEPT ![t] = NoCall]
             ELSE UNCHANGED <<arg, myTable, myBucket, call>>
    /\ UNCHANGED <<tableVars, queue, threadVars, currentNumThreads, buckets, didDequeue>>

-----------------------------------------------------------------------------
RehashStep(t) == \/ FastSizeCheck(t) \/ CollectBuckets(t) \/ LockNextBucket(t)
                 \/ CheckHashtable(t) \/ UnlockAndRetry(t) \/ UnlockHashtable(t) \/ Rehash(t)

ParkStep(t) == \/ LocateBucket(t) \/ Retry(t, "enqueue", "locate") \/ Enqueue(t)
               \/ Park(t) \/ LocateSelf(t) \/ Retry(t, "removeSelf", "timedOut")
               \/ RemoveSelf(t) \/ Finish(t)

UnparkStep(t) == \/ LocateTargets(t) \/ Retry(t, "dequeue", "unpark") \/ Dequeue(t)
                 \/ ClearAddress(t) \/ Signal(t)

Next == \E t \in Thread :
           \/ CreateThreadData(t) \/ DestroyThreadData(t) \/ RehashStep(t)
           \/ \E a \in Address : ParkConditionally(t, a)
           \/ Refuse(t) \/ ParkStep(t) \/ TimeOut(t) \/ StopWaiting(t)
           \/ \E a \in Address : \E c \in Calls[a] : Unpark(t, a, c)
           \/ UnparkStep(t)

Spec == Init /\ [][Next]_vars
-----------------------------------------------------------------------------
(* Properties *)

ParkPC == {"locate", "enqueue", "park", "asleep", "timedOut", "removeSelf", "finish",
           "asleepFinish"}

\* The bucket where the current hashtable looks for address a.
HomeOf(a) == IF hashtables = <<>> THEN Nil ELSE Spine(hashtables)[Slot(hashtables, a)]
QueuedAt(b) == ToSet(queue[b])
\* The threads that u has dequeued and whose address it has still to clear.
ToClear(u) == ToSet(IF pc[u] = "signal" THEN Tail(targets[u]) ELSE targets[u])

\* A thread with an address is on a queue, or was taken off it, once, by an
\* unparker that has still to clear it, or took itself off.  Whatever
\* rehashing took place since it parked, a queued thread is where its address
\* says, and only there; no bucket serves two slots.
NobodyForgotten ==
    /\ \A t \in Thread : address[t] # Nil =>
          LET queued == \E b \in Bucket : t \in QueuedAt(b)
              unparkers == {u \in Thread : t \in ToClear(u)}
          IN \/ queued /\ ~didDequeue[t] /\ unparkers = {}
             \/ ~queued /\ ~didDequeue[t] /\ Cardinality(unparkers) = 1
             \/ ~queued /\ didDequeue[t] /\ pc[t] = "finish"
    /\ \A b \in Bucket : \A t \in QueuedAt(b) : address[t] # Nil /\ HomeOf(address[t]) = b
    /\ \A b \in Bucket : Cardinality(QueuedAt(b)) = Len(queue[b])
    /\ hashtables # <<>> =>
          \A i, j \in DOMAIN Spine(hashtables) :
              Spine(hashtables)[i] = Spine(hashtables)[j] /\ i # j
                  => Spine(hashtables)[i] = Nil

\* RELEASE_ASSERTs: nobody parks while parked, nobody leaves the function
\* while linked, a rehash grows the table, and whoever installs a new table
\* replaces the one it locked.
AssertionsHold ==
    \A t \in Thread :
        /\ pc[t] \in {"locate", "enqueue"} => address[t] = Nil
        /\ pc[t] \in {"finish", "asleepFinish"} => \A b \in Bucket : t \notin QueuedAt(b)
        /\ pc[t] = "rehash" =>
              /\ currentNumThreads[t] * growthFactor * maxLoadFactor > Size(hashtable)
              /\ myTable[t] = hashtable
              /\ \A b \in InSpine(Spine(hashtables)) : lock[b] = t
        /\ pc[t] = "clearAddress" => address[targets[t][1]] # Nil

\* The token tells who unparked: it is the callback's between the dequeue by
\* unparkOne() with a callback and the return, and 0 after the other unparks.
TokenTruthful ==
    \A u \in Thread : \A t \in ToClear(u) :
        token[t] = IF call[u].kind = "callback" THEN 1 ELSE 0

\* mayHaveMoreThreads, computed from the bucket alone, never denies a parked
\* thread of the same address: after a dequeue that empties its bucket, nobody
\* is parked on that address anywhere.
NoMoreThreadsIsTrue ==
    [][\A t \in Thread :
          pc[t] = "dequeue" /\ pc'[t] \in {"clearAddress", "idle"} /\ queue'[myBucket[t]] = <<>>
              => \A b \in Bucket : \A u \in ToSet(queue'[b]) : address'[u] # arg[t]]_vars

\* The buckets and their rehashing implement one FIFO queue per address.
QueueOf(a) == IF HomeOf(a) = Nil THEN <<>>
              ELSE Only(queue[HomeOf(a)], OnAddress(a))
StatusOf(t) == IF \E b \in Bucket : t \in QueuedAt(b) THEN "parked"
               ELSE IF pc[t] \notin ParkPC \ {"locate", "enqueue"} THEN "running"
               ELSE IF didDequeue[t] THEN "timedOut" ELSE "unparked"
AsQueues == INSTANCE ParkingQueues WITH
               queues <- [a \in Address |-> QueueOf(a)],
               status <- [t \in Thread |-> StatusOf(t)]
ImplementsQueues == AsQueues!Spec

\* Nobody waits for what will not come: a thread asleep without an address is
\* about to be signalled, whatever its timeout and the unparker raced for, and
\* no threads that lock whole hashtables, old and new ones at a time, hold
\* buckets that each of them still needs from another.
NobodyStuck ==
    /\ \A t \in Thread : pc[t] \in {"asleep", "asleepFinish"} /\ address[t] = Nil =>
          \E u \in Thread : pc[u] = "signal" /\ targets[u][1] = t
    /\ ~ \E S \in (SUBSET Thread) \ {{}} : \A t \in S :
          pc[t] = "lockBuckets" /\ \E b \in buckets[t] \ Locked(t) : lock[b] \in S
-----------------------------------------------------------------------------
(* The inductive invariant *)

SizingPC == {"ensureSize", "lockHashtable"}
RehashPC == {"lockBuckets", "checkHashtable", "unlockAndRetry", "unlockHashtable", "rehash"}
BucketPC == {"enqueue", "removeSelf", "dequeue"}
\* The part of parkConditionallyImpl() after the thread was put on a queue.
ParkedPC == ParkPC \ {"locate", "enqueue"}
WakePC == {"clearAddress", "signal"}
AllPC == {"idle", "unpark", "dequeue"} \cup SizingPC \cup RehashPC \cup ParkPC \cup WakePC

Spines == UNION {[0 .. n - 1 -> Bucket \cup {Nil}] : n \in Nat \ {0}}

TypeOK ==
    /\ hashtables \in Seq(Spines)
    /\ queue \in [Bucket -> Seq(Thread)]
    /\ lock \in [Bucket -> Thread \cup {Nil}]
    /\ alive \in SUBSET Thread /\ IsFiniteSet(alive) /\ numThreads = Cardinality(alive)
    /\ address \in [Thread -> Address \cup {Nil}]
    /\ token \in [Thread -> {0, 1}]
    /\ pc \in [Thread -> AllPC]
    /\ arg \in [Thread -> Address \cup {Nil}]
    /\ currentNumThreads \in [Thread -> Nat]
    /\ myTable \in [Thread -> Nat]
    /\ myBucket \in [Thread -> Bucket \cup {Nil}]
    /\ buckets \in [Thread -> SUBSET Bucket]
    /\ call \in [Thread -> AllCalls \cup {NoCall}]
    /\ targets \in [Thread -> Seq(Thread)]
    /\ didDequeue \in [Thread -> BOOLEAN]

OneToOne(spine) == \A i, j \in DOMAIN spine : spine[i] = spine[j] /\ i # j => spine[i] = Nil
Full(spine) == \A i \in DOMAIN spine : spine[i] # Nil

\* What a thread knows of the spines: slots that have a bucket keep it, so the
\* bucket it found and the set it collected are still those of its table.
TableOK(t) ==
    /\ pc[t] \in ParkPC \cup {"unpark", "dequeue"} => arg[t] \in Address
    /\ pc[t] \in SizingPC \cup RehashPC => currentNumThreads[t] # 0
    /\ pc[t] \in {"unpark", "dequeue"} \cup WakePC => call[t] \in AllCalls
    /\ pc[t] \in BucketPC =>
          /\ myTable[t] \in 1 .. hashtable
          /\ myBucket[t] = hashtables[myTable[t]][Index(arg[t], Size(myTable[t]))]
          /\ myBucket[t] # Nil
    /\ pc[t] \in RehashPC =>
          /\ myTable[t] \in 1 .. hashtable
          /\ buckets[t] = InSpine(hashtables[myTable[t]])
          /\ Full(hashtables[myTable[t]])

TablesOK == /\ hashtables # <<>> => OneToOne(Spine(hashtables))
            /\ \A t \in Thread : TableOK(t)

\* Buckets are locked from the lowest up, and all of them from checkHashtable
\* to the unlock.
LockOK(t) ==
    /\ pc[t] = "lockBuckets" =>
          /\ \E b \in buckets[t] : lock[b] # t
          /\ \A b, c \in buckets[t] : lock[b] = t /\ lock[c] # t => b < c
    /\ pc[t] \in RehashPC \ {"lockBuckets"} => \A b \in buckets[t] : lock[b] = t
    /\ pc[t] = "rehash" => /\ myTable[t] = hashtable
                           /\ ~LargeEnough(hashtable, currentNumThreads[t])

LocksOK ==
    /\ \A b \in Bucket : lock[b] # Nil => pc[lock[b]] \in RehashPC /\ b \in buckets[lock[b]]
    /\ \A t \in Thread : LockOK(t)
    /\ \E n \in Nat : \A b \in Bucket : lock[b] # Nil => b < n

\* Where a thread that has an address is.
AddressOK(t) ==
    /\ address[t] # Nil =>
          /\ pc[t] \in ParkedPC /\ arg[t] = address[t]
          /\ \/ \E b \in Bucket : t \in QueuedAt(b)
             \/ \E u \in Thread : t \in ToClear(u)
             \/ didDequeue[t]
    /\ didDequeue[t] => /\ pc[t] = "finish" /\ address[t] # Nil
                        /\ \A b \in Bucket : t \notin QueuedAt(b)

\* What a thread on a queue is.
QueueOK(b) ==
    /\ IsInjective(queue[b])
    /\ \A t \in QueuedAt(b) : /\ address[t] # Nil /\ HomeOf(address[t]) = b
                              /\ pc[t] \notin {"finish", "asleepFinish"}

\* What an unparker has to wake.
TargetsOK(u) ==
    /\ targets[u] # <<>> <=> pc[u] \in WakePC
    /\ IsInjective(targets[u])
    /\ u \notin ToSet(targets[u])
    /\ \A t \in ToClear(u) : /\ address[t] # Nil /\ ~didDequeue[t]
                             /\ \A b \in Bucket : t \notin QueuedAt(b)
                             /\ \A v \in Thread : t \in ToClear(v) => v = u
                             /\ token[t] = IF call[u].kind = "callback" THEN 1 ELSE 0

\* Who has a token was unparked, and who sleeps without an address is woken.
WokenOK(t) ==
    /\ token[t] # 0 => \/ \E u \in Thread : t \in ToClear(u)
                       \/ address[t] = Nil /\ pc[t] \in ParkedPC
    /\ pc[t] \in {"asleep", "asleepFinish"} /\ address[t] = Nil =>
          \E u \in Thread : pc[u] = "signal" /\ targets[u][1] = t

PlacesOK == /\ \A t \in Thread : AddressOK(t) /\ TargetsOK(t) /\ WokenOK(t)
            /\ \A b \in Bucket : QueueOK(b)

IInv == TypeOK /\ TablesOK /\ LocksOK /\ PlacesOK
=============================================================================
