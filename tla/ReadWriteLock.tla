--------------------------- MODULE ReadWriteLock ---------------------------
(***************************************************************************)
(* WTF::ReadWriteLock (WTF/wtf/ReadWriteLock.h, ReadWriteLock.cpp): three  *)
(* fields guarded by a Lock, and one Condition for readers and writers     *)
(* alike.  Waiting writers keep new readers out.                           *)
(*                                                                         *)
(* m_lock is a mutex (module Lock).  A wait() is on the condition's queue  *)
(* before it releases m_lock (module Condition), so the release and the    *)
(* wait are one step; and notifyAll() is always called with m_lock held,   *)
(* so that it wakes all the threads waiting before any of them can go on.  *)
(* A thread does not lock again what it holds.                             *)
(***************************************************************************)
EXTENDS ReadWriteLockState

CONSTANT MayWrite     \* the threads that ever call writeLock()

ASSUME MayWriteAssumption == MayWrite \subseteq Thread

counters == <<m_writeLocked, m_numReaders, m_numWaitingWriters>>
vars == <<m_lock, counters, place>>

\* Entry of the four functions, where m_lock is taken; under m_lock; notified and
\* taking m_lock again.
Entering == {"readLock", "writeLock", "readUnlock", "writeUnlock"}
Locked == {"readCheck", "writeCheck", "readLeave", "writeLeave"}
Woken == {"readWoken", "writeWoken"}
PC == {"idle", "reading", "writing"} \cup Entering \cup Locked \cup Sleeping \cup Woken

Init == /\ m_lock = Nil
        /\ m_writeLocked = {}
        /\ m_numReaders = 0
        /\ m_numWaitingWriters = 0
        /\ place = [t \in Thread |-> "idle"]

-----------------------------------------------------------------------------
Goto(t, l) == place' = [place EXCEPT ![t] = l]

\* A thread calls readLock() or writeLock(), or the unlock of what it holds.
Call(t) ==
    /\ \/ place[t] = "idle" /\ Goto(t, "readLock")
       \/ place[t] = "idle" /\ t \in MayWrite /\ Goto(t, "writeLock")
       \/ place[t] = "reading" /\ Goto(t, "readUnlock")
       \/ place[t] = "writing" /\ Goto(t, "writeUnlock")
    /\ UNCHANGED <<m_lock, counters>>

\* holdLock(m_lock) at the head of each function.
HoldLock(t) ==
    /\ m_lock = Nil
    /\ m_lock' = t
    /\ \/ place[t] = "readLock" /\ Goto(t, "readCheck")
       \/ place[t] = "writeLock" /\ Goto(t, "writeCheck")
       \/ place[t] = "readUnlock" /\ Goto(t, "readLeave")
       \/ place[t] = "writeUnlock" /\ Goto(t, "writeLeave")
    /\ UNCHANGED counters

\* m_cond.wait(m_lock) returns with m_lock; only then is the writer not counted
\* as waiting any more.
Resume(t) ==
    /\ m_lock = Nil
    /\ m_lock' = t
    /\ \/ /\ place[t] = "readWoken"
          /\ Goto(t, "readCheck")
          /\ UNCHANGED m_numWaitingWriters
       \/ /\ place[t] = "writeWoken"
          /\ Goto(t, "writeCheck")
          /\ m_numWaitingWriters' = m_numWaitingWriters - 1
    /\ UNCHANGED <<m_writeLocked, m_numReaders>>

\* Mutant: readers do not give way to waiting writers.
ReadCheckBarges(t) ==
    /\ place[t] = "readCheck"
    /\ m_lock' = Nil
    /\ \/ /\ m_writeLocked # {}
          /\ Goto(t, "readWait")
          /\ UNCHANGED m_numReaders
       \/ /\ m_writeLocked = {}
          /\ Goto(t, "reading")
          /\ m_numReaders' = m_numReaders + 1
    /\ UNCHANGED <<m_writeLocked, m_numWaitingWriters>>

\* readLock()'s loop and its end.
ReadCheck(t) ==
    /\ place[t] = "readCheck"
    /\ m_lock' = Nil
    /\ \/ /\ m_writeLocked # {} \/ m_numWaitingWriters # 0
          /\ Goto(t, "readWait")
          /\ UNCHANGED m_numReaders
       \/ /\ m_writeLocked = {} /\ m_numWaitingWriters = 0
          /\ Goto(t, "reading")
          /\ m_numReaders' = m_numReaders + 1
    /\ UNCHANGED <<m_writeLocked, m_numWaitingWriters>>

\* Mutant: looks for a writer only.
WriteCheckIgnoresReaders(t) ==
    /\ place[t] = "writeCheck"
    /\ m_lock' = Nil
    /\ \/ /\ m_writeLocked # {}
          /\ m_numWaitingWriters' = m_numWaitingWriters + 1
          /\ Goto(t, "writeWait")
          /\ UNCHANGED m_writeLocked
       \/ /\ m_writeLocked = {}
          /\ m_writeLocked' = {"writer"}
          /\ Goto(t, "writing")
          /\ UNCHANGED m_numWaitingWriters
    /\ UNCHANGED m_numReaders

\* writeLock()'s loop and its end.
WriteCheck(t) ==
    /\ place[t] = "writeCheck"
    /\ m_lock' = Nil
    /\ \/ /\ m_writeLocked # {} \/ m_numReaders # 0
          /\ m_numWaitingWriters' = m_numWaitingWriters + 1
          /\ Goto(t, "writeWait")
          /\ UNCHANGED m_writeLocked
       \/ /\ m_writeLocked = {} /\ m_numReaders = 0
          /\ m_writeLocked' = {"writer"}
          /\ Goto(t, "writing")
          /\ UNCHANGED m_numWaitingWriters
    /\ UNCHANGED m_numReaders

\* m_cond.notifyAll() and the return of t from its function.
NotifyAll(t) ==
    place' = [u \in Thread |-> IF u = t THEN "idle"
                            ELSE IF place[u] = "readWait" THEN "readWoken"
                            ELSE IF place[u] = "writeWait" THEN "writeWoken"
                            ELSE place[u]]

\* Mutant: notifies while readers remain, not when the last one leaves.
ReadLeaveNotifiesEarly(t) ==
    /\ place[t] = "readLeave"
    /\ m_lock' = Nil
    /\ m_numReaders' = m_numReaders - 1
    /\ \/ m_numReaders' # 0 /\ NotifyAll(t)
       \/ m_numReaders' = 0 /\ Goto(t, "idle")
    /\ UNCHANGED <<m_writeLocked, m_numWaitingWriters>>

\* readUnlock() under m_lock.
ReadLeave(t) ==
    /\ place[t] = "readLeave"
    /\ m_lock' = Nil
    /\ m_numReaders' = m_numReaders - 1
    /\ \/ m_numReaders' = 0 /\ NotifyAll(t)
       \/ m_numReaders' # 0 /\ Goto(t, "idle")
    /\ UNCHANGED <<m_writeLocked, m_numWaitingWriters>>

\* writeUnlock() under m_lock.
WriteLeave(t) ==
    /\ place[t] = "writeLeave"
    /\ m_lock' = Nil
    /\ m_writeLocked' = {}
    /\ NotifyAll(t)
    /\ UNCHANGED <<m_numReaders, m_numWaitingWriters>>

-----------------------------------------------------------------------------
Step(t) == \/ HoldLock(t) \/ Resume(t) \/ ReadCheck(t) \/ WriteCheck(t)
           \/ ReadLeave(t) \/ WriteLeave(t)

Next == \E t \in Thread : Call(t) \/ Step(t)

Spec == Init /\ [][Next]_vars

\* Threads are scheduled, and whoever holds the lock unlocks it in the end.
\* Nobody is obliged to ask for it, and m_lock is not fair.
Fairness == \A t \in Thread :
                /\ WF_vars(Step(t))
                /\ WF_vars(place[t] \in {"reading", "writing"} /\ Call(t))

FairSpec == Spec /\ Fairness
-----------------------------------------------------------------------------
(* Properties *)

TypeOK == /\ m_lock \in Thread \cup {Nil}
          /\ m_writeLocked \in SUBSET {"writer"}
          /\ m_numReaders \in Int
          /\ m_numWaitingWriters \in Int
          /\ place \in [Thread -> PC]

\* The fields say who holds the lock and who waits to write.
CountersTruthful ==
    /\ \A t \in Thread : place[t] \in Locked => m_lock = t
    /\ m_writeLocked # {} <=> Writers # {}
    /\ m_numReaders = Cardinality(Readers)
    /\ m_numWaitingWriters = Cardinality(WaitingWriters)

\* No waiting writer without somebody to wake it.
WriterInv == (\E t \in Thread : place[t] = "writeWait") => Readers \cup Writers # {}

IInv == TypeOK /\ Exclusion /\ CountersTruthful /\ NobodyStranded /\ WriterInv

\* A writer gets in, however many readers come and go: while one waits and
\* none writes, one of them will.
WriterEnters == ((\E t \in MayWrite : place[t] = "writeWait") /\ Writers = {}) ~> (Writers # {})
=============================================================================
