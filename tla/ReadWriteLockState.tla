------------------------- MODULE ReadWriteLockState -------------------------
(***************************************************************************)
(* The state of a WTF::ReadWriteLock and of the threads that use it, and   *)
(* what the lock promises of them.  How it keeps the promise is the        *)
(* subject of module ReadWriteLock.                                        *)
(***************************************************************************)
EXTENDS Threads

VARIABLES m_lock,               \* the thread that holds m_lock, or Nil
          m_writeLocked,        \* {"writer"} for m_isWriteLocked, else {}
          m_numReaders,
          m_numWaitingWriters,
          place                 \* where each thread is in the four functions

\* Between a lock and the end of its unlock, in m_cond.wait() for the sake of
\* writeLock(), and on the queue of m_cond.
Readers == {t \in Thread : place[t] \in {"reading", "readUnlock", "readLeave"}}
Writers == {t \in Thread : place[t] \in {"writing", "writeUnlock", "writeLeave"}}
WaitingWriters == {t \in Thread : place[t] \in {"writeWait", "writeWoken"}}
Sleeping == {"readWait", "writeWait"}

\* A writer is alone: no second writer and no reader is between its lock() and
\* its unlock() at the same time.
Exclusion == /\ \A s, t \in Writers : s = t
             /\ Writers = {} \/ Readers = {}

\* Nobody waits for a lock that is free: while a thread waits on m_cond the lock
\* is held, and its holder will notify, or a writer is awake and about to take
\* the lock.  Readers that gave way to a writer depend on that writer.
NobodyStranded ==
    (\E t \in Thread : place[t] \in Sleeping)
        => \/ Readers \cup Writers # {}
           \/ \E t \in Thread : place[t] \in {"writeWoken", "writeCheck"}

\* From the moment writeLock() finds the lock taken until that writer has looked
\* again, no reader gets in.
WriterPreference ==
    [][WaitingWriters # {} => Readers' \subseteq Readers]_<<m_lock, m_writeLocked,
          m_numReaders, m_numWaitingWriters, place>>
=============================================================================
