-------------------------- MODULE AutomaticThread --------------------------
(***************************************************************************)
(* AutomaticThread and AutomaticThreadCondition (WTF/wtf/AutomaticThread): *)
(* threads that sleep when there is nothing to do, exit after ten idle     *)
(* seconds and are started again when notified.  The users in this project *)
(* (ParallelHelperPool, DFGWorklist) extend this module and say what       *)
(* poll() and work() do.  Everything here happens under the users' m_lock, *)
(* so every operator is part of one step; the wait gives the lock up and   *)
(* takes it again.                                                         *)
(***************************************************************************)
EXTENDS Naturals

CONSTANT Thread   \* numbered in the order of m_threads
ASSUME ThreadAssumption == Thread \subseteq Nat

VARIABLES added,         \* m_threads of the condition
          isRunning,     \* the threads with m_isRunning
          isWaiting,     \* m_isWaiting
          hasUnderlying, \* m_hasUnderlyingThread
          where          \* what the underlying thread is about to do

autoVars == <<added, isRunning, isWaiting, hasUnderlying, where>>

AutoInit(T) == /\ added = T /\ isRunning = T
               /\ isWaiting = {} /\ hasUnderlying = {}
               /\ where = [t \in Thread |-> "none"]

Waiting(T) == T \cap hasUnderlying \cap isWaiting
Down(T) == T \ hasUnderlying
First(T) == CHOOSE t \in T : \A u \in T : t <= u

\* notify() for the threads of W and start() for those of D; T are the threads
\* of the condition, new ones included.  A thread that timed out and wants the
\* lock back has left m_waitCondition: clearing m_isWaiting is all it gets.
Notify(W, D, T) ==
    /\ added' = T
    /\ isRunning' = isRunning \cup (T \ added)
    /\ isWaiting' = isWaiting \ W
    /\ hasUnderlying' = hasUnderlying \cup D
    /\ where' = [t \in Thread |->
                   IF t \in D THEN "poll"
                   ELSE IF t \in W /\ where[t] = "asleep" THEN "awake" ELSE where[t]]

NotifyAll(T) == Notify(Waiting(T), Down(T), T)

\* Mutant: wakes a waiting thread or nobody.
NotifyOneForgetsDown ==
    IF Waiting(added) # {} THEN Notify({First(Waiting(added))}, {}, added)
    ELSE UNCHANGED autoVars

\* Nobody waits on m_condition itself.
NotifyOne ==
    IF Waiting(added) # {} THEN Notify({First(Waiting(added))}, {}, added)
    ELSE IF Down(added) # {} THEN Notify({}, {First(Down(added))}, added)
    ELSE UNCHANGED autoVars

\* The three results of poll().
PollWork(t) == /\ where[t] = "poll"
               /\ where' = [where EXCEPT ![t] = "work"]
               /\ UNCHANGED <<added, isRunning, isWaiting, hasUnderlying>>

PollWait(t) == /\ where[t] = "poll"
               /\ isWaiting' = isWaiting \cup {t}
               /\ where' = [where EXCEPT ![t] = "asleep"]
               /\ UNCHANGED <<added, isRunning, hasUnderlying>>

PollStop(t) == /\ where[t] = "poll"
               /\ isRunning' = isRunning \ {t}
               /\ hasUnderlying' = hasUnderlying \ {t}
               /\ where' = [where EXCEPT ![t] = "none"]
               /\ UNCHANGED <<added, isWaiting>>

WorkContinue(t) == /\ where[t] = "work"
                   /\ where' = [where EXCEPT ![t] = "poll"]
                   /\ UNCHANGED <<added, isRunning, isWaiting, hasUnderlying>>

\* waitFor() gives up after ten seconds ...
TimeOut(t) == /\ where[t] = "asleep"
              /\ where' = [where EXCEPT ![t] = "timedOut"]
              /\ UNCHANGED <<added, isRunning, isWaiting, hasUnderlying>>

\* Mutant: takes the result of the timed wait for the truth.
RelockTrustsWait(t) ==
    /\ where[t] \in {"awake", "timedOut"}
    /\ isWaiting' = isWaiting \ {t}
    /\ hasUnderlying' = IF where[t] = "timedOut" THEN hasUnderlying \ {t} ELSE hasUnderlying
    /\ where' = [where EXCEPT ![t] = IF @ = "timedOut" THEN "none" ELSE "poll"]
    /\ UNCHANGED <<added, isRunning>>

\* ... and whoever gets the lock back goes by m_isWaiting, not by how the wait
\* ended: still set, nobody wants the thread, and it exits.
Relock(t) ==
    /\ where[t] \in {"awake", "timedOut"}
    /\ isWaiting' = isWaiting \ {t}
    /\ hasUnderlying' = IF t \in isWaiting THEN hasUnderlying \ {t} ELSE hasUnderlying
    /\ where' = [where EXCEPT ![t] = IF t \in isWaiting THEN "none" ELSE "poll"]
    /\ UNCHANGED <<added, isRunning>>

\* RELEASE_ASSERT(m_isRunning) of start(), for whoever notifies next.
StartAsserts == Down(added) \subseteq isRunning
=============================================================================
