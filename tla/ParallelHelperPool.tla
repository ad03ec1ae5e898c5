------------------------- MODULE ParallelHelperPool -------------------------
(***************************************************************************)
(* ParallelHelperPool and its clients (WTF/wtf/ParallelHelperPool.cpp), on *)
(* top of AutomaticThread.  The thread that owns a client sets a task,     *)
(* helps with it, finishes; pool threads and other owners run whatever     *)
(* task they find.  One lock guards it all; a task runs outside of it.     *)
(***************************************************************************)
EXTENDS AutomaticThread, FiniteSets

CONSTANTS Client,  \* each with the thread that owns it
          MaxTask, \* bound on the tasks a client sets
          NoTask

ASSUME PoolAssumption == MaxTask \in Nat /\ NoTask \notin Nat /\ IsFiniteSet(Thread)
                         /\ IsFiniteSet(Client) /\ Thread \cap Client = {}
                         /\ NoTask \notin Client

VARIABLES numThreads,  \* m_numThreads
          m_task, m_numActive, \* per client
          taskCount,   \* how many tasks the client has set; names the task
          owner,       \* what the client's owner does
          claim,       \* the client whose task a thread or an owner runs, and
          claimed,     \* the task
          m_isDying

poolVars == <<numThreads, m_task, m_numActive, taskCount, owner, claim, claimed, m_isDying>>
vars == <<autoVars, poolVars>>

Runner == Thread \cup Client
Nobody == NoTask

Init == /\ AutoInit({})
        /\ numThreads = 0
        /\ m_task = [c \in Client |-> NoTask]
        /\ m_numActive = [c \in Client |-> 0]
        /\ taskCount = [c \in Client |-> 0]
        /\ owner = [c \in Client |-> "idle"]
        /\ claim = [r \in Runner |-> Nobody]
        /\ claimed = [r \in Runner |-> NoTask]
        /\ m_isDying = FALSE

HasTask == {c \in Client : m_task[c] # NoTask}
FirstThreads(n) == {t \in Thread : Cardinality({u \in Thread : u < t}) < n}
-----------------------------------------------------------------------------
DidMakeWorkAvailable(n) == NotifyAll(added \cup FirstThreads(n))

\* A request for fewer threads than there are is ignored.
EnsureThreads(n) ==
    /\ ~m_isDying
    /\ n >= numThreads /\ n <= Cardinality(Thread)
    /\ numThreads' = n
    /\ IF HasTask # {} THEN DidMakeWorkAvailable(n) ELSE UNCHANGED autoVars
    /\ UNCHANGED <<m_task, m_numActive, taskCount, owner, claim, claimed, m_isDying>>

SetTask(c) ==
    /\ owner[c] = "idle" /\ taskCount[c] < MaxTask
    /\ taskCount' = [taskCount EXCEPT ![c] = @ + 1]
    /\ m_task' = [m_task EXCEPT ![c] = taskCount[c] + 1]
    /\ owner' = [owner EXCEPT ![c] = "set"]
    /\ DidMakeWorkAvailable(numThreads)
    /\ UNCHANGED <<numThreads, m_numActive, claim, claimed, m_isDying>>

\* claimTask() by r, of a client that has a task.
ClaimTask(r, c) ==
    /\ m_task[c] # NoTask
    /\ m_numActive' = [m_numActive EXCEPT ![c] = @ + 1]
    /\ claim' = [claim EXCEPT ![r] = c]
    /\ claimed' = [claimed EXCEPT ![r] = m_task[c]]
    /\ UNCHANGED <<numThreads, m_task, taskCount, m_isDying>>

\* doSomeHelping() of the client, by its owner, or of the pool, by anybody.
DoSomeHelping(c) ==
    /\ \/ owner[c] = "set" /\ ClaimTask(c, c)
       \/ owner[c] = "idle" /\ \E d \in HasTask : ClaimTask(c, d)
    /\ owner' = [owner EXCEPT ![c] = IF @ = "set" THEN "running" ELSE "helping"]
    /\ UNCHANGED autoVars

\* Mutant: whoever returns leaves the task installed.
RunTaskKeepsTask(r) ==
    LET c == claim[r] IN
    /\ m_numActive' = [m_numActive EXCEPT ![c] = @ - 1]
    /\ claim' = [claim EXCEPT ![r] = Nobody]
    /\ claimed' = [claimed EXCEPT ![r] = NoTask]
    /\ owner' = [d \in Client |->
                   IF d = r THEN (IF owner[d] = "running" THEN "set" ELSE "idle")
                   ELSE IF owner[d] = "waiting" /\ m_numActive'[c] = 0 THEN "awake"
                   ELSE owner[d]]
    /\ UNCHANGED <<numThreads, m_task, taskCount, m_isDying>>

\* The end of runTask() by r: the first to return clears the task, the last
\* wakes everybody who waits in finish().
RunTask(r) ==
    LET c == claim[r] IN
    /\ m_task' = [m_task EXCEPT ![c] = NoTask]
    /\ m_numActive' = [m_numActive EXCEPT ![c] = @ - 1]
    /\ claim' = [claim EXCEPT ![r] = Nobody]
    /\ claimed' = [claimed EXCEPT ![r] = NoTask]
    /\ owner' = [d \in Client |->
                   IF d = r THEN (IF owner[d] = "running" THEN "set" ELSE "idle")
                   ELSE IF owner[d] = "waiting" /\ m_numActive'[c] = 0 THEN "awake"
                   ELSE owner[d]]
    /\ UNCHANGED <<numThreads, taskCount, m_isDying>>

OwnerReturns(c) == claim[c] # Nobody /\ RunTask(c) /\ UNCHANGED autoVars

\* Mutant: takes the task away and returns.
FinishDoesNotWait(c) ==
    /\ owner[c] \in {"set", "awake"}
    /\ m_task' = [m_task EXCEPT ![c] = NoTask]
    /\ owner' = [owner EXCEPT ![c] = "idle"]
    /\ UNCHANGED <<numThreads, m_numActive, taskCount, claim, claimed, m_isDying>>
    /\ UNCHANGED autoVars

\* finish(): the task is taken away before the wait; a woken owner looks again.
Finish(c) ==
    /\ owner[c] \in {"set", "awake"}
    /\ m_task' = [m_task EXCEPT ![c] = NoTask]
    /\ owner' = [owner EXCEPT ![c] = IF m_numActive[c] = 0 THEN "idle" ELSE "waiting"]
    /\ UNCHANGED <<numThreads, m_numActive, taskCount, claim, claimed, m_isDying>>
    /\ UNCHANGED autoVars

\* The client is destroyed; finish() has nothing to wait for.
DestroyClient(c) ==
    /\ owner[c] = "idle"
    /\ owner' = [owner EXCEPT ![c] = "gone"]
    /\ UNCHANGED <<numThreads, m_task, m_numActive, taskCount, claim, claimed, m_isDying>>
    /\ UNCHANGED autoVars

DestroyPool ==
    /\ ~m_isDying /\ \A c \in Client : owner[c] = "gone"
    /\ m_isDying' = TRUE
    /\ NotifyAll(added)
    /\ UNCHANGED <<numThreads, m_task, m_numActive, taskCount, owner, claim, claimed>>

\* The destructor has joined every thread.
Joined == m_isDying /\ isRunning = {}
-----------------------------------------------------------------------------
Poll(t) ==
    \/ m_isDying /\ PollStop(t) /\ UNCHANGED poolVars
    \/ ~m_isDying /\ HasTask = {} /\ PollWait(t) /\ UNCHANGED poolVars
    \/ /\ ~m_isDying /\ PollWork(t)
       /\ \E c \in HasTask : ClaimTask(t, c)
       /\ UNCHANGED owner

Work(t) == WorkContinue(t) /\ RunTask(t)

ThreadStep(t) == Poll(t) \/ Work(t) \/ (Relock(t) /\ UNCHANGED poolVars)
IdleTimeout(t) == TimeOut(t) /\ UNCHANGED poolVars
OwnerStep(c) == Finish(c) \/ OwnerReturns(c)

Next == \/ \E t \in Thread : ThreadStep(t) \/ IdleTimeout(t)
        \/ \E c \in Client : SetTask(c) \/ DoSomeHelping(c) \/ OwnerStep(c) \/ DestroyClient(c)
        \/ \E n \in 1 .. Cardinality(Thread) : EnsureThreads(n)
        \/ DestroyPool
        \/ Joined /\ UNCHANGED vars

Spec == Init /\ [][Next]_vars

\* Threads get processor time and the lock, tasks return, and an owner that set
\* a task finishes it.
FairSpec == /\ Spec
            /\ \A t \in Thread : WF_vars(ThreadStep(t))
            /\ \A c \in Client : WF_vars(OwnerStep(c))
-----------------------------------------------------------------------------
\* When finish() has returned, nobody runs the client's task any more; until
\* then "No new task could have been installed, since we were still active".
\* These and the counting are the RELEASE_ASSERTs of setTask(), runTask(),
\* ~ParallelHelperPool() and AutomaticThread's start().
FinishMeansDone ==
    /\ \A c \in Client : owner[c] \in {"idle", "gone"} =>
          m_task[c] = NoTask /\ \A r \in Runner \ {c} : claim[r] # c
    /\ \A r \in Runner : claim[r] # Nobody =>
          /\ m_numActive[claim[r]] > 0
          /\ m_task[claim[r]] \in {NoTask, claimed[r]}
    /\ ~m_isDying => StartAsserts

\* While some client has a task, no thread of the pool is asleep or gone: the
\* ten-second timeout of a thread never swallows a notification.
EverybodyHelps == HasTask # {} => Waiting(added) = {} /\ Down(added) = {}

\* finish() returns, and so does the destructor that joins the threads.
FinishReturns ==
    /\ \A c \in Client : owner[c] \in {"set", "waiting"} ~> owner[c] = "idle"
    /\ m_isDying ~> Joined
-----------------------------------------------------------------------------
\* The inductive invariant of ParallelHelperPoolProofs.

Types ==
    /\ added \subseteq Thread /\ isRunning \subseteq Thread
    /\ isWaiting \subseteq Thread /\ hasUnderlying \subseteq Thread
    /\ where \in [Thread -> {"none", "poll", "work", "asleep", "awake", "timedOut"}]
    /\ numThreads \in Nat
    /\ m_task \in [Client -> Nat \cup {NoTask}]
    /\ m_numActive \in [Client -> Nat] /\ taskCount \in [Client -> Nat]
    /\ owner \in [Client -> {"idle", "set", "running", "helping", "waiting", "awake", "gone"}]
    /\ claim \in [Runner -> Client \cup {Nobody}]
    /\ claimed \in [Runner -> Nat \cup {NoTask}]
    /\ m_isDying \in BOOLEAN

\* A thread of the condition that has an underlying thread is somewhere, and
\* m_isWaiting is set only in the wait.
ThreadsInPlace ==
    /\ hasUnderlying \subseteq added
    /\ \A t \in Thread : (where[t] # "none") <=> (t \in hasUnderlying)
    /\ \A t \in isWaiting : where[t] \in {"asleep", "timedOut"}
    /\ ~m_isDying => isRunning = added

Claimers(c) == {r \in Runner : claim[r] = c}

\* Whoever runs a task has claimed it, and m_numActive counts the claims.
ClaimsCounted ==
    /\ \A t \in Thread : claim[t] # Nobody <=> where[t] = "work"
    /\ \A c \in Client : claim[c] # Nobody <=> owner[c] \in {"running", "helping"}
    /\ \A c \in Client : m_numActive[c] = Cardinality(Claimers(c))

\* The owner of a task is busy with it until it is over.
TasksOwned ==
    /\ \A c \in Client : owner[c] \in {"idle", "helping", "gone"} =>
          m_task[c] = NoTask /\ \A r \in Runner : claim[r] # c
    /\ \A r \in Runner : claim[r] # Nobody => m_task[claim[r]] \in {NoTask, claimed[r]}
    /\ m_isDying => \A c \in Client : owner[c] = "gone"

PoolInv == Types /\ ThreadsInPlace /\ ClaimsCounted /\ TasksOwned /\ EverybodyHelps
=============================================================================
