---------------------- MODULE ParallelHelperPoolProofs ----------------------
(***************************************************************************)
(* For any number of threads, clients and tasks: finish() returns only     *)
(* when nobody runs the client's task any more, and no thread of the pool  *)
(* sleeps, or has exited after its ten idle seconds, while there is a task *)
(* to help with.                                                           *)
(***************************************************************************)
EXTENDS ParallelHelperPool, FiniteSetTheorems, TLAPS

USE DEF Nobody

\* The claims of a client are finitely many.
LEMMA ClaimersFinite ==
  ASSUME NEW c
  PROVE  IsFiniteSet(Claimers(c)) /\ Cardinality(Claimers(c)) \in Nat
  <1>1. IsFiniteSet(Runner)
    BY PoolAssumption, FS_Union, Zenon DEF Runner
  <1>2. Claimers(c) \in SUBSET Runner
    BY DEF Claimers
  <1> QED
    BY <1>1, <1>2, FS_Subset, FS_CardinalityType

\* One more claim of c by r.
LEMMA ClaimAdds ==
  ASSUME Types, NEW r \in Runner, NEW c \in Client, claim[r] = Nobody,
         claim' = [claim EXCEPT ![r] = c]
  PROVE  \A d \in Client : Cardinality(Claimers(d))' =
            IF d = c THEN Cardinality(Claimers(d)) + 1 ELSE Cardinality(Claimers(d))
  <1> TAKE d \in Client
  <1>1. claim \in [Runner -> Client \cup {NoTask}] /\ NoTask \notin Client
    BY PoolAssumption DEF Types
  <1>2. CASE d = c
    <2>1. Claimers(d)' = Claimers(d) \cup {r} /\ r \notin Claimers(d)
      BY <1>1, <1>2 DEF Claimers
    <2>2. Cardinality(Claimers(d) \cup {r}) = Cardinality(Claimers(d)) + 1
      BY <2>1, ClaimersFinite, FS_AddElement
    <2> QED
      BY <1>2, <2>1, <2>2
  <1>3. CASE d # c
    <2>1. Claimers(d)' = Claimers(d)
      BY <1>1, <1>3 DEF Claimers
    <2> QED
      BY <1>3, <2>1
  <1> QED
    BY <1>2, <1>3

\* One claim of c, by r, less.
LEMMA ClaimRemoves ==
  ASSUME Types, NEW r \in Runner, NEW c \in Client, claim[r] = c,
         claim' = [claim EXCEPT ![r] = Nobody]
  PROVE  /\ \A d \in Client : Cardinality(Claimers(d))' =
              IF d = c THEN Cardinality(Claimers(d)) - 1 ELSE Cardinality(Claimers(d))
         /\ Cardinality(Claimers(c)) > 0
  <1>1. claim \in [Runner -> Client \cup {NoTask}] /\ NoTask \notin Client
    BY PoolAssumption DEF Types
  <1>2. Claimers(c)' = Claimers(c) \ {r} /\ r \in Claimers(c)
    BY <1>1 DEF Claimers
  <1>3. Cardinality(Claimers(c) \ {r}) = Cardinality(Claimers(c)) - 1
    BY <1>2, ClaimersFinite, FS_RemoveElement
  <1>4. Cardinality(Claimers(c)) # 0
    BY <1>2, ClaimersFinite, FS_EmptySet
  <1>5. \A d \in Client \ {c} : Claimers(d)' = Claimers(d)
    BY <1>1 DEF Claimers
  <1>6. ASSUME NEW d \in Client \ {c}
        PROVE  Cardinality(Claimers(d))' = Cardinality(Claimers(d))
    BY <1>5
  <1>7. Cardinality(Claimers(c))' = Cardinality(Claimers(c)) - 1
    BY <1>2, <1>3
  <1>8. Cardinality(Claimers(c)) > 0
    BY <1>4, ClaimersFinite
  <1> QED
    BY <1>6, <1>7, <1>8

\* Nobody has claimed a client with m_numActive zero.
LEMMA NoneActive ==
  ASSUME ClaimsCounted, NEW c \in Client, m_numActive[c] = 0
  PROVE  \A r \in Runner : claim[r] # c
  <1>1. Claimers(c) = {}
    BY ClaimersFinite, FS_EmptySet DEF ClaimsCounted
  <1> QED
    BY <1>1 DEF Claimers

\* After notifyAll() every thread of the condition is up and about.
LEMMA NotifyAllWakes ==
  ASSUME Types, ThreadsInPlace, NEW T \in SUBSET Thread, added \subseteq T, NotifyAll(T)
  PROVE  /\ added' = T /\ hasUnderlying' = T /\ isWaiting' = {}
         /\ isRunning' = isRunning \cup (T \ added)
         /\ where' \in [Thread -> {"none", "poll", "work", "asleep", "awake", "timedOut"}]
         /\ \A t \in Thread : where'[t] # "none" <=> t \in T
         /\ \A t \in Thread : where'[t] = "work" <=> where[t] = "work"
  <1>1. isWaiting \subseteq hasUnderlying /\ hasUnderlying \subseteq T
    BY DEF Types, ThreadsInPlace
  <1>2. added' = T /\ hasUnderlying' = T /\ isWaiting' = {}
        /\ isRunning' = isRunning \cup (T \ added)
    BY <1>1 DEF NotifyAll, Notify, Waiting, Down
  <1>3. where' = [t \in Thread |->
                   IF t \in Down(T) THEN "poll"
                   ELSE IF t \in Waiting(T) /\ where[t] = "asleep" THEN "awake" ELSE where[t]]
    BY DEF NotifyAll, Notify
  <1> QED
    BY <1>1, <1>2, <1>3 DEF Types, ThreadsInPlace, Down, Waiting

\* Nothing has happened yet.
LEMMA PoolInitInv == Init => PoolInv
  <1> SUFFICES ASSUME Init PROVE PoolInv
    OBVIOUS
  <1>1. \A c \in Client : Claimers(c) = {}
    BY PoolAssumption DEF Init, Claimers
  <1>2. Types /\ ThreadsInPlace /\ TasksOwned /\ EverybodyHelps
    BY PoolAssumption DEF Init, AutoInit, Types, ThreadsInPlace, TasksOwned, EverybodyHelps,
                          HasTask, Runner
  <1>3. ClaimsCounted
    BY <1>1, FS_EmptySet DEF Init, AutoInit, ClaimsCounted, Runner
  <1> QED
    BY <1>2, <1>3 DEF PoolInv

\* The threads of the condition after a step that notifies all of T.
LEMMA NotifiedInPlace ==
  ASSUME PoolInv, NEW T \in SUBSET Thread, added \subseteq T, NotifyAll(T),
         m_isDying' = m_isDying \/ m_isDying' = TRUE
  PROVE  ThreadsInPlace' /\ EverybodyHelps'
  BY NotifyAllWakes DEF PoolInv, ThreadsInPlace, EverybodyHelps, Waiting, Down

\* A step that leaves the threads alone and gives no client a task.
LEMMA ThreadsUntouched ==
  ASSUME PoolInv, UNCHANGED autoVars, m_isDying' = m_isDying, HasTask' \subseteq HasTask
  PROVE  ThreadsInPlace' /\ EverybodyHelps'
  BY DEF PoolInv, autoVars, ThreadsInPlace, EverybodyHelps, Waiting, Down

\* The counts after a step that claims nothing.
LEMMA ClaimsUntouched ==
  ASSUME ClaimsCounted, UNCHANGED <<claim, m_numActive>>,
         \A t \in Thread : where'[t] = "work" <=> where[t] = "work",
         \A c \in Client : owner'[c] \in {"running", "helping"} <=> owner[c] \in {"running", "helping"}
  PROVE  ClaimsCounted'
  <1>1. \A c \in Client : Claimers(c)' = Claimers(c)
    BY DEF Claimers
  <1>2. \A c \in Client : Cardinality(Claimers(c))' = Cardinality(Claimers(c))
    BY <1>1
  <1> QED
    BY <1>2 DEF ClaimsCounted

\* setTask() installs a task of a client that nobody is active for, and wakes
\* or starts all threads.
LEMMA SetTaskKeeps ==
  ASSUME PoolInv, NEW c \in Client, SetTask(c)
  PROVE  PoolInv'
  <1> DEFINE T == added \cup FirstThreads(numThreads)
  <1>1. T \in SUBSET Thread /\ added \subseteq T /\ NotifyAll(T)
    BY DEF SetTask, DidMakeWorkAvailable, PoolInv, Types, FirstThreads
  <1> HIDE DEF T
  <1>2. ThreadsInPlace' /\ EverybodyHelps'
    BY <1>1, NotifiedInPlace DEF SetTask
  <1>3. Types'
    BY <1>1, NotifyAllWakes DEF SetTask, PoolInv, Types
  <1>4. ClaimsCounted'
    <2>1. \A t \in Thread : where'[t] = "work" <=> where[t] = "work"
      BY <1>1, NotifyAllWakes DEF PoolInv
    <2>2. \A d \in Client : owner'[d] \in {"running", "helping"} <=> owner[d] \in {"running", "helping"}
      BY DEF SetTask, PoolInv, Types
    <2> QED
      BY <2>1, <2>2, ClaimsUntouched DEF SetTask, PoolInv
  <1>5. TasksOwned'
    BY DEF SetTask, PoolInv, Types, TasksOwned
  <1> QED
    BY <1>2, <1>3, <1>4, <1>5 DEF PoolInv

\* ensureThreads() concerns the threads alone.
LEMMA EnsureThreadsKeeps ==
  ASSUME PoolInv, NEW n \in Nat, EnsureThreads(n)
  PROVE  PoolInv'
  <1> DEFINE T == added \cup FirstThreads(n)
  <1>1. T \in SUBSET Thread /\ added \subseteq T
    BY DEF PoolInv, Types, FirstThreads
  <1> HIDE DEF T
  <1>2. CASE HasTask # {}
    <2>1. NotifyAll(T)
      BY <1>2 DEF EnsureThreads, DidMakeWorkAvailable, T
    <2>2. ThreadsInPlace' /\ EverybodyHelps'
      BY <1>1, <2>1, NotifiedInPlace DEF EnsureThreads
    <2>3. Types'
      BY <1>1, <2>1, NotifyAllWakes DEF EnsureThreads, PoolInv, Types
    <2>4. ClaimsCounted'
      BY <1>1, <2>1, NotifyAllWakes, ClaimsUntouched DEF EnsureThreads, PoolInv
    <2>5. TasksOwned'
      BY DEF EnsureThreads, PoolInv, TasksOwned
    <2> QED
      BY <2>2, <2>3, <2>4, <2>5 DEF PoolInv
  <1>3. CASE HasTask = {}
    <2>1. ThreadsInPlace' /\ EverybodyHelps'
      BY <1>3, ThreadsUntouched DEF EnsureThreads, HasTask
    <2>2. Types'
      BY <1>3 DEF EnsureThreads, PoolInv, Types, autoVars
    <2>3. ClaimsCounted'
      BY <1>3, ClaimsUntouched DEF EnsureThreads, PoolInv, autoVars
    <2>4. TasksOwned'
      BY DEF EnsureThreads, PoolInv, TasksOwned
    <2> QED
      BY <2>1, <2>2, <2>3, <2>4 DEF PoolInv
  <1> QED
    BY <1>2, <1>3

\* The pool dies with all of its clients gone.
LEMMA DestroyPoolKeeps ==
  ASSUME PoolInv, DestroyPool
  PROVE  PoolInv'
  <1>1. added \in SUBSET Thread /\ NotifyAll(added)
    BY DEF DestroyPool, PoolInv, Types
  <1>2. ThreadsInPlace' /\ EverybodyHelps'
    BY <1>1, NotifiedInPlace DEF DestroyPool
  <1>3. Types'
    BY <1>1, NotifyAllWakes DEF DestroyPool, PoolInv, Types
  <1>4. ClaimsCounted'
    BY <1>1, NotifyAllWakes, ClaimsUntouched DEF DestroyPool, PoolInv
  <1>5. TasksOwned'
    BY DEF DestroyPool, PoolInv, TasksOwned
  <1> QED
    BY <1>2, <1>3, <1>4, <1>5 DEF PoolInv

\* finish() returns when nobody is active, and takes the task away first.
LEMMA FinishKeeps ==
  ASSUME PoolInv, NEW c \in Client, Finish(c)
  PROVE  PoolInv'
  <1>1. HasTask' \subseteq HasTask
    BY DEF Finish, PoolInv, Types, HasTask
  <1>2. ThreadsInPlace' /\ EverybodyHelps'
    BY <1>1, ThreadsUntouched DEF Finish
  <1>3. Types'
    BY DEF Finish, PoolInv, Types, autoVars
  <1>4. ClaimsCounted'
    <2>1. \A d \in Client : owner'[d] \in {"running", "helping"} <=> owner[d] \in {"running", "helping"}
      BY DEF Finish, PoolInv, Types
    <2> QED
      BY <2>1, ClaimsUntouched DEF Finish, PoolInv, autoVars
  <1>5. TasksOwned'
    <2>1. owner'[c] = "idle" => \A r \in Runner : claim[r] # c
      BY NoneActive DEF Finish, PoolInv, Types
    <2>2. owner'[c] \in {"idle", "waiting"}
      BY DEF Finish, PoolInv, Types
    <2> QED
      BY <2>1, <2>2 DEF Finish, PoolInv, Types, TasksOwned
  <1> QED
    BY <1>2, <1>3, <1>4, <1>5 DEF PoolInv

\* Only an idle client is destroyed.
LEMMA DestroyClientKeeps ==
  ASSUME PoolInv, NEW c \in Client, DestroyClient(c)
  PROVE  PoolInv'
  <1>1. ThreadsInPlace' /\ EverybodyHelps'
    BY ThreadsUntouched DEF DestroyClient, HasTask
  <1>2. Types'
    BY DEF DestroyClient, PoolInv, Types, autoVars
  <1>3. ClaimsCounted'
    <2>1. \A d \in Client : owner'[d] \in {"running", "helping"} <=> owner[d] \in {"running", "helping"}
      BY DEF DestroyClient, PoolInv, Types
    <2> QED
      BY <2>1, ClaimsUntouched DEF DestroyClient, PoolInv, autoVars
  <1>4. TasksOwned'
    BY DEF DestroyClient, PoolInv, Types, TasksOwned
  <1> QED
    BY <1>1, <1>2, <1>3, <1>4 DEF PoolInv

\* claimTask() by somebody who had claimed nothing, of a client with a task.
LEMMA ClaimTaskCounts ==
  ASSUME PoolInv, NEW r \in Runner, NEW c \in Client, claim[r] = Nobody, ClaimTask(r, c)
  PROVE  /\ m_numActive' \in [Client -> Nat]
         /\ claim' \in [Runner -> Client \cup {Nobody}]
         /\ claimed' \in [Runner -> Nat \cup {NoTask}]
         /\ \A d \in Client : m_numActive'[d] = Cardinality(Claimers(d))'
         /\ claim'[r] # Nobody /\ \A s \in Runner \ {r} : claim'[s] = claim[s]
  <1>1. /\ m_numActive' \in [Client -> Nat]
        /\ claim' \in [Runner -> Client \cup {Nobody}]
        /\ claimed' \in [Runner -> Nat \cup {NoTask}]
        /\ claim'[r] # Nobody /\ \A s \in Runner \ {r} : claim'[s] = claim[s]
    BY PoolAssumption DEF ClaimTask, PoolInv, Types
  <1>2. \A d \in Client : Cardinality(Claimers(d))' =
            IF d = c THEN Cardinality(Claimers(d)) + 1 ELSE Cardinality(Claimers(d))
    BY ClaimAdds DEF ClaimTask, PoolInv
  <1>3. \A d \in Client : m_numActive[d] = Cardinality(Claimers(d))
    BY DEF PoolInv, ClaimsCounted
  <1>4. m_numActive' = [m_numActive EXCEPT ![c] = @ + 1] /\ m_numActive \in [Client -> Nat]
    BY DEF ClaimTask, PoolInv, Types
  <1> QED
    BY <1>1, <1>2, <1>3, <1>4

\* Nobody claims the task of an owner that is idle, helping or gone.
LEMMA ClaimTaskOwned ==
  ASSUME PoolInv, NEW r \in Runner, NEW c \in Client, claim[r] = Nobody, ClaimTask(r, c),
         \A d \in Client : owner'[d] \in {"idle", "helping", "gone"}
                             => owner[d] \in {"idle", "helping", "gone"},
         m_isDying => UNCHANGED owner
  PROVE  TasksOwned'
  <1>1. owner[c] \notin {"idle", "helping", "gone"}
    BY DEF ClaimTask, PoolInv, TasksOwned
  <1> QED
    BY <1>1, PoolAssumption DEF ClaimTask, PoolInv, Types, TasksOwned

\* doSomeHelping() by the owner of c.
LEMMA DoSomeHelpingKeeps ==
  ASSUME PoolInv, NEW c \in Client, DoSomeHelping(c)
  PROVE  PoolInv'
  <1>1. PICK d \in Client : ClaimTask(c, d)
    BY DEF DoSomeHelping, HasTask
  <1>2. /\ owner[c] \in {"set", "idle"} /\ c \in Runner /\ claim[c] = Nobody
        /\ owner' = [owner EXCEPT ![c] = IF @ = "set" THEN "running" ELSE "helping"]
        /\ UNCHANGED autoVars
    BY DEF DoSomeHelping, PoolInv, Types, ClaimsCounted, Runner
  <1>3. ThreadsInPlace' /\ EverybodyHelps'
    BY <1>1, <1>2, ThreadsUntouched DEF ClaimTask, HasTask
  <1>4. Types'
    BY <1>1, <1>2, ClaimTaskCounts DEF ClaimTask, PoolInv, Types, autoVars
  <1>5. ClaimsCounted'
    <2>1. /\ \A e \in Client : m_numActive'[e] = Cardinality(Claimers(e))'
          /\ claim'[c] # Nobody /\ \A s \in Runner \ {c} : claim'[s] = claim[s]
      BY <1>1, <1>2, ClaimTaskCounts
    <2>2. \A t \in Thread : claim'[t] # Nobody <=> where'[t] = "work"
      BY <1>2, <2>1, PoolAssumption DEF PoolInv, ClaimsCounted, autoVars, Runner
    <2>3. \A e \in Client : claim'[e] # Nobody <=> owner'[e] \in {"running", "helping"}
      BY <1>2, <2>1 DEF PoolInv, Types, ClaimsCounted, Runner
    <2> QED
      BY <2>1, <2>2, <2>3 DEF ClaimsCounted
  <1>6. TasksOwned'
    <2>1. \A e \in Client : owner'[e] \in {"idle", "helping", "gone"}
                              => owner[e] \in {"idle", "helping", "gone"}
      BY <1>2 DEF PoolInv, Types
    <2>2. ~m_isDying
      BY <1>2 DEF PoolInv, TasksOwned
    <2> QED
      BY <1>1, <1>2, <2>1, <2>2, ClaimTaskOwned
  <1> QED
    BY <1>3, <1>4, <1>5, <1>6 DEF PoolInv

\* runTask() by somebody with a claim: one claim less, and no task left.
LEMMA RunTaskCounts ==
  ASSUME PoolInv, NEW r \in Runner, claim[r] # Nobody, RunTask(r)
  PROVE  /\ claim[r] \in Client
         /\ m_numActive' \in [Client -> Nat]
         /\ m_task' = [m_task EXCEPT ![claim[r]] = NoTask]
         /\ claim' = [claim EXCEPT ![r] = Nobody]
         /\ claimed' = [claimed EXCEPT ![r] = NoTask]
         /\ \A d \in Client : m_numActive'[d] = Cardinality(Claimers(d))'
  <1>1. /\ claim[r] \in Client
        /\ m_task' = [m_task EXCEPT ![claim[r]] = NoTask]
        /\ claim' = [claim EXCEPT ![r] = Nobody]
        /\ claimed' = [claimed EXCEPT ![r] = NoTask]
        /\ m_numActive' = [m_numActive EXCEPT ![claim[r]] = @ - 1]
        /\ m_numActive \in [Client -> Nat]
    BY DEF RunTask, PoolInv, Types
  <1>2. /\ \A d \in Client : Cardinality(Claimers(d))' =
              IF d = claim[r] THEN Cardinality(Claimers(d)) - 1 ELSE Cardinality(Claimers(d))
        /\ Cardinality(Claimers(claim[r])) > 0
    BY <1>1, ClaimRemoves DEF PoolInv
  <1>3. \A d \in Client : m_numActive[d] = Cardinality(Claimers(d))
    BY DEF PoolInv, ClaimsCounted
  <1> QED
    BY <1>1, <1>2, <1>3

\* What runTask() does to the owners: r itself goes on, waiting ones wake up.
LEMMA RunTaskOwners ==
  ASSUME PoolInv, NEW r \in Runner, claim[r] # Nobody, RunTask(r)
  PROVE  /\ owner' \in [Client -> {"idle", "set", "running", "helping", "waiting", "awake", "gone"}]
         /\ \A d \in Client \ {r} :
              \/ owner'[d] = owner[d]
              \/ owner[d] = "waiting" /\ owner'[d] = "awake"
         /\ r \in Client => \/ owner[r] = "running" /\ owner'[r] = "set"
                            \/ owner[r] = "helping" /\ owner'[r] = "idle"
  <1>1. r \in Client => owner[r] \in {"running", "helping"}
    BY DEF PoolInv, ClaimsCounted
  <1> QED
    BY <1>1 DEF RunTask, PoolInv, Types

\* Whoever returns from a task leaves tasks and claims in order.
LEMMA RunTaskKeeps ==
  ASSUME PoolInv, NEW r \in Runner, claim[r] # Nobody, RunTask(r)
  PROVE  /\ TasksOwned'
         /\ HasTask' \subseteq HasTask
         /\ \A c \in Client : claim'[c] # Nobody <=> owner'[c] \in {"running", "helping"}
         /\ \A s \in Runner \ {r} : claim'[s] = claim[s]
         /\ claim'[r] = Nobody
  <1> USE RunTaskCounts, RunTaskOwners
  <1>1. HasTask' \subseteq HasTask
    BY DEF HasTask, PoolInv, Types
  <1>2. (\A s \in Runner \ {r} : claim'[s] = claim[s]) /\ claim'[r] = Nobody
    BY DEF PoolInv, Types
  <1>3. \A c \in Client : claim'[c] # Nobody <=> owner'[c] \in {"running", "helping"}
    BY <1>2 DEF PoolInv, Types, ClaimsCounted, Runner
  <1>4. TasksOwned'
    <2>1. ASSUME NEW c \in Client, owner'[c] \in {"idle", "helping", "gone"}
          PROVE  m_task'[c] = NoTask /\ \A s \in Runner : claim'[s] # c
      <3>1. owner[c] \in {"idle", "helping", "gone"}
        BY <2>1
      <3> QED
        BY <1>2, <3>1, PoolAssumption DEF PoolInv, Types, TasksOwned
    <2>2. ASSUME NEW s \in Runner, claim'[s] # Nobody
          PROVE  m_task'[claim'[s]] \in {NoTask, claimed'[s]}
      <3>1. s # r /\ claim'[s] = claim[s] /\ claimed'[s] = claimed[s]
        BY <1>2, <2>2 DEF PoolInv, Types
      <3> QED
        BY <2>2, <3>1 DEF PoolInv, Types, TasksOwned
    <2>3. m_isDying' => \A c \in Client : owner'[c] = "gone"
      BY DEF RunTask, PoolInv, TasksOwned
    <2> QED
      BY <2>1, <2>2, <2>3 DEF TasksOwned
  <1> QED
    BY <1>1, <1>2, <1>3, <1>4

\* An owner returns from a task.
LEMMA OwnerReturnsKeeps ==
  ASSUME PoolInv, NEW c \in Client, OwnerReturns(c)
  PROVE  PoolInv'
  <1>1. c \in Runner /\ claim[c] # Nobody /\ RunTask(c) /\ UNCHANGED autoVars
    BY DEF OwnerReturns, Runner
  <1>2. ThreadsInPlace' /\ EverybodyHelps'
    BY <1>1, RunTaskKeeps, ThreadsUntouched DEF RunTask
  <1>3. Types'
    BY <1>1, RunTaskCounts, RunTaskOwners DEF RunTask, PoolInv, Types, autoVars
  <1>4. ClaimsCounted'
    <2>1. \A t \in Thread : claim'[t] # Nobody <=> where'[t] = "work"
      BY <1>1, RunTaskKeeps, PoolAssumption DEF PoolInv, ClaimsCounted, autoVars, Runner
    <2> QED
      BY <1>1, <2>1, RunTaskKeeps, RunTaskCounts DEF ClaimsCounted
  <1> QED
    BY <1>1, <1>2, <1>3, <1>4, RunTaskKeeps DEF PoolInv

\* A pool thread returns from a task.
LEMMA WorkKeeps ==
  ASSUME PoolInv, NEW t \in Thread, Work(t)
  PROVE  PoolInv'
  <1>1. t \in Runner /\ claim[t] # Nobody /\ RunTask(t) /\ where[t] = "work"
    BY DEF Work, WorkContinue, Runner, PoolInv, ClaimsCounted
  <1>2. /\ where' = [where EXCEPT ![t] = "poll"]
        /\ UNCHANGED <<added, isRunning, isWaiting, hasUnderlying>>
    BY DEF Work, WorkContinue
  <1>3. ThreadsInPlace' /\ EverybodyHelps'
    BY <1>1, <1>2, RunTaskKeeps DEF RunTask, PoolInv, Types, ThreadsInPlace, EverybodyHelps,
                                     Waiting, Down
  <1>4. Types'
    BY <1>1, <1>2, RunTaskCounts, RunTaskOwners DEF RunTask, PoolInv, Types
  <1>5. ClaimsCounted'
    <2>1. \A u \in Thread : claim'[u] # Nobody <=> where'[u] = "work"
      BY <1>1, <1>2, RunTaskKeeps DEF PoolInv, Types, ClaimsCounted, Runner
    <2> QED
      BY <1>1, <2>1, RunTaskKeeps, RunTaskCounts DEF ClaimsCounted
  <1> QED
    BY <1>1, <1>3, <1>4, <1>5, RunTaskKeeps DEF PoolInv

\* A step of a thread that touches no task, and does not go to sleep, exit or
\* stop while there is one.
LEMMA ThreadStepKeeps ==
  ASSUME PoolInv, NEW t \in Thread, UNCHANGED poolVars, where[t] \notin {"work", "none"},
         \/ PollWait(t) /\ \A c \in Client : m_task[c] = NoTask
         \/ PollStop(t) /\ m_isDying
         \/ TimeOut(t)
         \/ Relock(t)
  PROVE  PoolInv'
  <1>1. TasksOwned' /\ HasTask' = HasTask
    BY DEF poolVars, PoolInv, TasksOwned, HasTask
  <1>2. Types'
    BY DEF PoolInv, Types, poolVars, PollWait, PollStop, TimeOut, Relock
  <1>3. ClaimsCounted'
    <2>1. \A u \in Thread : where'[u] = "work" <=> where[u] = "work"
      BY DEF PoolInv, Types, PollWait, PollStop, TimeOut, Relock
    <2> QED
      BY <2>1, ClaimsUntouched DEF poolVars, PoolInv
  <1>4. ThreadsInPlace'
    BY DEF PoolInv, Types, ThreadsInPlace, poolVars, PollWait, PollStop, TimeOut, Relock
  <1>5. EverybodyHelps'
    <2> SUFFICES ASSUME HasTask # {}
                 PROVE  Waiting(added)' = {} /\ Down(added)' = {}
      BY <1>1 DEF EverybodyHelps
    <2>1. ~m_isDying
      BY DEF PoolInv, TasksOwned, HasTask
    <2>2. t \notin isWaiting /\ (TimeOut(t) \/ Relock(t))
      BY <2>1 DEF PoolInv, ThreadsInPlace, EverybodyHelps, Waiting, HasTask
    <2>3. isWaiting' = isWaiting /\ hasUnderlying' = hasUnderlying /\ added' = added
      BY <2>1, <2>2 DEF PollWait, PollStop, TimeOut, Relock
    <2> QED
      BY <2>3 DEF PoolInv, EverybodyHelps, Waiting, Down
  <1> QED
    BY <1>1, <1>2, <1>3, <1>4, <1>5 DEF PoolInv

\* poll() of a pool thread.
LEMMA PollKeeps ==
  ASSUME PoolInv, NEW t \in Thread, Poll(t)
  PROVE  PoolInv'
  <1>1. CASE m_isDying /\ PollStop(t) /\ UNCHANGED poolVars
    BY <1>1, ThreadStepKeeps DEF PollStop
  <1>2. CASE ~m_isDying /\ HasTask = {} /\ PollWait(t) /\ UNCHANGED poolVars
    <2>1. where[t] \notin {"work", "none"}
      BY <1>2 DEF PollWait
    <2>2. \A c \in Client : m_task[c] = NoTask
      BY <1>2 DEF HasTask
    <2>3. PollWait(t) /\ UNCHANGED poolVars
      BY <1>2
    <2> QED
      BY <2>1, <2>2, <2>3, ThreadStepKeeps
  <1>3. CASE ~m_isDying /\ PollWork(t) /\ (\E c \in HasTask : ClaimTask(t, c)) /\ UNCHANGED owner
    <2>1. PICK c \in Client : ClaimTask(t, c)
      BY <1>3 DEF HasTask
    <2>2. /\ t \in Runner /\ where[t] = "poll" /\ claim[t] = Nobody
          /\ where' = [where EXCEPT ![t] = "work"]
          /\ UNCHANGED <<added, isRunning, isWaiting, hasUnderlying, owner>>
      BY <1>3 DEF PollWork, PoolInv, ClaimsCounted, Runner
    <2>3. ThreadsInPlace' /\ EverybodyHelps'
      BY <2>1, <2>2 DEF ClaimTask, PoolInv, Types, ThreadsInPlace, EverybodyHelps, HasTask,
                        Waiting, Down
    <2>4. Types'
      BY <2>1, <2>2, ClaimTaskCounts DEF ClaimTask, PoolInv, Types
    <2>5. ClaimsCounted'
      <3>1. /\ \A e \in Client : m_numActive'[e] = Cardinality(Claimers(e))'
            /\ claim'[t] # Nobody /\ \A s \in Runner \ {t} : claim'[s] = claim[s]
        BY <2>1, <2>2, ClaimTaskCounts
      <3>2. \A u \in Thread : claim'[u] # Nobody <=> where'[u] = "work"
        BY <2>2, <3>1 DEF PoolInv, Types, ClaimsCounted, Runner
      <3>3. \A e \in Client : claim'[e] # Nobody <=> owner'[e] \in {"running", "helping"}
        BY <2>2, <3>1, PoolAssumption DEF PoolInv, ClaimsCounted, Runner
      <3> QED
        BY <3>1, <3>2, <3>3 DEF ClaimsCounted
    <2>6. TasksOwned'
      BY <2>1, <2>2, ClaimTaskOwned
    <2> QED
      BY <2>3, <2>4, <2>5, <2>6 DEF PoolInv
  <1> QED
    BY <1>1, <1>2, <1>3 DEF Poll

\* The invariant is inductive.
LEMMA PoolNextInv == PoolInv /\ [Next]_vars => PoolInv'
  <1> SUFFICES ASSUME PoolInv, [Next]_vars PROVE PoolInv'
    OBVIOUS
  <1>1. ASSUME NEW t \in Thread, ThreadStep(t) PROVE PoolInv'
    BY <1>1, PollKeeps, WorkKeeps, ThreadStepKeeps DEF ThreadStep, Relock
  <1>2. ASSUME NEW t \in Thread, IdleTimeout(t) PROVE PoolInv'
    BY <1>2, ThreadStepKeeps DEF IdleTimeout, TimeOut
  <1>3. ASSUME NEW c \in Client, SetTask(c) PROVE PoolInv'
    BY <1>3, SetTaskKeeps
  <1>4. ASSUME NEW c \in Client, DoSomeHelping(c) PROVE PoolInv'
    BY <1>4, DoSomeHelpingKeeps
  <1>5. ASSUME NEW c \in Client, OwnerStep(c) PROVE PoolInv'
    BY <1>5, FinishKeeps, OwnerReturnsKeeps DEF OwnerStep
  <1>6. ASSUME NEW c \in Client, DestroyClient(c) PROVE PoolInv'
    BY <1>6, DestroyClientKeeps
  <1>7. ASSUME NEW n \in 1 .. Cardinality(Thread), EnsureThreads(n) PROVE PoolInv'
    <2>1. n \in Nat
      BY PoolAssumption, FS_CardinalityType
    <2> QED
      BY <1>7, <2>1, EnsureThreadsKeeps
  <1>8. CASE DestroyPool
    BY <1>8, DestroyPoolKeeps
  <1>9. CASE UNCHANGED vars
    <2>1. UNCHANGED autoVars /\ UNCHANGED poolVars
      BY <1>9 DEF vars
    <2>2. ClaimsCounted'
      BY <2>1, ClaimsUntouched DEF autoVars, poolVars, PoolInv
    <2> QED
      BY <2>1, <2>2 DEF autoVars, poolVars, PoolInv, Types, ThreadsInPlace, TasksOwned,
                        EverybodyHelps, HasTask, Waiting, Down
  <1> QED
    BY <1>1, <1>2, <1>3, <1>4, <1>5, <1>6, <1>7, <1>8, <1>9 DEF Next

\* The promises follow from the invariant.
LEMMA PoolInvPromises == PoolInv => FinishMeansDone /\ EverybodyHelps
  <1> SUFFICES ASSUME PoolInv PROVE FinishMeansDone
    BY DEF PoolInv
  <1>1. \A c \in Client : owner[c] \in {"idle", "gone"} =>
          m_task[c] = NoTask /\ \A r \in Runner \ {c} : claim[r] # c
    BY DEF PoolInv, TasksOwned
  <1>2. ASSUME NEW r \in Runner, claim[r] # Nobody
        PROVE  m_numActive[claim[r]] > 0 /\ m_task[claim[r]] \in {NoTask, claimed[r]}
    <2>1. claim[r] \in Client
      BY <1>2 DEF PoolInv, Types
    <2>2. m_numActive[claim[r]] # 0
      BY <1>2, <2>1, NoneActive DEF PoolInv
    <2> QED
      BY <1>2, <2>1, <2>2 DEF PoolInv, Types, TasksOwned
  <1>3. ~m_isDying => StartAsserts
    BY DEF PoolInv, ThreadsInPlace, StartAsserts, Down
  <1> QED
    BY <1>1, <1>2, <1>3 DEF FinishMeansDone

\* For any threads, clients and tasks: when finish() has returned nobody runs
\* the client's task, and the RELEASE_ASSERTs of ParallelHelperPool.cpp and of
\* AutomaticThread::start() hold.
THEOREM PoolFinishes == Spec => []FinishMeansDone
  BY PoolInitInv, PoolNextInv, PoolInvPromises, PTL DEF Spec

\* For any threads, clients and tasks: no thread of the pool sleeps, or is
\* gone, while a client has a task.
THEOREM PoolHelps == Spec => []EverybodyHelps
  BY PoolInitInv, PoolNextInv, PoolInvPromises, PTL DEF Spec
=============================================================================
