---------------------------- MODULE DFGWorklist ----------------------------
(***************************************************************************)
(* The worklist of the optimizing compilers (dfg/DFGWorklist.cpp), on top  *)
(* of AutomaticThread.  The mutator of each VM enqueues plans, finalizes   *)
(* the compiled ones and, at times, waits for all of its plans; compiler   *)
(* threads take plans off the queue and give the collectors a chance at    *)
(* safepoints (DFGSafepoint.cpp); a collector that has stopped its world   *)
(* suspends the compilers by taking every thread's rightToRun and cancels  *)
(* the plans it found dead.                                                *)
(***************************************************************************)
EXTENDS AutomaticThread, Sequences, FiniteSets

CONSTANTS VM, Plan,
          VmOf(_),  \* plan->vm, before a cancel() clears it
          MayDie,   \* the plans a collector may find dead
          Nobody

ASSUME WorklistAssumption ==
    /\ IsFiniteSet(Thread) /\ MayDie \subseteq Plan
    /\ Nobody \notin VM \cup Plan
    /\ \A p \in Plan : VmOf(p) \in VM

VARIABLES m_plans, m_queue, m_readyPlans,
          m_numberOfActiveThreads,
          stage,      \* of a plan; "Fresh": not made yet, "Finalized": taken for good
          m_plan,     \* the plan of a compiler thread
          step,       \* how far a thread has got with work()
          didGetCancelled, \* the threads whose Safepoint::Result says so
          suspender,  \* who holds m_suspensionLock
          rights,     \* the m_rightToRun it holds
          gc,         \* the collector of a VM
          mutator,    \* the mutator of a VM
          dying       \* the VMs in their destructor

planVars == <<m_plans, m_queue, m_readyPlans, stage>>
threadVars == <<m_numberOfActiveThreads, m_plan, step>>
gcVars == <<suspender, rights, gc>>
vmVars == <<mutator, dying>>
vars == <<autoVars, planVars, threadVars, didGetCancelled, gcVars, vmVars>>

\* finishCreation() has added the threads.
Init == /\ AutoInit(Thread)
        /\ m_plans = {} /\ m_queue = <<>> /\ m_readyPlans = {}
        /\ m_numberOfActiveThreads = 0
        /\ stage = [p \in Plan |-> "Fresh"]
        /\ m_plan = [t \in Thread |-> Nobody]
        /\ step = [t \in Thread |-> "idle"]
        /\ didGetCancelled = {}
        /\ suspender = Nobody /\ rights = {}
        /\ gc = [v \in VM |-> "idle"]
        /\ mutator = [v \in VM |-> "running"]
        /\ dying = {}

PlansOf(v) == {p \in m_plans : VmOf(p) = v}
-----------------------------------------------------------------------------
(* The compiler threads.  Thread t holds its own rightToRun exactly while    *)
(* step[t] = "compiling".                                                    *)

Poll(t) ==
    \/ m_queue = <<>> /\ PollWait(t) /\ UNCHANGED <<planVars, threadVars>>
    \/ /\ m_queue # <<>> /\ Head(m_queue) = Nobody /\ PollStop(t)
       /\ m_queue' = Tail(m_queue)
       /\ UNCHANGED <<m_plans, m_readyPlans, stage, threadVars>>
    \/ /\ m_queue # <<>> /\ Head(m_queue) # Nobody /\ PollWork(t)
       /\ m_queue' = Tail(m_queue)
       /\ m_plan' = [m_plan EXCEPT ![t] = Head(m_queue)]
       /\ step' = [step EXCEPT ![t] = "start"]
       /\ m_numberOfActiveThreads' = m_numberOfActiveThreads + 1
       /\ UNCHANGED <<m_plans, m_readyPlans, stage>>

\* Mutant: does not look whether the plan was cancelled.
WorkStartsUnasked(t) ==
    /\ step[t] = "start" /\ t \notin rights
    /\ step' = [step EXCEPT ![t] = "compiling"]
    /\ stage' = [stage EXCEPT ![m_plan[t]] = "Compiling"]
    /\ UNCHANGED <<autoVars, m_plans, m_queue, m_readyPlans, m_plan, m_numberOfActiveThreads,
                   didGetCancelled>>

\* work(): a plan cancelled since poll() took it is not compiled.
WorkStarts(t) ==
    /\ step[t] = "start" /\ t \notin rights
    /\ IF stage[m_plan[t]] = "Cancelled"
       THEN step' = [step EXCEPT ![t] = "leaving"] /\ UNCHANGED stage
       ELSE /\ step' = [step EXCEPT ![t] = "compiling"]
            /\ stage' = [stage EXCEPT ![m_plan[t]] = "Compiling"]
    /\ UNCHANGED <<autoVars, m_plans, m_queue, m_readyPlans, m_plan, m_numberOfActiveThreads,
                   didGetCancelled>>

SafepointBegin(t) ==
    /\ step[t] = "compiling"
    /\ step' = [step EXCEPT ![t] = "safepoint"]
    /\ didGetCancelled' = didGetCancelled \ {t}
    /\ UNCHANGED <<autoVars, planVars, m_plan, m_numberOfActiveThreads>>

\* A cancelled compilation returns CancelPath, and work() finds the plan
\* cancelled.
SafepointEnd(t) ==
    /\ step[t] = "safepoint" /\ t \notin rights
    /\ step' = [step EXCEPT ![t] = IF t \in didGetCancelled THEN "leaving" ELSE "compiling"]
    /\ didGetCancelled' = didGetCancelled \ {t}
    /\ UNCHANGED <<autoVars, planVars, m_plan, m_numberOfActiveThreads>>

\* Mutant: nobody is told that a plan is ready.
PlanCompiledWakesNobody == UNCHANGED mutator

\* Whoever waits on m_planCompiled looks again.
PlanCompiled == mutator' = [v \in VM |-> IF mutator[v] = "waiting" THEN "checking" ELSE mutator[v]]

\* The last compiler phase and the rest of work().
CompileEnds(t) ==
    /\ step[t] = "compiling"
    /\ step' = [step EXCEPT ![t] = "leaving"]
    /\ stage' = [stage EXCEPT ![m_plan[t]] = "Ready"]
    /\ m_readyPlans' = m_readyPlans \cup {m_plan[t]}
    /\ PlanCompiled
    /\ UNCHANGED <<autoVars, m_plans, m_queue, m_plan, m_numberOfActiveThreads,
                   didGetCancelled, dying>>

\* ~WorkScope()
WorkReturns(t) ==
    /\ step[t] = "leaving" /\ WorkContinue(t)
    /\ step' = [step EXCEPT ![t] = "idle"]
    /\ m_plan' = [m_plan EXCEPT ![t] = Nobody]
    /\ m_numberOfActiveThreads' = m_numberOfActiveThreads - 1
    /\ UNCHANGED <<planVars, didGetCancelled>>

ThreadStep(t) ==
    \/ /\ \/ Poll(t) /\ UNCHANGED didGetCancelled
          \/ WorkStarts(t) \/ SafepointBegin(t) \/ SafepointEnd(t) \/ WorkReturns(t)
          \/ (Relock(t) \/ TimeOut(t)) /\ UNCHANGED <<planVars, threadVars, didGetCancelled>>
       /\ UNCHANGED <<gcVars, vmVars>>
    \/ CompileEnds(t) /\ UNCHANGED gcVars
-----------------------------------------------------------------------------
(* The mutator of VM v.  It stands still while its world is stopped, unless  *)
(* it has given up heap access to wait.                                      *)

Runs(v) == mutator[v] = "running" /\ gc[v] = "idle"

Enqueue(p) ==
    /\ Runs(VmOf(p)) /\ VmOf(p) \notin dying /\ stage[p] = "Fresh"
    /\ stage' = [stage EXCEPT ![p] = "Preparing"]
    /\ m_plans' = m_plans \cup {p}
    /\ m_queue' = Append(m_queue, p)
    /\ NotifyOne
    /\ UNCHANGED <<m_readyPlans, threadVars, didGetCancelled, gcVars, vmVars>>

\* removeAllReadyPlansForVM(), with which completeAllReadyPlansForVM() begins;
\* what it removes is finalized, or thrown away with a dying VM.
TakeReady(v) ==
    LET mine == {p \in m_readyPlans : VmOf(p) = v /\ stage[p] = "Ready"} IN
    /\ m_readyPlans' = m_readyPlans \ mine
    /\ m_plans' = m_plans \ mine
    /\ stage' = [p \in Plan |-> IF p \in mine THEN "Finalized" ELSE stage[p]]
    /\ UNCHANGED m_queue

CompleteAllReadyPlans(v) ==
    /\ Runs(v) /\ v \notin dying
    /\ TakeReady(v)
    /\ UNCHANGED <<autoVars, threadVars, didGetCancelled, gcVars, vmVars>>

\* The loop that moves all plans but those of D over to a new queue.
Moved(q, D) ==
    LET moved[i \in 0 .. Len(q)] ==
            IF i = 0 THEN <<>>
            ELSE IF q[i] \in D THEN moved[i - 1] ELSE Append(moved[i - 1], q[i])
    IN  moved
NewQueue(q, D) == Moved(q, D)[Len(q)]

\* The plans of D leave the worklist, cancelled.
Cancel(D) == /\ m_plans' = m_plans \ D
             /\ m_readyPlans' = m_readyPlans \ D
             /\ m_queue' = NewQueue(m_queue, D)
             /\ stage' = [p \in Plan |-> IF p \in D THEN "Cancelled" ELSE stage[p]]

\* The destructor of the VM begins.
RemoveNonCompilingPlans(v) ==
    /\ Runs(v) /\ v \notin dying
    /\ Cancel({p \in PlansOf(v) : stage[p] # "Compiling"})
    /\ dying' = dying \cup {v}
    /\ UNCHANGED <<autoVars, threadVars, didGetCancelled, gcVars, mutator>>

\* waitUntilAllPlansForVMAreReady(): heap access is released first ...
StartWait(v) ==
    /\ Runs(v)
    /\ mutator' = [mutator EXCEPT ![v] = "checking"]
    /\ UNCHANGED <<autoVars, planVars, threadVars, didGetCancelled, gcVars, dying>>

\* ... then the loop, woken through m_planCompiled ...
CheckPlans(v) ==
    /\ mutator[v] = "checking"
    /\ mutator' = [mutator EXCEPT ![v] = IF \A p \in PlansOf(v) : stage[p] = "Ready"
                                         THEN "returning" ELSE "waiting"]
    /\ UNCHANGED <<autoVars, planVars, threadVars, didGetCancelled, gcVars, dying>>

\* ... and, with heap access again, completeAllReadyPlansForVM(), or
\* removeAllReadyPlansForVM() in the destructor.
WaitReturns(v) ==
    /\ mutator[v] = "returning" /\ gc[v] = "idle"
    /\ TakeReady(v)
    /\ mutator' = [mutator EXCEPT ![v] = IF v \in dying THEN "gone" ELSE "running"]
    /\ UNCHANGED <<autoVars, threadVars, didGetCancelled, gcVars, dying>>

\* ~Worklist(): one null plan for each thread.
Destroy ==
    /\ \A v \in VM : mutator[v] = "gone" /\ gc[v] = "idle"
    /\ isRunning = added /\ \A i \in DOMAIN m_queue : m_queue[i] # Nobody
    /\ m_queue' = m_queue \o [i \in 1 .. Cardinality(added) |-> Nobody]
    /\ NotifyAll(added)
    /\ UNCHANGED <<m_plans, m_readyPlans, stage, threadVars, didGetCancelled, gcVars, vmVars>>
-----------------------------------------------------------------------------
(* The collector of VM v.                                                    *)

StopWorld(v) ==
    /\ gc[v] = "idle" /\ mutator[v] # "gone"
    /\ gc' = [gc EXCEPT ![v] = "stopped"]
    /\ UNCHANGED <<suspender, rights>>

SuspendAllThreads(v) ==
    /\ gc[v] = "stopped" /\ suspender = Nobody
    /\ gc' = [gc EXCEPT ![v] = "suspending"]
    /\ suspender' = v
    /\ UNCHANGED rights

\* Mutant: suspends only the threads that compile.
SuspendSkipsIdle(v) ==
    /\ gc[v] = "suspending"
    /\ rights' = {t \in Thread : step[t] # "idle"}
    /\ \A t \in rights' : step[t] # "compiling"
    /\ gc' = [gc EXCEPT ![v] = "believes"]
    /\ UNCHANGED suspender

\* m_threads from the back, one m_rightToRun after the other.
TakeRight(v) ==
    /\ gc[v] = "suspending"
    /\ \E t \in Thread \ rights :
         /\ \A u \in Thread \ rights : u <= t
         /\ step[t] # "compiling"
         /\ rights' = rights \cup {t}
    /\ gc' = [gc EXCEPT ![v] = IF rights' = Thread THEN "believes" ELSE @]
    /\ UNCHANGED suspender

\* removeDeadPlans() of the end phase, D the dead plans; their safepoints are
\* told.
RemoveDeadPlans(v) ==
    /\ gc[v] = "believes"
    /\ \E D \in SUBSET (PlansOf(v) \cap MayDie) :
         /\ D # {} /\ Cancel(D)
         /\ didGetCancelled' = didGetCancelled \cup {t \in Thread : step[t] = "safepoint" /\ m_plan[t] \in D}
    /\ UNCHANGED <<autoVars, threadVars, gcVars, vmVars>>

\* resumeAllThreads(), and the mutator.
ResumeAllThreads(v) ==
    /\ gc[v] = "believes"
    /\ gc' = [gc EXCEPT ![v] = "idle"]
    /\ rights' = {} /\ suspender' = Nobody

GcStep(v) ==
    /\ StopWorld(v) \/ SuspendAllThreads(v) \/ TakeRight(v) \/ ResumeAllThreads(v)
    /\ UNCHANGED <<autoVars, planVars, threadVars, didGetCancelled, vmVars>>

MutatorStep(v) == CompleteAllReadyPlans(v) \/ RemoveNonCompilingPlans(v)
                  \/ StartWait(v) \/ CheckPlans(v) \/ WaitReturns(v)

Next == \/ \E t \in Thread : ThreadStep(t)
        \/ \E p \in Plan : Enqueue(p)
        \/ \E v \in VM : MutatorStep(v) \/ GcStep(v) \/ RemoveDeadPlans(v)
        \/ Destroy

Spec == Init /\ [][Next]_vars
-----------------------------------------------------------------------------
Up == hasUnderlying \ isWaiting
Active == {t \in Thread : where[t] = "work"}
Looking == Up \ Active

\* For every plan in the queue there is a thread that is up, not at work on
\* another plan, and so about to look at the queue, unless all threads are up
\* (those, that is, that have not stopped for good): a notification lost to the
\* ten-second timeout, or given to a thread that found the queue empty, never
\* leaves a plan waiting beside a sleeping compiler.
NoPlanForgotten ==
    Len(m_queue) <= Cardinality(Looking) \/ isRunning \subseteq Up

\* The null plans of a queue.
NullsOf(q) == {i \in 1 .. Len(q) : q[i] = Nobody}

\* Where a plan is says how far it has got, and every plan of m_plans is in
\* exactly one place; nothing cancelled is queued, ready or compiled on: key()
\* would follow the null codeBlock of a cancelled plan.  Once the destructor has
\* queued its null plans there is one left for each thread it has still to join.
PlansAccounted ==
  /\ NullsOf(m_queue) # {} \/ isRunning # added
        => Cardinality(NullsOf(m_queue)) = Cardinality(isRunning)
  /\ \A p \in Plan :
      LET queued == {i \in DOMAIN m_queue : m_queue[i] = p}
          at(S) == {t \in Thread : m_plan[t] = p /\ step[t] \in S} IN
      /\ Cardinality(queued) + Cardinality(at({"start", "compiling", "safepoint"}))
           + (IF p \in m_readyPlans THEN 1 ELSE 0)
         = IF p \in m_plans THEN 1
           ELSE IF stage[p] = "Cancelled" THEN Cardinality(at({"start", "safepoint"})) ELSE 0
      /\ p \in m_plans =>
           stage[p] = IF queued \cup at({"start"}) # {} THEN "Preparing"
                      ELSE IF p \in m_readyPlans THEN "Ready" ELSE "Compiling"

\* The RELEASE_ASSERTs of poll(), WorkScope, work(), compileInThread() and
\* start(): among them, that no collector believes the world stopped while a
\* plan of its VM is compiled, and that a cancelled compilation notices.
AssertionsHold ==
    /\ \A t \in Thread :
         /\ (m_plan[t] # Nobody) = (where[t] = "work")
         /\ step[t] = "compiling" =>
              /\ stage[m_plan[t]] = "Compiling"
              /\ gc[VmOf(m_plan[t])] # "believes"
    /\ m_numberOfActiveThreads = Cardinality({t \in Thread : where[t] = "work"})
    /\ \A i \in DOMAIN m_queue : m_queue[i] # Nobody => stage[m_queue[i]] = "Preparing"
    /\ StartAsserts \/ \A v \in VM : mutator[v] = "gone"

\* The mutator of v sleeps in waitUntilAllPlansForVMAreReady() although all its
\* plans are ready, or gone.
Unserved(v) == mutator[v] = "waiting" /\ \A p \in PlansOf(v) : stage[p] = "Ready"

\* Waits end: a mutator does not fall asleep in waitUntilAllPlansForVMAreReady()
\* with nothing to wait for, and no step of a compiler thread, of another VM or
\* of its own takes the last plan it waits for without waking it.  The one step
\* that may is removeDeadPlans() of its own collector, which cancels plans and
\* tells nobody.
WaitsEnd ==
    [][\A v \in VM :
          Unserved(v)' =>
             \/ Unserved(v)
             \/ /\ gc[v] = "believes"
                /\ \E p \in PlansOf(v) : stage[p] # "Ready" /\ stage'[p] = "Cancelled"]_vars

-----------------------------------------------------------------------------
(* The inductive invariant *)

TypeOK ==
    /\ added = Thread /\ isRunning \in SUBSET Thread
    /\ isWaiting \in SUBSET Thread /\ hasUnderlying \in SUBSET Thread
    /\ where \in [Thread -> {"none", "poll", "work", "asleep", "awake", "timedOut"}]
    /\ m_plans \in SUBSET Plan /\ m_readyPlans \in SUBSET Plan
    /\ m_queue \in Seq(Plan \cup {Nobody})
    /\ stage \in [Plan -> {"Fresh", "Preparing", "Compiling", "Ready", "Cancelled", "Finalized"}]
    /\ m_numberOfActiveThreads \in Nat
    /\ m_plan \in [Thread -> Plan \cup {Nobody}]
    /\ step \in [Thread -> {"idle", "start", "compiling", "safepoint", "leaving"}]
    /\ didGetCancelled \in SUBSET Thread
    /\ suspender \in VM \cup {Nobody} /\ rights \in SUBSET Thread
    /\ gc \in [VM -> {"idle", "stopped", "suspending", "believes"}]
    /\ mutator \in [VM -> {"running", "checking", "waiting", "returning", "gone"}]
    /\ dying \in SUBSET VM

\* m_isWaiting and m_hasUnderlyingThread tell where a thread is, and a plan is
\* what a working thread has.
ThreadsInPlace ==
    \A t \in Thread :
        /\ where[t] = "none" <=> t \notin hasUnderlying
        /\ t \in isWaiting => where[t] \in {"asleep", "timedOut"}
        /\ where[t] = "asleep" => t \in isWaiting
        /\ where[t] = "work" <=> m_plan[t] # Nobody
        /\ where[t] = "work" <=> step[t] # "idle"
ActiveCounted == m_numberOfActiveThreads = Cardinality(Active)

\* A collector that believes the compilers stopped has every rightToRun.
Suspension ==
    /\ \A t \in rights : step[t] # "compiling"
    /\ \A v \in VM : gc[v] \in {"suspending", "believes"} => suspender = v
    /\ \A v \in VM : gc[v] = "believes" => rights = Thread

\* The plans, by where they are.
Elements(q) == {q[i] : i \in 1 .. Len(q)}
Once(q) == \A i, j \in 1 .. Len(q) : q[i] = q[j] /\ q[i] # Nobody => i = j
Queued == Elements(m_queue) \ {Nobody}
Having == {t \in Thread : step[t] \in {"start", "compiling", "safepoint"}}
QueuedPlans ==
    \A p \in Queued :
        p \in m_plans /\ stage[p] = "Preparing" /\ \A t \in Having : m_plan[t] # p
TakenPlans ==
    /\ \A t \in Having :
          /\ stage[m_plan[t]] = "Cancelled" <=> m_plan[t] \notin m_plans
          /\ step[t] = "start" => stage[m_plan[t]] \in {"Preparing", "Cancelled"}
          /\ step[t] = "compiling" => stage[m_plan[t]] = "Compiling"
          /\ step[t] = "safepoint" =>
                stage[m_plan[t]] = IF t \in didGetCancelled THEN "Cancelled" ELSE "Compiling"
    /\ \A t, u \in Having : m_plan[t] = m_plan[u] => t = u
    /\ \A t \in didGetCancelled : step[t] = "safepoint"
ReadyPlans == \A p \in m_readyPlans : p \in m_plans /\ stage[p] = "Ready"
AllPlans ==
    \A p \in Plan :
        IF p \in m_plans
        THEN /\ stage[p] \in {"Preparing", "Compiling", "Ready"}
             /\ \/ p \in Queued \/ p \in m_readyPlans
                \/ \E t \in Having : m_plan[t] = p
        ELSE stage[p] \in {"Fresh", "Cancelled", "Finalized"}
PlansInPlace == Once(m_queue) /\ QueuedPlans /\ TakenPlans /\ ReadyPlans /\ AllPlans

\* The null plans of the destructor come last, one for each thread that has
\* still to stop; these are up, and the VMs are gone.
NullsLast(q) == \A i, j \in 1 .. Len(q) : i < j /\ q[i] = Nobody => q[j] = Nobody
Ended == NullsOf(m_queue) # {} \/ isRunning # Thread
Shutdown ==
    /\ hasUnderlying \subseteq isRunning
    /\ \A v \in VM : mutator[v] = "gone" => gc[v] = "idle"
    /\ NullsLast(m_queue)
    /\ Ended => /\ \A v \in VM : mutator[v] = "gone"
                /\ isRunning \subseteq Up
                /\ Cardinality(NullsOf(m_queue)) = Cardinality(isRunning)

IInv == /\ TypeOK /\ ThreadsInPlace /\ ActiveCounted /\ Suspension
        /\ PlansInPlace /\ Shutdown /\ NoPlanForgotten
=============================================================================
