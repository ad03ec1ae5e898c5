----------------------------- MODULE HeapWorld -----------------------------
(***************************************************************************)
(* Who drives a garbage collection (JavaScriptCore/heap/Heap.cpp): the     *)
(* mutator and the collector thread share m_worldState and hand each other *)
(* the conn, stop and resume each other, and queue and serve tickets.      *)
(* What a phase does to the objects is left out; the order of phases, and  *)
(* everything done to m_worldState, is kept.                               *)
(*                                                                         *)
(* todo[a] is the rest of what actor a has to execute, innermost call      *)
(* first; the labels are named after the functions.  A load followed by a  *)
(* compareExchangeWeak of what was loaded is one step: when the exchange   *)
(* fails, the code loads again and nothing has changed.  compareAndPark is *)
(* one step for the same reason.  A section under m_threadLock touches     *)
(* m_worldState once and is one step.                                      *)
(***************************************************************************)
EXTENDS Naturals, Sequences

CONSTANTS MaxTicket,     \* bound on m_lastGrantedTicket
          WindowRequests \* may a request fall between the end of a collection
                         \* by the collector thread and that thread's next poll?

ASSUME WorldAssumption == MaxTicket \in Nat /\ WindowRequests \in BOOLEAN

VARIABLES world,     \* m_worldState, as the set of the bits that are set
          cur, next, \* m_currentPhase, m_nextPhase
          believes,  \* m_collectorBelievesThatTheWorldIsStopped
          scope,     \* m_collectionScope is set
          requests,  \* m_requests.size()
          granted, served, \* m_lastGrantedTicket, m_lastServedTicket
          shouldStop,      \* m_threadShouldStop
          parked,    \* the actors parked on &m_worldState
          todo,
          old,       \* oldState in waitForCollector()
          ticket     \* what waitForCollector() waits for being served

vars == <<world, cur, next, believes, scope, requests, granted, served,
          shouldStop, parked, todo, old, ticket>>
phases  == <<cur, next, believes, scope>>
tickets == <<requests, granted, served>>
locals  == <<old, ticket>>

\* The bits are "conn" (mutatorHasConn), "stopped", "access" (hasAccess),
\* "didJIT" (gcDidJIT), "finalize" (needFinalize) and "waiting" (mutatorWaiting).
Mutator   == "M"
Collector == "C"
Actor == {Mutator, Collector}

Suspended(p) == p \in {"Begin", "Fixpoint", "Reloop", "End"}

Init == /\ world = {} /\ cur = "NotRunning" /\ next = "NotRunning"
        /\ believes = FALSE /\ scope = FALSE /\ shouldStop = FALSE
        /\ requests = 0 /\ granted = 0 /\ served = 0
        /\ parked = {}
        /\ todo = [a \in Actor |-> IF a = Collector THEN <<"none">> ELSE <<>>]
        /\ old = {} /\ ticket = 0
-----------------------------------------------------------------------------
At(a, label) == todo[a] # <<>> /\ Head(todo[a]) = label
Doing(a, labels) == \E i \in DOMAIN todo[a] : todo[a][i] \in labels
Enter(a, label) == At(a, label) /\ a \notin parked

\* The call at the head of todo[a] is replaced by what follows from it.
Then(a, calls) == [todo EXCEPT ![a] = calls \o Tail(@)]

\* m_threadCondition->notifyOne(): the collector thread is asleep, or has no
\* underlying thread and is started, or is running and will poll again.
NotifyOne(t) ==
    IF t[Collector] \in {<<"asleep">>, <<"none">>}
    THEN [t EXCEPT ![Collector] = <<"poll">>] ELSE t

UnparkAll(a) ==
    /\ Enter(a, "unparkAll")
    /\ parked' = {}
    /\ todo' = Then(a, <<>>)
    /\ UNCHANGED <<world, phases, tickets, shouldStop, locals>>
-----------------------------------------------------------------------------
\* The phases, run by whoever has the conn.

ConnOf(a) == ("conn" \in world) <=> (a = Mutator)

\* runCurrentPhase() up to the switch: a phase change that stopTheMutator()
\* left halfway is finished first.
RunCurrentPhase(a) ==
    /\ Enter(a, "runCurrentPhase")
    /\ todo' = Then(a, IF next # cur THEN <<"changePhase", "runPhase">>
                                     ELSE <<"runPhase">>)
    /\ UNCHANGED <<world, phases, tickets, shouldStop, parked, locals>>

\* The phase returns false: collectIn...Thread() returns.
Finished(a) == todo' = Then(a, <<>>)

ChangePhase(a, p) ==
    /\ next' = p
    /\ todo' = Then(a, <<"changePhase", "runCurrentPhase">>)

RunNotRunningPhase(a) ==
    /\ cur = "NotRunning"
    /\ IF requests = 0 THEN Finished(a) /\ UNCHANGED next
                       ELSE ChangePhase(a, "Begin")
    /\ UNCHANGED <<world, cur, believes, scope, tickets>>

RunBeginPhase(a) ==
    /\ cur = "Begin"
    /\ scope' = TRUE
    /\ ChangePhase(a, "Fixpoint")
    /\ UNCHANGED <<world, cur, believes, tickets>>

\* Marking converges, needs another round, or lets the mutator run.
RunFixpointPhase(a) ==
    /\ cur = "Fixpoint"
    /\ \E p \in {"End", "Fixpoint", "Concurrent"} : ChangePhase(a, p)
    /\ UNCHANGED <<world, cur, believes, scope, tickets>>

\* A mutator that has the conn only looks whether it is time to stop.
RunConcurrentPhase(a) ==
    /\ cur = "Concurrent"
    /\ \/ ChangePhase(a, "Reloop")
       \/ a = Mutator /\ Finished(a) /\ UNCHANGED next
    /\ UNCHANGED <<world, cur, believes, scope, tickets>>

RunReloopPhase(a) ==
    /\ cur = "Reloop"
    /\ ChangePhase(a, "Fixpoint")
    /\ UNCHANGED <<world, cur, believes, scope, tickets>>

RunEndPhase(a) ==
    /\ cur = "End"
    /\ scope' = FALSE
    /\ requests' = requests - 1 /\ served' = served + 1
    /\ world' = world \ {"waiting"}
    /\ todo' = Then(a, <<"unparkAll", "setNeedFinalize", "unparkAll", "endPhase">>)
    /\ UNCHANGED <<cur, next, believes, granted>>

RunPhase(a) ==
    /\ Enter(a, "runPhase")
    /\ \/ RunNotRunningPhase(a) \/ RunBeginPhase(a) \/ RunFixpointPhase(a)
       \/ RunConcurrentPhase(a) \/ RunReloopPhase(a) \/ RunEndPhase(a)
    /\ UNCHANGED <<shouldStop, parked, locals>>

SetNeedFinalize(a) ==
    /\ Enter(a, "setNeedFinalize")
    /\ world' = world \cup {"finalize"}
    /\ todo' = Then(a, <<>>)
    /\ UNCHANGED <<phases, tickets, shouldStop, parked, locals>>

EndPhase(a) ==
    /\ Enter(a, "endPhase")
    /\ ChangePhase(a, "NotRunning")
    /\ UNCHANGED <<world, cur, believes, scope, tickets, shouldStop, parked, locals>>

\* The steps of finishChangingPhase().
FinishChangingPhase(a) ==
    /\ Enter(a, "changePhase")
    /\ todo' = Then(a,
         CASE Suspended(cur) = Suspended(next) -> <<"setPhase">>
           [] Suspended(cur) /\ ~Suspended(next) ->
                <<"resumeThePeriphery",
                  IF a = Collector THEN "resumeTheMutator" ELSE "handleNeedFinalize",
                  "setPhase">>
           [] OTHER ->
                (IF a = Collector THEN <<"waitWhileNeedFinalize", "stopTheMutator">>
                                  ELSE <<"handleNeedFinalize">>)
                \o <<"stopThePeriphery", "setPhase">>)
    /\ UNCHANGED <<world, phases, tickets, shouldStop, parked, locals>>

SetPhase(a) ==
    /\ Enter(a, "setPhase")
    /\ cur' = next
    /\ todo' = Then(a, <<>>)
    /\ UNCHANGED <<world, next, believes, scope, tickets, shouldStop, parked, locals>>

\* The JIT worklist may have had plans to complete.
StopThePeriphery(a) ==
    /\ Enter(a, "stopThePeriphery")
    /\ believes' = TRUE
    /\ \/ UNCHANGED world
       \/ a = Collector /\ world' = world \cup {"didJIT"}
    /\ todo' = Then(a, <<>>)
    /\ UNCHANGED <<cur, next, scope, tickets, shouldStop, parked, locals>>

ResumeThePeriphery(a) ==
    /\ Enter(a, "resumeThePeriphery")
    /\ believes' = FALSE
    /\ todo' = Then(a, <<>>)
    /\ UNCHANGED <<world, cur, next, scope, tickets, shouldStop, parked, locals>>

\* Mutant: does not look again after it was woken.
WaitWhileNeedFinalizeOnce ==
    /\ Enter(Collector, "waitWhileNeedFinalize")
    /\ todo' = Then(Collector, <<>>)
    /\ UNCHANGED <<parked, world, phases, tickets, shouldStop, locals>>

WaitWhileNeedFinalize ==
    /\ Enter(Collector, "waitWhileNeedFinalize")
    /\ IF "finalize" \in world
       THEN parked' = parked \cup {Collector} /\ UNCHANGED todo
       ELSE todo' = Then(Collector, <<>>) /\ UNCHANGED parked
    /\ UNCHANGED <<world, phases, tickets, shouldStop, locals>>

\* Without access the mutator is stopped at once; with access it is given the
\* conn.  In the latter case finishChangingPhase(), the phase and the work end.
StopTheMutator ==
    /\ Enter(Collector, "stopTheMutator")
    /\ IF {"stopped", "access", "conn"} \cap world \in {{}, {"stopped"}}
       THEN world' = world \cup {"stopped"} /\ todo' = Then(Collector, <<>>)
       ELSE IF "conn" \in world
       THEN todo' = [todo EXCEPT ![Collector] = <<"poll">>] /\ UNCHANGED world
       ELSE /\ world' = (world \cup {"conn"}) \ {"waiting"}
            /\ todo' = [todo EXCEPT ![Collector] = <<"unparkAll", "poll">>]
    /\ UNCHANGED <<phases, tickets, shouldStop, parked, locals>>

ResumeTheMutator ==
    /\ Enter(Collector, "resumeTheMutator")
    /\ world' = world \ {"stopped"}
    /\ todo' = Then(Collector, IF "stopped" \in world THEN <<"unparkAll">> ELSE <<>>)
    /\ UNCHANGED <<phases, tickets, shouldStop, parked, locals>>
-----------------------------------------------------------------------------
\* The collector thread, an AutomaticThread.

\* Mutant: the collector thread collects whoever has the conn.
ShouldCollectWithoutConn == requests # 0

ShouldCollectInCollectorThread == requests # 0 /\ "conn" \notin world

Poll ==
    /\ Enter(Collector, "poll")
    /\ IF shouldStop
       THEN /\ world' = world \ {"waiting"} /\ parked' = {}
            /\ todo' = Then(Collector, <<"stopped">>)
       ELSE /\ todo' = Then(Collector, IF ShouldCollectInCollectorThread
                                       THEN <<"runCurrentPhase", "poll">>
                                       ELSE <<"asleep">>)
            /\ UNCHANGED <<world, parked>>
    /\ UNCHANGED <<phases, tickets, shouldStop, locals>>

\* Ten idle seconds: the underlying thread exits.
IdleTimeout ==
    /\ Enter(Collector, "asleep")
    /\ todo' = Then(Collector, <<"none">>)
    /\ UNCHANGED <<world, phases, tickets, shouldStop, parked, locals>>
-----------------------------------------------------------------------------
\* The mutator.

HandleNeedFinalize ==
    /\ Enter(Mutator, "handleNeedFinalize")
    /\ world' = world \ {"finalize"}
    /\ todo' = Then(Mutator, IF "finalize" \in world
                             THEN <<"finalize", "unparkAll", "handleNeedFinalize">>
                             ELSE <<>>)
    /\ UNCHANGED <<phases, tickets, shouldStop, parked, locals>>

Finalize ==
    /\ Enter(Mutator, "finalize")
    /\ todo' = Then(Mutator, <<>>)
    /\ UNCHANGED <<world, phases, tickets, shouldStop, parked, locals>>

HandleGCDidJIT ==
    /\ Enter(Mutator, "handleGCDidJIT")
    /\ world' = world \ {"didJIT"}
    /\ todo' = Then(Mutator, IF "didJIT" \in world THEN <<"handleGCDidJIT">> ELSE <<>>)
    /\ UNCHANGED <<phases, tickets, shouldStop, parked, locals>>

StopIfNecessary ==
    /\ Enter(Mutator, "stopIfNecessary")
    /\ todo' = Then(Mutator, IF world = {"access"} THEN <<>> ELSE <<"stopIfNecessarySlow">>)
    /\ UNCHANGED <<world, phases, tickets, shouldStop, parked, locals>>

\* Mutant: does not collect when the mutator has the conn.
StopSlowNeverCollects(again, rest) ==
    IF "finalize" \in world
    THEN /\ world' = world \ {"finalize"}
         /\ todo' = Then(Mutator, <<"finalize", "unparkAll", again>>)
    ELSE todo' = Then(Mutator, rest) /\ UNCHANGED world

\* stopIfNecessarySlow(oldState): finalize, or else collect if we have the
\* conn; again and rest are what follows in the two cases.
StopSlow(again, rest) ==
    IF "finalize" \in world
    THEN /\ world' = world \ {"finalize"}
         /\ todo' = Then(Mutator, <<"finalize", "unparkAll", again>>)
    ELSE /\ todo' = Then(Mutator, (IF "conn" \in world THEN <<"runCurrentPhase">>
                                                       ELSE <<>>) \o rest)
         /\ UNCHANGED world

StopIfNecessarySlow ==
    /\ Enter(Mutator, "stopIfNecessarySlow")
    /\ StopSlow("stopIfNecessarySlow",
                <<"stopped?", "handleGCDidJIT", "handleNeedFinalize">>)
    /\ UNCHANGED <<phases, tickets, shouldStop, parked, locals>>

\* The assertions between the loop and the rest of stopIfNecessarySlow().
CheckNotStopped ==
    /\ Enter(Mutator, "stopped?")
    /\ todo' = Then(Mutator, <<>>)
    /\ UNCHANGED <<world, phases, tickets, shouldStop, parked, locals>>

WaitForCollector ==
    /\ Enter(Mutator, "waitForCollector")
    /\ LET done == served >= ticket IN
         /\ world' = IF done THEN world ELSE world \cup {"waiting"}
         /\ todo' = Then(Mutator, IF done THEN <<"waitDone">> ELSE <<"waitMore">>)
    /\ UNCHANGED <<phases, tickets, shouldStop, parked, locals>>

\* The oldState of line 1771 is kept for the compareAndPark of line 1785.
WaitLoad ==
    /\ \/ /\ Enter(Mutator, "waitMore")
          /\ StopSlow("waitForCollector", <<"relinquishConn", "park">>)
       \/ /\ Enter(Mutator, "waitDone")
          /\ StopSlow("waitForCollector", <<"relinquishConn", "clearMutatorWaiting">>)
    /\ old' = world
    /\ UNCHANGED <<phases, tickets, shouldStop, parked, ticket>>

CompareAndPark ==
    /\ Enter(Mutator, "park")
    /\ parked' = IF world = old \cup {"waiting"} THEN parked \cup {Mutator} ELSE parked
    /\ todo' = Then(Mutator, <<"waitForCollector">>)
    /\ UNCHANGED <<world, phases, tickets, shouldStop, locals>>

ClearMutatorWaiting ==
    /\ Enter(Mutator, "clearMutatorWaiting")
    /\ world' = world \ {"waiting"}
    /\ todo' = Then(Mutator, <<>>)
    /\ UNCHANGED <<phases, tickets, shouldStop, parked, locals>>

RelinquishConn ==
    /\ Enter(Mutator, "relinquishConn")
    /\ IF "conn" \in world /\ ~shouldStop
       THEN /\ world' = world \ {"conn"}
            /\ todo' = Then(Mutator, <<"finishRelinquishingConn", "relinquishConn">>)
       ELSE todo' = Then(Mutator, <<>>) /\ UNCHANGED world
    /\ UNCHANGED <<phases, tickets, shouldStop, parked, locals>>

\* Whoever gives up the conn with requests left tells the collector thread: the
\* requests that came with a steal of the conn were told to nobody.
FinishRelinquishingConn ==
    /\ Enter(Mutator, "finishRelinquishingConn")
    /\ parked' = {}
    /\ todo' = LET t == Then(Mutator, <<>>)
               IN  IF requests # 0 THEN NotifyOne(t) ELSE t
    /\ UNCHANGED <<world, phases, tickets, shouldStop, locals>>

\* Mutant: takes access although the world is stopped.
AcquireAccessWhileStopped ==
    /\ Enter(Mutator, "acquireAccess")
    /\ world' = world \cup {"access"}
    /\ todo' = Then(Mutator, <<"handleGCDidJIT", "handleNeedFinalize", "stopIfNecessary">>)
    /\ UNCHANGED <<parked, phases, tickets, shouldStop, locals>>

\* The fast path goes back to the client at once.
AcquireAccess ==
    /\ Enter(Mutator, "acquireAccess")
    /\ IF "stopped" \in world
       THEN parked' = parked \cup {Mutator} /\ UNCHANGED <<world, todo>>
       ELSE /\ world' = world \cup {"access"}
            /\ \/ world = {} /\ todo' = Then(Mutator, <<>>)
               \/ todo' = Then(Mutator, <<"handleGCDidJIT", "handleNeedFinalize",
                                          "stopIfNecessary">>)
            /\ UNCHANGED parked
    /\ UNCHANGED <<phases, tickets, shouldStop, locals>>

\* Releasing with the conn in the middle of a phase change leaves the mutator
\* stopped, so that the collector finds what it asked for.
ReleaseAccess ==
    /\ Enter(Mutator, "releaseAccess")
    /\ IF "finalize" \in world
       THEN /\ world' = world \ {"finalize"}
            /\ todo' = Then(Mutator, <<"finalize", "unparkAll", "releaseAccess">>)
       ELSE /\ world' = (world \ {"access", "conn"}) \cup
                        (IF "conn" \in world /\ next # cur THEN {"stopped"} ELSE {})
            /\ todo' = Then(Mutator, IF "conn" \in world
                                     THEN <<"finishRelinquishingConn">> ELSE <<>>)
    /\ UNCHANGED <<phases, tickets, shouldStop, parked, locals>>

\* A steal of the conn; WindowRequests says whether it may hit a collector
\* thread that is still inside collectInCollectorThread().
Steal == served = granted /\ cur = "NotRunning"
InWork == Doing(Collector, {"runCurrentPhase", "runPhase", "changePhase"})

RequestCollection ==
    /\ Enter(Mutator, "requestCollection")
    /\ Steal => WindowRequests \/ ~InWork
    /\ world' = IF Steal THEN world \cup {"conn"} ELSE world
    /\ requests' = requests + 1 /\ granted' = granted + 1
    /\ ticket' = granted + 1
    /\ todo' = LET t == Then(Mutator, <<>>)
               IN  IF "conn" \in world' THEN t ELSE NotifyOne(t)
    /\ UNCHANGED <<phases, served, shouldStop, parked, old>>

\* lastChanceToFinalize() once all collections are over: tryStop() succeeds if
\* there is no underlying thread; otherwise join.
StopThread ==
    /\ Enter(Mutator, "stopThread")
    /\ shouldStop' = TRUE
    /\ todo' = IF todo[Collector] = <<"none">>
               THEN [todo EXCEPT ![Mutator] = <<"dead">>, ![Collector] = <<"stopped">>]
               ELSE NotifyOne(Then(Mutator, <<"join">>))
    /\ UNCHANGED <<world, phases, tickets, parked, locals>>

Join ==
    /\ Enter(Mutator, "join") /\ At(Collector, "stopped")
    /\ todo' = Then(Mutator, <<"dead">>)
    /\ UNCHANGED <<world, phases, tickets, shouldStop, parked, locals>>

\* What the client calls: taking and giving up access with the API lock,
\* polling on slow paths and by the StopIfNecessaryTimer, asking for
\* collections, keeping them away, and destroying the VM.
Call(calls) ==
    /\ todo[Mutator] = <<>>
    /\ todo' = [todo EXCEPT ![Mutator] = calls]
    /\ UNCHANGED <<world, phases, tickets, shouldStop, parked, old>>

CallAcquireAccess == "access" \notin world /\ Call(<<"acquireAccess">>) /\ UNCHANGED ticket
CallReleaseAccess == "access" \in world /\ Call(<<"releaseAccess">>) /\ UNCHANGED ticket
CallStopIfNecessary == /\ "access" \in world /\ world # {"access"}
                       /\ Call(<<"stopIfNecessary">>) /\ UNCHANGED ticket
\* The GC timers go on with the conn they may have got; collectNow() and
\* collectIfNecessaryOrDefer() call stopIfNecessary() at once.
CollectAsync == /\ "access" \in world /\ granted < MaxTicket
                /\ \/ Call(<<"stopIfNecessary", "requestCollection">>)
                   \/ Call(<<"stopIfNecessary", "requestCollection", "stopIfNecessary">>)
                /\ UNCHANGED ticket
CollectSync == /\ "access" \in world /\ granted < MaxTicket
               /\ Call(<<"stopIfNecessary", "requestCollection", "waitForCollector">>)
               /\ UNCHANGED ticket
PreventCollection == /\ "access" \in world
                     /\ Call(<<"waitForCollector", "prevented">>) /\ ticket' = granted
LastChanceToFinalize ==
    /\ "access" \in world
    /\ Call(IF served < granted THEN <<"waitForCollector", "stopThread">>
                                ELSE <<"stopThread">>)
    /\ ticket' = granted

\* preventCollection() has its assertion and returns.
Prevented ==
    /\ Enter(Mutator, "prevented")
    /\ todo' = Then(Mutator, <<>>)
    /\ UNCHANGED <<world, phases, tickets, shouldStop, parked, locals>>

Destroyed == At(Mutator, "dead") /\ UNCHANGED vars
-----------------------------------------------------------------------------
Phase(a) == \/ RunCurrentPhase(a) \/ SetNeedFinalize(a) \/ EndPhase(a)
            \/ RunPhase(a) \/ FinishChangingPhase(a) \/ SetPhase(a)
            \/ StopThePeriphery(a) \/ ResumeThePeriphery(a) \/ UnparkAll(a)

CollectorStep == \/ Phase(Collector) \/ Poll
                 \/ WaitWhileNeedFinalize \/ StopTheMutator \/ ResumeTheMutator

MutatorStep == \/ Phase(Mutator) \/ HandleNeedFinalize \/ Finalize \/ HandleGCDidJIT
               \/ StopIfNecessary \/ StopIfNecessarySlow \/ CheckNotStopped
               \/ WaitForCollector \/ WaitLoad \/ CompareAndPark \/ ClearMutatorWaiting
               \/ RelinquishConn \/ FinishRelinquishingConn
               \/ AcquireAccess \/ ReleaseAccess \/ RequestCollection
               \/ StopThread \/ Join \/ Prevented

Client == \/ CallAcquireAccess \/ CallReleaseAccess \/ CallStopIfNecessary
          \/ CollectAsync \/ CollectSync \/ PreventCollection \/ LastChanceToFinalize

Next == CollectorStep \/ MutatorStep \/ Client \/ IdleTimeout \/ Destroyed

Spec == Init /\ [][Next]_vars

\* Both threads get processor time, and the client goes on using the heap: it
\* does not keep access, nor stay without it, for ever (JSLock).
Fairness ==
    /\ WF_vars(CollectorStep) /\ WF_vars(MutatorStep)
    /\ WF_vars(CallAcquireAccess) /\ WF_vars(CallReleaseAccess)

\* Marking converges, and a scheduler that lets the mutator run stops it again.
MarkingTerminates ==
    \A a \in Actor : /\ SF_vars(RunPhase(a) /\ next' = "End")
                     /\ SF_vars(RunPhase(a) /\ next' = "Reloop")

\* The collector does not for ever hand the conn to a mutator that is just
\* about to give it back: nothing but luck ends such a bounce (line 1097 calls
\* it "probably not the end of the world").
Bounce == StopTheMutator /\ world' # world /\ Doing(Mutator, {"relinquishConn"})
NoEndlessBounce == <>[][~Bounce]_vars

LiveSpec == Spec /\ Fairness /\ MarkingTerminates /\ NoEndlessBounce
-----------------------------------------------------------------------------
\* checkConn(): whoever runs or changes a phase has the conn, by RELEASE_ASSERT
\* on every entry of runCurrentPhase(), changePhase() and finishChangingPhase().
ConnChecked ==
    \A a \in Actor :
        \/ At(a, "runCurrentPhase") \/ At(a, "changePhase") \/ At(a, "endPhase")
        \/ At(a, "runPhase") /\ (cur = "NotRunning" => requests # 0)
        => ConnOf(a)

\* Every RELEASE_ASSERT on the conn, m_worldState, the tickets, the phases and
\* the collector thread: at each place the state is what the code there insists
\* on, whatever the other thread did since this one looked last.
AssertionsHold ==
    /\ ConnChecked
    /\ \A a \in Actor :
         /\ At(a, "runPhase") /\ cur = "Begin" => requests # 0 /\ ~scope
         /\ At(a, "resumeThePeriphery") => believes
         /\ At(a, "stopThePeriphery") => ~believes /\ (a = Collector => "stopped" \in world)
    /\ At(Collector, "stopTheMutator") =>
         /\ "stopped" \in world => {"access", "waiting", "conn"} \cap world = {}
         /\ "conn" \in world => {"access", "stopped"} \cap world = {}
         /\ "access" \notin world => {"conn", "waiting"} \cap world = {}
    /\ At(Collector, "resumeTheMutator") =>
         (("access" \in world) <=> ("stopped" \notin world)) /\ "conn" \notin world
    /\ At(Collector, "poll") /\ ~shouldStop =>
         ((requests = 0) <=> (served = granted)) /\ served <= granted
    /\ (\E l \in {"stopIfNecessarySlow", "stopped?", "waitMore", "waitDone", "handleNeedFinalize",
                  "handleGCDidJIT", "releaseAccess", "relinquishConn"} : At(Mutator, l))
         => "access" \in world /\ "stopped" \notin world
    /\ At(Mutator, "acquireAccess") => "access" \notin world
    /\ At(Mutator, "prevented") => ~scope
    /\ At(Mutator, "stopThread") => requests = 0 /\ served = granted
    /\ At(Collector, "stopped") =>
         \A l \in {"requestCollection", "stopThread"} : ~At(Mutator, l)

\* When the collector thread believes the world is stopped, the mutator is
\* stopped, without access, and not running a phase itself (stopThePeriphery()
\* suspends the compiler threads and starts to scan the mutator's heap).
WorldStopped ==
    believes /\ "conn" \notin world =>
        /\ "stopped" \in world /\ "access" \notin world
        /\ ~Doing(Mutator, {"runCurrentPhase", "runPhase", "changePhase"})

\* Finalizers run with the world not stopped, and each collection's finalizers
\* are run before the next one ends (waitWhileNeedFinalize()): needFinalizeBit
\* never stands for two collections.
FinalizationInTurn ==
    /\ At(Mutator, "finalize") => ~believes
    /\ \A a \in Actor : Doing(a, {"setNeedFinalize"}) =>
         "finalize" \notin world /\ ~Doing(Mutator, {"finalize"})

\* Every ticket is served, whoever has the conn when; a mutator parked on
\* m_worldState, in acquireAccessSlow() or for a collection, is unparked again,
\* so no event it waits for passes it by; and a VM can be destroyed.
TicketsServed ==
    /\ \A t \in 1 .. MaxTicket : granted >= t ~> served >= t
    /\ Mutator \in parked ~> Mutator \notin parked
    /\ Doing(Mutator, {"stopThread"}) ~> At(Mutator, "dead")
-----------------------------------------------------------------------------
(* The inductive invariant: which position allows its actor to rely on what. *)

Label == {"none", "asleep", "poll", "stopped", "unparkAll", "runCurrentPhase", "runPhase",
          "changePhase", "setPhase", "stopThePeriphery", "resumeThePeriphery",
          "waitWhileNeedFinalize", "stopTheMutator", "resumeTheMutator", "setNeedFinalize",
          "endPhase", "handleNeedFinalize", "finalize", "handleGCDidJIT", "stopIfNecessary",
          "stopIfNecessarySlow", "stopped?", "waitForCollector", "waitMore", "waitDone", "park",
          "clearMutatorWaiting", "relinquishConn", "finishRelinquishingConn", "acquireAccess",
          "releaseAccess", "requestCollection", "prevented", "stopThread", "join", "dead"}

\* The sequences of calls that start with x and go on with one of S.
On(x, S) == {s \in Seq(Label) : s # <<>> /\ Head(s) = x /\ Tail(s) \in S}
Empty == {<<>>}
\* x of S, with the finalization that comes before it when it is repeated.
Loop(x, S) == On(x, S) \cup On("unparkAll", On(x, S))
                       \cup On("finalize", On("unparkAll", On(x, S)))

\* The collector thread outside collectInCollectorThread().
CollectorOut == On("none", Empty) \cup On("asleep", Empty) \cup On("stopped", Empty)
                   \cup On("poll", Empty) \cup On("unparkAll", On("poll", Empty))

\* What the mutator has to do after a stopIfNecessary(), after a
\* waitForCollector(), and after collectInMutatorThread().
AfterStop == Empty \cup On("stopIfNecessary", Empty) \cup
             On("requestCollection", Empty \cup On("stopIfNecessary", Empty)
                                        \cup On("waitForCollector", Empty))
AfterWait == Empty \cup On("prevented", Empty) \cup On("stopThread", Empty)
WaitEnds  == On("park", AfterWait) \cup On("clearMutatorWaiting", AfterWait)
Handling  == On("handleGCDidJIT", On("handleNeedFinalize", AfterStop))
MutatorRest == On("stopped?", Handling) \cup On("relinquishConn", WaitEnds)

\* The mutator outside collectInMutatorThread().
MutatorOut ==
    AfterStop \cup AfterWait \cup MutatorRest \cup WaitEnds \cup Handling
      \cup On("stopIfNecessary", AfterStop) \cup Loop("stopIfNecessarySlow", AfterStop)
      \cup Loop("handleNeedFinalize", AfterStop) \cup Loop("waitForCollector", AfterWait)
      \cup On("waitMore", AfterWait) \cup On("waitDone", AfterWait)
      \cup On("finishRelinquishingConn", Empty \cup On("relinquishConn", WaitEnds))
      \cup On("acquireAccess", Empty) \cup Loop("releaseAccess", Empty)
      \cup On("join", Empty) \cup On("dead", Empty)

Change(p, q) == \/ p = "NotRunning" /\ q = "Begin"
                \/ p \in {"Begin", "Reloop"} /\ q = "Fixpoint"
                \/ p = "Fixpoint" /\ q \in {"End", "Fixpoint", "Concurrent"}
                \/ p = "Concurrent" /\ q = "Reloop"
                \/ p = "End" /\ q = "NotRunning"

\* No change of phase is under way, or one that has still to stop the mutator.
Settled == cur = next /\ (believes <=> Suspended(cur)) /\ (cur = "End" => scope)
Halfway == Change(cur, next) /\ ~Suspended(cur) /\ Suspended(next) /\ ~believes
Resumes == Change(cur, next) /\ Suspended(cur) /\ ~Suspended(next)

Running(R) == On("runCurrentPhase", R) \cup On("runPhase", R)
Setting(R) == On("setPhase", Running(R))
Ending(R)  == On("setNeedFinalize", On("unparkAll", On("endPhase", R)))

\* The positions in a collection that both actors can be in, R being the rest.
InPhase(a, R) ==
    \/ todo[a] \in On("runCurrentPhase", R) /\ (Settled \/ Halfway)
    \/ todo[a] \in On("runPhase", R) /\ Settled
    \/ /\ todo[a] \in On("changePhase", Running(R))
       /\ Change(cur, next) /\ (believes <=> Suspended(cur))
    \/ /\ todo[a] \in Setting(R)
       /\ Change(cur, next) /\ (believes <=> Suspended(next))
       /\ "finalize" \in world => next = "NotRunning" /\ a = Collector
    \/ /\ todo[a] \in On("stopThePeriphery", Setting(R))
       /\ Halfway /\ "finalize" \notin world /\ (a = Collector => "stopped" \in world)
    \/ /\ cur = "End" /\ next = "End" /\ ~scope /\ believes
       /\ \/ /\ todo[a] \in On("unparkAll", Ending(R)) \cup Ending(R)
             /\ "finalize" \notin world
          \/ todo[a] \in On("unparkAll", On("endPhase", R)) \cup On("endPhase", R)

\* The collector thread in a collection: no conn for the mutator, which is
\* stopped while the collector believes so.
CollectorIn ==
    /\ "conn" \notin world /\ (believes => "stopped" \in world)
    /\ LET R == On("poll", Empty)
           Stopping == On("stopTheMutator", On("stopThePeriphery", Setting(R)))
           Resuming == On("resumeTheMutator", Setting(R))
       IN \/ InPhase(Collector, R)
          \/ todo[Collector] \in On("waitWhileNeedFinalize", Stopping) /\ Halfway
          \/ todo[Collector] \in Stopping /\ Halfway /\ "finalize" \notin world
          \/ todo[Collector] \in On("resumeThePeriphery", Resuming) /\ Resumes /\ believes
          \/ todo[Collector] \in Resuming /\ Resumes /\ ~believes /\ "stopped" \in world
          \/ todo[Collector] \in On("unparkAll", Setting(R)) /\ Resumes /\ ~believes

\* The mutator in a collection: it has the conn, and finalizes at once.
MutatorIn ==
    /\ "conn" \in world /\ ("finalize" \in world => cur = "End")
    /\ LET R == MutatorRest
       IN \/ InPhase(Mutator, R)
          \/ todo[Mutator] \in Loop("handleNeedFinalize", On("stopThePeriphery", Setting(R))) /\ Halfway
          \/ /\ todo[Mutator] \in On("resumeThePeriphery", On("handleNeedFinalize", Setting(R)))
             /\ Resumes /\ believes
          \/ todo[Mutator] \in Loop("handleNeedFinalize", Setting(R)) /\ Resumes /\ ~believes

\* Nobody is in a collection: none goes on, the mutator runs between two
\* rounds of one, or somebody has still to stop it for the next phase.
NobodyIn == /\ ~believes /\ ~Suspended(cur)
            /\ cur = next \/ Halfway
            /\ "finalize" \in world => cur = next

\* One at a time drives the collection.
OneDrives ==
    \/ todo[Collector] \in CollectorOut /\ todo[Mutator] \in MutatorOut /\ NobodyIn
    \/ todo[Collector] \in CollectorOut /\ MutatorIn
    \/ todo[Mutator] \in MutatorOut /\ CollectorIn

\* The finalize bit stands for a collection that has ended.
PhaseFacts ==
    /\ "finalize" \in world => cur = "NotRunning" \/ (cur = "End" /\ ~scope)
    /\ cur \in {"Fixpoint", "Concurrent", "Reloop"} => scope
    /\ cur = "NotRunning" => ~scope
    /\ cur = "Begin" => (scope <=> next = "Fixpoint")
    /\ cur = "End" /\ next # "End" => ~scope
    /\ scope \/ next = "Begin" => requests # 0

WorldFacts ==
    /\ "conn" \in world => "access" \in world
    /\ "stopped" \in world => "access" \notin world
    /\ "waiting" \in world => /\ "access" \in world
                              /\ Doing(Mutator, {"waitForCollector", "waitMore", "waitDone", "park",
                                                 "clearMutatorWaiting"})

TicketFacts ==
    /\ granted = served + requests
    /\ Doing(Mutator, {"waitDone", "clearMutatorWaiting"}) => served >= ticket
    /\ Doing(Mutator, {"prevented", "stopThread"}) =>
          /\ ticket = granted
          /\ served >= ticket \/ Doing(Mutator, {"waitForCollector", "waitMore", "park"})

ClientFacts ==
    /\ "access" \in world \/ todo[Mutator] \in Empty \cup On("acquireAccess", Empty)
          \cup On("finishRelinquishingConn", Empty) \cup On("dead", Empty)
    /\ At(Mutator, "acquireAccess") => "access" \notin world
    /\ shouldStop => todo[Mutator] \in On("join", Empty) \cup On("dead", Empty)
    /\ At(Collector, "stopped") => shouldStop

Bits == {"conn", "stopped", "access", "didJIT", "finalize", "waiting"}
PhaseName == {"NotRunning", "Begin", "Fixpoint", "Concurrent", "Reloop", "End"}
TypeOK == /\ world \subseteq Bits /\ cur \in PhaseName /\ next \in PhaseName
          /\ believes \in BOOLEAN /\ scope \in BOOLEAN /\ shouldStop \in BOOLEAN
          /\ requests \in Nat /\ granted \in Nat /\ served \in Nat /\ ticket \in Nat
          /\ todo \in [Actor -> Seq(Label)]

IInv == TypeOK /\ OneDrives /\ PhaseFacts /\ WorldFacts /\ TicketFacts /\ ClientFacts
=============================================================================
