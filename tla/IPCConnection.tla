--------------------------- MODULE IPCConnection ---------------------------
(***************************************************************************)
(* IPC::Connection (WebKit/Platform/IPC/Connection.cpp): synchronous and   *)
(* asynchronous messages between processes.  A connection is two           *)
(* endpoints.  At each, the connection queue receives messages and sees    *)
(* the peer go away; the main thread of the process dispatches messages,   *)
(* sends, and waits for the replies to its synchronous messages, in which  *)
(* wait it dispatches the messages marked for that, and may send again.    *)
(* SyncMessageState, with its semaphore, is shared by the connections of a *)
(* process.                                                                *)
(***************************************************************************)
EXTENDS Naturals, Sequences, SequencesExt, FiniteSets

CONSTANTS Endpoint, PeerOf(_), ProcessOf(_),
          OnlyWhenProcessing, \* endpoints with m_onlySendMessagesAsDispatchWhenWaiting...
          Impatient,          \* endpoints whose synchronous sends have a timeout
          SendsAsync, SendsSync, Invalidates, \* endpoints whose client does so
          MaxSend,            \* bound on the messages sent, replies apart
          MayCrash,           \* processes that may crash
          Nobody

ASSUME ConnectionAssumption ==
    /\ MaxSend \in Nat /\ MayCrash \subseteq {ProcessOf(e) : e \in Endpoint}
    /\ \A e \in Endpoint : PeerOf(e) \in Endpoint /\ PeerOf(PeerOf(e)) = e
    /\ OnlyWhenProcessing \cup Impatient \subseteq Endpoint
    /\ SendsAsync \cup SendsSync \cup Invalidates \subseteq Endpoint

VARIABLES m_isValid, m_isConnected, m_shouldWaitForSyncReplies,
          m_pendingSyncReplies,  \* the stack of [id, didReceiveReply]
          m_incomingMessages,
          m_inDispatchMarked,    \* m_inDispatchMessageMarkedDispatchWhen...Count
          wire,     \* what the endpoint has sent and its peer not yet received
          toDispatch, didSchedule, semaphore, \* SyncMessageState of a process
          runLoop,  \* the tasks of a process's main run loop
          stack,    \* the calls its main thread is in, the innermost last
          sent,     \* messages sent by all
          crashed

endpointVars == <<m_isValid, m_isConnected, m_shouldWaitForSyncReplies,
                  m_pendingSyncReplies, m_incomingMessages, m_inDispatchMarked>>
processVars == <<toDispatch, didSchedule, semaphore, runLoop>>
vars == <<endpointVars, processVars, wire, stack, sent, crashed>>

Process == {ProcessOf(e) : e \in Endpoint}
Const(S, x) == [s \in S |-> x]

Init == /\ m_isValid = Const(Endpoint, TRUE) /\ m_isConnected = Const(Endpoint, TRUE)
        /\ m_shouldWaitForSyncReplies = Const(Endpoint, TRUE)
        /\ m_pendingSyncReplies = Const(Endpoint, <<>>)
        /\ m_incomingMessages = Const(Endpoint, <<>>)
        /\ m_inDispatchMarked = Const(Endpoint, 0)
        /\ wire = Const(Endpoint, <<>>)
        /\ toDispatch = Const(Process, <<>>) /\ didSchedule = Const(Process, {})
        /\ semaphore = Const(Process, FALSE)
        /\ runLoop = Const(Process, <<>>) /\ stack = Const(Process, <<>>)
        /\ sent = 0 /\ crashed = {}

Push(f, x, v) == [f EXCEPT ![x] = Append(@, v)]
Message(kind, id, marked) == [kind |-> kind, id |-> id, marked |-> marked]
Task(what, e) == [what |-> what, e |-> e]
Top(p) == Last(stack[p])
In(p, call) == p \notin crashed /\ stack[p] # <<>> /\ Top(p).call = call
ReplaceTop(p, frame) == [stack EXCEPT ![p] = Append(Front(@), frame)]
-----------------------------------------------------------------------------
(* The connection queue of endpoint e.                                       *)

\* Mutant: stores the reply without signalling.
ReplyForgetsWakeUp(e, id) ==
    LET s == m_pendingSyncReplies[e]
        at == {i \in DOMAIN s : s[i].id = id} IN
    /\ m_pendingSyncReplies' = [m_pendingSyncReplies EXCEPT ![e] =
           [i \in DOMAIN s |-> IF i \in at THEN [s[i] EXCEPT !.didReceiveReply = TRUE] ELSE s[i]]]
    /\ UNCHANGED <<semaphore, toDispatch, didSchedule, runLoop, m_incomingMessages>>

\* Mutant: a reply for an outer request is taken for a late one.
ReplyOnlyToInnermost(e, id) ==
    LET s == m_pendingSyncReplies[e] IN
    /\ IF s # <<>> /\ Last(s).id = id
       THEN /\ m_pendingSyncReplies' = [m_pendingSyncReplies EXCEPT ![e][Len(s)].didReceiveReply = TRUE]
            /\ semaphore' = [semaphore EXCEPT ![ProcessOf(e)] = TRUE]
       ELSE UNCHANGED <<m_pendingSyncReplies, semaphore>>
    /\ UNCHANGED <<toDispatch, didSchedule, runLoop, m_incomingMessages>>

\* A reply that nobody waits for any more is dropped; the client is woken only
\* for the innermost request.
ProcessIncomingSyncReply(e, id) ==
    LET s == m_pendingSyncReplies[e]
        at == {i \in DOMAIN s : s[i].id = id} IN
    /\ m_pendingSyncReplies' = [m_pendingSyncReplies EXCEPT ![e] =
           [i \in DOMAIN s |-> IF i \in at THEN [s[i] EXCEPT !.didReceiveReply = TRUE] ELSE s[i]]]
    /\ semaphore' = [semaphore EXCEPT ![ProcessOf(e)] = @ \/ Len(s) \in at]
    /\ UNCHANGED <<toDispatch, didSchedule, runLoop, m_incomingMessages>>

\* Mutant: one scheduled task is taken to do for every connection.
OneTaskForAllConnections(e, m) ==
    LET p == ProcessOf(e) IN
    /\ IF m.marked
       THEN /\ toDispatch' = Push(toDispatch, p, [e |-> e, m |-> m])
            /\ didSchedule' = [didSchedule EXCEPT ![p] = IF @ = {} THEN {e} ELSE @]
            /\ runLoop' = IF didSchedule[p] # {} THEN runLoop
                          ELSE Push(runLoop, p, Task("dispatchMessages", e))
            /\ semaphore' = [semaphore EXCEPT ![p] = TRUE]
            /\ UNCHANGED m_incomingMessages
       ELSE /\ m_incomingMessages' = Push(m_incomingMessages, e, m)
            /\ runLoop' = Push(runLoop, p, Task("dispatchOneMessage", e))
            /\ UNCHANGED <<toDispatch, didSchedule, semaphore>>
    /\ UNCHANGED m_pendingSyncReplies

\* A marked message waits for whoever looks first, the main run loop or a wait
\* for a synchronous reply; any other for the run loop alone.
ProcessIncomingMessage(e, m) ==
    LET p == ProcessOf(e) IN
    /\ IF m.marked
       THEN /\ toDispatch' = Push(toDispatch, p, [e |-> e, m |-> m])
            /\ didSchedule' = [didSchedule EXCEPT ![p] = @ \cup {e}]
            /\ runLoop' = IF e \in didSchedule[p] THEN runLoop
                          ELSE Push(runLoop, p, Task("dispatchMessages", e))
            /\ semaphore' = [semaphore EXCEPT ![p] = TRUE]
            /\ UNCHANGED m_incomingMessages
       ELSE /\ m_incomingMessages' = Push(m_incomingMessages, e, m)
            /\ runLoop' = Push(runLoop, p, Task("dispatchOneMessage", e))
            /\ UNCHANGED <<toDispatch, didSchedule, semaphore>>
    /\ UNCHANGED m_pendingSyncReplies

Receive(e) ==
    LET w == wire[PeerOf(e)] IN
    /\ m_isConnected[e] /\ ProcessOf(e) \notin crashed /\ w # <<>>
    /\ wire' = [wire EXCEPT ![PeerOf(e)] = Tail(@)]
    /\ IF Head(w).kind = "reply" THEN ProcessIncomingSyncReply(e, Head(w).id)
                                 ELSE ProcessIncomingMessage(e, Head(w))
    /\ UNCHANGED <<m_isValid, m_isConnected, m_shouldWaitForSyncReplies, m_inDispatchMarked,
                   stack, sent, crashed>>

\* The peer's end of the socket is closed.  The hang-up may be seen before what
\* was sent is read, and then nobody reads it any more.
ConnectionDidClose(e) ==
    /\ m_isConnected[e] /\ ProcessOf(e) \notin crashed
    /\ ~m_isConnected[PeerOf(e)]
    /\ m_isConnected' = [m_isConnected EXCEPT ![e] = FALSE]
    /\ m_shouldWaitForSyncReplies' = [m_shouldWaitForSyncReplies EXCEPT ![e] = FALSE]
    /\ semaphore' = [semaphore EXCEPT ![ProcessOf(e)] = @ \/ m_pendingSyncReplies[e] # <<>>]
    /\ runLoop' = Push(runLoop, ProcessOf(e), Task("didClose", e))
    /\ UNCHANGED <<m_isValid, m_pendingSyncReplies, m_incomingMessages, m_inDispatchMarked,
                   toDispatch, didSchedule, wire, stack, sent, crashed>>

\* What invalidate() left to the connection queue.
PlatformInvalidate(e) ==
    /\ m_isConnected[e] /\ ~m_isValid[e] /\ ProcessOf(e) \notin crashed
    /\ m_isConnected' = [m_isConnected EXCEPT ![e] = FALSE]
    /\ UNCHANGED <<m_isValid, m_shouldWaitForSyncReplies, m_pendingSyncReplies,
                   m_incomingMessages, m_inDispatchMarked, processVars, wire, stack, sent, crashed>>
-----------------------------------------------------------------------------
(* What the main thread of a process does when its own code runs: at the top *)
(* of the run loop, or in the handler of a message.                          *)

ClientRuns(p) == p \notin crashed /\ (stack[p] # <<>> => Top(p).call = "handler")

Marked(e) == e \notin OnlyWhenProcessing \/ m_inDispatchMarked[e] > 0

Transmit(e, m) == wire' = IF m_isConnected[e] THEN Push(wire, e, m) ELSE wire

\* sendMessage() with DispatchMessageEvenWhenWaitingForSyncReply, or without.
SendMessage(e) ==
    /\ ClientRuns(ProcessOf(e)) /\ e \in SendsAsync /\ sent < MaxSend /\ m_isValid[e]
    /\ sent' = sent + 1
    /\ \E marked \in {FALSE, Marked(e)} : Transmit(e, Message("async", sent', marked))
    /\ UNCHANGED <<endpointVars, processVars, stack, crashed>>

\* sendSyncMessage() up to the wait.
SendSyncMessage(e) ==
    /\ ClientRuns(ProcessOf(e)) /\ e \in SendsSync /\ sent < MaxSend
    /\ m_isValid[e] /\ m_shouldWaitForSyncReplies[e]
    /\ sent' = sent + 1
    /\ m_pendingSyncReplies' =
         Push(m_pendingSyncReplies, e, [id |-> sent', didReceiveReply |-> FALSE])
    /\ Transmit(e, Message("sync", sent', Marked(e)))
    /\ stack' = Push(stack, ProcessOf(e), [call |-> "wait", e |-> e, id |-> sent', at |-> "dispatch"])
    /\ UNCHANGED <<m_isValid, m_isConnected, m_shouldWaitForSyncReplies, m_incomingMessages,
                   m_inDispatchMarked, processVars, crashed>>

Invalidate(e) ==
    /\ ClientRuns(ProcessOf(e)) /\ e \in Invalidates /\ m_isValid[e]
    /\ m_isValid' = [m_isValid EXCEPT ![e] = FALSE]
    /\ UNCHANGED <<m_isConnected, m_shouldWaitForSyncReplies, m_pendingSyncReplies,
                   m_incomingMessages, m_inDispatchMarked, processVars, wire, stack, sent, crashed>>
-----------------------------------------------------------------------------
(* Dispatching.                                                              *)

\* dispatchMessage(): calls is the stack the handler's call goes on.
DispatchMessage(p, e, m, calls) ==
    IF m_isValid[e]
    THEN /\ stack' = [stack EXCEPT ![p] = Append(calls, [call |-> "handler", e |-> e, m |-> m])]
         /\ m_inDispatchMarked' = [m_inDispatchMarked EXCEPT ![e] = IF m.marked THEN @ + 1 ELSE @]
    ELSE stack' = [stack EXCEPT ![p] = calls] /\ UNCHANGED m_inDispatchMarked

\* The handler returns; a synchronous message is answered.
HandlerReturns(p) ==
    /\ In(p, "handler")
    /\ LET e == Top(p).e
           m == Top(p).m IN
       /\ m_inDispatchMarked' = [m_inDispatchMarked EXCEPT ![e] = IF m.marked THEN @ - 1 ELSE @]
       /\ IF m.kind = "sync" /\ m_isValid[e] THEN Transmit(e, Message("reply", m.id, FALSE))
                                             ELSE UNCHANGED wire
    /\ stack' = [stack EXCEPT ![p] = Front(@)]
    /\ UNCHANGED <<m_isValid, m_isConnected, m_shouldWaitForSyncReplies, m_pendingSyncReplies,
                   m_incomingMessages, processVars, sent, crashed>>

\* dispatchMessages() swaps the shared queue with a local one; a message of
\* another connection than the allowed one is kept to be put back.
Batch(p, allowed) == [call |-> "dispatchMessages", allowed |-> allowed,
                      messages |-> toDispatch[p], putBack |-> <<>>]

PutBack(f, x) == f.allowed # Nobody /\ x.e # f.allowed

DispatchMessages(p) ==
    /\ In(p, "dispatchMessages")
    /\ LET f == Top(p)
           rest == [f EXCEPT !.messages = Tail(@)] IN
       \/ /\ f.messages # <<>> /\ PutBack(f, Head(f.messages))
          /\ stack' = ReplaceTop(p, [rest EXCEPT !.putBack = Append(@, Head(f.messages))])
          /\ UNCHANGED <<toDispatch, m_inDispatchMarked>>
       \/ /\ f.messages # <<>> /\ ~PutBack(f, Head(f.messages))
          /\ DispatchMessage(p, Head(f.messages).e, Head(f.messages).m,
                             Append(Front(stack[p]), rest))
          /\ UNCHANGED toDispatch
       \/ /\ f.messages = <<>>
          /\ toDispatch' = [toDispatch EXCEPT ![p] = @ \o f.putBack]
          /\ stack' = [stack EXCEPT ![p] = Front(@)]
          /\ UNCHANGED m_inDispatchMarked
    /\ UNCHANGED <<m_isValid, m_isConnected, m_shouldWaitForSyncReplies, m_pendingSyncReplies,
                   m_incomingMessages, didSchedule, semaphore, runLoop, wire, sent, crashed>>

\* The main run loop takes its next task.
RunLoopTask(p) ==
    /\ p \notin crashed /\ stack[p] = <<>> /\ runLoop[p] # <<>>
    /\ runLoop' = [runLoop EXCEPT ![p] = Tail(@)]
    /\ LET what == Head(runLoop[p]).what
           e == Head(runLoop[p]).e
           q == m_incomingMessages[e] IN
       \/ /\ what = "dispatchOneMessage"
          /\ IF q = <<>> THEN UNCHANGED <<stack, m_inDispatchMarked, m_incomingMessages>>
             ELSE /\ m_incomingMessages' = [m_incomingMessages EXCEPT ![e] = Tail(@)]
                  /\ DispatchMessage(p, e, Head(q), <<>>)
          /\ UNCHANGED <<m_isValid, toDispatch, didSchedule>>
       \/ /\ what = "dispatchMessages"
          /\ didSchedule' = [didSchedule EXCEPT ![p] = @ \ {e}]
          /\ stack' = Push(stack, p, Batch(p, e))
          /\ toDispatch' = [toDispatch EXCEPT ![p] = <<>>]
          /\ UNCHANGED <<m_isValid, m_inDispatchMarked, m_incomingMessages>>
       \/ /\ what = "didClose"
          /\ m_isValid' = [m_isValid EXCEPT ![e] = FALSE]
          /\ UNCHANGED <<stack, m_inDispatchMarked, m_incomingMessages, toDispatch, didSchedule>>
    /\ UNCHANGED <<m_isConnected, m_shouldWaitForSyncReplies, m_pendingSyncReplies, semaphore,
                   wire, sent, crashed>>
-----------------------------------------------------------------------------
(* waitForSyncReply().                                                       *)

WaitDispatches(p) ==
    /\ In(p, "wait") /\ Top(p).at = "dispatch"
    /\ stack' = [stack EXCEPT ![p] =
                   Append(Append(Front(@), [Top(p) EXCEPT !.at = "check"]), Batch(p, Nobody))]
    /\ toDispatch' = [toDispatch EXCEPT ![p] = <<>>]
    /\ UNCHANGED <<endpointVars, didSchedule, semaphore, runLoop, wire, sent, crashed>>

\* sendSyncMessage() after the wait.
WaitEnds(p) ==
    /\ stack' = [stack EXCEPT ![p] = Front(@)]
    /\ m_pendingSyncReplies' = [m_pendingSyncReplies EXCEPT ![Top(p).e] = Front(@)]

WaitChecks(p) ==
    /\ In(p, "wait") /\ Top(p).at = "check"
    /\ LET e == Top(p).e IN
       IF \/ Last(m_pendingSyncReplies[e]).didReceiveReply
          \/ ~m_shouldWaitForSyncReplies[e]
          \/ ~m_isValid[e]
       THEN WaitEnds(p)
       ELSE /\ stack' = ReplaceTop(p, [Top(p) EXCEPT !.at = "semaphore"])
            /\ UNCHANGED m_pendingSyncReplies
    /\ UNCHANGED <<m_isValid, m_isConnected, m_shouldWaitForSyncReplies, m_incomingMessages,
                   m_inDispatchMarked, processVars, wire, sent, crashed>>

WaitWakes(p) ==
    /\ In(p, "wait") /\ Top(p).at = "semaphore" /\ semaphore[p]
    /\ semaphore' = [semaphore EXCEPT ![p] = FALSE]
    /\ stack' = ReplaceTop(p, [Top(p) EXCEPT !.at = "dispatch"])
    /\ UNCHANGED <<endpointVars, toDispatch, didSchedule, runLoop, wire, sent, crashed>>

WaitTimesOut(p) ==
    /\ In(p, "wait") /\ Top(p).at = "semaphore" /\ ~semaphore[p] /\ Top(p).e \in Impatient
    /\ WaitEnds(p)
    /\ UNCHANGED <<m_isValid, m_isConnected, m_shouldWaitForSyncReplies, m_incomingMessages,
                   m_inDispatchMarked, processVars, wire, sent, crashed>>

\* The kernel closes the sockets of a process that dies.
Crash(p) ==
    /\ p \in MayCrash \ crashed
    /\ crashed' = crashed \cup {p}
    /\ m_isConnected' = [e \in Endpoint |-> m_isConnected[e] /\ ProcessOf(e) # p]
    /\ UNCHANGED <<m_isValid, m_shouldWaitForSyncReplies, m_pendingSyncReplies,
                   m_incomingMessages, m_inDispatchMarked, processVars, wire, stack, sent>>
-----------------------------------------------------------------------------
MainStep(p) == HandlerReturns(p) \/ DispatchMessages(p) \/ RunLoopTask(p)
               \/ WaitDispatches(p) \/ WaitChecks(p) \/ WaitWakes(p)
QueueStep(e) == Receive(e) \/ ConnectionDidClose(e) \/ PlatformInvalidate(e)

Next == \/ \E p \in Process : MainStep(p) \/ WaitTimesOut(p) \/ Crash(p)
        \/ \E e \in Endpoint : QueueStep(e) \/ SendMessage(e) \/ SendSyncMessage(e) \/ Invalidate(e)

Spec == Init /\ [][Next]_vars
-----------------------------------------------------------------------------
Asleep(p) == In(p, "wait") /\ Top(p).at = "semaphore" /\ ~semaphore[p]

\* Nothing to wake up for.
NothingFor(p) ==
    LET e == Top(p).e IN
    /\ toDispatch[p] = <<>>
    /\ ~Last(m_pendingSyncReplies[e]).didReceiveReply
    /\ m_shouldWaitForSyncReplies[e] /\ m_isValid[e]

\* A main thread asleep in waitForSyncReply() has nothing to wake up for: no
\* message to dispatch, no reply to its innermost request, no closed
\* connection; although the semaphore is shared by all connections and waits.
NoMissedWakeUp == \A p \in Process : Asleep(p) => NothingFor(p)

Places(s, x) == {i \in DOMAIN s : s[i] = x}
Tasks(what, e) == Cardinality(Places(runLoop[ProcessOf(e)], Task(what, e)))

\* The messages that calls of dispatchMessages() keep for others.
KeptBy(c) == IF c.call = "dispatchMessages"
             THEN ToSet(c.putBack) \cup {x \in ToSet(c.messages) : PutBack(c, x)} ELSE {}
Kept(s) == UNION {KeptBy(c) : c \in ToSet(s)}

Awaited(e) == \E x \in ToSet(toDispatch[ProcessOf(e)]) \cup Kept(stack[ProcessOf(e)]) : x.e = e

\* Every message is sure to be dispatched: an unmarked one has a task of its own
\* in the run loop, and while marked ones of a connection are in the shared
\* queue, or kept to be put back, one task for that connection is scheduled.
NoMessageStranded ==
    \A e \in Endpoint :
      /\ Tasks("dispatchOneMessage", e) = Len(m_incomingMessages[e])
      /\ Tasks("dispatchMessages", e) = IF e \in didSchedule[ProcessOf(e)] THEN 1 ELSE 0
      /\ Awaited(e) => e \in didSchedule[ProcessOf(e)]

Request(m, id) == m.kind = "sync" /\ m.id = id
Queued(s, e, id) == \E x \in ToSet(s) : x.e = e /\ Request(x.m, id)
InCall(c, e, id) ==
    \/ c.call = "handler" /\ c.e = e /\ Request(c.m, id)
    \/ c.call = "dispatchMessages" /\ (Queued(c.messages, e, id) \/ Queued(c.putBack, e, id))

\* Endpoint e has a request of its peer in one of its queues, batches or handlers.
HasRequest(e, id) ==
    \/ \E m \in ToSet(m_incomingMessages[e]) : Request(m, id)
    \/ Queued(toDispatch[ProcessOf(e)], e, id)
    \/ \E c \in ToSet(stack[ProcessOf(e)]) : InCall(c, e, id)

ReplyOnWire(e, id) == \E m \in ToSet(wire[e]) : m.kind = "reply" /\ m.id = id
RequestOnWire(e, id) == \E m \in ToSet(wire[e]) : Request(m, id)

Open(e) == \A f \in {e, PeerOf(e)} : m_isConnected[f] /\ m_isValid[f]

\* No request is lost while its sender waits, whatever is nested in the wait or
\* in the peer's: it has its reply, or the reply is on its way, or the peer has
\* the request in one of its queues, batches or handlers, or the connection is
\* closed or being closed, which ends the wait.
RequestsTracked ==
    \A e \in Endpoint : \A r \in ToSet(m_pendingSyncReplies[e]) :
      \/ r.didReceiveReply
      \/ RequestOnWire(e, r.id) \/ HasRequest(PeerOf(e), r.id) \/ ReplyOnWire(PeerOf(e), r.id)
      \/ ~Open(e)

-----------------------------------------------------------------------------
(* The inductive invariant.                                                  *)

\* What belongs to process p.
Msg == [kind : {"async", "sync", "reply"}, id : Nat, marked : BOOLEAN]
Reply == [id : Nat, didReceiveReply : BOOLEAN]
Of(p) == {e \in Endpoint : ProcessOf(e) = p}
Item(p) == [e : Of(p), m : Msg]
LoopTask(p) == [what : {"dispatchOneMessage", "dispatchMessages", "didClose"}, e : Of(p)]
Wait(p) == [call : {"wait"}, e : Of(p), id : Nat, at : {"dispatch", "check", "semaphore"}]
Handler(p) == [call : {"handler"}, e : Of(p), m : Msg]
Batches(p) == [call : {"dispatchMessages"}, allowed : Endpoint \cup {Nobody},
               messages : Seq(Item(p)), putBack : Seq(Item(p))]
Frame(p) == Wait(p) \cup Handler(p) \cup Batches(p)

TypeOK ==
    /\ m_isValid \in [Endpoint -> BOOLEAN] /\ m_isConnected \in [Endpoint -> BOOLEAN]
    /\ m_shouldWaitForSyncReplies \in [Endpoint -> BOOLEAN]
    /\ m_pendingSyncReplies \in [Endpoint -> Seq(Reply)]
    /\ m_incomingMessages \in [Endpoint -> Seq(Msg)] /\ wire \in [Endpoint -> Seq(Msg)]
    /\ DOMAIN m_inDispatchMarked = Endpoint
    /\ didSchedule \in [Process -> SUBSET Endpoint] /\ semaphore \in [Process -> BOOLEAN]
    /\ DOMAIN toDispatch = Process /\ DOMAIN runLoop = Process /\ DOMAIN stack = Process
    /\ \A p \in Process : /\ toDispatch[p] \in Seq(Item(p)) /\ runLoop[p] \in Seq(LoopTask(p))
                          /\ stack[p] \in Seq(Frame(p))
    /\ sent \in Nat /\ crashed \subseteq Process

\* A call that is not the innermost is a handler, a batch half dispatched or a
\* wait that dispatches one; only the first call, made by the run loop, puts
\* messages back; and waits are nested in the order of their requests.
Nested(s) ==
    /\ \A i \in 1 .. Len(s) : i < Len(s) /\ s[i].call = "wait" => s[i].at = "check"
    /\ \A i \in 1 .. Len(s) : i > 1 /\ s[i].call = "dispatchMessages" =>
          s[i].allowed = Nobody /\ s[i].putBack = <<>>
    /\ \A i, j \in 1 .. Len(s) : i < j /\ s[i].call = "wait" /\ s[j].call = "wait" =>
          s[i].id < s[j].id
CallsNested == \A p \in Process : Nested(stack[p])

\* The requests of a connection are those that its process waits for, in order.
WaitIds(s, e) == {c.id : c \in {d \in ToSet(s) : d.call = "wait" /\ d.e = e}}
Ids(s) == {r.id : r \in ToSet(s)}
Ascending(s) == \A i, j \in 1 .. Len(s) : i < j => s[i].id < s[j].id
PendingMatched ==
    \A e \in Endpoint :
      LET s == m_pendingSyncReplies[e] IN
      /\ Ids(s) = WaitIds(stack[ProcessOf(e)], e)
      /\ Ascending(s) /\ \A id \in Ids(s) : id <= sent

\* Between the waits and their dispatching, a message to dispatch has signalled.
Waits(s) == \E i \in 1 .. Len(s) : s[i].call = "wait"
AboutToDispatch(s) == Last(s).call = "wait" /\ Last(s).at = "dispatch"
SignalledAt(p) ==
    Waits(stack[p]) /\ ~AboutToDispatch(stack[p]) /\ toDispatch[p] # <<>> => semaphore[p]
Signalled == \A p \in Process : SignalledAt(p)

IInv == TypeOK /\ CallsNested /\ PendingMatched /\ Signalled /\ NoMissedWakeUp
=============================================================================
