------------------------- MODULE IPCWaitForMessage -------------------------
(***************************************************************************)
(* IPC::Connection::waitForMessage(): the main thread waits, with a        *)
(* timeout, for a message of a certain name and takes it past the others   *)
(* in the incoming queue, while the connection queue receives messages and *)
(* may find the connection closed, and the client may invalidate it.       *)
(* Messages are numbered as they come.                                     *)
(***************************************************************************)
EXTENDS IPCMessageOrder

CONSTANTS MaxMessage,       \* bound on the messages received
          InterruptWaiting  \* InterruptWaitingIfSyncMessageArrives

ASSUME WaitAssumption == MaxMessage \in Nat /\ InterruptWaiting \in BOOLEAN

VARIABLES main,        \* how far the main thread is in waitForMessage()
          registered, interrupted, \* m_waitingForMessage, with decoder
          closing      \* how far the connection queue is with the end of the connection

waitVars == <<registered, decoder, interrupted>>
outcome == <<processed, discarded>>
vars == <<main, waitVars, valid, incoming, tasks, received, enqueuing, closing, outcome>>

Kind == {"wanted", "sync", "other"}   \* sync: and not marked for dispatch while waiting
None == 0

Init == /\ main = "idle" /\ registered = FALSE /\ decoder = NoDecoder /\ interrupted = FALSE
        /\ valid = TRUE /\ incoming = <<>> /\ tasks = 0 /\ received = <<>>
        /\ enqueuing = None /\ closing = "open" /\ processed = <<>> /\ discarded = {}

Queued(kind) == {i \in DOMAIN incoming : received[incoming[i]] = kind}
-----------------------------------------------------------------------------
\* Mutant: the scan takes the messages before the wanted one off the queue.
ScanSkipsAhead ==
    /\ main = "idle"
    /\ IF Queued("wanted") # {}
       THEN \E i \in Queued("wanted") :
            /\ \A j \in Queued("wanted") : i <= j
            /\ processed' = Append(processed, incoming[i])
            /\ incoming' = SubSeq(incoming, i + 1, Len(incoming))
            /\ UNCHANGED main
       ELSE /\ ~(InterruptWaiting /\ Queued("sync") # {})
            /\ main' = "register"
            /\ UNCHANGED <<incoming, processed>>
    /\ UNCHANGED <<waitVars, valid, tasks, received, enqueuing, closing, discarded>>

\* waitForMessage() looks through the incoming queue, also that of an invalid
\* connection; unless a synchronous message forbids it, it goes on to wait.
Scan ==
    /\ main = "idle"
    /\ IF Queued("wanted") # {}
       THEN \E i \in Queued("wanted") :
            /\ \A j \in Queued("wanted") : i <= j
            /\ processed' = Append(processed, incoming[i])
            /\ incoming' = RemoveAt(incoming, i)
            /\ UNCHANGED main
       ELSE /\ ~(InterruptWaiting /\ Queued("sync") # {})
            /\ main' = "register"
            /\ UNCHANGED <<incoming, processed>>
    /\ UNCHANGED <<waitVars, valid, tasks, received, enqueuing, closing, discarded>>

\* A message that came in since the scan stays in the queue: the wait does not
\* look there again.
Register ==
    /\ main = "register" /\ main' = "look"
    /\ registered' = TRUE /\ decoder' = NoDecoder /\ interrupted' = FALSE
    /\ UNCHANGED <<valid, incoming, tasks, received, enqueuing, closing, outcome>>

\* The top of the loop: the message is there, or the wait begins, whether or not
\* it was interrupted already.
Look ==
    /\ main = "look"
    /\ IF decoder # NoDecoder
       THEN /\ processed' = Append(processed, decoder)
            /\ decoder' = NoDecoder /\ registered' = FALSE /\ main' = "idle"
       ELSE main' = "asleep" /\ UNCHANGED <<processed, registered, decoder>>
    /\ UNCHANGED <<interrupted, valid, incoming, tasks, received, enqueuing, closing, discarded>>

TimeOut ==
    /\ main = "asleep" /\ main' = "timedOut"
    /\ UNCHANGED <<waitVars, valid, incoming, tasks, received, enqueuing, closing, outcome>>

\* The wait is over and m_waitForMessageMutex held again; whoever stops
\* waiting does not look at the decoder.
StopWaiting ==
    /\ main \in {"awake", "timedOut"}
    /\ IF main = "timedOut" \/ interrupted
       THEN /\ main' = "idle" /\ registered' = FALSE /\ decoder' = NoDecoder
            /\ discarded' = discarded \cup ({decoder} \ {NoDecoder})
       ELSE main' = "look" /\ UNCHANGED <<registered, decoder, discarded>>
    /\ UNCHANGED <<interrupted, valid, incoming, tasks, received, enqueuing, closing, processed>>

\* A call of dispatchOneMessage() in the run loop; dispatchMessage() drops the
\* messages of an invalid connection.
DispatchOneMessage ==
    /\ main = "idle" /\ tasks > 0
    /\ tasks' = tasks - 1
    /\ IF incoming = <<>> THEN UNCHANGED <<incoming, outcome>>
       ELSE /\ incoming' = Tail(incoming)
            /\ IF valid
               THEN processed' = Append(processed, Head(incoming)) /\ UNCHANGED discarded
               ELSE discarded' = discarded \cup {Head(incoming)} /\ UNCHANGED processed
    /\ UNCHANGED <<main, waitVars, valid, received, enqueuing, closing>>

\* The client's invalidate(); what it leaves to the connection queue is
\* PlatformInvalidate.
Invalidate ==
    /\ main = "idle" /\ valid
    /\ valid' = FALSE
    /\ UNCHANGED <<main, waitVars, incoming, tasks, received, enqueuing, closing, outcome>>

\* The task of connectionDidClose(), behind all the calls of dispatchOneMessage().
DidClose ==
    /\ main = "idle" /\ closing = "closed" /\ tasks = 0
    /\ closing' = "done" /\ valid' = FALSE
    /\ UNCHANGED <<main, waitVars, incoming, tasks, received, enqueuing, outcome>>
-----------------------------------------------------------------------------
Notify == main' = IF main = "asleep" THEN "awake" ELSE main

\* processIncomingMessage(), for a message that SyncMessageState leaves alone.
ProcessIncomingMessage(kind) ==
    /\ closing = "open" /\ enqueuing = None /\ Len(received) < MaxMessage
    /\ received' = Append(received, kind)
    /\ LET id == Len(received')
           waited == registered /\ decoder = NoDecoder IN
       \/ /\ waited /\ kind = "wanted"
          /\ decoder' = id /\ Notify
          /\ UNCHANGED <<interrupted, enqueuing>>
       \/ /\ waited /\ kind = "sync" /\ InterruptWaiting
          /\ interrupted' = TRUE /\ Notify
          /\ enqueuing' = id
          /\ UNCHANGED decoder
       \/ /\ ~waited \/ kind = "other" \/ (kind = "sync" /\ ~InterruptWaiting)
          /\ enqueuing' = id
          /\ UNCHANGED <<main, decoder, interrupted>>
    /\ UNCHANGED <<registered, valid, incoming, tasks, closing, outcome>>

EnqueueIncomingMessage ==
    /\ enqueuing # None /\ enqueuing' = None
    /\ incoming' = Append(incoming, enqueuing)
    /\ tasks' = tasks + 1
    /\ UNCHANGED <<main, waitVars, valid, received, closing, outcome>>

\* No more messages; a waiter is left to its timeout.
PlatformInvalidate ==
    /\ ~valid /\ closing = "open" /\ enqueuing = None
    /\ closing' = "invalidated"
    /\ UNCHANGED <<main, waitVars, valid, incoming, tasks, received, enqueuing, outcome>>

\* connectionDidClose() tells the waiter ...
InterruptWaiter ==
    /\ closing = "open" /\ enqueuing = None /\ closing' = "told"
    /\ interrupted' = (interrupted \/ registered)
    /\ UNCHANGED <<main, registered, decoder, valid, incoming, tasks, received, enqueuing, outcome>>

\* ... wakes it, outside of the lock ...
NotifyWaiter ==
    /\ closing = "told" /\ closing' = "notified" /\ Notify
    /\ UNCHANGED <<waitVars, valid, incoming, tasks, received, enqueuing, outcome>>

\* ... and leaves the rest to the main run loop.
TellMainThread ==
    /\ closing = "notified" /\ closing' = "closed"
    /\ UNCHANGED <<main, waitVars, valid, incoming, tasks, received, enqueuing, outcome>>

Next == \/ Scan \/ Register \/ Look \/ TimeOut \/ StopWaiting
        \/ DispatchOneMessage \/ Invalidate \/ DidClose
        \/ \E kind \in Kind : ProcessIncomingMessage(kind)
        \/ EnqueueIncomingMessage \/ PlatformInvalidate
        \/ InterruptWaiter \/ NotifyWaiter \/ TellMainThread

Spec == Init /\ [][Next]_vars
-----------------------------------------------------------------------------
TypeOK == /\ main \in {"idle", "register", "look", "asleep", "awake", "timedOut"}
          /\ registered \in BOOLEAN /\ interrupted \in BOOLEAN /\ valid \in BOOLEAN
          /\ received \in Seq(Kind) /\ tasks \in Nat
          /\ decoder = NoDecoder \/ decoder \in DOMAIN received
          /\ incoming \in Seq(Nat) /\ ToSet(incoming) \subseteq DOMAIN received
          /\ processed \in Seq(Nat) /\ ToSet(processed) \subseteq DOMAIN received
          /\ enqueuing = None \/ enqueuing \in DOMAIN received
          /\ discarded \subseteq DOMAIN received
          /\ closing \in {"open", "invalidated", "told", "notified", "closed", "done"}
-----------------------------------------------------------------------------
(* What keeps the messages in order.                                         *)

\* The message in m_waitingForMessage is one that was asked for, and there is one
\* only while somebody waits.
DecoderWanted == /\ decoder # NoDecoder => received[decoder] = "wanted"
                 /\ main \in {"idle", "register"} => ~registered /\ decoder = NoDecoder

\* The queue is in the order of arrival; what is about to join it is younger.
QueueAscends ==
    /\ \A i, j \in DOMAIN incoming : i < j => incoming[i] < incoming[j]
    /\ enqueuing # None => \A i \in DOMAIN incoming : incoming[i] < enqueuing

\* Of the unwanted messages, those the client has are older than the queued ones
\* and those dropped.
ClientAhead ==
    \A i \in UnwantedIn(processed) :
        /\ \A j \in UnwantedIn(incoming) : processed[i] < incoming[j]
        /\ enqueuing # None => processed[i] < enqueuing
        /\ \A n \in discarded \cap Unwanted : processed[i] < n

\* The inductive invariant behind DeliveredInOrder.
IInv == TypeOK /\ OthersAscend /\ NothingLost /\ OnePlace /\ TaskForEach
        /\ DecoderWanted /\ QueueAscends /\ ClientAhead
=============================================================================
