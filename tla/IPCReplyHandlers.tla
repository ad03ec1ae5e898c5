-------------------------- MODULE IPCReplyHandlers --------------------------
(***************************************************************************)
(* The reply handlers of IPC::Connection: sendWithReply() on the main      *)
(* thread leaves a handler in m_replyHandlers, and the reply, the peer's   *)
(* end, or the client's own invalidate() calls it, on the main run loop    *)
(* (the reply dispatcher of every use in the UI process).  The three race  *)
(* on the connection queue and the main thread.                            *)
(***************************************************************************)
EXTENDS Naturals, Sequences, SequencesExt

CONSTANT MaxRequest  \* bound on m_syncRequestID

ASSUME ReplyAssumption == MaxRequest \in Nat

VARIABLES m_syncRequestID,  \* the requests made so far
          m_replyHandlers,  \* the requests with a handler in the map
          m_isValid, m_isConnected,
          outgoing,   \* m_outgoingMessages and the socket: asked, not answered
          incoming,   \* replies on their way back
          runLoop,    \* whose handler is to be called, or DidClose
          closing,    \* how far the connection queue is with connectionDidClose()
          peerUp,
          calls,      \* how often the handler of a request was called
          late        \* the requests whose handler came after the map was cleared

vars == <<m_syncRequestID, m_replyHandlers, m_isValid, m_isConnected, outgoing, incoming,
          runLoop, closing, peerUp, calls, late>>

Request == 1 .. MaxRequest
DidClose == 0

Init == /\ m_syncRequestID = 0 /\ m_replyHandlers = {} /\ m_isValid = TRUE
        /\ m_isConnected = TRUE /\ outgoing = {} /\ incoming = <<>> /\ runLoop = <<>>
        /\ closing = "no" /\ peerUp = TRUE /\ calls = [r \in Request |-> 0] /\ late = {}
-----------------------------------------------------------------------------
\* sendWithReply() and sendMessageWithReply(): an invalid connection answers at
\* once; otherwise the handler is kept before the message is sent.
SendWithReply ==
    LET id == m_syncRequestID + 1 IN
    /\ id \in Request
    /\ m_syncRequestID' = id
    /\ IF m_isValid
       THEN /\ m_replyHandlers' = m_replyHandlers \cup {id}
            /\ outgoing' = IF m_isConnected THEN outgoing \cup {id} ELSE outgoing
            /\ late' = IF closing \in {"cleared", "closed"} THEN late \cup {id} ELSE late
            /\ UNCHANGED runLoop
       ELSE /\ runLoop' = Append(runLoop, id)
            /\ UNCHANGED <<m_replyHandlers, outgoing, late>>
    /\ UNCHANGED <<m_isValid, m_isConnected, incoming, closing, peerUp, calls>>

\* Every handler in the map is to be called without a reply, in whatever order
\* the HashMap yields them.
AnswerAll == /\ \E handlers \in SetToSeqs(m_replyHandlers) : runLoop' = runLoop \o handlers
             /\ m_replyHandlers' = {}

\* invalidate(); what it leaves to the connection queue is PlatformInvalidate.
Invalidate ==
    /\ m_isValid
    /\ m_isValid' = FALSE
    /\ AnswerAll
    /\ UNCHANGED <<m_syncRequestID, m_isConnected, outgoing, incoming, closing, peerUp, calls, late>>

\* The main run loop: a call of a handler (with the reply, if there is one and
\* the connection is still valid), or connectionDidClose()'s last part.
RunLoopTask ==
    /\ runLoop # <<>>
    /\ runLoop' = Tail(runLoop)
    /\ IF Head(runLoop) = DidClose
       THEN m_isValid' = FALSE /\ UNCHANGED calls
       ELSE /\ calls' = [calls EXCEPT ![Head(runLoop)] = @ + 1]
            /\ UNCHANGED m_isValid
    /\ UNCHANGED <<m_syncRequestID, m_replyHandlers, m_isConnected, outgoing, incoming,
                   closing, peerUp, late>>
-----------------------------------------------------------------------------
(* The connection queue.                                                     *)

\* Mutant: finds the handler without taking it out of the map.
ProcessIncomingSyncReplyKeeps ==
    /\ m_isConnected /\ closing = "no" /\ incoming # <<>>
    /\ incoming' = Tail(incoming)
    /\ runLoop' = IF Head(incoming) \in m_replyHandlers
                  THEN Append(runLoop, Head(incoming)) ELSE runLoop
    /\ UNCHANGED <<m_syncRequestID, m_replyHandlers, m_isValid, m_isConnected, outgoing,
                   closing, peerUp, calls, late>>

\* A reply whose handler is gone is dropped.
ProcessIncomingSyncReply ==
    /\ m_isConnected /\ closing = "no" /\ incoming # <<>>
    /\ incoming' = Tail(incoming)
    /\ m_replyHandlers' = m_replyHandlers \ {Head(incoming)}
    /\ runLoop' = IF Head(incoming) \in m_replyHandlers
                  THEN Append(runLoop, Head(incoming)) ELSE runLoop
    /\ UNCHANGED <<m_syncRequestID, m_isValid, m_isConnected, outgoing, closing, peerUp,
                   calls, late>>

PlatformInvalidate ==
    /\ m_isConnected /\ ~m_isValid /\ closing = "no"
    /\ m_isConnected' = FALSE
    /\ UNCHANGED <<m_syncRequestID, m_replyHandlers, m_isValid, outgoing, incoming, runLoop,
                   closing, peerUp, calls, late>>

\* connectionDidClose(), in the steps the main thread can tell apart: the
\* socket, the handlers, and the task that makes the connection invalid.  The
\* hang-up is looked at before there is anything to read: replies may be left
\* unread in the socket.
CloseSocket ==
    /\ m_isConnected /\ closing = "no" /\ ~peerUp
    /\ m_isConnected' = FALSE /\ closing' = "socket"
    /\ UNCHANGED <<m_syncRequestID, m_replyHandlers, m_isValid, outgoing, incoming, runLoop,
                   peerUp, calls, late>>

ClearHandlers ==
    /\ closing = "socket"
    /\ closing' = "cleared"
    /\ AnswerAll
    /\ UNCHANGED <<m_syncRequestID, m_isValid, m_isConnected, outgoing, incoming, peerUp,
                   calls, late>>

TellMainThread ==
    /\ closing = "cleared"
    /\ closing' = "closed"
    /\ runLoop' = Append(runLoop, DidClose)
    /\ UNCHANGED <<m_syncRequestID, m_replyHandlers, m_isValid, m_isConnected, outgoing,
                   incoming, peerUp, calls, late>>
-----------------------------------------------------------------------------
(* The peer answers requests, in any order, or goes away.                    *)

PeerReplies ==
    /\ peerUp
    /\ \E id \in outgoing : outgoing' = outgoing \ {id} /\ incoming' = Append(incoming, id)
    /\ UNCHANGED <<m_syncRequestID, m_replyHandlers, m_isValid, m_isConnected, runLoop,
                   closing, peerUp, calls, late>>

PeerExits ==
    /\ peerUp
    /\ peerUp' = FALSE
    /\ UNCHANGED <<m_syncRequestID, m_replyHandlers, m_isValid, m_isConnected, outgoing,
                   incoming, runLoop, closing, calls, late>>

QueueStep == \/ ProcessIncomingSyncReply \/ PlatformInvalidate
             \/ CloseSocket \/ ClearHandlers \/ TellMainThread

Next == SendWithReply \/ Invalidate \/ RunLoopTask \/ QueueStep \/ PeerReplies \/ PeerExits

\* The run loop and the connection queue run; nobody has to send, to answer, to
\* invalidate or to exit.
Spec == Init /\ [][Next]_vars /\ WF_vars(RunLoopTask) /\ WF_vars(QueueStep)
-----------------------------------------------------------------------------
TypeOK == /\ m_syncRequestID \in 0 .. MaxRequest
          /\ m_replyHandlers \subseteq 1 .. m_syncRequestID
          /\ runLoop \in Seq(Nat) /\ \A i \in DOMAIN runLoop : runLoop[i] <= m_syncRequestID
          /\ calls \in [Request -> Nat]
          /\ incoming \in Seq(Request) /\ outgoing \subseteq Request /\ late \subseteq Request
          /\ m_isValid \in BOOLEAN /\ m_isConnected \in BOOLEAN /\ peerUp \in BOOLEAN
          /\ closing \in {"no", "socket", "cleared", "closed"}

\* A request has its handler in the map, or one call of it in the run loop, or
\* behind it, or none of these.
OneCall ==
    /\ \A r \in Request : r > m_syncRequestID \/ r \in m_replyHandlers => calls[r] = 0
    /\ \A i \in DOMAIN runLoop :
           runLoop[i] # DidClose => runLoop[i] \notin m_replyHandlers /\ calls[runLoop[i]] = 0
    /\ \A i, j \in DOMAIN runLoop : runLoop[i] = runLoop[j] /\ runLoop[i] # DidClose => i = j

\* However a reply, the peer's end and invalidate() race, no handler is called
\* twice.
CalledAtMostOnce == \A r \in Request : calls[r] <= 1

\* The inductive invariant behind CalledAtMostOnce.
IInv == TypeOK /\ OneCall /\ CalledAtMostOnce

\* However a reply, the peer's end and invalidate() race, a handler is called
\* at most once, and once the peer or the connection is gone it is called, also
\* when its reply was left unread.  The one way to miss the call: the handler was
\* put into the map after connectionDidClose() had cleared it, and is still there
\* when the connection becomes invalid, so that invalidate() does not look for it.
HandlersCalledOnce ==
    \A r \in Request :
        /\ [](calls[r] <= 1)
        /\ r <= m_syncRequestID /\ (~peerUp \/ ~m_isValid)
               ~> \/ calls[r] = 1
                  \/ r \in late /\ r \in m_replyHandlers /\ ~m_isValid
=============================================================================
