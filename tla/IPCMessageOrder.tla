-------------------------- MODULE IPCMessageOrder --------------------------
(***************************************************************************)
(* The messages of one IPC::Connection from their arrival to its client,   *)
(* and what waitForMessage() promises for them.  How it keeps the promise  *)
(* is the subject of IPCWaitForMessage.                                    *)
(***************************************************************************)
EXTENDS Naturals, Sequences, SequencesExt

CONSTANT NoDecoder

ASSUME DecoderAssumption == NoDecoder \notin Nat

VARIABLES valid,       \* m_isValid
          incoming,    \* m_incomingMessages
          tasks,       \* dispatchOneMessage() calls in the main run loop
          received,    \* the kinds of the messages received so far
          enqueuing,   \* the message that is on its way to m_incomingMessages, or 0
          decoder,     \* the message in m_waitingForMessage, or NoDecoder
          processed,   \* the messages given to the client, in that order
          discarded    \* the messages thrown away

\* The messages that nobody waits for, in all and in a sequence of messages.
Unwanted == {n \in DOMAIN received : received[n] # "wanted"}
UnwantedIn(s) == {i \in DOMAIN s : received[s[i]] # "wanted"}

\* The client is given the unwanted messages in the order they came.
OthersAscend ==
    \A i, j \in UnwantedIn(processed) : i < j => processed[i] < processed[j]

\* A message received is with the client, in the queue, on its way there, in the
\* waiter's hands, or thrown away; thrown away, as long as the connection is
\* valid, only with the wait it was meant for.
NothingLost ==
    /\ DOMAIN received \subseteq ToSet(processed) \cup ToSet(incoming)
                                   \cup {enqueuing, decoder} \cup discarded
    /\ valid => discarded \cap Unwanted = {}

\* It is in one of these places only.
OnePlace ==
    /\ \A i, j \in DOMAIN processed : processed[i] = processed[j] => i = j
    /\ \A n \in ToSet(processed) : n \notin ToSet(incoming) /\ n \notin discarded
    /\ \A n \in ToSet(incoming) : n \notin discarded
    /\ \A n \in {enqueuing, decoder} :
           n \notin ToSet(processed) /\ n \notin ToSet(incoming) /\ n \notin discarded
    /\ enqueuing # decoder

TaskForEach == tasks >= Len(incoming)

\* Whatever waitForMessage() takes out of the queue, misses or gives up, and
\* whenever the connection closes or is invalidated, no message reaches the client
\* twice; those nobody waits for reach it in the order they came, none skipped;
\* and one that the waiter missed is still queued, with a task in the run loop to
\* dispatch it.  Lost are only the messages that dispatchMessage() drops because
\* the connection is invalid, and the one a wait gives up together with itself.
DeliveredInOrder ==
    /\ OthersAscend
    /\ \A n \in Unwanted : (\E i \in UnwantedIn(processed) : processed[i] > n)
                             => n \in ToSet(processed)
    /\ NothingLost
    /\ OnePlace
    /\ TaskForEach
=============================================================================
