------------------------ MODULE IPCConnectionProofs ------------------------
(***************************************************************************)
(* For any number of processes, connections and messages: a main thread    *)
(* asleep in waitForSyncReply() has nothing to wake up for, every message  *)
(* received has a task that will dispatch it, and no request that somebody *)
(* waits for is lost.  For the other two parts of a connection, that no    *)
(* message reaches the client twice or out of order around                 *)
(* waitForMessage(), and that no reply handler is called twice.            *)
(***************************************************************************)
EXTENDS IPCConnection, IPCMessageOrder, SequenceTheorems, FiniteSetTheorems, TLAPS

USE ConnectionAssumption

-----------------------------------------------------------------------------
(* Sequences, by their members and by their places. *)

\* Append().
LEMMA PushFacts ==
  ASSUME NEW S, NEW s \in Seq(S), NEW x \in S
  PROVE  /\ Append(s, x) \in Seq(S) /\ Append(s, x) # <<>>
         /\ Len(s) \in Nat /\ Len(Append(s, x)) = Len(s) + 1
         /\ \A i \in 1 .. Len(s) : Append(s, x)[i] = s[i]
         /\ Append(s, x)[Len(s) + 1] = x
         /\ Last(Append(s, x)) = x
         /\ ToSet(Append(s, x)) = ToSet(s) \cup {x}
  <1>1. /\ Append(s, x) \in Seq(S) /\ Append(s, x) # <<>>
        /\ Len(s) \in Nat /\ Len(Append(s, x)) = Len(s) + 1
        /\ \A i \in 1 .. Len(s) : Append(s, x)[i] = s[i]
        /\ Append(s, x)[Len(s) + 1] = x
    OBVIOUS
  <1>2. Last(Append(s, x)) = x
    BY <1>1 DEF Last
  <1>3. DOMAIN Append(s, x) = 1 .. Len(s) + 1 /\ DOMAIN s = 1 .. Len(s)
    OBVIOUS
  <1> DEFINE a == Append(s, x)
  <1> HIDE DEF a
  <1>4. \A i \in 1 .. Len(s) + 1 : i \in 1 .. Len(s) \/ i = Len(s) + 1
    BY <1>1
  <1>5. ToSet(a) = ToSet(s) \cup {x}
    BY <1>1, <1>3, <1>4 DEF ToSet, a
  <1> QED
    BY <1>1, <1>2, <1>5 DEF a

\* Front() and Last().
LEMMA FrontFacts ==
  ASSUME NEW S, NEW s \in Seq(S), s # <<>>
  PROVE  /\ Front(s) \in Seq(S) /\ Len(s) \in Nat \ {0} /\ Len(Front(s)) = Len(s) - 1
         /\ \A i \in 1 .. Len(s) - 1 : Front(s)[i] = s[i]
         /\ Last(s) = s[Len(s)] /\ Last(s) \in S /\ Last(s) \in ToSet(s)
         /\ ToSet(s) = ToSet(Front(s)) \cup {Last(s)}
  <1>1. Len(s) \in Nat \ {0}
    OBVIOUS
  <1>2. /\ Front(s) \in Seq(S) /\ Len(Front(s)) = Len(s) - 1
        /\ \A i \in 1 .. Len(s) - 1 : Front(s)[i] = s[i]
    <2> DEFINE n == Len(s) - 1
    <2>1. n \in Int /\ 1 \in Int /\ n - 1 + 1 = n /\ \A i \in 1 .. n : s[i] \in S /\ 1 + i - 1 = i
      BY <1>1
    <2>2. /\ SubSeq(s, 1, n) \in Seq(S) /\ Len(SubSeq(s, 1, n)) = IF 1 <= n THEN n - 1 + 1 ELSE 0
          /\ \A i \in 1 .. n - 1 + 1 : SubSeq(s, 1, n)[i] = s[1 + i - 1]
      <3> HIDE DEF n
      <3> QED
        BY <2>1, SubSeqProperties
    <2>3. Len(SubSeq(s, 1, n)) = n /\ \A i \in 1 .. n : SubSeq(s, 1, n)[i] = s[i]
      BY <1>1, <2>1, <2>2
    <2> QED
      BY <2>2, <2>3 DEF Front
  <1>3. Last(s) = s[Len(s)] /\ Last(s) \in S
    BY <1>1 DEF Last
  <1>4. DOMAIN Front(s) = 1 .. Len(s) - 1 /\ DOMAIN s = 1 .. Len(s)
    BY <1>2
  <1>5. \A i \in 1 .. Len(s) : i \in 1 .. Len(s) - 1 \/ i = Len(s)
    BY <1>1
  <1>6. \A i \in 1 .. Len(s) - 1 : i \in 1 .. Len(s)
    BY <1>1
  <1> DEFINE f == Front(s)
  <1>7. DOMAIN f = 1 .. Len(s) - 1 /\ \A i \in 1 .. Len(s) - 1 : f[i] = s[i]
    BY <1>2, <1>4
  <1> HIDE DEF f
  <1>8. ToSet(s) = ToSet(f) \cup {s[Len(s)]}
    <2>1. Len(s) \in 1 .. Len(s)
      BY <1>1
    <2> QED
      BY <1>4, <1>5, <1>6, <1>7, <2>1 DEF ToSet
  <1> QED
    BY <1>1, <1>2, <1>3, <1>8 DEF f

\* Head() and Tail().
LEMMA TailFacts ==
  ASSUME NEW S, NEW s \in Seq(S), s # <<>>
  PROVE  /\ Tail(s) \in Seq(S) /\ Len(s) \in Nat \ {0} /\ Len(Tail(s)) = Len(s) - 1
         /\ \A i \in 1 .. Len(s) - 1 : Tail(s)[i] = s[i + 1]
         /\ Head(s) = s[1] /\ Head(s) \in S
         /\ ToSet(s) = {Head(s)} \cup ToSet(Tail(s))
  <1>1. /\ Len(s) \in Nat \ {0} /\ Head(s) = s[1] /\ Head(s) \in S
    OBVIOUS
  <1>2. /\ Tail(s) \in Seq(S) /\ Len(Tail(s)) = Len(s) - 1
        /\ \A i \in 1 .. Len(s) - 1 : Tail(s)[i] = s[i + 1]
    BY <1>1
  <1>4. DOMAIN Tail(s) = 1 .. Len(s) - 1 /\ DOMAIN s = 1 .. Len(s)
    BY <1>2
  <1>5. \A i \in 1 .. Len(s) : i = 1 \/ (i - 1 \in 1 .. Len(s) - 1 /\ i = (i - 1) + 1)
    BY <1>1
  <1>6. \A i \in 1 .. Len(s) - 1 : i + 1 \in 1 .. Len(s)
    BY <1>1
  <1> DEFINE f == Tail(s)
  <1>7. DOMAIN f = 1 .. Len(s) - 1 /\ \A i \in 1 .. Len(s) - 1 : f[i] = s[i + 1]
    BY <1>2, <1>4
  <1> HIDE DEF f
  <1>8. ToSet(s) = {s[1]} \cup ToSet(f)
    <2>1. 1 \in 1 .. Len(s)
      BY <1>1
    <2>2. ASSUME NEW i \in 1 .. Len(s) PROVE s[i] \in {s[1]} \cup ToSet(f)
      <3>1. CASE i = 1
        BY <3>1
      <3>2. CASE i # 1
        <4>1. i - 1 \in 1 .. Len(s) - 1 /\ f[i - 1] = s[i]
          BY <1>5, <1>7, <3>2
        <4> QED
          BY <1>7, <4>1 DEF ToSet
      <3> QED
        BY <3>1, <3>2
    <2>3. ASSUME NEW i \in 1 .. Len(s) - 1 PROVE f[i] \in ToSet(s)
      BY <1>4, <1>6, <1>7 DEF ToSet
    <2> QED
      BY <1>4, <1>7, <2>1, <2>2, <2>3 DEF ToSet
  <1> QED
    BY <1>1, <1>2, <1>8 DEF f

\* Concatenation, and the empty sequence.
LEMMA ConcatFacts ==
  ASSUME NEW S, NEW s \in Seq(S), NEW t \in Seq(S)
  PROVE  s \o t \in Seq(S) /\ ToSet(s \o t) = ToSet(s) \cup ToSet(t)
  <1>1. s \o t \in Seq(S) /\ Len(s) \in Nat /\ Len(t) \in Nat /\ Len(s \o t) = Len(s) + Len(t)
    OBVIOUS
  <1>2. /\ \A i \in 1 .. Len(s) : (s \o t)[i] = s[i]
        /\ \A i \in 1 .. Len(t) : (s \o t)[Len(s) + i] = t[i]
    BY <1>1
  <1>3. DOMAIN s = 1 .. Len(s) /\ DOMAIN t = 1 .. Len(t) /\ DOMAIN (s \o t) = 1 .. Len(s) + Len(t)
    BY <1>1
  <1> DEFINE c == s \o t
  <1>4. /\ DOMAIN c = 1 .. Len(s) + Len(t) /\ \A i \in 1 .. Len(s) : c[i] = s[i]
        /\ \A i \in 1 .. Len(t) : c[Len(s) + i] = t[i]
    BY <1>2, <1>3
  <1> HIDE DEF c
  <1>5. ASSUME NEW x \in ToSet(c) PROVE x \in ToSet(s) \cup ToSet(t)
    <2>1. PICK i \in 1 .. Len(s) + Len(t) : c[i] = x
      BY <1>4 DEF ToSet
    <2>2. CASE i <= Len(s)
      <3>1. i \in 1 .. Len(s)
        BY <1>1, <2>2
      <3> QED
        BY <1>3, <1>4, <2>1, <3>1 DEF ToSet
    <2>3. CASE i > Len(s)
      <3>1. i - Len(s) \in 1 .. Len(t) /\ Len(s) + (i - Len(s)) = i
        BY <1>1, <2>3
      <3> QED
        BY <1>3, <1>4, <2>1, <3>1 DEF ToSet
    <2> QED
      BY <1>1, <2>1, <2>2, <2>3
  <1>6. ASSUME NEW x \in ToSet(s) PROVE x \in ToSet(c)
    <2>1. PICK i \in 1 .. Len(s) : s[i] = x
      BY <1>3 DEF ToSet
    <2>2. i \in 1 .. Len(s) + Len(t)
      BY <1>1
    <2> QED
      BY <1>4, <2>1, <2>2 DEF ToSet
  <1>7. ASSUME NEW x \in ToSet(t) PROVE x \in ToSet(c)
    <2>1. PICK i \in 1 .. Len(t) : t[i] = x
      BY <1>3 DEF ToSet
    <2>2. Len(s) + i \in 1 .. Len(s) + Len(t)
      BY <1>1
    <2> QED
      BY <1>4, <2>1, <2>2 DEF ToSet
  <1> QED
    BY <1>1, <1>5, <1>6, <1>7 DEF c

\* The empty sequence.
LEMMA EmptyFacts ==
  ASSUME NEW S
  PROVE  << >> \in Seq(S) /\ Len(<< >>) = 0 /\ ToSet(<< >>) = {}
  BY DEF ToSet

-----------------------------------------------------------------------------
(* Types. *)

\* Endpoints and processes.
LEMMA EndpointFacts ==
  ASSUME NEW e \in Endpoint
  PROVE  ProcessOf(e) \in Process /\ PeerOf(e) \in Endpoint /\ PeerOf(PeerOf(e)) = e /\ e \in Of(ProcessOf(e))
  BY DEF Process, Of

\* What is said of an endpoint of p.
LEMMA OfFacts ==
  ASSUME NEW p \in Process, NEW e \in Of(p)
  PROVE  e \in Endpoint /\ ProcessOf(e) = p
  BY DEF Of

\* A call is what its name says.
LEMMA FrameKinds ==
  ASSUME NEW p, NEW c \in Frame(p)
  PROVE  /\ c.call \in {"wait", "handler", "dispatchMessages"}
         /\ c.call = "wait" <=> c \in Wait(p)
         /\ c.call = "handler" <=> c \in Handler(p)
         /\ c.call = "dispatchMessages" <=> c \in Batches(p)
  BY DEF Frame, Wait, Handler, Batches

\* The innermost call.
LEMMA TopFacts ==
  ASSUME TypeOK, NEW p \in Process, stack[p] # <<>>
  PROVE  /\ Top(p) = Last(stack[p]) /\ Top(p) \in Frame(p)
         /\ Front(stack[p]) \in Seq(Frame(p))
         /\ \A c \in Frame(p) : Append(Front(stack[p]), c) \in Seq(Frame(p))
  <1>1. stack[p] \in Seq(Frame(p))
    BY DEF TypeOK
  <1>2. Last(stack[p]) \in Frame(p) /\ Front(stack[p]) \in Seq(Frame(p))
    BY <1>1, FrontFacts
  <1> QED
    BY <1>2, PushFacts DEF Top

\* Messages are messages.
LEMMA MessageTypes ==
  ASSUME NEW k \in {"async", "sync", "reply"}, NEW id \in Nat, NEW b \in BOOLEAN
  PROVE  Message(k, id, b) \in Msg
  BY DEF Message, Msg

\* What Transmit() does to the wires.
LEMMA TransmitTypes ==
  ASSUME TypeOK, NEW e \in Endpoint, NEW m \in Msg, Transmit(e, m)
  PROVE  wire' \in [Endpoint -> Seq(Msg)]
  <1>1. Append(wire[e], m) \in Seq(Msg)
    BY DEF TypeOK
  <1> QED
    BY <1>1 DEF Transmit, Push, TypeOK

\* What DispatchMessage() does to the calls.
LEMMA DispatchTypes ==
  ASSUME TypeOK, NEW p \in Process, NEW e \in Of(p), NEW m \in Msg, NEW calls \in Seq(Frame(p)),
         DispatchMessage(p, e, m, calls)
  PROVE  /\ stack'[p] \in Seq(Frame(p)) /\ DOMAIN stack' = Process
         /\ \A q \in Process : q # p => stack'[q] = stack[q]
         /\ DOMAIN m_inDispatchMarked' = Endpoint
  <1>1. [call |-> "handler", e |-> e, m |-> m] \in Frame(p)
    BY DEF Frame, Handler
  <1>2. Append(calls, [call |-> "handler", e |-> e, m |-> m]) \in Seq(Frame(p))
    BY <1>1, PushFacts
  <1>3. DOMAIN stack = Process /\ DOMAIN m_inDispatchMarked = Endpoint
    BY DEF TypeOK
  <1>4. CASE m_isValid[e]
    BY <1>2, <1>3, <1>4 DEF DispatchMessage
  <1>5. CASE ~m_isValid[e]
    BY <1>3, <1>5 DEF DispatchMessage
  <1> QED
    BY <1>4, <1>5

\* The initial state has the types.
LEMMA InitTypeOK == Init => TypeOK
  <1> SUFFICES ASSUME Init PROVE TypeOK
    OBVIOUS
  <1>1. \A p \in Process : /\ toDispatch[p] \in Seq(Item(p)) /\ runLoop[p] \in Seq(LoopTask(p))
                           /\ stack[p] \in Seq(Frame(p))
    BY EmptyFacts DEF Init, Const
  <1>2. m_pendingSyncReplies \in [Endpoint -> Seq(Reply)] /\ m_incomingMessages \in [Endpoint -> Seq(Msg)]
        /\ wire \in [Endpoint -> Seq(Msg)]
    BY EmptyFacts DEF Init, Const
  <1> QED
    BY <1>1, <1>2 DEF Init, Const, TypeOK

\* The types of what the connection queue of e does.
LEMMA ReceiveTypes ==
  ASSUME TypeOK, NEW e \in Endpoint, Receive(e)
  PROVE  TypeOK'
  <1> DEFINE p == ProcessOf(e)
             w == wire[PeerOf(e)]
             m == Head(w)
  <1>1. p \in Process /\ PeerOf(e) \in Endpoint /\ e \in Of(p)
    BY EndpointFacts
  <1>2. w \in Seq(Msg) /\ w # <<>>
    BY <1>1 DEF TypeOK, Receive
  <1>3. m \in Msg /\ Tail(w) \in Seq(Msg)
    BY <1>2, TailFacts
  <1>4. wire' \in [Endpoint -> Seq(Msg)]
    BY <1>1, <1>3 DEF TypeOK, Receive
  <1> HIDE DEF p, w, m
  <1>5. CASE m.kind = "reply"
    <2>1. ProcessIncomingSyncReply(e, m.id)
      BY <1>5 DEF Receive, m, w
    <2> DEFINE s == m_pendingSyncReplies[e]
               r == [i \in DOMAIN s |-> IF i \in {j \in DOMAIN s : s[j].id = m.id}
                                        THEN [s[i] EXCEPT !.didReceiveReply = TRUE] ELSE s[i]]
    <2>2. s \in Seq(Reply)
      BY DEF TypeOK
    <2>3. \A i \in DOMAIN s : s[i] \in Reply /\ [s[i] EXCEPT !.didReceiveReply = TRUE] \in Reply
      <3> SUFFICES ASSUME NEW i \in DOMAIN s
                   PROVE  s[i] \in Reply /\ [s[i] EXCEPT !.didReceiveReply = TRUE] \in Reply
        OBVIOUS
      <3>1. s[i] \in Reply
        <4> HIDE DEF s
        <4> QED
          BY <2>2
      <3> HIDE DEF s
      <3> QED
        BY <3>1 DEF Reply
    <2>4. r \in Seq(Reply)
      <3>1. DOMAIN s = 1 .. Len(s) /\ Len(s) \in Nat
        BY <2>2
      <3>2. \A i \in 1 .. Len(s) : r[i] \in Reply
        BY <2>3, <3>1
      <3>3. r \in [1 .. Len(s) -> Reply]
        BY <3>1, <3>2
      <3> HIDE DEF r, s
      <3> QED
        BY <3>1, <3>3, SeqDef
    <2>5. m_pendingSyncReplies' = [m_pendingSyncReplies EXCEPT ![e] = r]
      BY <2>1 DEF ProcessIncomingSyncReply
    <2>6. m_pendingSyncReplies' \in [Endpoint -> Seq(Reply)]
      <3> HIDE DEF r
      <3> QED
        BY <2>4, <2>5 DEF TypeOK
    <2>7. semaphore' \in [Process -> BOOLEAN]
      BY <2>1, <1>1 DEF ProcessIncomingSyncReply, TypeOK
    <2> QED
      BY <1>4, <2>1, <2>6, <2>7 DEF Receive, ProcessIncomingSyncReply, TypeOK
  <1>6. CASE m.kind # "reply"
    <2>1. ProcessIncomingMessage(e, m)
      BY <1>6 DEF Receive, m, w
    <2>2. /\ Append(m_incomingMessages[e], m) \in Seq(Msg)
          /\ Append(toDispatch[p], [e |-> e, m |-> m]) \in Seq(Item(p))
          /\ Append(runLoop[p], Task("dispatchMessages", e)) \in Seq(LoopTask(p))
          /\ Append(runLoop[p], Task("dispatchOneMessage", e)) \in Seq(LoopTask(p))
      <3>1. /\ [e |-> e, m |-> m] \in Item(p)
            /\ Task("dispatchMessages", e) \in LoopTask(p)
            /\ Task("dispatchOneMessage", e) \in LoopTask(p)
        BY <1>1, <1>3 DEF Item, LoopTask, Task
      <3> QED
        BY <1>1, <1>3, <3>1 DEF TypeOK
    <2>3. CASE m.marked
      <3>1. /\ toDispatch' = [toDispatch EXCEPT ![p] = Append(@, [e |-> e, m |-> m])]
            /\ didSchedule' = [didSchedule EXCEPT ![p] = @ \cup {e}]
            /\ runLoop' = IF e \in didSchedule[p] THEN runLoop
                          ELSE [runLoop EXCEPT ![p] = Append(@, Task("dispatchMessages", e))]
            /\ semaphore' = [semaphore EXCEPT ![p] = TRUE]
            /\ UNCHANGED <<m_incomingMessages, m_pendingSyncReplies>>
        BY <2>1, <2>3 DEF ProcessIncomingMessage, Push, p
      <3> QED
        BY <1>1, <1>4, <2>2, <3>1 DEF Receive, TypeOK
    <2>4. CASE ~m.marked
      <3>1. /\ m_incomingMessages' = [m_incomingMessages EXCEPT ![e] = Append(@, m)]
            /\ runLoop' = [runLoop EXCEPT ![p] = Append(@, Task("dispatchOneMessage", e))]
            /\ UNCHANGED <<toDispatch, didSchedule, semaphore, m_pendingSyncReplies>>
        BY <2>1, <2>4 DEF ProcessIncomingMessage, Push, p
      <3> QED
        BY <1>1, <1>4, <2>2, <3>1 DEF Receive, TypeOK
    <2> QED
      BY <2>3, <2>4
  <1> QED
    BY <1>5, <1>6

\* A batch goes on as a batch.
LEMMA BatchTypes ==
  ASSUME TypeOK, NEW p \in Process, NEW f \in Batches(p), f.messages # <<>>
  PROVE  /\ Head(f.messages) \in Item(p) /\ Head(f.messages).e \in Of(p) /\ Head(f.messages).m \in Msg
         /\ [f EXCEPT !.messages = Tail(@)] \in Batches(p)
         /\ [[f EXCEPT !.messages = Tail(@)] EXCEPT !.putBack = Append(@, Head(f.messages))] \in Batches(p)
  <1>1. f.messages \in Seq(Item(p)) /\ f.putBack \in Seq(Item(p))
    BY DEF Batches
  <1>2. Head(f.messages) \in Item(p) /\ Tail(f.messages) \in Seq(Item(p))
    BY <1>1, TailFacts
  <1>3. Append(f.putBack, Head(f.messages)) \in Seq(Item(p))
    BY <1>1, <1>2, PushFacts
  <1>4. Head(f.messages).e \in Of(p) /\ Head(f.messages).m \in Msg
    BY <1>2 DEF Item
  <1>5. [f EXCEPT !.messages = Tail(@)] \in Batches(p)
    BY <1>1, <1>2 DEF Batches
  <1>6. [[f EXCEPT !.messages = Tail(@)] EXCEPT !.putBack = Append(@, Head(f.messages))] \in Batches(p)
    BY <1>1, <1>2, <1>3 DEF Batches
  <1> QED
    BY <1>2, <1>4, <1>5, <1>6

\* A new batch.
LEMMA NewBatchTypes ==
  ASSUME TypeOK, NEW p \in Process, NEW a \in Endpoint \cup {Nobody}
  PROVE  Batch(p, a) \in Frame(p) /\ Batch(p, a).call = "dispatchMessages"
  <1>1. toDispatch[p] \in Seq(Item(p)) /\ << >> \in Seq(Item(p))
    BY EmptyFacts DEF TypeOK
  <1>2. Batch(p, a) \in Batches(p)
    BY <1>1 DEF Batch, Batches
  <1> QED
    BY <1>2 DEF Frame, Batch

\* A wait goes on as a wait.
LEMMA WaitTypes ==
  ASSUME NEW p, NEW f \in Wait(p), NEW l \in {"dispatch", "check", "semaphore"}
  PROVE  [f EXCEPT !.at = l] \in Wait(p) /\ [f EXCEPT !.at = l] \in Frame(p)
  BY DEF Wait, Frame

\* A step of the main thread of p that changes its calls, and perhaps what waits
\* to be dispatched.
LEMMA MainTypes ==
  ASSUME TypeOK, NEW p \in Process,
         stack'[p] \in Seq(Frame(p)), DOMAIN stack' = Process,
         \A q \in Process : q # p => stack'[q] = stack[q],
         DOMAIN toDispatch' = Process, toDispatch'[p] \in Seq(Item(p)),
         \A q \in Process : q # p => toDispatch'[q] = toDispatch[q],
         runLoop' = runLoop \/ (runLoop[p] # <<>> /\ runLoop' = [runLoop EXCEPT ![p] = Tail(@)]),
         DOMAIN m_inDispatchMarked' = Endpoint,
         m_isValid' \in [Endpoint -> BOOLEAN], m_incomingMessages' \in [Endpoint -> Seq(Msg)],
         wire' \in [Endpoint -> Seq(Msg)], semaphore' \in [Process -> BOOLEAN],
         didSchedule' \in [Process -> SUBSET Endpoint],
         m_pendingSyncReplies' \in [Endpoint -> Seq(Reply)],
         UNCHANGED <<m_isConnected, m_shouldWaitForSyncReplies, sent, crashed>>
  PROVE  TypeOK'
  <1>1. \A q \in Process : stack'[q] \in Seq(Frame(q)) /\ toDispatch'[q] \in Seq(Item(q))
    BY DEF TypeOK
  <1>2. DOMAIN runLoop' = Process /\ \A q \in Process : runLoop'[q] \in Seq(LoopTask(q))
    <2>1. DOMAIN runLoop = Process /\ \A q \in Process : runLoop[q] \in Seq(LoopTask(q))
      BY DEF TypeOK
    <2>2. runLoop[p] # <<>> => Tail(runLoop[p]) \in Seq(LoopTask(p))
      BY <2>1, TailFacts
    <2> QED
      BY <2>1, <2>2
  <1> QED
    BY <1>1, <1>2 DEF TypeOK

\* The types of what the main thread does.
LEMMA HandlerReturnsTypes ==
  ASSUME TypeOK, NEW p \in Process, HandlerReturns(p)
  PROVE  TypeOK'
  <1> DEFINE f == Top(p)
  <1>1. stack[p] # <<>> /\ f.call = "handler"
    BY DEF HandlerReturns, In
  <1>2. f \in Handler(p) /\ Front(stack[p]) \in Seq(Frame(p))
    BY <1>1, TopFacts, FrameKinds
  <1>3. f.e \in Endpoint /\ f.m \in Msg
    BY <1>2, OfFacts DEF Handler
  <1>4. wire' \in [Endpoint -> Seq(Msg)]
    <2>1. Message("reply", f.m.id, FALSE) \in Msg
      <3>1. f.m.id \in Nat
        BY <1>3 DEF Msg
      <3> QED
        BY <3>1, MessageTypes
    <2>2. Transmit(f.e, Message("reply", f.m.id, FALSE)) \/ wire' = wire
      BY DEF HandlerReturns
    <2> QED
      BY <1>3, <2>1, <2>2, TransmitTypes DEF TypeOK
  <1>5. /\ stack' = [stack EXCEPT ![p] = Front(@)]
        /\ \E v : m_inDispatchMarked' = [m_inDispatchMarked EXCEPT ![f.e] = v]
        /\ UNCHANGED <<m_isValid, m_isConnected, m_shouldWaitForSyncReplies, m_pendingSyncReplies,
                       m_incomingMessages, toDispatch, didSchedule, semaphore, runLoop, sent, crashed>>
    BY DEF HandlerReturns, processVars
  <1>6. DOMAIN stack = Process /\ DOMAIN m_inDispatchMarked = Endpoint
    BY DEF TypeOK
  <1> HIDE DEF f
  <1>7. /\ stack'[p] \in Seq(Frame(p)) /\ DOMAIN stack' = Process /\ DOMAIN m_inDispatchMarked' = Endpoint
        /\ \A q \in Process : q # p => stack'[q] = stack[q]
    BY <1>2, <1>5, <1>6
  <1> QED
    BY <1>4, <1>5, <1>7, MainTypes DEF TypeOK

\* A batch moves on.
LEMMA DispatchMessagesTypes ==
  ASSUME TypeOK, NEW p \in Process, DispatchMessages(p)
  PROVE  TypeOK'
  <1> DEFINE f == Top(p)
             rest == [f EXCEPT !.messages = Tail(@)]
             put == [rest EXCEPT !.putBack = Append(@, Head(f.messages))]
  <1>1. stack[p] # <<>> /\ f.call = "dispatchMessages"
    BY DEF DispatchMessages, In
  <1>2. f \in Batches(p) /\ Front(stack[p]) \in Seq(Frame(p))
    BY <1>1, TopFacts, FrameKinds
  <1>3. /\ UNCHANGED <<m_isValid, m_isConnected, m_shouldWaitForSyncReplies, m_pendingSyncReplies,
                       m_incomingMessages, didSchedule, semaphore, runLoop, wire, sent, crashed>>
        /\ DOMAIN stack = Process /\ DOMAIN toDispatch = Process /\ toDispatch[p] \in Seq(Item(p))
    BY DEF DispatchMessages, TypeOK
  <1>4. CASE /\ f.messages # <<>> /\ stack' = ReplaceTop(p, put)
             /\ UNCHANGED <<toDispatch, m_inDispatchMarked>>
    <2>1. put \in Frame(p)
      BY <1>2, <1>4, BatchTypes DEF Frame
    <2>2. Append(Front(stack[p]), put) \in Seq(Frame(p))
      BY <1>1, <2>1, TopFacts
    <2> HIDE DEF put
    <2>3. /\ stack'[p] \in Seq(Frame(p)) /\ DOMAIN stack' = Process
          /\ \A q \in Process : q # p => stack'[q] = stack[q]
      BY <1>3, <1>4, <2>2 DEF ReplaceTop
    <2> QED
      BY <1>3, <1>4, <2>3, MainTypes DEF TypeOK
  <1>5. CASE /\ f.messages # <<>> /\ UNCHANGED toDispatch
             /\ DispatchMessage(p, Head(f.messages).e, Head(f.messages).m,
                                Append(Front(stack[p]), rest))
    <2>1. rest \in Frame(p) /\ Head(f.messages).e \in Of(p) /\ Head(f.messages).m \in Msg
      BY <1>2, <1>5, BatchTypes DEF Frame
    <2>2. Append(Front(stack[p]), rest) \in Seq(Frame(p))
      BY <1>1, <2>1, TopFacts
    <2> HIDE DEF rest, f
    <2>3. /\ stack'[p] \in Seq(Frame(p)) /\ DOMAIN stack' = Process
          /\ \A q \in Process : q # p => stack'[q] = stack[q]
          /\ DOMAIN m_inDispatchMarked' = Endpoint
      BY <1>5, <2>1, <2>2, DispatchTypes
    <2> QED
      BY <1>3, <1>5, <2>3, MainTypes DEF TypeOK
  <1>6. CASE /\ toDispatch' = [toDispatch EXCEPT ![p] = @ \o f.putBack]
             /\ stack' = [stack EXCEPT ![p] = Front(@)] /\ UNCHANGED m_inDispatchMarked
    <2>1. toDispatch[p] \o f.putBack \in Seq(Item(p))
      <3>1. f.putBack \in Seq(Item(p))
        BY <1>2 DEF Batches
      <3> QED
        BY <1>3, <3>1, ConcatFacts
    <2> HIDE DEF f
    <2> QED
      BY <1>2, <1>3, <1>6, <2>1, MainTypes DEF TypeOK
  <1> QED
    BY <1>4, <1>5, <1>6 DEF DispatchMessages

\* The run loop takes a task.
LEMMA RunLoopTaskTypes ==
  ASSUME TypeOK, NEW p \in Process, RunLoopTask(p)
  PROVE  TypeOK'
  <1> DEFINE h == Head(runLoop[p])
             e == h.e
             q == m_incomingMessages[e]
  <1>1. runLoop[p] # <<>> /\ runLoop[p] \in Seq(LoopTask(p)) /\ stack[p] = <<>>
    BY DEF RunLoopTask, TypeOK
  <1>2. h \in LoopTask(p)
    BY <1>1, TailFacts
  <1>3. e \in Of(p) /\ e \in Endpoint /\ q \in Seq(Msg)
    BY <1>2, OfFacts DEF LoopTask, TypeOK
  <1>4. /\ runLoop' = [runLoop EXCEPT ![p] = Tail(@)]
        /\ UNCHANGED <<m_isConnected, m_shouldWaitForSyncReplies, m_pendingSyncReplies, semaphore,
                       wire, sent, crashed>>
        /\ DOMAIN stack = Process /\ DOMAIN toDispatch = Process /\ DOMAIN m_inDispatchMarked = Endpoint
    BY DEF RunLoopTask, TypeOK
  <1>5. << >> \in Seq(Frame(p)) /\ << >> \in Seq(Item(p))
    BY EmptyFacts
  <1>6. CASE /\ q = <<>>
             /\ UNCHANGED <<stack, m_inDispatchMarked, m_incomingMessages, m_isValid, toDispatch, didSchedule>>
    BY <1>1, <1>4, <1>6, MainTypes DEF TypeOK
  <1>7. CASE /\ q # <<>> /\ m_incomingMessages' = [m_incomingMessages EXCEPT ![e] = Tail(@)]
             /\ DispatchMessage(p, e, Head(q), <<>>) /\ UNCHANGED <<m_isValid, toDispatch, didSchedule>>
    <2>1. Head(q) \in Msg /\ Tail(q) \in Seq(Msg)
      BY <1>3, <1>7, TailFacts
    <2>2. /\ stack'[p] \in Seq(Frame(p)) /\ DOMAIN stack' = Process
          /\ \A r \in Process : r # p => stack'[r] = stack[r]
          /\ DOMAIN m_inDispatchMarked' = Endpoint
      <3> HIDE DEF e, q
      <3> QED
        BY <1>3, <1>5, <1>7, <2>1, DispatchTypes
    <2>3. m_incomingMessages' \in [Endpoint -> Seq(Msg)]
      BY <1>3, <1>7, <2>1 DEF TypeOK
    <2> QED
      BY <1>1, <1>4, <1>7, <2>2, <2>3, MainTypes DEF TypeOK
  <1>8. CASE /\ didSchedule' = [didSchedule EXCEPT ![p] = @ \ {e}]
             /\ stack' = Push(stack, p, Batch(p, e))
             /\ toDispatch' = [toDispatch EXCEPT ![p] = <<>>]
             /\ UNCHANGED <<m_isValid, m_inDispatchMarked, m_incomingMessages>>
    <2>1. Append(stack[p], Batch(p, e)) \in Seq(Frame(p))
      <3>1. Batch(p, e) \in Frame(p)
        BY <1>3, NewBatchTypes
      <3> QED
        BY <3>1, PushFacts DEF TypeOK
    <2> HIDE DEF e
    <2>2. didSchedule' \in [Process -> SUBSET Endpoint]
      BY <1>8 DEF TypeOK
    <2> QED
      BY <1>1, <1>4, <1>5, <1>8, <2>1, <2>2, MainTypes DEF TypeOK, Push
  <1>9. CASE /\ m_isValid' = [m_isValid EXCEPT ![e] = FALSE]
             /\ UNCHANGED <<stack, m_inDispatchMarked, m_incomingMessages, toDispatch, didSchedule>>
    <2>1. m_isValid' \in [Endpoint -> BOOLEAN]
      BY <1>9 DEF TypeOK
    <2> QED
      BY <1>1, <1>4, <1>9, <2>1, MainTypes DEF TypeOK
  <1> QED
    BY <1>6, <1>7, <1>8, <1>9 DEF RunLoopTask

\* A wait starts a batch.
LEMMA WaitDispatchesTypes ==
  ASSUME TypeOK, NEW p \in Process, WaitDispatches(p)
  PROVE  TypeOK'
  <1> DEFINE f == [Top(p) EXCEPT !.at = "check"]
  <1>1. stack[p] # <<>> /\ Top(p).call = "wait"
    BY DEF WaitDispatches, In
  <1>2. Top(p) \in Wait(p)
    BY <1>1, TopFacts, FrameKinds
  <1>3. f \in Frame(p) /\ Batch(p, Nobody) \in Frame(p)
    BY <1>2, WaitTypes, NewBatchTypes
  <1>4. Append(Front(stack[p]), f) \in Seq(Frame(p))
    BY <1>1, <1>3, TopFacts
  <1>5. /\ stack' = [stack EXCEPT ![p] = Append(Append(Front(@), f), Batch(p, Nobody))]
        /\ toDispatch' = [toDispatch EXCEPT ![p] = <<>>]
        /\ UNCHANGED <<endpointVars, didSchedule, semaphore, runLoop, wire, sent, crashed>>
    BY DEF WaitDispatches
  <1> HIDE DEF f
  <1>6. Append(Append(Front(stack[p]), f), Batch(p, Nobody)) \in Seq(Frame(p))
    BY <1>3, <1>4, PushFacts
  <1>7. << >> \in Seq(Item(p))
    BY EmptyFacts
  <1> QED
    BY <1>5, <1>6, <1>7, MainTypes DEF TypeOK, endpointVars

\* The end of a wait.
LEMMA WaitEndsTypes ==
  ASSUME TypeOK, NEW p \in Process, In(p, "wait"), WaitEnds(p), m_pendingSyncReplies[Top(p).e] # <<>>
  PROVE  /\ m_pendingSyncReplies' \in [Endpoint -> Seq(Reply)]
         /\ stack'[p] \in Seq(Frame(p)) /\ DOMAIN stack' = Process
         /\ \A q \in Process : q # p => stack'[q] = stack[q]
  <1>1. stack[p] # <<>> /\ Top(p).call = "wait"
    BY DEF In
  <1>2. Top(p) \in Wait(p) /\ Front(stack[p]) \in Seq(Frame(p))
    BY <1>1, TopFacts, FrameKinds
  <1>3. Top(p).e \in Endpoint
    BY <1>2, OfFacts DEF Wait
  <1>4. Front(m_pendingSyncReplies[Top(p).e]) \in Seq(Reply)
    BY <1>3, FrontFacts DEF TypeOK
  <1> DEFINE e == Top(p).e
  <1>5. /\ stack' = [stack EXCEPT ![p] = Front(@)]
        /\ m_pendingSyncReplies' = [m_pendingSyncReplies EXCEPT ![e] = Front(@)]
        /\ e \in Endpoint /\ Front(m_pendingSyncReplies[e]) \in Seq(Reply)
    BY <1>3, <1>4 DEF WaitEnds
  <1> HIDE DEF e
  <1> QED
    BY <1>2, <1>5 DEF TypeOK

\* A wait goes to its next place.
LEMMA WaitTurnsTypes ==
  ASSUME TypeOK, NEW p \in Process, In(p, "wait"), NEW l \in {"dispatch", "check", "semaphore"},
         stack' = ReplaceTop(p, [Top(p) EXCEPT !.at = l])
  PROVE  /\ stack'[p] \in Seq(Frame(p)) /\ DOMAIN stack' = Process
         /\ \A q \in Process : q # p => stack'[q] = stack[q]
  <1> DEFINE f == [Top(p) EXCEPT !.at = l]
  <1>1. stack[p] # <<>> /\ Top(p).call = "wait"
    BY DEF In
  <1>2. Top(p) \in Wait(p)
    BY <1>1, TopFacts, FrameKinds
  <1>3. f \in Frame(p)
    BY <1>2, WaitTypes
  <1>4. Append(Front(stack[p]), f) \in Seq(Frame(p))
    BY <1>1, <1>3, TopFacts
  <1>5. stack' = [stack EXCEPT ![p] = Append(Front(@), f)] /\ DOMAIN stack = Process
    BY DEF ReplaceTop, TypeOK
  <1> HIDE DEF f
  <1> QED
    BY <1>4, <1>5

\* The innermost wait is for the last request of its connection.
LEMMA PendingTop ==
  ASSUME TypeOK, CallsNested, PendingMatched, NEW p \in Process, stack[p] # <<>>, Top(p).call = "wait"
  PROVE  /\ Top(p) \in Wait(p) /\ Top(p).e \in Endpoint /\ ProcessOf(Top(p).e) = p
         /\ m_pendingSyncReplies[Top(p).e] # <<>>
         /\ Last(m_pendingSyncReplies[Top(p).e]).id = Top(p).id
         /\ \A c \in ToSet(Front(stack[p])) : c.call = "wait" => c.id < Top(p).id
  <1> DEFINE c == Top(p)
             e == c.e
             s == m_pendingSyncReplies[e]
             k == stack[p]
             n == Len(k)
  <1>1. c \in Wait(p)
    BY TopFacts, FrameKinds
  <1>2. e \in Endpoint /\ ProcessOf(e) = p /\ c.id \in Nat
    BY <1>1, OfFacts DEF Wait
  <1>3. s \in Seq(Reply) /\ Ids(s) = WaitIds(k, e) /\ Ascending(s) /\ k \in Seq(Frame(p)) /\ Nested(k)
    BY <1>2 DEF TypeOK, PendingMatched, CallsNested
  <1>4. /\ n \in Nat \ {0} /\ c = k[n] /\ c \in ToSet(k) /\ ToSet(k) = ToSet(Front(k)) \cup {c}
        /\ Front(k) \in Seq(Frame(p)) /\ Len(Front(k)) = n - 1
        /\ \A i \in 1 .. n - 1 : Front(k)[i] = k[i]
    BY <1>3, FrontFacts DEF Top
  <1>5. c.id \in Ids(s)
    BY <1>3, <1>4 DEF WaitIds
  <1>6. s # <<>>
    BY <1>5, EmptyFacts DEF Ids
  <1>7. Len(s) \in Nat \ {0} /\ Last(s) = s[Len(s)] /\ Last(s) \in ToSet(s) /\ Last(s) \in Reply
    BY <1>3, <1>6, FrontFacts
  <1>8. \A d \in ToSet(Front(k)) : d.call = "wait" => d.id < c.id
    <2> SUFFICES ASSUME NEW d \in ToSet(Front(k)), d.call = "wait" PROVE d.id < c.id
      OBVIOUS
    <2>1. PICK i \in 1 .. n - 1 : d = Front(k)[i]
      <3>1. DOMAIN Front(k) = 1 .. n - 1
        BY <1>4
      <3> QED
        BY <3>1 DEF ToSet
    <2>2. d = k[i] /\ i \in 1 .. n /\ n \in 1 .. n /\ i < n
      BY <1>4, <2>1
    <2> HIDE DEF k, n
    <2> QED
      BY <1>3, <1>4, <2>2 DEF Nested, n
  <1>9. Last(s).id <= c.id
    <2>1. Last(s).id \in WaitIds(k, e)
      BY <1>3, <1>7 DEF Ids
    <2>2. PICK d \in ToSet(k) : d.call = "wait" /\ d.id = Last(s).id
      BY <2>1 DEF WaitIds
    <2>3. CASE d = c
      BY <1>2, <2>2, <2>3
    <2>4. CASE d # c
      <3>1. d.id < c.id /\ d.id \in Nat
        BY <1>4, <1>7, <1>8, <2>2, <2>4 DEF Reply
      <3> QED
        BY <1>2, <2>2, <3>1
    <2> QED
      BY <2>3, <2>4
  <1>10. c.id <= Last(s).id
    <2>1. PICK r \in ToSet(s) : r.id = c.id
      BY <1>5 DEF Ids
    <2>2. PICK i \in 1 .. Len(s) : r = s[i]
      BY <1>3, <2>1 DEF ToSet
    <2>3. CASE i = Len(s)
      BY <1>2, <1>7, <2>1, <2>2, <2>3
    <2>4. CASE i # Len(s)
      <3>1. i < Len(s) /\ Len(s) \in 1 .. Len(s)
        BY <1>7, <2>4
      <3>2. s[i].id < s[Len(s)].id
        <4> HIDE DEF s
        <4> QED
          BY <1>3, <3>1 DEF Ascending
      <3> QED
        BY <1>2, <1>7, <2>1, <2>2, <3>2 DEF Reply
    <2> QED
      BY <2>3, <2>4
  <1>11. Last(s).id = c.id
    BY <1>2, <1>7, <1>9, <1>10 DEF Reply
  <1> QED
    BY <1>1, <1>2, <1>6, <1>8, <1>11

\* The other steps of a wait.
LEMMA WaitsTypes ==
  ASSUME TypeOK, CallsNested, PendingMatched, NEW p \in Process,
         WaitChecks(p) \/ WaitWakes(p) \/ WaitTimesOut(p)
  PROVE  TypeOK'
  <1>1. In(p, "wait") /\ m_pendingSyncReplies[Top(p).e] # <<>>
    BY PendingTop DEF WaitChecks, WaitWakes, WaitTimesOut, In
  <1>2. CASE WaitEnds(p) /\ (WaitChecks(p) \/ WaitTimesOut(p))
    <2>1. /\ m_pendingSyncReplies' \in [Endpoint -> Seq(Reply)]
          /\ stack'[p] \in Seq(Frame(p)) /\ DOMAIN stack' = Process
          /\ \A q \in Process : q # p => stack'[q] = stack[q]
      BY <1>1, <1>2, WaitEndsTypes
    <2>2. UNCHANGED <<m_isValid, m_isConnected, m_shouldWaitForSyncReplies, m_incomingMessages,
                      m_inDispatchMarked, processVars, wire, sent, crashed>>
      BY <1>2 DEF WaitChecks, WaitTimesOut
    <2> QED
      BY <2>1, <2>2, MainTypes DEF TypeOK, processVars
  <1>3. CASE /\ stack' = ReplaceTop(p, [Top(p) EXCEPT !.at = "semaphore"])
             /\ UNCHANGED m_pendingSyncReplies /\ WaitChecks(p)
    <2>1. /\ stack'[p] \in Seq(Frame(p)) /\ DOMAIN stack' = Process
          /\ \A q \in Process : q # p => stack'[q] = stack[q]
      BY <1>1, <1>3, WaitTurnsTypes
    <2>2. UNCHANGED <<m_isValid, m_isConnected, m_shouldWaitForSyncReplies, m_incomingMessages,
                      m_inDispatchMarked, processVars, wire, sent, crashed>>
      BY <1>3 DEF WaitChecks
    <2> QED
      BY <1>3, <2>1, <2>2, MainTypes DEF TypeOK, processVars
  <1>4. CASE WaitWakes(p)
    <2>1. /\ stack'[p] \in Seq(Frame(p)) /\ DOMAIN stack' = Process
          /\ \A q \in Process : q # p => stack'[q] = stack[q]
      BY <1>1, <1>4, WaitTurnsTypes DEF WaitWakes
    <2>2. /\ semaphore' \in [Process -> BOOLEAN]
          /\ UNCHANGED <<endpointVars, toDispatch, didSchedule, runLoop, wire, sent, crashed>>
      BY <1>4 DEF WaitWakes, TypeOK
    <2> QED
      BY <2>1, <2>2, MainTypes DEF TypeOK, endpointVars
  <1> QED
    BY <1>2, <1>3, <1>4 DEF WaitChecks, WaitTimesOut

\* A connection closes, from either side.
LEMMA CloseTypes ==
  ASSUME TypeOK, NEW e \in Endpoint, ConnectionDidClose(e) \/ PlatformInvalidate(e) \/ Invalidate(e)
  PROVE  TypeOK'
  <1>1. CASE ConnectionDidClose(e)
    <2> DEFINE p == ProcessOf(e)
    <2>1. p \in Process /\ e \in Of(p)
      BY EndpointFacts
    <2>2. Append(runLoop[p], Task("didClose", e)) \in Seq(LoopTask(p))
      <3>1. Task("didClose", e) \in LoopTask(p)
        BY <2>1 DEF Task, LoopTask
      <3> QED
        BY <2>1, <3>1, PushFacts DEF TypeOK
    <2>3. /\ m_isConnected' = [m_isConnected EXCEPT ![e] = FALSE]
          /\ m_shouldWaitForSyncReplies' = [m_shouldWaitForSyncReplies EXCEPT ![e] = FALSE]
          /\ semaphore' = [semaphore EXCEPT ![p] = @ \/ m_pendingSyncReplies[e] # <<>>]
          /\ runLoop' = [runLoop EXCEPT ![p] = Append(@, Task("didClose", e))]
          /\ UNCHANGED <<m_isValid, m_pendingSyncReplies, m_incomingMessages, m_inDispatchMarked,
                         toDispatch, didSchedule, wire, stack, sent, crashed>>
      BY <1>1 DEF ConnectionDidClose, Push
    <2> HIDE DEF p
    <2>4. DOMAIN runLoop' = Process /\ \A q \in Process : runLoop'[q] \in Seq(LoopTask(q))
      BY <2>1, <2>2, <2>3 DEF TypeOK
    <2>5. semaphore' \in [Process -> BOOLEAN]
      BY <2>3 DEF TypeOK
    <2> QED
      BY <2>3, <2>4, <2>5 DEF TypeOK
  <1>2. CASE PlatformInvalidate(e)
    BY <1>2 DEF PlatformInvalidate, TypeOK, processVars
  <1>3. CASE Invalidate(e)
    BY <1>3 DEF Invalidate, TypeOK, processVars
  <1> QED
    BY <1>1, <1>2, <1>3

\* Messages sent.
LEMMA SendTypes ==
  ASSUME TypeOK, NEW e \in Endpoint, SendMessage(e) \/ SendSyncMessage(e)
  PROVE  TypeOK'
  <1>0. sent + 1 \in Nat /\ Marked(e) \in BOOLEAN
    BY DEF TypeOK, Marked
  <1>1. CASE SendMessage(e)
    <2>1. PICK marked \in {FALSE, Marked(e)} : Transmit(e, Message("async", sent + 1, marked))
      BY <1>1 DEF SendMessage
    <2>2. wire' \in [Endpoint -> Seq(Msg)]
      BY <1>0, <2>1, MessageTypes, TransmitTypes
    <2> QED
      BY <1>0, <1>1, <2>2 DEF SendMessage, TypeOK, endpointVars, processVars
  <1>2. CASE SendSyncMessage(e)
    <2> DEFINE p == ProcessOf(e)
               f == [call |-> "wait", e |-> e, id |-> sent + 1, at |-> "dispatch"]
               r == [id |-> sent + 1, didReceiveReply |-> FALSE]
    <2>1. p \in Process /\ e \in Of(p)
      BY EndpointFacts
    <2>2. wire' \in [Endpoint -> Seq(Msg)]
      BY <1>0, <1>2, MessageTypes, TransmitTypes DEF SendSyncMessage
    <2>3. f \in Frame(p) /\ r \in Reply
      BY <1>0, <2>1 DEF Frame, Wait, Reply
    <2>4. /\ m_pendingSyncReplies' = [m_pendingSyncReplies EXCEPT ![e] = Append(@, r)]
          /\ stack' = [stack EXCEPT ![p] = Append(@, f)] /\ sent' = sent + 1
          /\ UNCHANGED <<m_isValid, m_isConnected, m_shouldWaitForSyncReplies, m_incomingMessages,
                         m_inDispatchMarked, processVars, crashed>>
      BY <1>2 DEF SendSyncMessage, Push
    <2> HIDE DEF p, f, r
    <2>5. Append(m_pendingSyncReplies[e], r) \in Seq(Reply) /\ Append(stack[p], f) \in Seq(Frame(p))
      BY <2>1, <2>3, PushFacts DEF TypeOK
    <2>6. DOMAIN stack' = Process /\ \A q \in Process : stack'[q] \in Seq(Frame(q))
      BY <2>1, <2>4, <2>5 DEF TypeOK
    <2>7. m_pendingSyncReplies' \in [Endpoint -> Seq(Reply)]
      BY <2>4, <2>5 DEF TypeOK
    <2> QED
      BY <1>0, <2>2, <2>4, <2>6, <2>7 DEF TypeOK, processVars
  <1> QED
    BY <1>1, <1>2

\* Every step keeps the types; that a wait that ends has a request to take off
\* comes from the matching.
LEMMA NextTypeOK == TypeOK /\ CallsNested /\ PendingMatched /\ [Next]_vars => TypeOK'
  <1> SUFFICES ASSUME TypeOK, CallsNested, PendingMatched, [Next]_vars PROVE TypeOK'
    OBVIOUS
  <1>1. ASSUME NEW p \in Process, MainStep(p) PROVE TypeOK'
    BY <1>1, HandlerReturnsTypes, DispatchMessagesTypes, RunLoopTaskTypes, WaitDispatchesTypes, WaitsTypes
    DEF MainStep
  <1>2. ASSUME NEW p \in Process, WaitTimesOut(p) PROVE TypeOK'
    BY <1>2, WaitsTypes
  <1>3. ASSUME NEW p \in Process, Crash(p) PROVE TypeOK'
    BY <1>3 DEF Crash, TypeOK, processVars
  <1>4. ASSUME NEW e \in Endpoint, QueueStep(e) PROVE TypeOK'
    BY <1>4, ReceiveTypes, CloseTypes DEF QueueStep
  <1>5. ASSUME NEW e \in Endpoint, SendMessage(e) \/ SendSyncMessage(e) \/ Invalidate(e) PROVE TypeOK'
    BY <1>5, SendTypes, CloseTypes
  <1>6. CASE UNCHANGED vars
    BY <1>6 DEF vars, endpointVars, processVars, TypeOK
  <1> QED
    BY <1>1, <1>2, <1>3, <1>4, <1>5, <1>6 DEF Next

-----------------------------------------------------------------------------
(* The nesting of calls. *)

\* A return.
LEMMA NestedPop ==
  ASSUME NEW S, NEW s \in Seq(S), s # <<>>, Nested(s)
  PROVE  /\ Nested(Front(s))
         /\ Front(s) # <<>> /\ Last(Front(s)).call = "wait" => Last(Front(s)).at = "check"
         /\ Waits(Front(s)) => Waits(s) /\ Len(s) > 1
  <1> DEFINE t == Front(s)
             n == Len(s)
  <1>1. /\ t \in Seq(S) /\ n \in Nat \ {0} /\ Len(t) = n - 1
        /\ \A i \in 1 .. n - 1 : t[i] = s[i]
    BY FrontFacts
  <1>2. \A i \in 1 .. n - 1 : i \in 1 .. n /\ i < n
    BY <1>1
  <1> HIDE DEF t
  <1>3. Nested(t)
    BY <1>1, <1>2 DEF Nested
  <1>4. t # <<>> /\ Last(t).call = "wait" => Last(t).at = "check"
    <2>1. t # <<>> => n - 1 \in 1 .. n - 1 /\ Last(t) = t[n - 1]
      BY <1>1 DEF Last
    <2> QED
      BY <1>1, <1>2, <2>1 DEF Nested
  <1>5. ASSUME Waits(t) PROVE Waits(s) /\ n > 1
    <2>1. PICK i \in 1 .. n - 1 : t[i].call = "wait"
      BY <1>1, <1>5 DEF Waits
    <2>2. i \in 1 .. n /\ s[i].call = "wait" /\ n > 1
      BY <1>1, <1>2, <2>1
    <2> QED
      BY <2>2 DEF Waits
  <1> QED
    BY <1>3, <1>4, <1>5 DEF t

\* A call.
LEMMA NestedPush ==
  ASSUME NEW S, NEW s \in Seq(S), NEW c \in S, Nested(s),
         s # <<>> /\ Last(s).call = "wait" => Last(s).at = "check",
         c.call = "dispatchMessages" /\ s # <<>> => c.allowed = Nobody /\ c.putBack = <<>>,
         c.call = "wait" => \A d \in ToSet(s) : d.call = "wait" => d.id < c.id
  PROVE  /\ Nested(Append(s, c))
         /\ Waits(Append(s, c)) <=> Waits(s) \/ c.call = "wait"
  <1> DEFINE t == Append(s, c)
             n == Len(s)
  <1>1. /\ n \in Nat /\ Len(t) = n + 1 /\ \A i \in 1 .. n : t[i] = s[i] /\ s[i] \in ToSet(s)
        /\ t[n + 1] = c
    <2>1. DOMAIN s = 1 .. n
      OBVIOUS
    <2> QED
      BY <2>1, PushFacts DEF ToSet
  <1>2. s # <<>> => n \in 1 .. n /\ Last(s) = s[n]
    BY <1>1 DEF Last
  <1>3. \A i \in 1 .. n + 1 : i \in 1 .. n \/ i = n + 1
    BY <1>1
  <1>4. \A i \in 1 .. n : i \in 1 .. n + 1 /\ i < n + 1 /\ s # <<>>
    BY <1>1
  <1> HIDE DEF t
  <1>5. \A i \in 1 .. n + 1 : i < n + 1 /\ t[i].call = "wait" => t[i].at = "check"
    <2> SUFFICES ASSUME NEW i \in 1 .. n + 1, i < n + 1, t[i].call = "wait" PROVE t[i].at = "check"
      OBVIOUS
    <2>1. i \in 1 .. n /\ t[i] = s[i]
      BY <1>1
    <2>2. CASE i = n
      BY <1>2, <1>4, <2>1, <2>2
    <2>3. CASE i # n
      <3>1. i < n
        BY <1>1, <2>3
      <3> QED
        BY <2>1, <3>1 DEF Nested
    <2> QED
      BY <2>2, <2>3
  <1>6. \A i \in 1 .. n + 1 : i > 1 /\ t[i].call = "dispatchMessages" => t[i].allowed = Nobody /\ t[i].putBack = <<>>
    <2> SUFFICES ASSUME NEW i \in 1 .. n + 1, i > 1, t[i].call = "dispatchMessages"
                 PROVE  t[i].allowed = Nobody /\ t[i].putBack = <<>>
      OBVIOUS
    <2>1. CASE i \in 1 .. n
      BY <1>1, <2>1 DEF Nested
    <2>2. CASE i = n + 1
      <3>1. n # 0 /\ s # <<>>
        BY <1>1, <2>2
      <3> QED
        BY <1>1, <2>2, <3>1
    <2> QED
      BY <1>3, <2>1, <2>2
  <1>7. \A i, j \in 1 .. n + 1 : i < j /\ t[i].call = "wait" /\ t[j].call = "wait" => t[i].id < t[j].id
    <2> SUFFICES ASSUME NEW i \in 1 .. n + 1, NEW j \in 1 .. n + 1, i < j,
                        t[i].call = "wait", t[j].call = "wait"
                 PROVE  t[i].id < t[j].id
      OBVIOUS
    <2>1. i \in 1 .. n /\ t[i] = s[i] /\ s[i] \in ToSet(s)
      BY <1>1
    <2>2. CASE j \in 1 .. n
      BY <1>1, <2>1, <2>2 DEF Nested
    <2>3. CASE j = n + 1
      BY <1>1, <2>1, <2>3
    <2> QED
      BY <1>3, <2>2, <2>3
  <1>8. Nested(t)
    BY <1>1, <1>5, <1>6, <1>7 DEF Nested
  <1>9. Waits(t) <=> Waits(s) \/ c.call = "wait"
    <2>1. n + 1 \in 1 .. n + 1
      BY <1>1
    <2> QED
      BY <1>1, <1>3, <1>4, <2>1 DEF Waits
  <1> QED
    BY <1>8, <1>9 DEF t

\* The innermost call goes on.
LEMMA NestedSwap ==
  ASSUME NEW S, NEW s \in Seq(S), s # <<>>, NEW c \in S, Nested(s),
         c.call = Last(s).call, c.call = "wait" => c.id = Last(s).id,
         c.call = "dispatchMessages" /\ Len(s) > 1 => c.allowed = Nobody /\ c.putBack = <<>>
  PROVE  /\ Nested(Append(Front(s), c))
         /\ Waits(Append(Front(s), c)) => Waits(s)
         /\ Append(Front(s), c) \in Seq(S) /\ Last(Append(Front(s), c)) = c
  <1> DEFINE t == Front(s)
             n == Len(s)
  <1>1. /\ t \in Seq(S) /\ n \in Nat \ {0} /\ Len(t) = n - 1 /\ \A i \in 1 .. n - 1 : t[i] = s[i]
        /\ Last(s) = s[n]
    BY FrontFacts
  <1>2. /\ Nested(t) /\ (t # <<>> /\ Last(t).call = "wait" => Last(t).at = "check")
        /\ Waits(t) => Waits(s)
    BY NestedPop
  <1>3. \A d \in ToSet(t) : d.call = "wait" /\ c.call = "wait" => d.id < c.id
    <2> SUFFICES ASSUME NEW d \in ToSet(t), d.call = "wait", c.call = "wait" PROVE d.id < c.id
      OBVIOUS
    <2>1. DOMAIN t = 1 .. n - 1
      BY <1>1
    <2>2. PICK i \in 1 .. n - 1 : d = t[i]
      BY <2>1 DEF ToSet
    <2>3. i \in 1 .. n /\ n \in 1 .. n /\ i < n
      BY <1>1
    <2>4. d = s[i] /\ c.call = s[n].call /\ c.id = s[n].id
      BY <1>1, <2>2
    <2>5. s[i].id < s[n].id
      <3> HIDE DEF t
      <3> QED
        BY <2>3, <2>4 DEF Nested
    <2> QED
      BY <2>4, <2>5
  <1>4. t # <<>> => n > 1
    BY <1>1
  <1> HIDE DEF t
  <1>5. Nested(Append(t, c)) /\ (Waits(Append(t, c)) <=> Waits(t) \/ c.call = "wait")
    BY <1>1, <1>2, <1>3, <1>4, NestedPush
  <1>6. Append(t, c) \in Seq(S) /\ Last(Append(t, c)) = c
    BY <1>1, PushFacts
  <1>7. c.call = "wait" => Waits(s)
    <2>1. n \in 1 .. n
      BY <1>1
    <2> QED
      BY <1>1, <2>1 DEF Waits
  <1> QED
    BY <1>2, <1>5, <1>6, <1>7 DEF t

\* The requests waited for, after a call and after a return.
LEMMA WaitIdsPush ==
  ASSUME NEW S, NEW s \in Seq(S), NEW c \in S, NEW e
  PROVE  WaitIds(Append(s, c), e) =
            WaitIds(s, e) \cup (IF c.call = "wait" /\ c.e = e THEN {c.id} ELSE {})
  <1>1. ToSet(Append(s, c)) = ToSet(s) \cup {c}
    BY PushFacts
  <1> QED
    BY <1>1 DEF WaitIds

\* The same, read from a stack that is not empty.
LEMMA WaitIdsPop ==
  ASSUME NEW S, NEW s \in Seq(S), s # <<>>, NEW e
  PROVE  WaitIds(s, e) =
            WaitIds(Front(s), e) \cup (IF Last(s).call = "wait" /\ Last(s).e = e THEN {Last(s).id} ELSE {})
  <1>1. ToSet(s) = ToSet(Front(s)) \cup {Last(s)}
    BY FrontFacts
  <1> QED
    BY <1>1 DEF WaitIds

\* A call that is not a wait makes no difference to them.
LEMMA WaitIdsSame ==
  ASSUME NEW S, NEW s \in Seq(S), NEW e
  PROVE  /\ \A c \in S : c.call # "wait" => WaitIds(Append(s, c), e) = WaitIds(s, e)
         /\ s # <<>> /\ Last(s).call # "wait" => WaitIds(Front(s), e) = WaitIds(s, e)
  <1>1. ASSUME NEW c \in S, c.call # "wait" PROVE WaitIds(Append(s, c), e) = WaitIds(s, e)
    <2>1. WaitIds(Append(s, c), e) =
             WaitIds(s, e) \cup (IF c.call = "wait" /\ c.e = e THEN {c.id} ELSE {})
      BY WaitIdsPush
    <2> QED
      BY <1>1, <2>1
  <1>2. ASSUME s # <<>>, Last(s).call # "wait" PROVE WaitIds(Front(s), e) = WaitIds(s, e)
    <2>1. WaitIds(s, e) =
            WaitIds(Front(s), e) \cup (IF Last(s).call = "wait" /\ Last(s).e = e THEN {Last(s).id} ELSE {})
      BY <1>2, WaitIdsPop
    <2> QED
      BY <1>2, <2>1
  <1> QED
    BY <1>1, <1>2

\* Nor does a wait that moves on.
LEMMA WaitIdsSwap ==
  ASSUME NEW S, NEW s \in Seq(S), s # <<>>, NEW c \in S, NEW e,
         c.call = Last(s).call, c.call = "wait" => c.id = Last(s).id /\ c.e = Last(s).e
  PROVE  WaitIds(Append(Front(s), c), e) = WaitIds(s, e)
  <1>1. Front(s) \in Seq(S)
    BY FrontFacts
  <1> DEFINE t == Front(s)
  <1>2. WaitIds(Append(t, c), e) = WaitIds(t, e) \cup (IF c.call = "wait" /\ c.e = e THEN {c.id} ELSE {})
    BY <1>1, WaitIdsPush
  <1>3. WaitIds(s, e) =
           WaitIds(t, e) \cup (IF Last(s).call = "wait" /\ Last(s).e = e THEN {Last(s).id} ELSE {})
    BY WaitIdsPop
  <1> QED
    BY <1>2, <1>3

\* A step in which only the calls of p change, and not the requests it waits for.
LEMMA CallsStep ==
  ASSUME TypeOK, CallsNested, PendingMatched, NEW p \in Process, NEW t,
         stack' = [stack EXCEPT ![p] = t], Nested(t),
         \A e \in Endpoint : WaitIds(t, e) = WaitIds(stack[p], e),
         UNCHANGED <<m_pendingSyncReplies, sent>>
  PROVE  CallsNested' /\ PendingMatched'
  <1>1. \A q \in Process : stack'[q] = IF q = p THEN t ELSE stack[q]
    BY DEF TypeOK
  <1>2. CallsNested'
    BY <1>1 DEF CallsNested
  <1>3. \A e \in Endpoint : WaitIds(stack'[ProcessOf(e)], e) = WaitIds(stack[ProcessOf(e)], e)
    BY <1>1, EndpointFacts
  <1> QED
    BY <1>2, <1>3 DEF PendingMatched

-----------------------------------------------------------------------------
(* Waking up. *)

\* A process that a step leaves alone.
LEMMA SameProcess ==
  ASSUME TypeOK, NEW q \in Process, SignalledAt(q), Asleep(q) => NothingFor(q),
         stack'[q] = stack[q], toDispatch'[q] = toDispatch[q], semaphore'[q] = semaphore[q],
         crashed \subseteq crashed',
         \A e \in Of(q) : /\ m_pendingSyncReplies'[e] = m_pendingSyncReplies[e]
                          /\ m_shouldWaitForSyncReplies'[e] = m_shouldWaitForSyncReplies[e]
                          /\ m_isValid'[e] = m_isValid[e]
  PROVE  SignalledAt(q)' /\ (Asleep(q) => NothingFor(q))'
  <1>1. SignalledAt(q)'
    BY DEF SignalledAt
  <1>2. ASSUME Asleep(q)' PROVE NothingFor(q)'
    <2>1. Asleep(q) /\ stack[q] # <<>> /\ Top(q).call = "wait" /\ Top(q)' = Top(q)
      BY <1>2 DEF Asleep, In, Top
    <2>2. Top(q).e \in Of(q)
      BY <2>1, TopFacts, FrameKinds DEF Wait
    <2> DEFINE e == Top(q).e
    <2>3. /\ toDispatch[q] = <<>> /\ ~Last(m_pendingSyncReplies[e]).didReceiveReply
          /\ m_shouldWaitForSyncReplies[e] /\ m_isValid[e]
      BY <2>1 DEF NothingFor
    <2>4. Top(q)'.e = e
      BY <2>1
    <2> QED
      BY <2>2, <2>3, <2>4 DEF NothingFor
  <1> QED
    BY <1>1, <1>2

\* A step in which only the calls of p, what it has to dispatch and the validity
\* of its connections change, and not the requests it waits for.
LEMMA MainKeeps ==
  ASSUME IInv, NEW p \in Process, NEW t,
         stack' = [stack EXCEPT ![p] = t], Nested(t),
         \A e \in Endpoint : WaitIds(t, e) = WaitIds(stack[p], e),
         UNCHANGED <<m_pendingSyncReplies, sent, crashed, m_shouldWaitForSyncReplies>>,
         \A q \in Process : q # p => toDispatch'[q] = toDispatch[q] /\ semaphore'[q] = semaphore[q],
         \A e \in Endpoint : ProcessOf(e) # p => m_isValid'[e] = m_isValid[e],
         SignalledAt(p)', (Asleep(p) => NothingFor(p))'
  PROVE  CallsNested' /\ PendingMatched' /\ Signalled' /\ NoMissedWakeUp'
  <1>0. TypeOK /\ CallsNested /\ PendingMatched /\ Signalled /\ NoMissedWakeUp
    BY DEF IInv
  <1>1. CallsNested' /\ PendingMatched'
    BY <1>0, CallsStep
  <1>2. ASSUME NEW q \in Process, q # p PROVE SignalledAt(q)' /\ (Asleep(q) => NothingFor(q))'
    <2>1. stack'[q] = stack[q]
      BY <1>0, <1>2 DEF TypeOK
    <2>2. \A e \in Of(q) : e \in Endpoint /\ ProcessOf(e) # p
      BY <1>2, OfFacts
    <2> QED
      BY <1>0, <1>2, <2>1, <2>2, SameProcess DEF Signalled, NoMissedWakeUp
  <1>3. Signalled'
    BY <1>2 DEF Signalled, Process
  <1>4. NoMissedWakeUp'
    BY <1>2 DEF NoMissedWakeUp, Process
  <1> QED
    BY <1>1, <1>3, <1>4

\* After a step of p that leaves it with calls t and changes nothing else of it:
\* messages are signalled as before, and p is not asleep.
LEMMA SignalKept ==
  ASSUME TypeOK, NEW p \in Process, NEW t, SignalledAt(p), ~AboutToDispatch(stack[p]),
         stack' = [stack EXCEPT ![p] = t], Waits(t) => Waits(stack[p]),
         Waits(t) => toDispatch'[p] = toDispatch[p], semaphore'[p] = semaphore[p]
  PROVE  SignalledAt(p)'
  <1>1. stack'[p] = t
    BY DEF TypeOK
  <1> QED
    BY <1>1 DEF SignalledAt

\* A thread that is not at the semaphore is not asleep.
LEMMA NotAsleep ==
  ASSUME TypeOK, NEW p \in Process, NEW t, stack' = [stack EXCEPT ![p] = t],
         t # <<>> /\ Last(t).call = "wait" => Last(t).at # "semaphore"
  PROVE  (Asleep(p) => NothingFor(p))'
  <1>1. stack'[p] = t
    BY DEF TypeOK
  <1>2. ~Asleep(p)'
    BY <1>1 DEF Asleep, In, Top
  <1> QED
    BY <1>2

\* The steps of the main thread.
LEMMA HandlerReturnsKeeps ==
  ASSUME IInv, NEW p \in Process, HandlerReturns(p)
  PROVE  CallsNested' /\ PendingMatched' /\ Signalled' /\ NoMissedWakeUp'
  <1> DEFINE s == stack[p]
             t == Front(s)
  <1>0. TypeOK /\ Nested(s) /\ s \in Seq(Frame(p)) /\ SignalledAt(p)
    BY DEF IInv, TypeOK, CallsNested, Signalled
  <1>1. s # <<>> /\ Last(s).call = "handler"
    BY DEF HandlerReturns, In, Top
  <1>2. /\ stack' = [stack EXCEPT ![p] = t]
        /\ UNCHANGED <<m_isValid, m_shouldWaitForSyncReplies, m_pendingSyncReplies, toDispatch, semaphore, sent, crashed>>
    BY DEF HandlerReturns, processVars
  <1>3. /\ Nested(t) /\ (Waits(t) => Waits(s))
        /\ t # <<>> /\ Last(t).call = "wait" => Last(t).at # "semaphore"
    BY <1>0, <1>1, NestedPop
  <1>4. \A e \in Endpoint : WaitIds(t, e) = WaitIds(s, e)
    BY <1>0, <1>1, WaitIdsSame
  <1>5. ~AboutToDispatch(s)
    BY <1>1 DEF AboutToDispatch
  <1> HIDE DEF t
  <1>6. SignalledAt(p)' /\ (Asleep(p) => NothingFor(p))'
    BY <1>0, <1>2, <1>3, <1>5, SignalKept, NotAsleep
  <1> QED
    BY <1>2, <1>3, <1>4, <1>6, MainKeeps

\* A message dispatched on top of calls k, whose innermost is not a wait.
LEMMA DispatchKeeps ==
  ASSUME TypeOK, NEW p \in Process, NEW e \in Of(p), NEW m \in Msg, NEW k \in Seq(Frame(p)),
         DispatchMessage(p, e, m, k), Nested(k), k # <<>> => Last(k).call # "wait"
  PROVE  \E t : /\ stack' = [stack EXCEPT ![p] = t] /\ Nested(t)
                /\ Waits(t) => Waits(k)
                /\ t # <<>> => Last(t).call # "wait"
                /\ \A f \in Endpoint : WaitIds(t, f) = WaitIds(k, f)
                /\ ToSet(t) = ToSet(k) \cup (IF m_isValid[e] THEN {[call |-> "handler", e |-> e, m |-> m]} ELSE {})
  <1> DEFINE h == [call |-> "handler", e |-> e, m |-> m]
  <1>1. h \in Frame(p) /\ h.call = "handler"
    BY DEF Frame, Handler
  <1>2. CASE m_isValid[e]
    <2>1. stack' = [stack EXCEPT ![p] = Append(k, h)]
      BY <1>2 DEF DispatchMessage
    <2> HIDE DEF h
    <2>2. Nested(Append(k, h)) /\ (Waits(Append(k, h)) => Waits(k))
      BY <1>1, NestedPush
    <2>3. \A f \in Endpoint : WaitIds(Append(k, h), f) = WaitIds(k, f)
      BY <1>1, WaitIdsSame
    <2>4. Last(Append(k, h)).call # "wait" /\ ToSet(Append(k, h)) = ToSet(k) \cup {h}
      BY <1>1, PushFacts
    <2> QED
      BY <1>2, <2>1, <2>2, <2>3, <2>4 DEF h
  <1>3. CASE ~m_isValid[e]
    <2>1. stack' = [stack EXCEPT ![p] = k]
      BY <1>3 DEF DispatchMessage
    <2> QED
      BY <1>3, <2>1
  <1> QED
    BY <1>2, <1>3

\* A batch moves on, and only the run loop's puts messages back.
LEMMA DispatchMessagesKeeps ==
  ASSUME IInv, NEW p \in Process, DispatchMessages(p)
  PROVE  CallsNested' /\ PendingMatched' /\ Signalled' /\ NoMissedWakeUp'
  <1> DEFINE s == stack[p]
             f == Top(p)
             rest == [f EXCEPT !.messages = Tail(@)]
             put == [rest EXCEPT !.putBack = Append(@, Head(f.messages))]
  <1>0. TypeOK /\ Nested(s) /\ s \in Seq(Frame(p)) /\ SignalledAt(p)
    BY DEF IInv, TypeOK, CallsNested, Signalled
  <1>1. s # <<>> /\ f = Last(s) /\ f.call = "dispatchMessages" /\ ~AboutToDispatch(s)
    BY DEF DispatchMessages, In, Top, AboutToDispatch
  <1>2. f \in Batches(p)
    BY <1>0, <1>1, TopFacts, FrameKinds
  <1>3. UNCHANGED <<m_isValid, m_isConnected, m_shouldWaitForSyncReplies, m_pendingSyncReplies,
                    m_incomingMessages, didSchedule, semaphore, runLoop, wire, sent, crashed>>
    BY DEF DispatchMessages
  <1>4. Len(s) > 1 => f.allowed = Nobody /\ f.putBack = <<>>
    <2>1. Len(s) \in Nat \ {0} /\ Last(s) = s[Len(s)]
      BY <1>0, <1>1, FrontFacts
    <2>2. Len(s) \in 1 .. Len(s)
      BY <2>1
    <2> QED
      BY <1>0, <1>1, <2>1, <2>2 DEF Nested
  <1>5. CASE /\ f.messages # <<>> /\ PutBack(f, Head(f.messages)) /\ stack' = ReplaceTop(p, put)
             /\ UNCHANGED <<toDispatch, m_inDispatchMarked>>
    <2> DEFINE t == Append(Front(s), put)
    <2>1. put \in Batches(p) /\ put \in Frame(p)
      BY <1>0, <1>2, <1>5, BatchTypes DEF Frame
    <2>2. put.call = "dispatchMessages"
      BY <2>1 DEF Batches
    <2>3. ~(Len(s) > 1)
      BY <1>4, <1>5 DEF PutBack
    <2> HIDE DEF put, f
    <2>4. Nested(t) /\ (Waits(t) => Waits(s)) /\ Last(t) = put
      BY <1>0, <1>1, <2>1, <2>2, <2>3, NestedSwap
    <2>5. \A e \in Endpoint : WaitIds(t, e) = WaitIds(s, e)
      BY <1>0, <1>1, <2>1, <2>2, WaitIdsSwap
    <2>6. stack' = [stack EXCEPT ![p] = t]
      BY <1>5 DEF ReplaceTop
    <2> HIDE DEF t
    <2>7. SignalledAt(p)' /\ (Asleep(p) => NothingFor(p))'
      BY <1>0, <1>1, <1>3, <1>5, <2>2, <2>4, <2>6, SignalKept, NotAsleep
    <2> QED
      BY <1>3, <1>5, <2>4, <2>5, <2>6, <2>7, MainKeeps
  <1>6. CASE /\ f.messages # <<>> /\ UNCHANGED toDispatch
             /\ DispatchMessage(p, Head(f.messages).e, Head(f.messages).m, Append(Front(s), rest))
    <2> DEFINE k == Append(Front(s), rest)
    <2>1. /\ rest \in Batches(p) /\ rest \in Frame(p)
          /\ Head(f.messages).e \in Of(p) /\ Head(f.messages).m \in Msg
      BY <1>0, <1>2, <1>6, BatchTypes DEF Frame
    <2>2. rest.call = "dispatchMessages" /\ rest.allowed = f.allowed /\ rest.putBack = f.putBack
      BY <1>2, <2>1 DEF Batches
    <2> HIDE DEF rest, f
    <2>3. Nested(k) /\ (Waits(k) => Waits(s)) /\ Last(k) = rest /\ k \in Seq(Frame(p))
      BY <1>0, <1>1, <1>4, <2>1, <2>2, NestedSwap
    <2>4. \A e \in Endpoint : WaitIds(k, e) = WaitIds(s, e)
      BY <1>0, <1>1, <2>1, <2>2, WaitIdsSwap
    <2>5. DispatchMessage(p, Head(f.messages).e, Head(f.messages).m, k)
      BY <1>6
    <2> HIDE DEF k
    <2>6. PICK t : /\ stack' = [stack EXCEPT ![p] = t] /\ Nested(t)
                   /\ Waits(t) => Waits(k)
                   /\ t # <<>> => Last(t).call # "wait"
                   /\ \A g \in Endpoint : WaitIds(t, g) = WaitIds(k, g)
      BY <1>0, <2>1, <2>2, <2>3, <2>5, DispatchKeeps
    <2>7. SignalledAt(p)' /\ (Asleep(p) => NothingFor(p))'
      BY <1>0, <1>1, <1>3, <1>6, <2>3, <2>6, SignalKept, NotAsleep
    <2> QED
      BY <1>3, <1>6, <2>4, <2>6, <2>7, MainKeeps
  <1>7. CASE /\ toDispatch' = [toDispatch EXCEPT ![p] = @ \o f.putBack]
             /\ stack' = [stack EXCEPT ![p] = Front(@)] /\ UNCHANGED m_inDispatchMarked
    <2> DEFINE t == Front(s)
    <2>1. /\ Nested(t) /\ (Waits(t) => Waits(s) /\ Len(s) > 1)
          /\ t # <<>> /\ Last(t).call = "wait" => Last(t).at # "semaphore"
      BY <1>0, <1>1, NestedPop
    <2>2. \A e \in Endpoint : WaitIds(t, e) = WaitIds(s, e)
      BY <1>0, <1>1, WaitIdsSame
    <2>3. Waits(t) => toDispatch'[p] = toDispatch[p]
      <3>1. Waits(t) => f.putBack = <<>>
        BY <1>4, <2>1
      <3>2. DOMAIN toDispatch = Process /\ toDispatch[p] \in Seq(Item(p))
        BY <1>0 DEF TypeOK
      <3>3. toDispatch[p] \o <<>> = toDispatch[p]
        BY <3>2
      <3> HIDE DEF f, t
      <3> QED
        BY <1>7, <3>1, <3>2, <3>3
    <2>4. \A q \in Process : q # p => toDispatch'[q] = toDispatch[q]
      BY <1>7, <1>0 DEF TypeOK
    <2>5. stack' = [stack EXCEPT ![p] = t]
      BY <1>7
    <2> HIDE DEF t
    <2>6. SignalledAt(p)' /\ (Asleep(p) => NothingFor(p))'
      BY <1>0, <1>1, <1>3, <2>1, <2>3, <2>5, SignalKept, NotAsleep
    <2> QED
      BY <1>3, <2>1, <2>2, <2>4, <2>5, <2>6, MainKeeps
  <1> QED
    BY <1>5, <1>6, <1>7 DEF DispatchMessages

\* The run loop runs when nobody waits.
LEMMA RunLoopTaskKeeps ==
  ASSUME IInv, NEW p \in Process, RunLoopTask(p)
  PROVE  CallsNested' /\ PendingMatched' /\ Signalled' /\ NoMissedWakeUp'
  <1> DEFINE h == Head(runLoop[p])
             e == h.e
             q == m_incomingMessages[e]
  <1>0. TypeOK /\ stack[p] = <<>> /\ << >> \in Seq(Frame(p)) /\ DOMAIN stack = Process
        /\ DOMAIN toDispatch = Process
    BY EmptyFacts DEF IInv, TypeOK, RunLoopTask
  <1>1. runLoop[p] # <<>> /\ runLoop[p] \in Seq(LoopTask(p))
    BY <1>0 DEF RunLoopTask, TypeOK
  <1>2. h \in LoopTask(p)
    BY <1>1, TailFacts
  <1>3. e \in Of(p) /\ e \in Endpoint /\ ProcessOf(e) = p /\ q \in Seq(Msg)
    BY <1>0, <1>2, OfFacts DEF LoopTask, TypeOK
  <1>4. UNCHANGED <<m_isConnected, m_shouldWaitForSyncReplies, m_pendingSyncReplies, semaphore,
                    wire, sent, crashed>>
    BY DEF RunLoopTask
  <1>5. Nested(<< >>) /\ ~Waits(<< >>)
    BY EmptyFacts DEF Nested, Waits
  <1>6. ASSUME NEW t, stack' = [stack EXCEPT ![p] = t], Nested(t), ~Waits(t),
               t # <<>> => Last(t).call # "wait",
               \A f \in Endpoint : WaitIds(t, f) = WaitIds(stack[p], f),
               \A r \in Process : r # p => toDispatch'[r] = toDispatch[r],
               \A f \in Endpoint : ProcessOf(f) # p => m_isValid'[f] = m_isValid[f]
        PROVE  CallsNested' /\ PendingMatched' /\ Signalled' /\ NoMissedWakeUp'
    <2>1. stack'[p] = t
      BY <1>0, <1>6
    <2>2. SignalledAt(p)'
      BY <1>6, <2>1 DEF SignalledAt
    <2>3. (Asleep(p) => NothingFor(p))'
      BY <1>0, <1>6, NotAsleep
    <2> QED
      BY <1>4, <1>6, <2>2, <2>3, MainKeeps
  <1>7. CASE stack' = stack /\ toDispatch' = toDispatch
             /\ \A f \in Endpoint : ProcessOf(f) # p => m_isValid'[f] = m_isValid[f]
    <2>0. CallsNested /\ PendingMatched /\ Signalled /\ NoMissedWakeUp
      BY DEF IInv
    <2>1. CallsNested' /\ PendingMatched'
      BY <1>4, <1>7, <2>0 DEF CallsNested, PendingMatched
    <2>2. SignalledAt(p)' /\ (Asleep(p) => NothingFor(p))'
      BY <1>0, <1>5, <1>7 DEF SignalledAt, Asleep, In
    <2>3. ASSUME NEW r \in Process, r # p PROVE SignalledAt(r)' /\ (Asleep(r) => NothingFor(r))'
      <3>1. \A f \in Of(r) : f \in Endpoint /\ ProcessOf(f) # p
        BY <2>3, OfFacts
      <3> QED
        BY <1>0, <1>4, <1>7, <2>0, <3>1, SameProcess DEF Signalled, NoMissedWakeUp
    <2> QED
      BY <2>1, <2>2, <2>3 DEF Signalled, NoMissedWakeUp, Process
  <1>8. CASE /\ q # <<>> /\ DispatchMessage(p, e, Head(q), <<>>) /\ UNCHANGED <<m_isValid, toDispatch>>
    <2>1. Head(q) \in Msg
      BY <1>3, <1>8, TailFacts
    <2>2. PICK t : /\ stack' = [stack EXCEPT ![p] = t] /\ Nested(t)
                   /\ Waits(t) => Waits(<< >>)
                   /\ t # <<>> => Last(t).call # "wait"
                   /\ \A f \in Endpoint : WaitIds(t, f) = WaitIds(<< >>, f)
      <3> HIDE DEF e, q
      <3> QED
        BY <1>0, <1>3, <1>5, <1>8, <2>1, DispatchKeeps
    <2> QED
      BY <1>0, <1>5, <1>6, <1>8, <2>2
  <1>9. CASE /\ stack' = Push(stack, p, Batch(p, e)) /\ toDispatch' = [toDispatch EXCEPT ![p] = <<>>]
             /\ UNCHANGED m_isValid
    <2> DEFINE b == Batch(p, e)
               z == stack[p]
               t == Append(z, b)
    <2>0. z \in Seq(Frame(p)) /\ Nested(z) /\ ~Waits(z)
      BY <1>0, <1>5
    <2>1. b \in Frame(p) /\ b.call = "dispatchMessages"
      BY <1>0, <1>3, NewBatchTypes
    <2>1a. z = <<>>
      BY <1>0
    <2> HIDE DEF b, z
    <2>2. Nested(t) /\ ~Waits(t)
      BY <2>0, <2>1, <2>1a, NestedPush
    <2>3. Last(t).call # "wait"
      BY <2>0, <2>1, PushFacts
    <2>4. \A f \in Endpoint : WaitIds(t, f) = WaitIds(z, f)
      BY <2>0, <2>1, WaitIdsSame
    <2>5. stack' = [stack EXCEPT ![p] = t]
      BY <1>9 DEF Push, b, z
    <2>6. \A r \in Process : r # p => toDispatch'[r] = toDispatch[r]
      BY <1>0, <1>9
    <2> HIDE DEF t
    <2> QED
      BY <1>6, <1>9, <2>2, <2>3, <2>4, <2>5, <2>6 DEF z
  <1>10. CASE m_isValid' = [m_isValid EXCEPT ![e] = FALSE] /\ UNCHANGED <<stack, toDispatch>>
    <2>1. \A f \in Endpoint : ProcessOf(f) # p => m_isValid'[f] = m_isValid[f]
      BY <1>0, <1>3, <1>10 DEF TypeOK
    <2> QED
      BY <1>7, <1>10, <2>1
  <1> QED
    BY <1>7, <1>8, <1>9, <1>10 DEF RunLoopTask

\* A wait takes all there is to dispatch.
LEMMA WaitDispatchesKeeps ==
  ASSUME IInv, NEW p \in Process, WaitDispatches(p)
  PROVE  CallsNested' /\ PendingMatched' /\ Signalled' /\ NoMissedWakeUp'
  <1> DEFINE s == stack[p]
             f == [Top(p) EXCEPT !.at = "check"]
             k == Append(Front(s), f)
             b == Batch(p, Nobody)
             t == Append(k, b)
  <1>0. TypeOK /\ Nested(s) /\ s \in Seq(Frame(p)) /\ DOMAIN stack = Process /\ DOMAIN toDispatch = Process
    BY DEF IInv, TypeOK, CallsNested
  <1>1. s # <<>> /\ Top(p) = Last(s) /\ Last(s).call = "wait"
    BY DEF WaitDispatches, In, Top
  <1>2. Top(p) \in Wait(p)
    BY <1>0, <1>1, TopFacts, FrameKinds
  <1>3. f \in Frame(p) /\ f.call = "wait" /\ f.at = "check" /\ f.id = Last(s).id /\ f.e = Last(s).e
    BY <1>1, <1>2, WaitTypes DEF Wait
  <1>4. b \in Frame(p) /\ b.call = "dispatchMessages" /\ b.allowed = Nobody /\ b.putBack = <<>>
    BY <1>0, NewBatchTypes DEF Batch
  <1>5. /\ stack' = [stack EXCEPT ![p] = t] /\ toDispatch' = [toDispatch EXCEPT ![p] = <<>>]
        /\ UNCHANGED <<endpointVars, didSchedule, semaphore, runLoop, wire, sent, crashed>>
    BY DEF WaitDispatches
  <1> HIDE DEF f, b
  <1>6. Nested(k) /\ k \in Seq(Frame(p)) /\ Last(k) = f
    BY <1>0, <1>1, <1>3, NestedSwap
  <1>7. \A e \in Endpoint : WaitIds(k, e) = WaitIds(s, e)
    BY <1>0, <1>1, <1>3, WaitIdsSwap
  <1> HIDE DEF k
  <1>8. Nested(t) /\ Last(t).call # "wait"
    <2>1. Nested(t)
      BY <1>3, <1>4, <1>6, NestedPush
    <2>2. Last(t) = b
      BY <1>4, <1>6, PushFacts
    <2> QED
      BY <1>4, <2>1, <2>2
  <1>9. \A e \in Endpoint : WaitIds(t, e) = WaitIds(s, e)
    BY <1>4, <1>6, <1>7, WaitIdsSame
  <1> HIDE DEF t
  <1>10. SignalledAt(p)'
    BY <1>0, <1>5 DEF SignalledAt
  <1>11. (Asleep(p) => NothingFor(p))'
    BY <1>0, <1>5, <1>8, NotAsleep
  <1>12. \A q \in Process : q # p => toDispatch'[q] = toDispatch[q]
    BY <1>0, <1>5
  <1> QED
    BY <1>5, <1>8, <1>9, <1>10, <1>11, <1>12, MainKeeps DEF endpointVars

\* A wait looks again, or sleeps: with nothing to wake up for.
LEMMA WaitTurnsKeeps ==
  ASSUME IInv, NEW p \in Process, WaitWakes(p) \/ (WaitChecks(p) /\ ~WaitEnds(p))
  PROVE  CallsNested' /\ PendingMatched' /\ Signalled' /\ NoMissedWakeUp'
  <1> DEFINE s == stack[p]
             e == Top(p).e
  <1>0. TypeOK /\ Nested(s) /\ s \in Seq(Frame(p)) /\ DOMAIN stack = Process /\ SignalledAt(p)
        /\ CallsNested /\ PendingMatched
    BY DEF IInv, TypeOK, CallsNested, Signalled
  <1>1. s # <<>> /\ Top(p) = Last(s) /\ Last(s).call = "wait"
    BY DEF WaitWakes, WaitChecks, In, Top
  <1>2. Top(p) \in Wait(p)
    BY <1>0, <1>1, TopFacts, FrameKinds
  <1>3. ASSUME NEW l \in {"dispatch", "check", "semaphore"}
        PROVE  LET f == [Top(p) EXCEPT !.at = l]
                   t == Append(Front(s), f)
               IN /\ f.at = l /\ f.call = "wait" /\ f.e = e
                  /\ Nested(t) /\ t \in Seq(Frame(p)) /\ Last(t) = f /\ t # <<>>
                  /\ Waits(t) => Waits(s)
                  /\ \A g \in Endpoint : WaitIds(t, g) = WaitIds(s, g)
    <2> DEFINE f == [Top(p) EXCEPT !.at = l]
               t == Append(Front(s), f)
    <2>1. f \in Frame(p) /\ f.call = "wait" /\ f.at = l /\ f.id = Last(s).id /\ f.e = Last(s).e
      BY <1>1, <1>2, WaitTypes DEF Wait
    <2> HIDE DEF f
    <2>2. Nested(t) /\ t \in Seq(Frame(p)) /\ Last(t) = f /\ (Waits(t) => Waits(s))
      BY <1>0, <1>1, <2>1, NestedSwap
    <2>3. \A g \in Endpoint : WaitIds(t, g) = WaitIds(s, g)
      BY <1>0, <1>1, <2>1, WaitIdsSwap
    <2>4. t # <<>>
      BY <1>0, <1>1, <2>1, FrontFacts, PushFacts
    <2> QED
      BY <1>1, <2>1, <2>2, <2>3, <2>4 DEF f
  <1>4. CASE WaitWakes(p)
    <2> DEFINE f == [Top(p) EXCEPT !.at = "dispatch"]
               t == Append(Front(s), f)
    <2>1. /\ f.at = "dispatch" /\ f.call = "wait" /\ Nested(t) /\ Last(t) = f
          /\ \A g \in Endpoint : WaitIds(t, g) = WaitIds(s, g)
      BY <1>3
    <2>2. /\ stack' = [stack EXCEPT ![p] = t]
          /\ semaphore' = [semaphore EXCEPT ![p] = FALSE]
          /\ UNCHANGED <<endpointVars, toDispatch, didSchedule, runLoop, wire, sent, crashed>>
      BY <1>4 DEF WaitWakes, ReplaceTop
    <2>3. \A q \in Process : q # p => semaphore'[q] = semaphore[q]
      BY <1>0, <2>2 DEF TypeOK
    <2> HIDE DEF f, t
    <2>4. SignalledAt(p)'
      BY <1>0, <2>1, <2>2 DEF SignalledAt, AboutToDispatch
    <2>5. (Asleep(p) => NothingFor(p))'
      BY <1>0, <2>1, <2>2, NotAsleep
    <2> QED
      BY <2>1, <2>2, <2>3, <2>4, <2>5, MainKeeps DEF endpointVars
  <1>5. CASE WaitChecks(p) /\ ~WaitEnds(p)
    <2> DEFINE f == [Top(p) EXCEPT !.at = "semaphore"]
               t == Append(Front(s), f)
    <2>1. /\ f.at = "semaphore" /\ f.call = "wait" /\ Nested(t) /\ Last(t) = f /\ f.e = e
          /\ \A g \in Endpoint : WaitIds(t, g) = WaitIds(s, g)
          /\ Waits(t) => Waits(s)
      BY <1>3
    <2>2. /\ stack' = [stack EXCEPT ![p] = t]
          /\ Top(p).at = "check"
          /\ ~Last(m_pendingSyncReplies[e]).didReceiveReply
          /\ m_shouldWaitForSyncReplies[e] /\ m_isValid[e]
          /\ UNCHANGED <<m_pendingSyncReplies, m_isValid, m_shouldWaitForSyncReplies, processVars, sent, crashed>>
      BY <1>5 DEF WaitChecks, ReplaceTop
    <2>3. ~AboutToDispatch(s)
      BY <1>1, <2>2 DEF AboutToDispatch
    <2>3a. Waits(s)
      <3>1. Len(s) \in Nat \ {0} /\ Last(s) = s[Len(s)]
        BY <1>0, <1>1, FrontFacts
      <3>2. Len(s) \in 1 .. Len(s)
        BY <3>1
      <3> QED
        BY <1>1, <3>1, <3>2 DEF Waits
    <2> HIDE DEF f, t
    <2>4. SignalledAt(p)'
      BY <1>0, <2>1, <2>2, <2>3, SignalKept DEF processVars
    <2>5. (Asleep(p) => NothingFor(p))'
      <3> SUFFICES ASSUME Asleep(p)' PROVE NothingFor(p)'
        OBVIOUS
      <3>1. toDispatch[p] # <<>> => semaphore[p]
        BY <1>0, <2>3, <2>3a DEF SignalledAt
      <3>2. toDispatch'[p] = <<>>
        BY <2>2, <3>1 DEF processVars, Asleep
      <3>3. Top(p)' = f
        BY <1>0, <2>1, <2>2 DEF Top
      <3>4. Top(p)'.e = e
        BY <2>1, <3>3
      <3> QED
        BY <2>2, <3>2, <3>4 DEF NothingFor
    <2> QED
      BY <2>1, <2>2, <2>4, <2>5, MainKeeps DEF processVars
  <1> QED
    BY <1>4, <1>5

\* A wait ends: its request is the one that is taken off.
LEMMA WaitEndsKeeps ==
  ASSUME IInv, NEW p \in Process, (WaitChecks(p) /\ WaitEnds(p)) \/ WaitTimesOut(p)
  PROVE  CallsNested' /\ PendingMatched' /\ Signalled' /\ NoMissedWakeUp'
  <1> DEFINE s == stack[p]
             t == Front(s)
             c == Top(p)
             e == c.e
             r == m_pendingSyncReplies[e]
  <1>0. TypeOK /\ Nested(s) /\ s \in Seq(Frame(p)) /\ DOMAIN stack = Process /\ SignalledAt(p)
        /\ CallsNested /\ PendingMatched /\ Signalled /\ NoMissedWakeUp
    BY DEF IInv, TypeOK, CallsNested, Signalled
  <1>1. s # <<>> /\ c = Last(s) /\ c.call = "wait" /\ c.at # "dispatch" /\ ~AboutToDispatch(s)
    BY DEF WaitTimesOut, WaitChecks, In, Top, AboutToDispatch
  <1>2. /\ c \in Wait(p) /\ e \in Endpoint /\ ProcessOf(e) = p
        /\ r # <<>> /\ Last(r).id = c.id
        /\ \A d \in ToSet(t) : d.call = "wait" => d.id < c.id
    BY <1>0, <1>1, PendingTop
  <1>3. /\ stack' = [stack EXCEPT ![p] = t]
        /\ m_pendingSyncReplies' = [m_pendingSyncReplies EXCEPT ![e] = Front(r)]
        /\ UNCHANGED <<m_isValid, m_shouldWaitForSyncReplies, processVars, sent, crashed>>
    BY DEF WaitTimesOut, WaitChecks, WaitEnds
  <1>4. /\ Nested(t) /\ (Waits(t) => Waits(s))
        /\ t # <<>> /\ Last(t).call = "wait" => Last(t).at # "semaphore"
    BY <1>0, <1>1, NestedPop
  <1>5. r \in Seq(Reply) /\ Ids(r) = WaitIds(s, e) /\ Ascending(r) /\ \A id \in Ids(r) : id <= sent
    BY <1>0, <1>2 DEF TypeOK, PendingMatched
  <1>6. /\ Len(r) \in Nat \ {0} /\ Len(Front(r)) = Len(r) - 1 /\ Front(r) \in Seq(Reply)
        /\ \A i \in 1 .. Len(r) - 1 : Front(r)[i] = r[i]
        /\ Last(r) = r[Len(r)] /\ ToSet(r) = ToSet(Front(r)) \cup {Last(r)}
    BY <1>2, <1>5, FrontFacts
  <1>7. WaitIds(t, e) = WaitIds(s, e) \ {c.id}
    <2>1. WaitIds(s, e) = WaitIds(t, e) \cup (IF c.call = "wait" /\ c.e = e THEN {c.id} ELSE {})
      BY <1>0, <1>1, WaitIdsPop
    <2>2. WaitIds(s, e) = WaitIds(t, e) \cup {c.id}
      BY <1>1, <2>1
    <2>3. c.id \notin WaitIds(t, e)
      <3>1. c.id \in Nat
        BY <1>2 DEF Wait
      <3> QED
        BY <1>2, <3>1 DEF WaitIds
    <2> HIDE DEF t
    <2> QED
      BY <2>2, <2>3
  <1>8. ASSUME NEW g \in Endpoint, g # e PROVE WaitIds(t, g) = WaitIds(s, g)
    <2>1. WaitIds(s, g) = WaitIds(t, g) \cup (IF c.call = "wait" /\ c.e = g THEN {c.id} ELSE {})
      BY <1>0, <1>1, WaitIdsPop
    <2> QED
      BY <1>8, <2>1
  <1>9. Ids(Front(r)) = Ids(r) \ {c.id}
    <2>1. Ids(r) = Ids(Front(r)) \cup {c.id}
      BY <1>2, <1>6 DEF Ids
    <2>2. c.id \notin Ids(Front(r))
      <3> SUFFICES ASSUME NEW d \in ToSet(Front(r)), d.id = c.id PROVE FALSE
        BY DEF Ids
      <3>1. DOMAIN Front(r) = 1 .. Len(r) - 1
        BY <1>6
      <3>2. PICK i \in 1 .. Len(r) - 1 : d = Front(r)[i]
        BY <3>1 DEF ToSet
      <3>3. i \in 1 .. Len(r) /\ Len(r) \in 1 .. Len(r) /\ i < Len(r) /\ d = r[i]
        BY <1>6, <3>2
      <3>4. r[i].id < r[Len(r)].id
        <4> HIDE DEF r
        <4> QED
          BY <1>5, <3>3 DEF Ascending
      <3>5. c.id \in Nat
        BY <1>2 DEF Wait
      <3> QED
        BY <1>2, <1>6, <3>3, <3>4, <3>5
    <2> QED
      BY <2>1, <2>2
  <1>10. Ascending(Front(r))
    <2>1. \A i \in 1 .. Len(r) - 1 : i \in 1 .. Len(r)
      BY <1>6
    <2> DEFINE u == Front(r)
    <2> HIDE DEF u, r
    <2>2. Ascending(u)
      BY <1>5, <1>6, <2>1 DEF Ascending, u
    <2> QED
      BY <2>2 DEF u
  <1> HIDE DEF t, r, e, c
  <1>11. \A q \in Process : stack'[q] = IF q = p THEN t ELSE stack[q]
    BY <1>0, <1>3
  <1>12. \A g \in Endpoint : m_pendingSyncReplies'[g] = IF g = e THEN Front(r) ELSE m_pendingSyncReplies[g]
    BY <1>0, <1>3 DEF TypeOK
  <1>13. CallsNested'
    BY <1>0, <1>4, <1>11 DEF CallsNested
  <1>14. PendingMatched'
    <2> SUFFICES ASSUME NEW g \in Endpoint
                 PROVE  LET u == m_pendingSyncReplies'[g] IN
                        /\ Ids(u) = WaitIds(stack'[ProcessOf(g)], g)
                        /\ Ascending(u) /\ \A id \in Ids(u) : id <= sent'
      BY DEF PendingMatched
    <2>1. CASE g = e
      BY <1>2, <1>3, <1>5, <1>7, <1>9, <1>10, <1>11, <1>12, <2>1
    <2>2. CASE g # e
      <3>1. WaitIds(stack'[ProcessOf(g)], g) = WaitIds(stack[ProcessOf(g)], g)
        BY <1>8, <1>11, <2>2, EndpointFacts
      <3> QED
        BY <1>0, <1>3, <1>12, <2>2, <3>1 DEF PendingMatched
    <2> QED
      BY <2>1, <2>2
  <1>15. SignalledAt(p)' /\ (Asleep(p) => NothingFor(p))'
    BY <1>0, <1>1, <1>3, <1>4, SignalKept, NotAsleep DEF processVars
  <1>16. ASSUME NEW q \in Process, q # p PROVE SignalledAt(q)' /\ (Asleep(q) => NothingFor(q))'
    <2>1. stack'[q] = stack[q]
      BY <1>11, <1>16
    <2>2. \A g \in Of(q) : g \in Endpoint /\ g # e
      BY <1>2, <1>16, OfFacts
    <2>3. \A g \in Of(q) : m_pendingSyncReplies'[g] = m_pendingSyncReplies[g]
      BY <1>12, <2>2
    <2> QED
      BY <1>0, <1>3, <2>1, <2>3, SameProcess DEF Signalled, NoMissedWakeUp, processVars
  <1>17. Signalled' /\ NoMissedWakeUp'
    BY <1>15, <1>16 DEF Signalled, NoMissedWakeUp, Process
  <1> QED
    BY <1>13, <1>14, <1>17

\* What a reply does to the requests.
LEMMA ReplyFacts ==
  ASSUME TypeOK, NEW e \in Endpoint, NEW id, ProcessIncomingSyncReply(e, id)
  PROVE  LET s == m_pendingSyncReplies[e]
             r == m_pendingSyncReplies'[e]
         IN /\ s \in Seq(Reply) /\ r \in Seq(Reply) /\ Len(s) \in Nat /\ Len(r) = Len(s)
            /\ \A i \in 1 .. Len(s) : /\ s[i] \in Reply /\ r[i].id = s[i].id
                                      /\ s[i].id # id => r[i] = s[i]
                                      /\ s[i].id = id => r[i].didReceiveReply
            /\ \A g \in Endpoint : g # e => m_pendingSyncReplies'[g] = m_pendingSyncReplies[g]
            /\ Len(s) > 0 /\ s[Len(s)].id = id => semaphore'[ProcessOf(e)]
            /\ semaphore[ProcessOf(e)] => semaphore'[ProcessOf(e)]
            /\ \A q \in Process : q # ProcessOf(e) => semaphore'[q] = semaphore[q]
            /\ UNCHANGED <<toDispatch, didSchedule, runLoop, m_incomingMessages>>
  <1> DEFINE s == m_pendingSyncReplies[e]
             at == {j \in DOMAIN s : s[j].id = id}
             u == [i \in DOMAIN s |-> IF i \in at
                                      THEN [s[i] EXCEPT !.didReceiveReply = TRUE] ELSE s[i]]
             p == ProcessOf(e)
  <1>1. s \in Seq(Reply) /\ p \in Process
    BY EndpointFacts DEF TypeOK
  <1>2. Len(s) \in Nat /\ DOMAIN s = 1 .. Len(s) /\ \A i \in 1 .. Len(s) : s[i] \in Reply
    <2> HIDE DEF s
    <2> QED
      BY <1>1
  <1>3. m_pendingSyncReplies' = [m_pendingSyncReplies EXCEPT ![e] = u]
    BY DEF ProcessIncomingSyncReply
  <1>4. semaphore' = [semaphore EXCEPT ![p] = @ \/ Len(s) \in at]
    BY DEF ProcessIncomingSyncReply
  <1>5. UNCHANGED <<toDispatch, didSchedule, runLoop, m_incomingMessages>>
    BY DEF ProcessIncomingSyncReply
  <1> HIDE DEF s
  <1>6. \A i \in 1 .. Len(s) : u[i] = IF s[i].id = id THEN [s[i] EXCEPT !.didReceiveReply = TRUE] ELSE s[i]
    BY <1>2
  <1>7. \A i \in 1 .. Len(s) :
           LET x == [s[i] EXCEPT !.didReceiveReply = TRUE] IN x \in Reply /\ x.id = s[i].id /\ x.didReceiveReply
    BY <1>2 DEF Reply
  <1>8. DOMAIN u = 1 .. Len(s)
    BY <1>2
  <1>9. u \in [1 .. Len(s) -> Reply]
    <2>1. \A i \in 1 .. Len(s) : u[i] \in Reply
      BY <1>2, <1>6, <1>7
    <2>2. u = [i \in 1 .. Len(s) |-> u[i]]
      BY <1>8
    <2> HIDE DEF u
    <2> QED
      BY <2>1, <2>2
  <1>10. /\ \A i \in 1 .. Len(s) : /\ u[i].id = s[i].id
                                   /\ s[i].id # id => u[i] = s[i]
                                   /\ s[i].id = id => u[i].didReceiveReply
    BY <1>6, <1>7
  <1> HIDE DEF u
  <1>11. u \in Seq(Reply) /\ Len(u) = Len(s)
    <2>1. u \in Seq(Reply)
      BY <1>2, <1>9, SeqDef
    <2>2. Len(u) \in Nat /\ DOMAIN u = 1 .. Len(u)
      BY <2>1
    <2>3. Len(u) \in 1 .. Len(s) \/ Len(u) = 0
      BY <1>8, <2>2
    <2>4. Len(s) \in 1 .. Len(u) \/ Len(s) = 0
      BY <1>2, <1>8, <2>2
    <2>5. Len(s) \in Nat
      BY <1>2
    <2>6. Len(u) = 0 => ~(1 \in 1 .. Len(s))
      BY <1>8, <2>2
    <2>7. Len(s) = 0 => ~(1 \in 1 .. Len(u))
      BY <1>8, <2>2
    <2>8. Len(u) = Len(s)
      BY <2>2, <2>3, <2>4, <2>5, <2>6, <2>7
    <2> QED
      BY <2>1, <2>8
  <1>12. m_pendingSyncReplies'[e] = u /\ \A g \in Endpoint : g # e => m_pendingSyncReplies'[g] = m_pendingSyncReplies[g]
    BY <1>3 DEF TypeOK
  <1>13. Len(s) > 0 /\ s[Len(s)].id = id => Len(s) \in at
    BY <1>2
  <1>14. /\ semaphore'[p] <=> (semaphore[p] \/ Len(s) \in at)
         /\ \A q \in Process : q # p => semaphore'[q] = semaphore[q]
    BY <1>1, <1>4 DEF TypeOK
  <1> QED
    BY <1>1, <1>2, <1>5, <1>10, <1>11, <1>12, <1>13, <1>14 DEF s

\* What arrives signals the semaphore when somebody may wait for it.
LEMMA ReceiveKeeps ==
  ASSUME IInv, NEW e \in Endpoint, Receive(e)
  PROVE  CallsNested' /\ PendingMatched' /\ Signalled' /\ NoMissedWakeUp'
  <1> DEFINE p == ProcessOf(e)
             m == Head(wire[PeerOf(e)])
             s == m_pendingSyncReplies[e]
             r == m_pendingSyncReplies'[e]
  <1>0. TypeOK /\ CallsNested /\ PendingMatched /\ Signalled /\ NoMissedWakeUp
    BY DEF IInv
  <1>1. p \in Process /\ e \in Of(p)
    BY EndpointFacts
  <1>2. UNCHANGED <<m_isValid, m_isConnected, m_shouldWaitForSyncReplies, m_inDispatchMarked,
                    stack, sent, crashed>>
    BY DEF Receive
  <1>3. CallsNested'
    BY <1>0, <1>2 DEF CallsNested
  <1>4. ASSUME NEW q \in Process, q # p,
               toDispatch'[q] = toDispatch[q], semaphore'[q] = semaphore[q],
               \A g \in Endpoint : g # e => m_pendingSyncReplies'[g] = m_pendingSyncReplies[g]
        PROVE  SignalledAt(q)' /\ (Asleep(q) => NothingFor(q))'
    <2>1. \A g \in Of(q) : g \in Endpoint /\ g # e
      BY <1>1, <1>4, OfFacts
    <2> QED
      BY <1>0, <1>2, <1>4, <2>1, SameProcess DEF Signalled, NoMissedWakeUp
  <1>5. CASE ProcessIncomingSyncReply(e, m.id)
    <2>1. /\ s \in Seq(Reply) /\ r \in Seq(Reply) /\ Len(s) \in Nat /\ Len(r) = Len(s)
          /\ \A i \in 1 .. Len(s) : /\ s[i] \in Reply /\ r[i].id = s[i].id
                                    /\ s[i].id # m.id => r[i] = s[i]
          /\ \A g \in Endpoint : g # e => m_pendingSyncReplies'[g] = m_pendingSyncReplies[g]
          /\ Len(s) > 0 /\ s[Len(s)].id = m.id => semaphore'[p]
          /\ semaphore[p] => semaphore'[p]
          /\ \A q \in Process : q # p => semaphore'[q] = semaphore[q]
          /\ UNCHANGED <<toDispatch, didSchedule, runLoop, m_incomingMessages>>
      BY <1>0, <1>5, ReplyFacts
    <2> HIDE DEF s, r, m
    <2>2. Ids(r) = Ids(s)
      <3>1. DOMAIN r = 1 .. Len(s) /\ DOMAIN s = 1 .. Len(s)
        BY <2>1
      <3> QED
        BY <2>1, <3>1 DEF Ids, ToSet
    <2>3. Ascending(s) => Ascending(r)
      BY <2>1 DEF Ascending
    <2>4. PendingMatched'
      <3> SUFFICES ASSUME NEW g \in Endpoint
                   PROVE  LET u == m_pendingSyncReplies'[g] IN
                          /\ Ids(u) = WaitIds(stack'[ProcessOf(g)], g)
                          /\ Ascending(u) /\ \A id \in Ids(u) : id <= sent'
        BY DEF PendingMatched
      <3>1. CASE g = e
        <4>1. Ids(s) = WaitIds(stack[ProcessOf(e)], e) /\ Ascending(s) /\ \A id \in Ids(s) : id <= sent
          BY <1>0 DEF PendingMatched, s
        <4> QED
          BY <1>2, <2>2, <2>3, <3>1, <4>1 DEF r
      <3>2. CASE g # e
        BY <1>0, <1>2, <2>1, <3>2 DEF PendingMatched
      <3> QED
        BY <3>1, <3>2
    <2>5. SignalledAt(p)'
      <3>1. SignalledAt(p)
        BY <1>0, <1>1 DEF Signalled
      <3> QED
        BY <1>2, <2>1, <3>1 DEF SignalledAt
    <2>6. ASSUME Asleep(p)' PROVE NothingFor(p)'
      <3>1. Asleep(p) /\ ~semaphore'[p] /\ Top(p)' = Top(p) /\ stack[p] # <<>> /\ Top(p).call = "wait"
        BY <1>2, <2>1, <2>6 DEF Asleep, In, Top
      <3>2. NothingFor(p)
        BY <1>0, <1>1, <3>1 DEF NoMissedWakeUp
      <3>3. Top(p).e \in Endpoint /\ m_pendingSyncReplies[Top(p).e] # <<>>
        BY <1>0, <1>1, <3>1, PendingTop
      <3> DEFINE g == Top(p).e
      <3>4. ~Last(m_pendingSyncReplies'[g]).didReceiveReply
        <4>1. ~Last(m_pendingSyncReplies[g]).didReceiveReply
          BY <3>2 DEF NothingFor
        <4>2. CASE g # e
          BY <2>1, <3>3, <4>1, <4>2
        <4>3. CASE g = e
          <5>1. s # <<>> /\ ~Last(s).didReceiveReply
            BY <3>3, <4>1, <4>3 DEF s
          <5>2. Len(s) > 0 /\ Len(s) \in 1 .. Len(s)
            BY <2>1, <5>1
          <5>3. s[Len(s)].id # m.id
            BY <2>1, <3>1, <5>2
          <5>4. Last(r) = Last(s)
            BY <2>1, <5>2, <5>3 DEF Last
          <5> QED
            BY <4>3, <5>1, <5>4 DEF r
        <4> QED
          BY <4>2, <4>3
      <3>5. Top(p)'.e = g
        BY <3>1
      <3>6. /\ toDispatch'[p] = <<>> /\ m_shouldWaitForSyncReplies'[g] /\ m_isValid'[g]
        BY <1>2, <2>1, <3>2 DEF NothingFor
      <3> QED
        BY <3>4, <3>5, <3>6 DEF NothingFor
    <2>7. \A q \in Process : q # p => SignalledAt(q)' /\ (Asleep(q) => NothingFor(q))'
      BY <1>4, <2>1
    <2>8. Signalled' /\ NoMissedWakeUp'
      BY <2>5, <2>6, <2>7 DEF Signalled, NoMissedWakeUp, Process
    <2> QED
      BY <1>3, <2>4, <2>8
  <1>6. CASE ProcessIncomingMessage(e, m)
    <2>1. UNCHANGED m_pendingSyncReplies
      BY <1>6 DEF ProcessIncomingMessage
    <2>2. PendingMatched'
      BY <1>0, <1>2, <2>1 DEF PendingMatched
    <2>3. \A q \in Process : q # p => toDispatch'[q] = toDispatch[q] /\ semaphore'[q] = semaphore[q]
      BY <1>0, <1>6 DEF ProcessIncomingMessage, Push, TypeOK
    <2>4. semaphore'[p] \/ (toDispatch'[p] = toDispatch[p] /\ semaphore'[p] = semaphore[p])
      BY <1>0, <1>1, <1>6 DEF ProcessIncomingMessage, TypeOK
    <2>5. SignalledAt(p)' /\ (Asleep(p) => NothingFor(p))'
      <3>1. CASE semaphore'[p]
        BY <3>1 DEF SignalledAt, Asleep
      <3>2. CASE toDispatch'[p] = toDispatch[p] /\ semaphore'[p] = semaphore[p]
        BY <1>0, <1>1, <1>2, <2>1, <3>2, SameProcess DEF Signalled, NoMissedWakeUp
      <3> QED
        BY <2>4, <3>1, <3>2
    <2>6. \A q \in Process : q # p => SignalledAt(q)' /\ (Asleep(q) => NothingFor(q))'
      BY <1>4, <2>1, <2>3
    <2>7. Signalled' /\ NoMissedWakeUp'
      BY <2>5, <2>6 DEF Signalled, NoMissedWakeUp, Process
    <2> QED
      BY <1>3, <2>2, <2>7
  <1> QED
    BY <1>5, <1>6 DEF Receive

\* The peer goes away: a wait for this connection is woken.
LEMMA DidCloseKeeps ==
  ASSUME IInv, NEW e \in Endpoint, ConnectionDidClose(e)
  PROVE  CallsNested' /\ PendingMatched' /\ Signalled' /\ NoMissedWakeUp'
  <1> DEFINE p == ProcessOf(e)
  <1>0. TypeOK /\ CallsNested /\ PendingMatched /\ Signalled /\ NoMissedWakeUp
    BY DEF IInv
  <1>1. p \in Process /\ e \in Of(p)
    BY EndpointFacts
  <1>2. /\ m_shouldWaitForSyncReplies' = [m_shouldWaitForSyncReplies EXCEPT ![e] = FALSE]
        /\ semaphore' = [semaphore EXCEPT ![p] = @ \/ m_pendingSyncReplies[e] # <<>>]
        /\ UNCHANGED <<m_isValid, m_pendingSyncReplies, toDispatch, stack, sent, crashed>>
    BY DEF ConnectionDidClose
  <1>3. CallsNested' /\ PendingMatched'
    BY <1>0, <1>2 DEF CallsNested, PendingMatched
  <1>4. /\ \A q \in Process : q # p => semaphore'[q] = semaphore[q]
        /\ semaphore'[p] <=> (semaphore[p] \/ m_pendingSyncReplies[e] # <<>>)
        /\ \A g \in Endpoint : g # e => m_shouldWaitForSyncReplies'[g] = m_shouldWaitForSyncReplies[g]
    BY <1>0, <1>1, <1>2 DEF TypeOK
  <1>5. ASSUME NEW q \in Process, q # p PROVE SignalledAt(q)' /\ (Asleep(q) => NothingFor(q))'
    <2>1. \A g \in Of(q) : g \in Endpoint /\ g # e
      BY <1>1, <1>5, OfFacts
    <2> QED
      BY <1>0, <1>2, <1>4, <1>5, <2>1, SameProcess DEF Signalled, NoMissedWakeUp
  <1>6. SignalledAt(p)'
    <2>1. SignalledAt(p)
      BY <1>0, <1>1 DEF Signalled
    <2> QED
      BY <1>2, <1>4, <2>1 DEF SignalledAt
  <1>7. ASSUME Asleep(p)' PROVE NothingFor(p)'
    <2>1. Asleep(p) /\ ~semaphore'[p] /\ Top(p)' = Top(p) /\ stack[p] # <<>> /\ Top(p).call = "wait"
      BY <1>2, <1>4, <1>7 DEF Asleep, In, Top
    <2>2. NothingFor(p)
      BY <1>0, <1>1, <2>1 DEF NoMissedWakeUp
    <2>3. Top(p).e \in Endpoint /\ m_pendingSyncReplies[Top(p).e] # <<>>
      BY <1>0, <1>1, <2>1, PendingTop
    <2>4. Top(p).e # e
      BY <1>4, <2>1, <2>3
    <2>5. Top(p)'.e = Top(p).e
      BY <2>1
    <2> QED
      BY <1>2, <1>4, <2>2, <2>3, <2>4, <2>5 DEF NothingFor
  <1> QED
    BY <1>3, <1>5, <1>6, <1>7 DEF Signalled, NoMissedWakeUp, Process

\* Only the client's own code invalidates, and it does not run during a wait.
LEMMA InvalidateKeeps ==
  ASSUME IInv, NEW e \in Endpoint, Invalidate(e)
  PROVE  CallsNested' /\ PendingMatched' /\ Signalled' /\ NoMissedWakeUp'
  <1> DEFINE p == ProcessOf(e)
  <1>0. TypeOK /\ CallsNested /\ PendingMatched /\ Signalled /\ NoMissedWakeUp
    BY DEF IInv
  <1>1. p \in Process /\ e \in Of(p)
    BY EndpointFacts
  <1>2. /\ m_isValid' = [m_isValid EXCEPT ![e] = FALSE] /\ (stack[p] # <<>> => Top(p).call = "handler")
        /\ UNCHANGED <<m_shouldWaitForSyncReplies, m_pendingSyncReplies, processVars, stack, sent, crashed>>
    BY DEF Invalidate, ClientRuns
  <1>3. CallsNested' /\ PendingMatched'
    BY <1>0, <1>2 DEF CallsNested, PendingMatched
  <1>4. \A g \in Endpoint : g # e => m_isValid'[g] = m_isValid[g]
    BY <1>0, <1>2 DEF TypeOK
  <1>5. ASSUME NEW q \in Process, q # p PROVE SignalledAt(q)' /\ (Asleep(q) => NothingFor(q))'
    <2>1. \A g \in Of(q) : g \in Endpoint /\ g # e
      BY <1>1, <1>5, OfFacts
    <2> QED
      BY <1>0, <1>2, <1>4, <1>5, <2>1, SameProcess DEF Signalled, NoMissedWakeUp, processVars
  <1>6. SignalledAt(p)'
    BY <1>0, <1>1, <1>2 DEF Signalled, SignalledAt, processVars
  <1>7. ~Asleep(p)'
    BY <1>2 DEF Asleep, In, Top
  <1> QED
    BY <1>3, <1>5, <1>6, <1>7 DEF Signalled, NoMissedWakeUp, Process

\* A new request: its wait looks at what there is to dispatch first.
LEMMA SendSyncKeeps ==
  ASSUME IInv, NEW e \in Endpoint, SendSyncMessage(e)
  PROVE  CallsNested' /\ PendingMatched' /\ Signalled' /\ NoMissedWakeUp'
  <1> DEFINE p == ProcessOf(e)
             s == stack[p]
             f == [call |-> "wait", e |-> e, id |-> sent + 1, at |-> "dispatch"]
             t == Append(s, f)
             r == m_pendingSyncReplies[e]
             x == [id |-> sent + 1, didReceiveReply |-> FALSE]
             u == Append(r, x)
  <1>0. TypeOK /\ CallsNested /\ PendingMatched /\ Signalled /\ NoMissedWakeUp
    BY DEF IInv
  <1>1. p \in Process /\ e \in Of(p)
    BY EndpointFacts
  <1>2. sent \in Nat /\ s \in Seq(Frame(p)) /\ r \in Seq(Reply) /\ Nested(s) /\ DOMAIN stack = Process
    BY <1>0, <1>1 DEF TypeOK, CallsNested
  <1>3. /\ f \in Frame(p) /\ f.call = "wait" /\ f.e = e /\ f.id = sent + 1 /\ f.at = "dispatch"
        /\ x \in Reply /\ x.id = sent + 1
    BY <1>1, <1>2 DEF Frame, Wait, Reply
  <1>4. /\ stack' = [stack EXCEPT ![p] = t] /\ m_pendingSyncReplies' = [m_pendingSyncReplies EXCEPT ![e] = u]
        /\ sent' = sent + 1 /\ (s # <<>> => Last(s).call = "handler")
        /\ UNCHANGED <<m_isValid, m_shouldWaitForSyncReplies, processVars, crashed>>
    BY DEF SendSyncMessage, Push, ClientRuns, Top
  <1>5. \A d \in ToSet(s) : d.call = "wait" => d.id \in Nat /\ d.id <= sent
    <2> SUFFICES ASSUME NEW d \in ToSet(s), d.call = "wait" PROVE d.id \in Nat /\ d.id <= sent
      OBVIOUS
    <2>1. d \in Frame(p)
      BY <1>2 DEF ToSet
    <2>2. d.e \in Endpoint /\ ProcessOf(d.e) = p /\ d.id \in Nat
      BY <2>1, <1>1, FrameKinds, OfFacts DEF Wait
    <2>3. d.id \in WaitIds(s, d.e)
      BY DEF WaitIds
    <2> QED
      BY <1>0, <2>2, <2>3 DEF PendingMatched
  <1>6. \A y \in ToSet(r) : y.id \in Nat /\ y.id <= sent
    <2> SUFFICES ASSUME NEW y \in ToSet(r) PROVE y.id \in Nat /\ y.id <= sent
      OBVIOUS
    <2>1. y \in Reply
      BY <1>2 DEF ToSet
    <2>2. y.id \in Ids(r)
      BY DEF Ids
    <2> QED
      BY <1>0, <2>1, <2>2 DEF PendingMatched, Reply
  <1> HIDE DEF f, x
  <1>7. Nested(t) /\ Last(t) = f
    <2>1. \A d \in ToSet(s) : d.call = "wait" => d.id < f.id
      BY <1>2, <1>3, <1>5
    <2> HIDE DEF s
    <2> QED
      BY <1>2, <1>3, <1>4, <2>1, NestedPush, PushFacts
  <1>8. WaitIds(t, e) = WaitIds(s, e) \cup {sent + 1}
    <2>1. WaitIds(t, e) = WaitIds(s, e) \cup (IF f.call = "wait" /\ f.e = e THEN {f.id} ELSE {})
      BY <1>2, <1>3, WaitIdsPush
    <2> QED
      BY <1>3, <2>1
  <1>9. ASSUME NEW g \in Endpoint, g # e PROVE WaitIds(t, g) = WaitIds(s, g)
    <2>1. WaitIds(t, g) = WaitIds(s, g) \cup (IF f.call = "wait" /\ f.e = g THEN {f.id} ELSE {})
      BY <1>2, <1>3, WaitIdsPush
    <2> QED
      BY <1>3, <1>9, <2>1
  <1>10. Ids(u) = Ids(r) \cup {sent + 1}
    <2>1. ToSet(u) = ToSet(r) \cup {x}
      BY <1>2, <1>3, PushFacts
    <2> QED
      BY <1>3, <2>1 DEF Ids
  <1>11. Ascending(u)
    <2>1. /\ Len(r) \in Nat /\ Len(u) = Len(r) + 1 /\ u[Len(r) + 1] = x
          /\ \A i \in 1 .. Len(r) : u[i] = r[i] /\ r[i] \in ToSet(r)
      <3>1. DOMAIN r = 1 .. Len(r)
        BY <1>2
      <3> QED
        BY <1>2, <1>3, <3>1, PushFacts DEF ToSet
    <2>2. Ascending(r)
      BY <1>0 DEF PendingMatched
    <2> HIDE DEF u, r
    <2> SUFFICES ASSUME NEW i \in 1 .. Len(r) + 1, NEW j \in 1 .. Len(r) + 1, i < j PROVE u[i].id < u[j].id
      BY <2>1 DEF Ascending
    <2>3. i \in 1 .. Len(r) /\ (j \in 1 .. Len(r) \/ j = Len(r) + 1)
      BY <2>1
    <2>4. CASE j \in 1 .. Len(r)
      BY <2>1, <2>2, <2>3, <2>4 DEF Ascending
    <2>5. CASE j = Len(r) + 1
      <3>1. u[i].id \in Nat /\ u[i].id <= sent
        BY <1>6, <2>1, <2>3
      <3> QED
        BY <1>2, <1>3, <2>1, <2>5, <3>1
    <2> QED
      BY <2>3, <2>4, <2>5
  <1> HIDE DEF t, u
  <1>12. \A q \in Process : stack'[q] = IF q = p THEN t ELSE stack[q]
    BY <1>2, <1>4
  <1>13. \A g \in Endpoint : m_pendingSyncReplies'[g] = IF g = e THEN u ELSE m_pendingSyncReplies[g]
    BY <1>0, <1>4 DEF TypeOK
  <1>14. CallsNested'
    BY <1>0, <1>7, <1>12 DEF CallsNested
  <1>15. PendingMatched'
    <2> SUFFICES ASSUME NEW g \in Endpoint
                 PROVE  LET v == m_pendingSyncReplies'[g] IN
                        /\ Ids(v) = WaitIds(stack'[ProcessOf(g)], g)
                        /\ Ascending(v) /\ \A id \in Ids(v) : id <= sent'
      BY DEF PendingMatched
    <2>0. \A y \in Ids(m_pendingSyncReplies[g]) : y \in Nat /\ y <= sent
      <3>1. m_pendingSyncReplies[g] \in Seq(Reply)
        BY <1>0 DEF TypeOK
      <3>2. \A y \in ToSet(m_pendingSyncReplies[g]) : y \in Reply
        BY <3>1 DEF ToSet
      <3> QED
        BY <1>0, <3>2 DEF PendingMatched, Ids, Reply
    <2>1. CASE g = e
      <3>1. Ids(r) = WaitIds(s, e)
        BY <1>0 DEF PendingMatched
      <3>2. Ids(u) = WaitIds(stack'[p], e)
        BY <1>1, <1>8, <1>10, <1>12, <3>1
      <3>3. \A id \in Ids(u) : id <= sent'
        BY <1>2, <1>4, <1>10, <2>0, <2>1
      <3> QED
        BY <1>11, <1>13, <2>1, <3>2, <3>3
    <2>2. CASE g # e
      <3>1. WaitIds(stack'[ProcessOf(g)], g) = WaitIds(stack[ProcessOf(g)], g)
        BY <1>9, <1>12, <2>2, EndpointFacts
      <3>2. \A id \in Ids(m_pendingSyncReplies[g]) : id <= sent'
        BY <1>2, <1>4, <2>0
      <3> QED
        BY <1>0, <1>13, <2>2, <3>1, <3>2 DEF PendingMatched
    <2> QED
      BY <2>1, <2>2
  <1>16. SignalledAt(p)'
    BY <1>1, <1>3, <1>7, <1>12 DEF SignalledAt, AboutToDispatch
  <1>17. (Asleep(p) => NothingFor(p))'
    BY <1>0, <1>1, <1>3, <1>4, <1>7, NotAsleep
  <1>18. ASSUME NEW q \in Process, q # p PROVE SignalledAt(q)' /\ (Asleep(q) => NothingFor(q))'
    <2>1. \A g \in Of(q) : g \in Endpoint /\ g # e
      BY <1>1, <1>18, OfFacts
    <2>2. \A g \in Of(q) : m_pendingSyncReplies'[g] = m_pendingSyncReplies[g]
      BY <1>13, <2>1
    <2> QED
      BY <1>0, <1>4, <1>12, <1>18, <2>2, SameProcess DEF Signalled, NoMissedWakeUp, processVars
  <1> QED
    BY <1>14, <1>15, <1>16, <1>17, <1>18 DEF Signalled, NoMissedWakeUp, Process

\* The steps that concern none of this.
LEMMA OthersKeep ==
  ASSUME IInv, stack' = stack, crashed \subseteq crashed',
         UNCHANGED <<m_pendingSyncReplies, m_shouldWaitForSyncReplies, m_isValid, toDispatch, semaphore>>,
         sent' = sent \/ sent' = sent + 1
  PROVE  CallsNested' /\ PendingMatched' /\ Signalled' /\ NoMissedWakeUp'
  <1>0. TypeOK /\ CallsNested /\ PendingMatched /\ Signalled /\ NoMissedWakeUp
    BY DEF IInv
  <1>1. CallsNested'
    BY <1>0 DEF CallsNested
  <1>2. PendingMatched'
    <2>1. \A g \in Endpoint : \A y \in Ids(m_pendingSyncReplies[g]) : y \in Nat /\ y <= sent
      <3> SUFFICES ASSUME NEW g \in Endpoint PROVE \A y \in Ids(m_pendingSyncReplies[g]) : y \in Nat /\ y <= sent
        OBVIOUS
      <3>1. m_pendingSyncReplies[g] \in Seq(Reply)
        BY <1>0 DEF TypeOK
      <3>2. \A y \in ToSet(m_pendingSyncReplies[g]) : y \in Reply
        BY <3>1 DEF ToSet
      <3> QED
        BY <1>0, <3>2 DEF PendingMatched, Ids, Reply
    <2>2. \A y \in Nat : y <= sent => y <= sent'
      BY <1>0 DEF TypeOK
    <2> QED
      BY <1>0, <2>1, <2>2 DEF PendingMatched
  <1>3. \A q \in Process : SignalledAt(q)' /\ (Asleep(q) => NothingFor(q))'
    BY <1>0, SameProcess DEF Signalled, NoMissedWakeUp
  <1> QED
    BY <1>1, <1>2, <1>3 DEF Signalled, NoMissedWakeUp, Process

\* Every step keeps the invariant.
LEMMA NextIInv == IInv /\ [Next]_vars => IInv'
  <1> SUFFICES ASSUME IInv, [Next]_vars PROVE IInv'
    OBVIOUS
  <1> DEFINE Preserved == CallsNested' /\ PendingMatched' /\ Signalled' /\ NoMissedWakeUp'
  <1>0. TypeOK'
    BY NextTypeOK DEF IInv
  <1>1. ASSUME NEW p \in Process, MainStep(p) \/ WaitTimesOut(p) PROVE Preserved
    BY <1>1, HandlerReturnsKeeps, DispatchMessagesKeeps, RunLoopTaskKeeps, WaitDispatchesKeeps,
       WaitTurnsKeeps, WaitEndsKeeps DEF MainStep
  <1>2. ASSUME NEW p \in Process, Crash(p) PROVE Preserved
    BY <1>2, OthersKeep DEF Crash, processVars
  <1>3. ASSUME NEW e \in Endpoint, QueueStep(e) PROVE Preserved
    <2>1. CASE PlatformInvalidate(e)
      BY <2>1, OthersKeep DEF PlatformInvalidate, processVars
    <2> QED
      BY <1>3, <2>1, ReceiveKeeps, DidCloseKeeps DEF QueueStep
  <1>4. ASSUME NEW e \in Endpoint, SendMessage(e) PROVE Preserved
    BY <1>4, OthersKeep DEF SendMessage, endpointVars, processVars
  <1>5. ASSUME NEW e \in Endpoint, SendSyncMessage(e) \/ Invalidate(e) PROVE Preserved
    BY <1>5, SendSyncKeeps, InvalidateKeeps
  <1>6. ASSUME UNCHANGED vars PROVE Preserved
    <2>1. /\ stack' = stack /\ crashed' = crashed /\ sent' = sent
          /\ UNCHANGED <<m_pendingSyncReplies, m_shouldWaitForSyncReplies, m_isValid, toDispatch, semaphore>>
      BY <1>6 DEF vars, endpointVars, processVars
    <2> QED
      BY <2>1, OthersKeep
  <1>7. Preserved
    <2> HIDE DEF Preserved
    <2>1. ASSUME Next PROVE Preserved
      BY <1>1, <1>2, <1>3, <1>4, <1>5, <2>1 DEF Next
    <2> QED
      BY <1>6, <2>1
  <1> QED
    BY <1>0, <1>7 DEF IInv

\* Nobody is in a call and nothing was sent.
LEMMA InitIInv == Init => IInv
  <1> SUFFICES ASSUME Init PROVE IInv
    OBVIOUS
  <1>1. Nested(<< >>) /\ ~Waits(<< >>) /\ Ascending(<< >>) /\ Ids(<< >>) = {}
        /\ \A e \in Endpoint : WaitIds(<< >>, e) = {}
    BY EmptyFacts DEF Nested, Waits, Ascending, Ids, WaitIds
  <1>2. /\ \A p \in Process : stack[p] = <<>>
        /\ \A e \in Endpoint : m_pendingSyncReplies[e] = <<>> /\ ProcessOf(e) \in Process
    BY EndpointFacts DEF Init, Const
  <1>3. CallsNested /\ PendingMatched
    BY <1>1, <1>2 DEF CallsNested, PendingMatched
  <1>4. Signalled /\ NoMissedWakeUp
    BY <1>1, <1>2 DEF Signalled, SignalledAt, NoMissedWakeUp, Asleep, In
  <1> QED
    BY <1>3, <1>4, InitTypeOK DEF IInv

\* The inductive invariant.
THEOREM IPCInvariance == Spec => []IInv
  BY InitIInv, NextIInv, PTL DEF Spec

\* A main thread asleep in waitForSyncReply() has nothing to wake up for, with any
\* number of processes and connections sharing semaphores, and waits nested in
\* handlers nested in waits.
THEOREM IPCMissesNoWakeUp == Spec => []NoMissedWakeUp
  BY IPCInvariance, PTL DEF IInv

-----------------------------------------------------------------------------
(* Requests. *)

\* What every step has to show.
LEMMA TrackStep ==
  ASSUME RequestsTracked,
         \A e \in Endpoint : ToSet(m_pendingSyncReplies'[e]) \subseteq ToSet(m_pendingSyncReplies[e]),
         \A e \in Endpoint : ToSet(wire[e]) \subseteq ToSet(wire'[e]),
         \A e \in Endpoint : (m_isConnected'[e] => m_isConnected[e]) /\ (m_isValid'[e] => m_isValid[e]),
         \A e \in Endpoint : \A id : m_isConnected[e] /\ m_isValid[e] /\ HasRequest(e, id) =>
                                       HasRequest(e, id)' \/ ReplyOnWire(e, id)'
  PROVE  RequestsTracked'
  <1> SUFFICES ASSUME NEW e \in Endpoint, NEW r \in ToSet(m_pendingSyncReplies'[e]), ~r.didReceiveReply, Open(e)'
               PROVE  RequestOnWire(e, r.id)' \/ HasRequest(PeerOf(e), r.id)' \/ ReplyOnWire(PeerOf(e), r.id)'
    BY DEF RequestsTracked
  <1>1. PeerOf(e) \in Endpoint
    BY EndpointFacts
  <1>2. Open(e) /\ m_isConnected[PeerOf(e)] /\ m_isValid[PeerOf(e)]
    BY <1>1 DEF Open
  <1>3. RequestOnWire(e, r.id) \/ HasRequest(PeerOf(e), r.id) \/ ReplyOnWire(PeerOf(e), r.id)
    BY <1>2 DEF RequestsTracked
  <1>4. RequestOnWire(e, r.id) => RequestOnWire(e, r.id)'
    BY DEF RequestOnWire
  <1>5. ReplyOnWire(PeerOf(e), r.id) => ReplyOnWire(PeerOf(e), r.id)'
    BY <1>1 DEF ReplyOnWire
  <1> QED
    BY <1>1, <1>2, <1>3, <1>4, <1>5

\* Who keeps its queues and adds to its calls keeps its requests.
LEMMA HasMore ==
  ASSUME NEW e, NEW id, HasRequest(e, id),
         ToSet(m_incomingMessages[e]) \subseteq ToSet(m_incomingMessages'[e]),
         ToSet(toDispatch[ProcessOf(e)]) \subseteq ToSet(toDispatch'[ProcessOf(e)]),
         ToSet(stack[ProcessOf(e)]) \subseteq ToSet(stack'[ProcessOf(e)])
  PROVE  HasRequest(e, id)'
  BY DEF HasRequest, Queued

\* A step of the main thread of p concerns no endpoint of another process.
LEMMA MainTracks ==
  ASSUME TypeOK, RequestsTracked, NEW p \in Process,
         \A e \in Endpoint : ToSet(m_pendingSyncReplies'[e]) \subseteq ToSet(m_pendingSyncReplies[e]),
         \A e \in Endpoint : ToSet(wire[e]) \subseteq ToSet(wire'[e]),
         m_isConnected' = m_isConnected, \A e \in Endpoint : m_isValid'[e] => m_isValid[e],
         \A q \in Process : q # p => stack'[q] = stack[q] /\ toDispatch'[q] = toDispatch[q],
         \A e \in Endpoint : ProcessOf(e) # p => m_incomingMessages'[e] = m_incomingMessages[e],
         \A e \in Of(p) : \A id : m_isConnected[e] /\ m_isValid[e] /\ HasRequest(e, id) =>
                                       HasRequest(e, id)' \/ ReplyOnWire(e, id)'
  PROVE  RequestsTracked'
  <1>1. ASSUME NEW e \in Endpoint, NEW id, m_isConnected[e] /\ m_isValid[e] /\ HasRequest(e, id)
        PROVE  HasRequest(e, id)' \/ ReplyOnWire(e, id)'
    <2>1. CASE ProcessOf(e) = p
      BY <1>1, <2>1 DEF Of
    <2>2. CASE ProcessOf(e) # p
      <3>1. ProcessOf(e) \in Process
        BY EndpointFacts
      <3> QED
        BY <1>1, <2>2, <3>1, HasMore
    <2> QED
      BY <2>1, <2>2
  <1> QED
    BY <1>1, TrackStep

\* What Transmit() puts on the wire.
LEMMA TransmitAdds ==
  ASSUME TypeOK, NEW e \in Endpoint, NEW m \in Msg, Transmit(e, m)
  PROVE  /\ \A g \in Endpoint : ToSet(wire[g]) \subseteq ToSet(wire'[g])
         /\ m_isConnected[e] => m \in ToSet(wire'[e])
  <1>1. wire \in [Endpoint -> Seq(Msg)] /\ wire[e] \in Seq(Msg)
    BY DEF TypeOK
  <1>2. ToSet(Append(wire[e], m)) = ToSet(wire[e]) \cup {m}
    BY <1>1, PushFacts
  <1>3. CASE m_isConnected[e]
    <2>1. wire'[e] = Append(wire[e], m) /\ \A g \in Endpoint : g # e => wire'[g] = wire[g]
      BY <1>1, <1>3 DEF Transmit, Push
    <2> QED
      BY <1>2, <2>1
  <1>4. CASE ~m_isConnected[e]
    BY <1>4 DEF Transmit
  <1> QED
    BY <1>3, <1>4

\* The handler of a request replies.
LEMMA HandlerReturnsTracks ==
  ASSUME TypeOK, RequestsTracked, NEW p \in Process, HandlerReturns(p)
  PROVE  RequestsTracked'
  <1> DEFINE s == stack[p]
             h == Top(p)
             m == Message("reply", h.m.id, FALSE)
  <1>1. s # <<>> /\ h = Last(s) /\ h.call = "handler"
    BY DEF HandlerReturns, In, Top
  <1>2. h \in Handler(p) /\ s \in Seq(Frame(p)) /\ DOMAIN stack = Process
    BY <1>1, TopFacts, FrameKinds DEF TypeOK
  <1>3. h.e \in Of(p) /\ h.e \in Endpoint /\ h.m \in Msg /\ m \in Msg
    <2>1. h.e \in Of(p) /\ h.m \in Msg
      BY <1>2 DEF Handler
    <2>2. h.m.id \in Nat
      BY <2>1 DEF Msg
    <2> QED
      BY <2>1, <2>2, OfFacts, MessageTypes
  <1>4. /\ IF h.m.kind = "sync" /\ m_isValid[h.e] THEN Transmit(h.e, m) ELSE UNCHANGED wire
        /\ stack' = [stack EXCEPT ![p] = Front(s)]
        /\ UNCHANGED <<m_isValid, m_isConnected, m_pendingSyncReplies, m_incomingMessages, toDispatch>>
    BY DEF HandlerReturns, processVars
  <1>5. \A g \in Endpoint : ToSet(wire[g]) \subseteq ToSet(wire'[g])
    <2> HIDE DEF h, m
    <2> QED
      BY <1>3, <1>4, TransmitAdds
  <1>6. ToSet(s) = ToSet(Front(s)) \cup {h}
    BY <1>1, <1>2, FrontFacts
  <1>7. stack'[p] = Front(s) /\ \A q \in Process : q # p => stack'[q] = stack[q]
    BY <1>2, <1>4
  <1>8. ASSUME NEW e \in Of(p), NEW id, m_isConnected[e] /\ m_isValid[e] /\ HasRequest(e, id)
        PROVE  HasRequest(e, id)' \/ ReplyOnWire(e, id)'
    <2>1. ProcessOf(e) = p
      BY OfFacts
    <2>2. CASE InCall(h, e, id)
      <3>1. h.e = e /\ h.m.kind = "sync" /\ h.m.id = id
        BY <1>1, <2>2 DEF InCall, Request
      <3>2. m \in ToSet(wire'[e])
        <4> HIDE DEF m
        <4> QED
          BY <1>3, <1>4, <1>8, <3>1, TransmitAdds
      <3>3. m.kind = "reply" /\ m.id = id
        BY <3>1 DEF Message
      <3> QED
        BY <3>2, <3>3 DEF ReplyOnWire
    <2>3. CASE ~InCall(h, e, id)
      <3> HIDE DEF h, m
      <3> QED
        BY <1>4, <1>6, <1>7, <1>8, <2>1, <2>3 DEF HasRequest
    <2> QED
      BY <2>2, <2>3
  <1> QED
    BY <1>4, <1>5, <1>7, <1>8, MainTracks

\* A batch moves on, and loses none of its messages.
LEMMA DispatchMessagesTracks ==
  ASSUME TypeOK, RequestsTracked, CallsNested, NEW p \in Process, DispatchMessages(p)
  PROVE  RequestsTracked'
  <1> DEFINE s == stack[p]
             b == Top(p)
             x == Head(b.messages)
             rest == [b EXCEPT !.messages = Tail(@)]
             put == [rest EXCEPT !.putBack = Append(@, x)]
             h == [call |-> "handler", e |-> x.e, m |-> x.m]
  <1>1. s # <<>> /\ b = Last(s) /\ b.call = "dispatchMessages"
    BY DEF DispatchMessages, In, Top
  <1>2. b \in Batches(p) /\ s \in Seq(Frame(p)) /\ DOMAIN stack = Process
    BY <1>1, TopFacts, FrameKinds DEF TypeOK
  <1>3. UNCHANGED <<m_isValid, m_isConnected, m_pendingSyncReplies, m_incomingMessages, wire>>
    BY DEF DispatchMessages
  <1>4. ToSet(s) = ToSet(Front(s)) \cup {b} /\ Front(s) \in Seq(Frame(p))
    BY <1>1, <1>2, FrontFacts
  <1>5. b.messages \in Seq(Item(p)) /\ b.putBack \in Seq(Item(p))
    BY <1>2 DEF Batches
  <1>6. ASSUME ToSet(Front(s)) \subseteq ToSet(stack'[p]),
               ToSet(toDispatch[p]) \subseteq ToSet(toDispatch'[p]),
               \A q \in Process : q # p => stack'[q] = stack[q] /\ toDispatch'[q] = toDispatch[q],
               \A e \in Of(p) : \A id : m_isValid[e] /\ InCall(b, e, id) => HasRequest(e, id)'
        PROVE  RequestsTracked'
    <2>1. ASSUME NEW e \in Of(p), NEW id, m_isConnected[e] /\ m_isValid[e] /\ HasRequest(e, id)
          PROVE  HasRequest(e, id)' \/ ReplyOnWire(e, id)'
      <3>1. ProcessOf(e) = p
        BY OfFacts
      <3>2. CASE InCall(b, e, id)
        BY <1>6, <2>1, <3>2
      <3>3. CASE ~InCall(b, e, id)
        <4> HIDE DEF b, s
        <4>1. CASE \E m \in ToSet(m_incomingMessages[e]) : Request(m, id)
          BY <1>3, <4>1 DEF HasRequest
        <4>2. CASE Queued(toDispatch[p], e, id)
          BY <1>6, <3>1, <4>2 DEF HasRequest, Queued
        <4>3. CASE \E c \in ToSet(stack[p]) : InCall(c, e, id)
          BY <1>4, <1>6, <3>1, <3>3, <4>3 DEF HasRequest, s
        <4> QED
          BY <2>1, <3>1, <4>1, <4>2, <4>3 DEF HasRequest
      <3> QED
        BY <3>2, <3>3
    <2> QED
      BY <1>3, <1>6, <2>1, MainTracks
  <1>7. CASE b.messages # <<>> /\ stack' = ReplaceTop(p, put) /\ UNCHANGED toDispatch
    <2>1. put \in Frame(p) /\ put.call = "dispatchMessages"
      BY <1>2, <1>7, BatchTypes DEF Frame, Batches
    <2>2. put.messages = Tail(b.messages) /\ put.putBack = Append(b.putBack, x)
      BY <1>2 DEF Batches
    <2>3. ToSet(b.messages) = {x} \cup ToSet(put.messages)
      BY <1>5, <1>7, <2>2, TailFacts
    <2>4. ToSet(put.putBack) = ToSet(b.putBack) \cup {x}
      <3>1. x \in Item(p)
        BY <1>5, <1>7, TailFacts
      <3> HIDE DEF x, put
      <3> QED
        BY <1>5, <2>2, <3>1, PushFacts
    <2> HIDE DEF put, x, b
    <2>5. ToSet(Append(Front(s), put)) = ToSet(Front(s)) \cup {put}
      BY <1>4, <2>1, PushFacts
    <2>6. stack'[p] = Append(Front(s), put) /\ \A q \in Process : q # p => stack'[q] = stack[q]
      BY <1>2, <1>7 DEF ReplaceTop
    <2>7. ASSUME NEW e \in Of(p), NEW id, InCall(b, e, id) PROVE HasRequest(e, id)'
      <3>1. InCall(put, e, id)
        BY <1>1, <2>1, <2>3, <2>4, <2>7 DEF InCall, Queued
      <3>2. ProcessOf(e) = p /\ put \in ToSet(stack'[p])
        BY <2>5, <2>6, OfFacts
      <3> QED
        BY <3>1, <3>2 DEF HasRequest
    <2> QED
      BY <1>6, <1>7, <2>5, <2>6, <2>7
  <1>8. CASE b.messages # <<>> /\ DispatchMessage(p, x.e, x.m, Append(Front(s), rest)) /\ UNCHANGED toDispatch
    <2> DEFINE k == Append(Front(s), rest)
    <2>1. rest \in Frame(p) /\ rest.call = "dispatchMessages" /\ x.e \in Of(p) /\ x.m \in Msg
      BY <1>2, <1>8, BatchTypes DEF Frame, Batches
    <2>2. rest.messages = Tail(b.messages) /\ rest.putBack = b.putBack
      BY <1>2 DEF Batches
    <2>3. ToSet(b.messages) = {x} \cup ToSet(rest.messages)
      BY <1>5, <1>8, <2>2, TailFacts
    <2>4. h \in Frame(p) /\ h.call = "handler" /\ h.e = x.e /\ h.m = x.m
      BY <2>1 DEF Frame, Handler
    <2>5. /\ m_isValid[x.e] => stack' = [stack EXCEPT ![p] = Append(k, h)]
          /\ ~m_isValid[x.e] => stack' = [stack EXCEPT ![p] = k]
      BY <1>8 DEF DispatchMessage
    <2> HIDE DEF rest, x, b, h
    <2>6. k \in Seq(Frame(p)) /\ ToSet(k) = ToSet(Front(s)) \cup {rest}
      BY <1>4, <2>1, PushFacts
    <2> HIDE DEF k
    <2>7. ToSet(Append(k, h)) = ToSet(k) \cup {h}
      BY <2>4, <2>6, PushFacts
    <2>8. /\ ToSet(k) \subseteq ToSet(stack'[p]) /\ (m_isValid[x.e] => h \in ToSet(stack'[p]))
          /\ \A q \in Process : q # p => stack'[q] = stack[q]
      BY <1>2, <2>5, <2>7
    <2>9. ASSUME NEW e \in Of(p), NEW id, m_isValid[e] /\ InCall(b, e, id) PROVE HasRequest(e, id)'
      <3>1. InCall(rest, e, id) \/ (x.e = e /\ Request(x.m, id))
        BY <1>1, <2>1, <2>2, <2>3, <2>9 DEF InCall, Queued
      <3>2. InCall(rest, e, id) \/ (m_isValid[x.e] /\ InCall(h, e, id))
        BY <2>4, <2>9, <3>1 DEF InCall
      <3>3. ProcessOf(e) = p
        BY OfFacts
      <3> QED
        BY <2>6, <2>8, <3>2, <3>3 DEF HasRequest
    <2> QED
      BY <1>6, <1>8, <2>6, <2>8, <2>9
  <1>9. CASE /\ b.messages = <<>> /\ toDispatch' = [toDispatch EXCEPT ![p] = @ \o b.putBack]
             /\ stack' = [stack EXCEPT ![p] = Front(@)]
    <2>1. DOMAIN toDispatch = Process /\ toDispatch[p] \in Seq(Item(p))
      BY DEF TypeOK
    <2> HIDE DEF b
    <2>2. /\ toDispatch'[p] = toDispatch[p] \o b.putBack /\ stack'[p] = Front(s)
          /\ \A q \in Process : q # p => stack'[q] = stack[q] /\ toDispatch'[q] = toDispatch[q]
      BY <1>2, <1>9, <2>1
    <2>3. ToSet(toDispatch'[p]) = ToSet(toDispatch[p]) \cup ToSet(b.putBack)
      BY <1>5, <2>1, <2>2, ConcatFacts
    <2>4. ASSUME NEW e \in Of(p), NEW id, InCall(b, e, id) PROVE HasRequest(e, id)'
      <3>1. ProcessOf(e) = p /\ ToSet(b.messages) = {}
        BY <1>9, OfFacts, EmptyFacts
      <3>2. Queued(b.putBack, e, id)
        BY <1>1, <2>4, <3>1 DEF InCall, Queued
      <3> QED
        BY <2>3, <3>1, <3>2 DEF HasRequest, Queued
    <2> QED
      BY <1>6, <2>2, <2>3, <2>4
  <1> QED
    BY <1>7, <1>8, <1>9 DEF DispatchMessages

\* The run loop hands what it takes to a handler or to a batch.
LEMMA RunLoopTaskTracks ==
  ASSUME TypeOK, RequestsTracked, NEW p \in Process, RunLoopTask(p)
  PROVE  RequestsTracked'
  <1> DEFINE t == Head(runLoop[p])
             g == t.e
             w == m_incomingMessages[g]
             h == [call |-> "handler", e |-> g, m |-> Head(w)]
             z == stack[p]
  <1>0. /\ z = <<>> /\ z \in Seq(Frame(p)) /\ DOMAIN stack = Process /\ ToSet(z) = {} /\ runLoop[p] # <<>>
        /\ DOMAIN toDispatch = Process
    BY EmptyFacts DEF TypeOK, RunLoopTask
  <1>0a. z \in Seq(Frame(p))
    BY <1>0
  <1>1. g \in Of(p) /\ g \in Endpoint /\ w \in Seq(Msg)
    <2>1. t \in LoopTask(p)
      BY <1>0, TailFacts DEF TypeOK
    <2> QED
      BY <2>1, OfFacts DEF LoopTask, TypeOK
  <1>2. UNCHANGED <<m_isConnected, m_pendingSyncReplies, wire>>
    BY DEF RunLoopTask
  <1>3. ASSUME NEW e \in Of(p), NEW id, HasRequest(e, id)
        PROVE  /\ ProcessOf(e) = p
               /\ (\E m \in ToSet(m_incomingMessages[e]) : Request(m, id)) \/ Queued(toDispatch[p], e, id)
    BY <1>0, <1>3, OfFacts DEF HasRequest
  <1>4. CASE UNCHANGED <<stack, toDispatch, m_incomingMessages>> /\ \A e \in Endpoint : m_isValid'[e] => m_isValid[e]
    <2>1. \A e \in Of(p) : \A id : HasRequest(e, id) => HasRequest(e, id)'
      BY <1>4 DEF HasRequest
    <2> QED
      BY <1>2, <1>4, <2>1, MainTracks
  <1>5. CASE /\ w # <<>> /\ m_incomingMessages' = [m_incomingMessages EXCEPT ![g] = Tail(@)]
             /\ DispatchMessage(p, g, Head(w), <<>>) /\ UNCHANGED <<m_isValid, toDispatch>>
    <2>1. ToSet(w) = {Head(w)} \cup ToSet(Tail(w)) /\ Head(w) \in Msg
      BY <1>1, <1>5, TailFacts
    <2>2. m_incomingMessages'[g] = Tail(w) /\ \A e \in Endpoint : e # g => m_incomingMessages'[e] = m_incomingMessages[e]
      BY <1>1, <1>5 DEF TypeOK
    <2>3. h \in Frame(p) /\ h.call = "handler" /\ h.e = g /\ h.m = Head(w)
      BY <1>1, <2>1 DEF Frame, Handler
    <2>4. /\ m_isValid[g] => stack' = [stack EXCEPT ![p] = Append(z, h)]
          /\ ~m_isValid[g] => stack' = [stack EXCEPT ![p] = z]
      BY <1>0, <1>5 DEF DispatchMessage
    <2> HIDE DEF h, z, w, g
    <2>5. ToSet(Append(z, h)) = ToSet(z) \cup {h}
      BY <1>0a, <2>3, PushFacts
    <2>6. (m_isValid[g] => h \in ToSet(stack'[p])) /\ \A q \in Process : q # p => stack'[q] = stack[q]
      BY <1>0, <2>4, <2>5
    <2>7. ASSUME NEW e \in Of(p), NEW id, m_isConnected[e] /\ m_isValid[e] /\ HasRequest(e, id)
          PROVE  HasRequest(e, id)'
      <3>1. CASE Queued(toDispatch[p], e, id)
        BY <1>3, <1>5, <2>7, <3>1 DEF HasRequest
      <3>2. CASE \E m \in ToSet(m_incomingMessages[e]) : Request(m, id)
        <4>0. e \in Endpoint /\ ProcessOf(e) = p
          BY OfFacts
        <4>1. CASE e = g /\ Request(Head(w), id)
          <5>1. InCall(h, e, id)
            BY <2>3, <4>1 DEF InCall
          <5> QED
            BY <2>6, <2>7, <4>0, <4>1, <5>1 DEF HasRequest
        <4>2. CASE ~(e = g /\ Request(Head(w), id))
          BY <2>1, <2>2, <3>2, <4>0, <4>2 DEF HasRequest, w
        <4> QED
          BY <4>1, <4>2
      <3> QED
        BY <1>3, <2>7, <3>1, <3>2
    <2>8. \A e \in Endpoint : ProcessOf(e) # p => m_incomingMessages'[e] = m_incomingMessages[e]
      BY <1>1, <2>2, OfFacts
    <2> QED
      BY <1>2, <1>5, <2>6, <2>7, <2>8, MainTracks
  <1>6. CASE /\ stack' = Push(stack, p, Batch(p, g)) /\ toDispatch' = [toDispatch EXCEPT ![p] = <<>>]
             /\ UNCHANGED <<m_isValid, m_incomingMessages>>
    <2> DEFINE b == Batch(p, g)
    <2>1. b \in Frame(p) /\ b.call = "dispatchMessages" /\ b.messages = toDispatch[p]
      BY <1>1, NewBatchTypes DEF Batch
    <2>2. stack' = [stack EXCEPT ![p] = Append(z, b)]
      BY <1>6 DEF Push
    <2> HIDE DEF b, z, g
    <2>3. ToSet(Append(z, b)) = ToSet(z) \cup {b}
      BY <1>0a, <2>1, PushFacts
    <2>4. b \in ToSet(stack'[p]) /\ \A q \in Process : q # p => stack'[q] = stack[q] /\ toDispatch'[q] = toDispatch[q]
      BY <1>0, <1>6, <2>2, <2>3
    <2>5. ASSUME NEW e \in Of(p), NEW id, m_isConnected[e] /\ m_isValid[e] /\ HasRequest(e, id)
          PROVE  HasRequest(e, id)'
      <3>1. CASE Queued(toDispatch[p], e, id)
        BY <1>3, <2>1, <2>4, <2>5, <3>1 DEF HasRequest, InCall
      <3>2. CASE \E m \in ToSet(m_incomingMessages[e]) : Request(m, id)
        BY <1>6, <3>2 DEF HasRequest
      <3> QED
        BY <1>3, <2>5, <3>1, <3>2
    <2> QED
      BY <1>2, <1>6, <2>4, <2>5, MainTracks
  <1>7. CASE m_isValid' = [m_isValid EXCEPT ![g] = FALSE] /\ UNCHANGED <<stack, m_incomingMessages, toDispatch>>
    <2>1. \A e \in Endpoint : m_isValid'[e] => m_isValid[e]
      BY <1>7 DEF TypeOK
    <2> QED
      BY <1>4, <1>7, <2>1
  <1> QED
    BY <1>4, <1>5, <1>6, <1>7 DEF RunLoopTask

\* A wait moves on; what was to be dispatched goes to its batch.
LEMMA WaitDispatchesTracks ==
  ASSUME TypeOK, RequestsTracked, NEW p \in Process, WaitDispatches(p)
  PROVE  RequestsTracked'
  <1> DEFINE s == stack[p]
             f == [Top(p) EXCEPT !.at = "check"]
             k == Append(Front(s), f)
             b == Batch(p, Nobody)
  <1>1. /\ s # <<>> /\ Top(p) = Last(s) /\ Last(s).call = "wait" /\ s \in Seq(Frame(p))
        /\ DOMAIN stack = Process /\ DOMAIN toDispatch = Process
    BY DEF WaitDispatches, In, Top, TypeOK
  <1>2. Top(p) \in Wait(p)
    BY <1>1, TopFacts, FrameKinds
  <1>3. f \in Frame(p)
    BY <1>2, WaitTypes
  <1>4. b \in Frame(p) /\ b.call = "dispatchMessages" /\ b.messages = toDispatch[p]
    BY NewBatchTypes DEF Batch
  <1>5. /\ stack' = [stack EXCEPT ![p] = Append(k, b)] /\ toDispatch' = [toDispatch EXCEPT ![p] = <<>>]
        /\ UNCHANGED <<m_isConnected, m_isValid, m_pendingSyncReplies, m_incomingMessages, wire>>
    BY DEF WaitDispatches, endpointVars
  <1> HIDE DEF f, b
  <1>6. Front(s) \in Seq(Frame(p)) /\ ToSet(s) = ToSet(Front(s)) \cup {Last(s)}
    BY <1>1, FrontFacts
  <1>7. k \in Seq(Frame(p)) /\ ToSet(k) = ToSet(Front(s)) \cup {f}
    BY <1>3, <1>6, PushFacts
  <1> HIDE DEF k
  <1>8. ToSet(Append(k, b)) = ToSet(k) \cup {b}
    BY <1>4, <1>7, PushFacts
  <1>9. /\ ToSet(Front(s)) \cup {b} \subseteq ToSet(stack'[p])
        /\ \A q \in Process : q # p => stack'[q] = stack[q] /\ toDispatch'[q] = toDispatch[q]
    BY <1>1, <1>5, <1>7, <1>8
  <1>10. ASSUME NEW e \in Of(p), NEW id, HasRequest(e, id) PROVE HasRequest(e, id)'
    <2>0. ProcessOf(e) = p /\ ~InCall(Last(s), e, id)
      BY <1>1, OfFacts DEF InCall
    <2>1. CASE \E m \in ToSet(m_incomingMessages[e]) : Request(m, id)
      BY <1>5, <2>1 DEF HasRequest
    <2>2. CASE Queued(toDispatch[p], e, id)
      BY <1>4, <1>9, <2>0, <2>2 DEF HasRequest, InCall
    <2>3. CASE \E c \in ToSet(s) : InCall(c, e, id)
      BY <1>6, <1>9, <2>0, <2>3 DEF HasRequest
    <2> QED
      BY <1>10, <2>0, <2>1, <2>2, <2>3 DEF HasRequest
  <1> QED
    BY <1>5, <1>9, <1>10, MainTracks

\* The other steps of a wait change that wait alone, or end it with its request.
LEMMA WaitsTrack ==
  ASSUME IInv, RequestsTracked, NEW p \in Process, WaitChecks(p) \/ WaitWakes(p) \/ WaitTimesOut(p)
  PROVE  RequestsTracked'
  <1> DEFINE s == stack[p]
             g == Top(p).e
             v == m_pendingSyncReplies[g]
  <1>0. TypeOK /\ CallsNested /\ PendingMatched
    BY DEF IInv
  <1>1. /\ s # <<>> /\ Top(p) = Last(s) /\ Last(s).call = "wait" /\ s \in Seq(Frame(p)) /\ DOMAIN stack = Process
    BY <1>0 DEF WaitChecks, WaitWakes, WaitTimesOut, In, Top, TypeOK
  <1>2. Top(p) \in Wait(p) /\ g \in Endpoint /\ v # <<>> /\ v \in Seq(Reply)
        /\ m_pendingSyncReplies \in [Endpoint -> Seq(Reply)]
    BY <1>0, <1>1, PendingTop DEF TypeOK
  <1>3. UNCHANGED <<m_isConnected, m_isValid, m_incomingMessages, wire, toDispatch>>
    BY DEF WaitChecks, WaitWakes, WaitTimesOut, endpointVars, processVars
  <1>4. Front(s) \in Seq(Frame(p)) /\ ToSet(s) = ToSet(Front(s)) \cup {Last(s)}
    BY <1>1, FrontFacts
  <1>5. ASSUME ToSet(Front(s)) \subseteq ToSet(stack'[p]), \A q \in Process : q # p => stack'[q] = stack[q],
               \A e \in Endpoint : ToSet(m_pendingSyncReplies'[e]) \subseteq ToSet(m_pendingSyncReplies[e])
        PROVE  RequestsTracked'
    <2>1. ASSUME NEW e \in Of(p), NEW id, HasRequest(e, id) PROVE HasRequest(e, id)'
      <3>1. ProcessOf(e) = p /\ ~InCall(Last(s), e, id)
        BY <1>1, OfFacts DEF InCall
      <3> QED
        BY <1>3, <1>4, <1>5, <2>1, <3>1 DEF HasRequest
    <2> QED
      BY <1>0, <1>3, <1>5, <2>1, MainTracks
  <1>6. ASSUME NEW l \in {"dispatch", "check", "semaphore"}, stack' = ReplaceTop(p, [Top(p) EXCEPT !.at = l]),
               UNCHANGED m_pendingSyncReplies
        PROVE  RequestsTracked'
    <2> DEFINE f == [Top(p) EXCEPT !.at = l]
    <2>1. f \in Frame(p)
      BY <1>2, WaitTypes
    <2> HIDE DEF f
    <2>2. ToSet(Append(Front(s), f)) = ToSet(Front(s)) \cup {f}
      BY <1>4, <2>1, PushFacts
    <2>3. stack'[p] = Append(Front(s), f) /\ \A q \in Process : q # p => stack'[q] = stack[q]
      BY <1>1, <1>6 DEF ReplaceTop, f
    <2> QED
      BY <1>5, <1>6, <2>2, <2>3
  <1>7. CASE WaitEnds(p)
    <2>1. m_pendingSyncReplies' = [m_pendingSyncReplies EXCEPT ![g] = Front(v)] /\ stack' = [stack EXCEPT ![p] = Front(s)]
      BY <1>7 DEF WaitEnds
    <2>2. ToSet(Front(v)) \subseteq ToSet(v)
      BY <1>2, FrontFacts
    <2> HIDE DEF g
    <2>3. \A e \in Endpoint : ToSet(m_pendingSyncReplies'[e]) \subseteq ToSet(m_pendingSyncReplies[e])
      BY <1>2, <2>1, <2>2
    <2>4. stack'[p] = Front(s) /\ \A q \in Process : q # p => stack'[q] = stack[q]
      BY <1>1, <2>1
    <2> QED
      BY <1>5, <2>3, <2>4
  <1>8. CASE WaitWakes(p)
    BY <1>6, <1>8 DEF WaitWakes, endpointVars
  <1>9. CASE WaitChecks(p) /\ ~WaitEnds(p)
    BY <1>6, <1>9 DEF WaitChecks
  <1> QED
    BY <1>7, <1>8, <1>9 DEF WaitTimesOut

\* A reply that arrives is stored; a request is queued.
LEMMA ReceiveTracks ==
  ASSUME TypeOK, RequestsTracked, NEW g \in Endpoint, Receive(g)
  PROVE  RequestsTracked'
  <1> DEFINE d == PeerOf(g)
             w == wire[d]
             x == Head(w)
             p == ProcessOf(g)
  <1>0. wire \in [Endpoint -> Seq(Msg)] /\ d \in Endpoint /\ PeerOf(d) = g /\ p \in Process /\ g \in Of(p)
    BY EndpointFacts DEF TypeOK
  <1>1. w # <<>> /\ w \in Seq(Msg) /\ wire' = [wire EXCEPT ![d] = Tail(w)]
        /\ UNCHANGED <<m_isValid, m_isConnected, stack>>
    BY <1>0 DEF Receive
  <1>2. ToSet(w) = {x} \cup ToSet(Tail(w)) /\ x \in Msg
    BY <1>1, TailFacts
  <1>3. IF x.kind = "reply" THEN ProcessIncomingSyncReply(g, x.id) ELSE ProcessIncomingMessage(g, x)
    BY DEF Receive
  <1> HIDE DEF x
  <1>4. \A e \in Endpoint : \A m \in ToSet(wire[e]) : m \in ToSet(wire'[e]) \/ (e = d /\ m = x)
    BY <1>0, <1>1, <1>2
  <1> HIDE DEF d, w
  <1>5. \A e \in Endpoint : Open(e)' <=> Open(e)
    BY <1>1 DEF Open
  <1>6. CASE x.kind = "reply"
    <2> DEFINE s == m_pendingSyncReplies[g]
               u == m_pendingSyncReplies'[g]
    <2>1. /\ s \in Seq(Reply) /\ u \in Seq(Reply) /\ Len(s) \in Nat /\ Len(u) = Len(s)
          /\ \A i \in 1 .. Len(s) : /\ u[i].id = s[i].id
                                    /\ s[i].id # x.id => u[i] = s[i]
                                    /\ s[i].id = x.id => u[i].didReceiveReply
          /\ \A e \in Endpoint : e # g => m_pendingSyncReplies'[e] = m_pendingSyncReplies[e]
          /\ UNCHANGED <<toDispatch, m_incomingMessages>>
      <3>1. ProcessIncomingSyncReply(g, x.id)
        BY <1>3, <1>6
      <3> QED
        BY <3>1, ReplyFacts
    <2>2. \A r \in ToSet(u) : r.didReceiveReply \/ (r \in ToSet(s) /\ r.id # x.id)
      <3>1. DOMAIN s = 1 .. Len(s) /\ DOMAIN u = 1 .. Len(s)
        BY <2>1
      <3>2. ASSUME NEW i \in 1 .. Len(s) PROVE u[i].didReceiveReply \/ (u[i] = s[i] /\ s[i].id # x.id)
        BY <2>1
      <3> HIDE DEF s, u
      <3>3. \A i \in 1 .. Len(s) : s[i] \in ToSet(s)
        BY <3>1 DEF ToSet
      <3> QED
        BY <3>1, <3>2, <3>3 DEF ToSet
    <2>3. ASSUME NEW e \in Endpoint, NEW r \in ToSet(m_pendingSyncReplies'[e]), ~r.didReceiveReply, Open(e)'
          PROVE  RequestOnWire(e, r.id)' \/ HasRequest(PeerOf(e), r.id)' \/ ReplyOnWire(PeerOf(e), r.id)'
      <3>1. r \in ToSet(m_pendingSyncReplies[e]) /\ (e = g => r.id # x.id)
        BY <2>1, <2>2, <2>3
      <3>2. RequestOnWire(e, r.id) \/ HasRequest(PeerOf(e), r.id) \/ ReplyOnWire(PeerOf(e), r.id)
        BY <1>5, <2>3, <3>1 DEF RequestsTracked
      <3>3. RequestOnWire(e, r.id) => RequestOnWire(e, r.id)'
        BY <1>4, <1>6 DEF RequestOnWire, Request
      <3>4. HasRequest(PeerOf(e), r.id) => HasRequest(PeerOf(e), r.id)'
        BY <1>1, <2>1 DEF HasRequest
      <3>5. PeerOf(e) \in Endpoint /\ (PeerOf(e) = d => e = g)
        BY <1>0, EndpointFacts
      <3>6. ReplyOnWire(PeerOf(e), r.id) => ReplyOnWire(PeerOf(e), r.id)'
        BY <1>4, <3>1, <3>5 DEF ReplyOnWire
      <3> QED
        BY <3>2, <3>3, <3>4, <3>6
    <2> QED
      BY <2>3 DEF RequestsTracked
  <1>7. CASE x.kind # "reply"
    <2>1. ProcessIncomingMessage(g, x)
      BY <1>3, <1>7
    <2>2. UNCHANGED m_pendingSyncReplies
      BY <2>1 DEF ProcessIncomingMessage
    <2>3. /\ \A e \in Endpoint : /\ ToSet(m_incomingMessages[e]) \subseteq ToSet(m_incomingMessages'[e])
                                 /\ ToSet(toDispatch[ProcessOf(e)]) \subseteq ToSet(toDispatch'[ProcessOf(e)])
          /\ x \in ToSet(m_incomingMessages'[g]) \/ [e |-> g, m |-> x] \in ToSet(toDispatch'[p])
      <3> DEFINE y == [e |-> g, m |-> x]
      <3>1. CASE x.marked
        <4>1. toDispatch' = [toDispatch EXCEPT ![p] = Append(@, y)] /\ UNCHANGED m_incomingMessages
          BY <2>1, <3>1 DEF ProcessIncomingMessage, Push
        <4>2. y \in Item(p) /\ toDispatch[p] \in Seq(Item(p)) /\ DOMAIN toDispatch = Process
          BY <1>0, <1>2 DEF Item, TypeOK
        <4> HIDE DEF y, p
        <4>3. ToSet(Append(toDispatch[p], y)) = ToSet(toDispatch[p]) \cup {y}
          BY <4>2, PushFacts
        <4>4. \A e \in Endpoint : ProcessOf(e) \in Process
          BY EndpointFacts
        <4>5. \A q \in Process : toDispatch'[q] = IF q = p THEN Append(toDispatch[p], y) ELSE toDispatch[q]
          BY <4>1, <4>2
        <4> QED
          BY <1>0, <4>1, <4>3, <4>4, <4>5 DEF y
      <3>2. CASE ~x.marked
        <4>1. m_incomingMessages' = [m_incomingMessages EXCEPT ![g] = Append(@, x)] /\ UNCHANGED toDispatch
          BY <2>1, <3>2 DEF ProcessIncomingMessage, Push
        <4>2. m_incomingMessages \in [Endpoint -> Seq(Msg)]
          BY DEF TypeOK
        <4>3. ToSet(Append(m_incomingMessages[g], x)) = ToSet(m_incomingMessages[g]) \cup {x}
          BY <1>2, <4>2, PushFacts
        <4> QED
          BY <4>1, <4>2, <4>3
      <3> QED
        BY <3>1, <3>2
    <2>4. ASSUME NEW e \in Endpoint, NEW r \in ToSet(m_pendingSyncReplies[e]), ~r.didReceiveReply, Open(e)
          PROVE  RequestOnWire(e, r.id)' \/ HasRequest(PeerOf(e), r.id)' \/ ReplyOnWire(PeerOf(e), r.id)'
      <3>1. RequestOnWire(e, r.id) \/ HasRequest(PeerOf(e), r.id) \/ ReplyOnWire(PeerOf(e), r.id)
        BY <2>4 DEF RequestsTracked
      <3>2. PeerOf(e) \in Endpoint /\ (e = d => PeerOf(e) = g)
        BY <1>0, EndpointFacts
      <3>3. CASE RequestOnWire(e, r.id)
        <4>1. RequestOnWire(e, r.id)' \/ (e = d /\ Request(x, r.id))
          BY <1>4, <3>3 DEF RequestOnWire
        <4>2. Request(x, r.id) => HasRequest(g, r.id)'
          <5>1. CASE x \in ToSet(m_incomingMessages'[g])
            BY <5>1 DEF HasRequest
          <5>2. CASE [e |-> g, m |-> x] \in ToSet(toDispatch'[p])
            <6> DEFINE y == [e |-> g, m |-> x]
            <6>1. y.e = g /\ y.m = x /\ y \in ToSet(toDispatch'[p])
              BY <5>2
            <6> HIDE DEF y
            <6> QED
              BY <6>1 DEF HasRequest, Queued
          <5> QED
            BY <2>3, <5>1, <5>2
        <4> QED
          BY <3>2, <4>1, <4>2
      <3>4. CASE HasRequest(PeerOf(e), r.id)
        BY <1>1, <2>3, <3>2, <3>4, HasMore
      <3>5. CASE ReplyOnWire(PeerOf(e), r.id)
        BY <1>4, <1>7, <3>2, <3>5 DEF ReplyOnWire
      <3> QED
        BY <3>1, <3>3, <3>4, <3>5
    <2> QED
      BY <1>5, <2>2, <2>4 DEF RequestsTracked
  <1> QED
    BY <1>6, <1>7

\* A new request goes on the wire with its sender's wait.
LEMMA SendSyncTracks ==
  ASSUME TypeOK, RequestsTracked, NEW g \in Endpoint, SendSyncMessage(g)
  PROVE  RequestsTracked'
  <1> DEFINE p == ProcessOf(g)
             n == [id |-> sent', didReceiveReply |-> FALSE]
             f == [call |-> "wait", e |-> g, id |-> sent', at |-> "dispatch"]
             m == Message("sync", sent', Marked(g))
  <1>0. /\ sent' \in Nat /\ p \in Process /\ g \in Of(p) /\ DOMAIN stack = Process /\ stack[p] \in Seq(Frame(p))
        /\ m_pendingSyncReplies \in [Endpoint -> Seq(Reply)]
    BY EndpointFacts DEF TypeOK, SendSyncMessage
  <1>1. /\ m_pendingSyncReplies' = [m_pendingSyncReplies EXCEPT ![g] = Append(@, n)]
        /\ Transmit(g, m) /\ stack' = [stack EXCEPT ![p] = Append(@, f)]
        /\ UNCHANGED <<m_isValid, m_isConnected, m_incomingMessages, toDispatch>>
    BY DEF SendSyncMessage, Push, processVars
  <1>2. n \in Reply /\ f \in Frame(p) /\ m \in Msg /\ n.id = sent' /\ m.kind = "sync" /\ m.id = sent'
    BY <1>0 DEF Reply, Frame, Wait, Msg, Message, Marked
  <1> HIDE DEF n, f, m
  <1>3. /\ \A e \in Endpoint : ToSet(wire[e]) \subseteq ToSet(wire'[e])
        /\ m_isConnected[g] => m \in ToSet(wire'[g])
    BY <1>1, <1>2, TransmitAdds
  <1>4. ToSet(Append(stack[p], f)) = ToSet(stack[p]) \cup {f}
    BY <1>0, <1>2, PushFacts
  <1>5. ToSet(Append(m_pendingSyncReplies[g], n)) = ToSet(m_pendingSyncReplies[g]) \cup {n}
    BY <1>0, <1>2, PushFacts
  <1> HIDE DEF p
  <1>6. \A q \in Process : ToSet(stack[q]) \subseteq ToSet(stack'[q])
    BY <1>0, <1>1, <1>4
  <1>7. \A e \in Endpoint : Open(e)' <=> Open(e)
    BY <1>1 DEF Open
  <1>8. ASSUME NEW e \in Endpoint, NEW r \in ToSet(m_pendingSyncReplies'[e]), ~r.didReceiveReply, Open(e)'
        PROVE  RequestOnWire(e, r.id)' \/ HasRequest(PeerOf(e), r.id)' \/ ReplyOnWire(PeerOf(e), r.id)'
    <2>1. CASE e = g /\ r = n
      BY <1>1, <1>2, <1>3, <1>8, <2>1 DEF RequestOnWire, Request, Open
    <2>2. CASE ~(e = g /\ r = n)
      <3>1. r \in ToSet(m_pendingSyncReplies[e])
        BY <1>0, <1>1, <1>5, <1>8, <2>2
      <3>2. RequestOnWire(e, r.id) \/ HasRequest(PeerOf(e), r.id) \/ ReplyOnWire(PeerOf(e), r.id)
        BY <1>7, <1>8, <3>1 DEF RequestsTracked
      <3>3. PeerOf(e) \in Endpoint /\ ProcessOf(PeerOf(e)) \in Process
        BY EndpointFacts
      <3>4. HasRequest(PeerOf(e), r.id) => HasRequest(PeerOf(e), r.id)'
        BY <1>1, <1>6, <3>3, HasMore
      <3>5. RequestOnWire(e, r.id) => RequestOnWire(e, r.id)'
        BY <1>3 DEF RequestOnWire
      <3>6. ReplyOnWire(PeerOf(e), r.id) => ReplyOnWire(PeerOf(e), r.id)'
        BY <1>3, <3>3 DEF ReplyOnWire
      <3> QED
        BY <3>2, <3>4, <3>5, <3>6
    <2> QED
      BY <2>1, <2>2
  <1> QED
    BY <1>8 DEF RequestsTracked

\* The steps that change no queue and no call.
LEMMA OthersTrack ==
  ASSUME TypeOK, RequestsTracked,
         UNCHANGED <<m_pendingSyncReplies, m_incomingMessages, toDispatch, stack>>,
         \A e \in Endpoint : ToSet(wire[e]) \subseteq ToSet(wire'[e]),
         \A e \in Endpoint : (m_isConnected'[e] => m_isConnected[e]) /\ (m_isValid'[e] => m_isValid[e])
  PROVE  RequestsTracked'
  <1>1. \A e \in Endpoint : \A id : HasRequest(e, id) => HasRequest(e, id)'
    BY DEF HasRequest
  <1> QED
    BY <1>1, TrackStep

\* Every step keeps track of the requests.
LEMMA NextTracks == IInv /\ RequestsTracked /\ [Next]_vars => RequestsTracked'
  <1> SUFFICES ASSUME IInv, RequestsTracked, [Next]_vars PROVE RequestsTracked'
    OBVIOUS
  <1>0. TypeOK /\ CallsNested /\ m_isConnected \in [Endpoint -> BOOLEAN] /\ m_isValid \in [Endpoint -> BOOLEAN]
    BY DEF IInv, TypeOK
  <1>1. ASSUME NEW p \in Process, MainStep(p) \/ WaitTimesOut(p) PROVE RequestsTracked'
    BY <1>0, <1>1, HandlerReturnsTracks, DispatchMessagesTracks, RunLoopTaskTracks, WaitDispatchesTracks,
       WaitsTrack DEF MainStep
  <1>2. ASSUME NEW p \in Process, Crash(p) PROVE RequestsTracked'
    <2>1. /\ UNCHANGED <<m_pendingSyncReplies, m_incomingMessages, toDispatch, stack, wire, m_isValid>>
          /\ \A e \in Endpoint : m_isConnected'[e] => m_isConnected[e]
      BY <1>2 DEF Crash, processVars
    <2> QED
      BY <1>0, <2>1, OthersTrack
  <1>3. ASSUME NEW e \in Endpoint, ConnectionDidClose(e) \/ PlatformInvalidate(e) \/ Invalidate(e)
        PROVE  RequestsTracked'
    <2>1. UNCHANGED <<m_pendingSyncReplies, m_incomingMessages, toDispatch, stack, wire>>
      BY <1>3 DEF ConnectionDidClose, PlatformInvalidate, Invalidate, processVars
    <2>2. /\ m_isConnected' = m_isConnected \/ m_isConnected' = [m_isConnected EXCEPT ![e] = FALSE]
          /\ m_isValid' = m_isValid \/ m_isValid' = [m_isValid EXCEPT ![e] = FALSE]
      BY <1>3 DEF ConnectionDidClose, PlatformInvalidate, Invalidate
    <2>3. \A g \in Endpoint : (m_isConnected'[g] => m_isConnected[g]) /\ (m_isValid'[g] => m_isValid[g])
      BY <1>0, <2>2
    <2> QED
      BY <1>0, <2>1, <2>3, OthersTrack
  <1>4. ASSUME NEW e \in Endpoint, SendMessage(e) PROVE RequestsTracked'
    <2>1. PICK marked \in {FALSE, Marked(e)} : Transmit(e, Message("async", sent', marked))
      BY <1>4 DEF SendMessage
    <2>2. Message("async", sent', marked) \in Msg
      <3>1. sent' \in Nat
        BY <1>0, <1>4 DEF SendMessage, TypeOK
      <3>2. Marked(e) \in BOOLEAN
        BY DEF Marked
      <3>3. marked \in BOOLEAN
        BY <3>2
      <3> QED
        BY <3>1, <3>3, MessageTypes
    <2>3. \A g \in Endpoint : ToSet(wire[g]) \subseteq ToSet(wire'[g])
      BY <1>0, <2>1, <2>2, TransmitAdds
    <2>4. UNCHANGED <<m_pendingSyncReplies, m_incomingMessages, toDispatch, stack, m_isConnected, m_isValid>>
      BY <1>4 DEF SendMessage, endpointVars, processVars
    <2> QED
      BY <1>0, <2>3, <2>4, OthersTrack
  <1>5. ASSUME NEW e \in Endpoint, QueueStep(e) \/ SendSyncMessage(e) PROVE RequestsTracked'
    BY <1>0, <1>3, <1>5, ReceiveTracks, SendSyncTracks DEF QueueStep
  <1>6. ASSUME UNCHANGED vars PROVE RequestsTracked'
    <2>1. UNCHANGED <<m_pendingSyncReplies, m_incomingMessages, toDispatch, stack, wire, m_isConnected, m_isValid>>
      BY <1>6 DEF vars, endpointVars, processVars
    <2> QED
      BY <1>0, <2>1, OthersTrack
  <1>7. ASSUME Next PROVE RequestsTracked'
    BY <1>1, <1>2, <1>3, <1>4, <1>5, <1>7 DEF Next
  <1> QED
    BY <1>6, <1>7

\* No request that somebody waits for is lost on an open connection: the wait
\* has its reply, or the request or its reply is somewhere to be found, whatever
\* the processes nest in each other's waits.
THEOREM IPCTracksRequests == Spec => []RequestsTracked
  <1>1. Init => RequestsTracked
    <2> SUFFICES ASSUME Init PROVE RequestsTracked
      OBVIOUS
    <2>1. \A e \in Endpoint : ToSet(m_pendingSyncReplies[e]) = {}
      BY EmptyFacts DEF Init, Const
    <2> QED
      BY <2>1 DEF RequestsTracked
  <1> QED
    BY <1>1, NextTracks, IPCInvariance, PTL DEF Spec

-----------------------------------------------------------------------------
(* Tasks and messages. *)

\* How many tasks there are after a task is posted.
LEMMA PlacesPush ==
  ASSUME NEW S, NEW s \in Seq(S), NEW y \in S, NEW x
  PROVE  /\ Cardinality(Places(s, x)) \in Nat
         /\ Cardinality(Places(Append(s, y), x)) = Cardinality(Places(s, x)) + (IF x = y THEN 1 ELSE 0)
  <1> DEFINE n == Len(s)
             a == Append(s, y)
  <1>1. n \in Nat /\ DOMAIN s = 1 .. n /\ DOMAIN a = 1 .. n + 1 /\ a[n + 1] = y /\ \A i \in 1 .. n : a[i] = s[i]
    OBVIOUS
  <1> HIDE DEF a, n
  <1>2. Places(s, x) \subseteq 1 .. n /\ n + 1 \notin 1 .. n /\ 1 .. n + 1 = (1 .. n) \cup {n + 1}
    BY <1>1 DEF Places
  <1>3. IsFiniteSet(Places(s, x)) /\ Cardinality(Places(s, x)) \in Nat
    <2>1. IsFiniteSet(1 .. n)
      BY <1>1, FS_Interval
    <2>2. IsFiniteSet(Places(s, x))
      BY <1>2, <2>1, FS_Subset
    <2> QED
      BY <2>2, FS_CardinalityType
  <1>4. CASE x = y
    <2>1. Places(a, x) = Places(s, x) \cup {n + 1}
      BY <1>1, <1>2, <1>4 DEF Places
    <2>2. Cardinality(Places(a, x)) = Cardinality(Places(s, x)) + 1
      BY <1>2, <1>3, <2>1, FS_AddElement
    <2> QED
      BY <1>3, <1>4, <2>2 DEF a
  <1>5. CASE x # y
    <2>1. Places(a, x) = Places(s, x)
      BY <1>1, <1>2, <1>5 DEF Places
    <2> QED
      BY <1>3, <1>5, <2>1 DEF a
  <1> QED
    BY <1>4, <1>5

\* How many there are after the run loop took the first.
LEMMA PlacesTail ==
  ASSUME NEW S, NEW s \in Seq(S), s # <<>>, NEW x
  PROVE  /\ Cardinality(Places(s, x)) \in Nat /\ Cardinality(Places(Tail(s), x)) \in Nat
         /\ Cardinality(Places(s, x)) = Cardinality(Places(Tail(s), x)) + (IF x = Head(s) THEN 1 ELSE 0)
  <1> DEFINE n == Len(s)
             t == Tail(s)
             A == Places(t, x)
             B == Places(s, x) \ {1}
             F == [i \in A |-> i + 1]
  <1>1. /\ n \in Nat \ {0} /\ t \in Seq(S) /\ Len(t) = n - 1 /\ \A i \in 1 .. n - 1 : t[i] = s[i + 1]
        /\ Head(s) = s[1]
    BY TailFacts
  <1>1a. DOMAIN s = 1 .. n /\ DOMAIN t = 1 .. n - 1
    BY <1>1
  <1> HIDE DEF n, t
  <1>2. IsFiniteSet(Places(s, x)) /\ IsFiniteSet(A)
    <2>1. Places(s, x) \subseteq 1 .. n /\ A \subseteq 1 .. n - 1
      BY <1>1a DEF Places
    <2> QED
      <3>1. IsFiniteSet(1 .. n) /\ IsFiniteSet(1 .. n - 1)
        BY <1>1, FS_Interval
      <3> HIDE DEF A
      <3> QED
        BY <2>1, <3>1, FS_Subset
  <1>3. Cardinality(Places(s, x)) \in Nat /\ Cardinality(A) \in Nat
    BY <1>2, FS_CardinalityType
  <1>4. Cardinality(B) = Cardinality(A)
    <2>1. \A i \in A : i \in 1 .. n - 1 /\ i + 1 \in B
      BY <1>1, <1>1a DEF Places
    <2>2. \A j \in B : j - 1 \in A /\ (j - 1) + 1 = j
      <3> SUFFICES ASSUME NEW j \in B PROVE j - 1 \in A /\ (j - 1) + 1 = j
        OBVIOUS
      <3>1. j \in 1 .. n /\ j # 1 /\ s[j] = x
        BY <1>1a DEF Places
      <3>2. j - 1 \in 1 .. n - 1 /\ (j - 1) + 1 = j
        BY <1>1, <3>1
      <3>3. t[j - 1] = x
        BY <1>1, <3>1, <3>2
      <3> QED
        BY <1>1a, <3>2, <3>3 DEF Places
    <2> HIDE DEF A, B
    <2>3. F \in [A -> B]
      BY <2>1
    <2>4. \A i, j \in A : F[i] = F[j] => i = j
      BY <2>1
    <2>5. \A j \in B : \E i \in A : F[i] = j
      BY <2>2
    <2> HIDE DEF F
    <2>6. F \in Bijection(A, B)
      BY <2>3, <2>4, <2>5 DEF Bijection, Injection, Surjection, IsInjective
    <2>7. ExistsBijection(A, B)
      BY <2>6 DEF ExistsBijection
    <2> QED
      BY <1>2, <2>7, FS_Bijection
  <1>5. CASE x = Head(s)
    <2>1. 1 \in Places(s, x)
      BY <1>1, <1>1a, <1>5 DEF Places
    <2>2. Cardinality(B) = Cardinality(Places(s, x)) - 1
      BY <1>2, <2>1, FS_RemoveElement
    <2> QED
      BY <1>3, <1>4, <1>5, <2>2 DEF t
  <1>6. CASE x # Head(s)
    <2>1. 1 \notin Places(s, x)
      BY <1>1, <1>1a, <1>6 DEF Places
    <2>2. B = Places(s, x)
      BY <2>1
    <2>3. Cardinality(Places(s, x)) = Cardinality(A)
      <3> HIDE DEF A, B
      <3> QED
        BY <1>4, <2>2
    <2> QED
      BY <1>3, <1>6, <2>3 DEF t
  <1> QED
    BY <1>5, <1>6

\* What is kept when a call is made, and when one returns.
LEMMA KeptPush ==
  ASSUME NEW S, NEW s \in Seq(S), NEW c \in S
  PROVE  Kept(Append(s, c)) = Kept(s) \cup KeptBy(c)
  <1>1. ToSet(Append(s, c)) = ToSet(s) \cup {c}
    BY PushFacts
  <1> QED
    BY <1>1 DEF Kept

\* The same, for a call that returns.
LEMMA KeptPop ==
  ASSUME NEW S, NEW s \in Seq(S), s # <<>>
  PROVE  Kept(s) = Kept(Front(s)) \cup KeptBy(Last(s))
  <1>1. ToSet(s) = ToSet(Front(s)) \cup {Last(s)}
    BY FrontFacts
  <1> QED
    BY <1>1 DEF Kept

\* Steps that leave the run loop alone and add to no queue.
LEMMA StrandsNone ==
  ASSUME NoMessageStranded, NEW p \in Process,
         UNCHANGED <<m_incomingMessages, didSchedule, runLoop>>,
         \A q \in Process : q # p => stack'[q] = stack[q] /\ toDispatch'[q] = toDispatch[q],
         ToSet(toDispatch'[p]) \cup Kept(stack'[p]) \subseteq ToSet(toDispatch[p]) \cup Kept(stack[p])
  PROVE  NoMessageStranded'
  <1>1. ASSUME NEW e \in Endpoint, Awaited(e)' PROVE Awaited(e)
    <2>1. ProcessOf(e) \in Process
      BY EndpointFacts
    <2>2. CASE ProcessOf(e) = p
      BY <1>1, <2>2 DEF Awaited
    <2>3. CASE ProcessOf(e) # p
      BY <1>1, <2>1, <2>3 DEF Awaited
    <2> QED
      BY <2>2, <2>3
  <1>2. \A e \in Endpoint : \A what : Tasks(what, e)' = Tasks(what, e)
    BY DEF Tasks
  <1> QED
    BY <1>1, <1>2 DEF NoMessageStranded

\* A step that only pops or replaces a call that keeps nothing more than it did.
LEMMA CallsStrandNone ==
  ASSUME TypeOK, NoMessageStranded, NEW p \in Process, NEW t, stack' = [stack EXCEPT ![p] = t],
         UNCHANGED <<m_incomingMessages, didSchedule, runLoop>>,
         UNCHANGED toDispatch \/ toDispatch' = [toDispatch EXCEPT ![p] = <<>>],
         Kept(t) \subseteq Kept(stack[p])
  PROVE  NoMessageStranded'
  <1>1. DOMAIN stack = Process /\ DOMAIN toDispatch = Process
    BY DEF TypeOK
  <1>2. /\ \A q \in Process : q # p => stack'[q] = stack[q] /\ toDispatch'[q] = toDispatch[q]
        /\ stack'[p] = t /\ (toDispatch'[p] = toDispatch[p] \/ toDispatch'[p] = <<>>)
    BY <1>1
  <1>3. ToSet(toDispatch'[p]) \subseteq ToSet(toDispatch[p])
    BY <1>2, EmptyFacts
  <1> QED
    BY <1>2, <1>3, StrandsNone

\* The calls of the main thread keep no more than they did.
LEMMA MainStrandsNone ==
  ASSUME TypeOK, NoMessageStranded, NEW p \in Process,
         HandlerReturns(p) \/ WaitDispatches(p) \/ WaitWakes(p)
  PROVE  NoMessageStranded'
  <1> DEFINE s == stack[p]
             c == Top(p)
  <1>1. s # <<>> /\ c = Last(s) /\ s \in Seq(Frame(p))
    BY DEF HandlerReturns, WaitDispatches, WaitWakes, In, Top, TypeOK
  <1>2. UNCHANGED <<m_incomingMessages, didSchedule, runLoop>>
    BY DEF HandlerReturns, WaitDispatches, WaitWakes, endpointVars, processVars
  <1>3. Kept(s) = Kept(Front(s)) \cup KeptBy(c) /\ Front(s) \in Seq(Frame(p)) /\ c \in Frame(p)
    BY <1>1, KeptPop, TopFacts
  <1>4. CASE HandlerReturns(p)
    <2>1. stack' = [stack EXCEPT ![p] = Front(s)] /\ UNCHANGED toDispatch
      BY <1>4 DEF HandlerReturns, processVars
    <2> QED
      BY <1>2, <1>3, <2>1, CallsStrandNone
  <1>5. ASSUME NEW l \in {"dispatch", "check", "semaphore"}, c.call = "wait"
        PROVE  LET f == [c EXCEPT !.at = l] IN
               f \in Frame(p) /\ Append(Front(s), f) \in Seq(Frame(p)) /\ Kept(Append(Front(s), f)) = Kept(Front(s))
    <2> DEFINE f == [c EXCEPT !.at = l]
    <2>1. c \in Wait(p)
      BY <1>3, <1>5, FrameKinds
    <2>2. f \in Frame(p) /\ f.call = "wait"
      BY <2>1, WaitTypes DEF Wait
    <2> HIDE DEF f
    <2>3. KeptBy(f) = {}
      BY <2>2 DEF KeptBy
    <2>4. Append(Front(s), f) \in Seq(Frame(p)) /\ Kept(Append(Front(s), f)) = Kept(Front(s))
      <3>1. Kept(Append(Front(s), f)) = Kept(Front(s)) \cup KeptBy(f)
        BY <1>3, <2>2, KeptPush
      <3>2. Append(Front(s), f) \in Seq(Frame(p))
        BY <1>3, <2>2, PushFacts
      <3> QED
        BY <2>3, <3>1, <3>2
    <2> QED
      BY <2>2, <2>4 DEF f
  <1>6. CASE WaitWakes(p)
    <2> DEFINE t == Append(Front(s), [c EXCEPT !.at = "dispatch"])
    <2>1. stack' = [stack EXCEPT ![p] = t] /\ UNCHANGED toDispatch /\ c.call = "wait"
      BY <1>6 DEF WaitWakes, ReplaceTop, In
    <2>2. Kept(t) \subseteq Kept(s)
      BY <1>3, <1>5, <2>1
    <2> HIDE DEF t
    <2> QED
      BY <1>2, <2>1, <2>2, CallsStrandNone
  <1>7. CASE WaitDispatches(p)
    <2> DEFINE k == Append(Front(s), [c EXCEPT !.at = "check"])
               b == Batch(p, Nobody)
               t == Append(k, b)
    <2>1. /\ stack' = [stack EXCEPT ![p] = t] /\ toDispatch' = [toDispatch EXCEPT ![p] = <<>>]
          /\ c.call = "wait"
      BY <1>7 DEF WaitDispatches, In
    <2>2. k \in Seq(Frame(p)) /\ Kept(k) = Kept(Front(s))
      BY <1>5, <2>1
    <2>3. b \in Frame(p) /\ b.allowed = Nobody /\ b.putBack = <<>>
      BY NewBatchTypes DEF Batch
    <2> HIDE DEF k, b
    <2>4. KeptBy(b) = {}
      BY <2>3, EmptyFacts DEF KeptBy, PutBack
    <2>5. Kept(t) = Kept(k)
      <3>1. Kept(t) = Kept(k) \cup KeptBy(b)
        BY <2>2, <2>3, KeptPush
      <3> QED
        BY <2>4, <3>1
    <2> HIDE DEF t
    <2> QED
      BY <1>2, <1>3, <2>1, <2>2, <2>5, CallsStrandNone
  <1> QED
    BY <1>4, <1>6, <1>7

\* The other steps of a wait.
LEMMA WaitStrandsNone ==
  ASSUME TypeOK, NoMessageStranded, NEW p \in Process, WaitChecks(p) \/ WaitTimesOut(p)
  PROVE  NoMessageStranded'
  <1> DEFINE s == stack[p]
             c == Top(p)
             f == [c EXCEPT !.at = "semaphore"]
  <1>1. s # <<>> /\ c = Last(s) /\ c.call = "wait" /\ s \in Seq(Frame(p))
    BY DEF WaitChecks, WaitTimesOut, In, Top, TypeOK
  <1>2. UNCHANGED <<m_incomingMessages, didSchedule, runLoop, toDispatch>>
    BY DEF WaitChecks, WaitTimesOut, processVars
  <1>3. Kept(s) = Kept(Front(s)) \cup KeptBy(c) /\ Front(s) \in Seq(Frame(p)) /\ c \in Wait(p)
    BY <1>1, KeptPop, TopFacts, FrameKinds
  <1>4. CASE stack' = [stack EXCEPT ![p] = Front(s)]
    BY <1>2, <1>3, <1>4, CallsStrandNone
  <1>5. CASE stack' = ReplaceTop(p, f)
    <2>1. f \in Frame(p) /\ f.call = "wait"
      BY <1>3, WaitTypes DEF Wait
    <2>2. stack' = [stack EXCEPT ![p] = Append(Front(s), f)]
      BY <1>5 DEF ReplaceTop
    <2> HIDE DEF f
    <2>3. KeptBy(f) = {}
      BY <2>1 DEF KeptBy
    <2>4. Kept(Append(Front(s), f)) = Kept(Front(s))
      <3>1. Kept(Append(Front(s), f)) = Kept(Front(s)) \cup KeptBy(f)
        BY <1>3, <2>1, KeptPush
      <3> QED
        BY <2>3, <3>1
    <2> QED
      BY <1>2, <1>3, <2>2, <2>4, CallsStrandNone
  <1> QED
    BY <1>4, <1>5 DEF WaitChecks, WaitTimesOut, WaitEnds

\* A batch keeps for others what it did not dispatch, and puts it back.
LEMMA DispatchStrandsNone ==
  ASSUME TypeOK, NoMessageStranded, NEW p \in Process, DispatchMessages(p)
  PROVE  NoMessageStranded'
  <1> DEFINE s == stack[p]
             b == Top(p)
             x == Head(b.messages)
             rest == [b EXCEPT !.messages = Tail(@)]
             put == [rest EXCEPT !.putBack = Append(@, x)]
             h == [call |-> "handler", e |-> x.e, m |-> x.m]
  <1>1. s # <<>> /\ b = Last(s) /\ b.call = "dispatchMessages"
    BY DEF DispatchMessages, In, Top
  <1>2. b \in Batches(p) /\ s \in Seq(Frame(p)) /\ DOMAIN stack = Process
    BY <1>1, TopFacts, FrameKinds DEF TypeOK
  <1>3. UNCHANGED <<m_incomingMessages, didSchedule, runLoop>>
    BY DEF DispatchMessages
  <1>4. Kept(s) = Kept(Front(s)) \cup KeptBy(b) /\ Front(s) \in Seq(Frame(p))
    BY <1>1, <1>2, KeptPop, FrontFacts
  <1>5. b.messages \in Seq(Item(p)) /\ b.putBack \in Seq(Item(p))
    BY <1>2 DEF Batches
  <1>6. CASE b.messages # <<>> /\ PutBack(b, x) /\ stack' = ReplaceTop(p, put) /\ UNCHANGED toDispatch
    <2>1. put \in Frame(p) /\ put.call = "dispatchMessages"
      BY <1>2, <1>6, BatchTypes DEF Frame, Batches
    <2>2. put.messages = Tail(b.messages) /\ put.putBack = Append(b.putBack, x) /\ put.allowed = b.allowed
      BY <1>2 DEF Batches
    <2>3. ToSet(b.messages) = {x} \cup ToSet(put.messages) /\ x \in Item(p)
      BY <1>5, <1>6, <2>2, TailFacts
    <2> HIDE DEF put, x, b
    <2>4. ToSet(put.putBack) = ToSet(b.putBack) \cup {x}
      BY <1>5, <2>2, <2>3, PushFacts
    <2>5. KeptBy(put) \subseteq KeptBy(b)
      BY <1>1, <1>6, <2>1, <2>2, <2>3, <2>4 DEF KeptBy, PutBack
    <2>6. Kept(Append(Front(s), put)) = Kept(Front(s)) \cup KeptBy(put)
      BY <1>4, <2>1, KeptPush
    <2>7. stack' = [stack EXCEPT ![p] = Append(Front(s), put)]
      BY <1>6 DEF ReplaceTop
    <2> QED
      BY <1>3, <1>4, <1>6, <2>5, <2>6, <2>7, CallsStrandNone
  <1>7. CASE b.messages # <<>> /\ DispatchMessage(p, x.e, x.m, Append(Front(s), rest)) /\ UNCHANGED toDispatch
    <2> DEFINE k == Append(Front(s), rest)
    <2>1. rest \in Frame(p) /\ rest.call = "dispatchMessages" /\ x.e \in Of(p) /\ x.m \in Msg
      BY <1>2, <1>7, BatchTypes DEF Frame, Batches
    <2>2. rest.messages = Tail(b.messages) /\ rest.putBack = b.putBack /\ rest.allowed = b.allowed
      BY <1>2 DEF Batches
    <2>3. ToSet(b.messages) = {x} \cup ToSet(rest.messages)
      BY <1>5, <1>7, <2>2, TailFacts
    <2>4. h \in Frame(p) /\ h.call = "handler"
      BY <2>1 DEF Frame, Handler
    <2>5. stack' = [stack EXCEPT ![p] = Append(k, h)] \/ stack' = [stack EXCEPT ![p] = k]
      BY <1>7 DEF DispatchMessage
    <2> HIDE DEF rest, x, b, h
    <2>6. KeptBy(rest) \subseteq KeptBy(b) /\ KeptBy(h) = {}
      BY <1>1, <2>1, <2>2, <2>3, <2>4 DEF KeptBy, PutBack
    <2>7. k \in Seq(Frame(p)) /\ Kept(k) = Kept(Front(s)) \cup KeptBy(rest)
      BY <1>4, <2>1, KeptPush, PushFacts
    <2> HIDE DEF k
    <2>8. Kept(Append(k, h)) = Kept(k)
      BY <2>4, <2>6, <2>7, KeptPush
    <2> QED
      BY <1>3, <1>4, <1>7, <2>5, <2>6, <2>7, <2>8, CallsStrandNone
  <1>8. CASE /\ toDispatch' = [toDispatch EXCEPT ![p] = @ \o b.putBack]
             /\ stack' = [stack EXCEPT ![p] = Front(@)]
    <2>1. DOMAIN toDispatch = Process /\ toDispatch[p] \in Seq(Item(p))
      BY DEF TypeOK
    <2> HIDE DEF b
    <2>2. /\ toDispatch'[p] = toDispatch[p] \o b.putBack /\ stack'[p] = Front(s)
          /\ \A q \in Process : q # p => stack'[q] = stack[q] /\ toDispatch'[q] = toDispatch[q]
      BY <1>2, <1>8, <2>1
    <2>3. ToSet(toDispatch'[p]) = ToSet(toDispatch[p]) \cup ToSet(b.putBack)
      BY <1>5, <2>1, <2>2, ConcatFacts
    <2>4. ToSet(b.putBack) \subseteq KeptBy(b)
      BY <1>1 DEF KeptBy
    <2> QED
      BY <1>3, <1>4, <2>2, <2>3, <2>4, StrandsNone
  <1> QED
    BY <1>6, <1>7, <1>8 DEF DispatchMessages

\* What the run loop's tasks are after a task y is posted to the run loop of p.
LEMMA TasksPush ==
  ASSUME TypeOK, NEW p \in Process, NEW what, NEW g \in Of(p), Task(what, g) \in LoopTask(p),
         runLoop' = Push(runLoop, p, Task(what, g))
  PROVE  \A e \in Endpoint : \A w :
            /\ Tasks(w, e) \in Nat
            /\ Tasks(w, e)' = Tasks(w, e) + (IF e = g /\ w = what THEN 1 ELSE 0)
  <1> SUFFICES ASSUME NEW e \in Endpoint, NEW w
               PROVE  /\ Tasks(w, e) \in Nat
                      /\ Tasks(w, e)' = Tasks(w, e) + (IF e = g /\ w = what THEN 1 ELSE 0)
    OBVIOUS
  <1> DEFINE q == ProcessOf(e)
             x == Task(w, e)
             y == Task(what, g)
  <1>1. /\ q \in Process /\ runLoop[q] \in Seq(LoopTask(q)) /\ DOMAIN runLoop = Process
        /\ runLoop[p] \in Seq(LoopTask(p)) /\ (e = g => q = p)
    BY EndpointFacts, OfFacts DEF TypeOK
  <1>2. x = y <=> e = g /\ w = what
    BY DEF Task
  <1>3. y \in LoopTask(p) /\ runLoop' = [runLoop EXCEPT ![p] = Append(@, y)]
    BY DEF Push
  <1> HIDE DEF x, y, q
  <1>4. Tasks(w, e) = Cardinality(Places(runLoop[q], x)) /\ Tasks(w, e)' = Cardinality(Places(runLoop'[q], x))
    BY DEF Tasks, q, x
  <1>5. CASE q = p
    <2>1. runLoop'[q] = Append(runLoop[q], y)
      BY <1>1, <1>3, <1>5
    <2> QED
      BY <1>1, <1>2, <1>3, <1>4, <1>5, <2>1, PlacesPush
  <1>6. CASE q # p
    <2>1. runLoop'[q] = runLoop[q]
      BY <1>1, <1>3, <1>6
    <2>2. Cardinality(Places(runLoop[q], x)) \in Nat
      <3>1. CASE runLoop[q] = <<>>
        BY <3>1, FS_EmptySet DEF Places
      <3>2. CASE runLoop[q] # <<>>
        BY <1>1, <3>2, PlacesTail
      <3> QED
        BY <3>1, <3>2
    <2> QED
      BY <1>1, <1>4, <1>6, <2>1, <2>2
  <1> QED
    BY <1>5, <1>6

\* What they are after the run loop took one.
LEMMA TasksTail ==
  ASSUME TypeOK, NEW p \in Process, runLoop[p] # <<>>, runLoop' = [runLoop EXCEPT ![p] = Tail(@)]
  PROVE  LET t == Head(runLoop[p]) IN
         /\ t \in LoopTask(p)
         /\ \A e \in Endpoint : \A w : w \in {"dispatchOneMessage", "dispatchMessages"} =>
               /\ Tasks(w, e)' \in Nat
               /\ Tasks(w, e) = Tasks(w, e)' + (IF e = t.e /\ w = t.what THEN 1 ELSE 0)
  <1> DEFINE t == Head(runLoop[p])
  <1>0. t \in LoopTask(p) /\ DOMAIN runLoop = Process /\ runLoop[p] \in Seq(LoopTask(p))
    BY TailFacts DEF TypeOK
  <1>1. t = Task(t.what, t.e) /\ t.e \in Of(p) /\ ProcessOf(t.e) = p
    BY <1>0, OfFacts DEF LoopTask, Task
  <1>2. ASSUME NEW e \in Endpoint, NEW w
        PROVE  /\ Tasks(w, e)' \in Nat
               /\ Tasks(w, e) = Tasks(w, e)' + (IF e = t.e /\ w = t.what THEN 1 ELSE 0)
    <2> DEFINE q == ProcessOf(e)
               x == Task(w, e)
    <2>1. q \in Process /\ runLoop[q] \in Seq(LoopTask(q)) /\ (e = t.e => q = p)
      BY <1>1, EndpointFacts DEF TypeOK
    <2>2. x = t <=> e = t.e /\ w = t.what
      BY <1>1 DEF Task
    <2> HIDE DEF x, q, t
    <2>3. Tasks(w, e) = Cardinality(Places(runLoop[q], x)) /\ Tasks(w, e)' = Cardinality(Places(runLoop'[q], x))
      BY DEF Tasks, q, x
    <2>4. CASE q = p
      <3>1. runLoop'[q] = Tail(runLoop[q]) /\ t = Head(runLoop[q])
        BY <1>0, <2>4 DEF t
      <3> QED
        BY <1>0, <2>2, <2>3, <2>4, <3>1, PlacesTail
    <2>5. CASE q # p
      <3>1. runLoop'[q] = runLoop[q]
        BY <1>0, <2>1, <2>5
      <3>2. Cardinality(Places(runLoop[q], x)) \in Nat
        <4>1. CASE runLoop[q] = <<>>
          BY <4>1, FS_EmptySet DEF Places
        <4>2. CASE runLoop[q] # <<>>
          BY <2>1, <4>2, PlacesTail
        <4> QED
          BY <4>1, <4>2
      <3> QED
        BY <2>1, <2>3, <2>5, <3>1, <3>2
    <2> QED
      BY <2>4, <2>5
  <1> HIDE DEF t
  <1>3. \A e \in Endpoint : \A w : w \in {"dispatchOneMessage", "dispatchMessages"} =>
               /\ Tasks(w, e)' \in Nat
               /\ Tasks(w, e) = Tasks(w, e)' + (IF e = t.e /\ w = t.what THEN 1 ELSE 0)
    BY <1>2
  <1> QED
    BY <1>0, <1>3 DEF t

\* The run loop takes a task, and with it what the task was for.
LEMMA RunLoopStrandsNone ==
  ASSUME TypeOK, NoMessageStranded, NEW p \in Process, RunLoopTask(p)
  PROVE  NoMessageStranded'
  <1> DEFINE t == Head(runLoop[p])
             g == t.e
             w == m_incomingMessages[g]
             z == stack[p]
  <1>0. /\ z = <<>> /\ DOMAIN stack = Process /\ DOMAIN toDispatch = Process /\ runLoop[p] # <<>>
        /\ runLoop' = [runLoop EXCEPT ![p] = Tail(@)] /\ Kept(z) = {}
    BY EmptyFacts DEF TypeOK, RunLoopTask, Kept
  <1>0a. z \in Seq(Frame(p)) /\ toDispatch[p] \in Seq(Item(p))
    BY DEF TypeOK
  <1>1. /\ t \in LoopTask(p)
        /\ \A e \in Endpoint : \A v : v \in {"dispatchOneMessage", "dispatchMessages"} =>
               /\ Tasks(v, e)' \in Nat
               /\ Tasks(v, e) = Tasks(v, e)' + (IF e = g /\ v = t.what THEN 1 ELSE 0)
    BY <1>0, TasksTail
  <1>2. g \in Of(p) /\ g \in Endpoint /\ ProcessOf(g) = p /\ w \in Seq(Msg)
    BY <1>1, OfFacts DEF LoopTask, TypeOK
  <1>3. ASSUME NEW e \in Endpoint
        PROVE  /\ Tasks("dispatchOneMessage", e) = Len(m_incomingMessages[e])
               /\ Tasks("dispatchMessages", e) = IF e \in didSchedule[ProcessOf(e)] THEN 1 ELSE 0
               /\ Awaited(e) => e \in didSchedule[ProcessOf(e)]
               /\ Tasks("dispatchOneMessage", e)' \in Nat /\ Tasks("dispatchMessages", e)' \in Nat
               /\ Tasks("dispatchOneMessage", e) =
                    Tasks("dispatchOneMessage", e)' + (IF e = g /\ t.what = "dispatchOneMessage" THEN 1 ELSE 0)
               /\ Tasks("dispatchMessages", e) =
                    Tasks("dispatchMessages", e)' + (IF e = g /\ t.what = "dispatchMessages" THEN 1 ELSE 0)
    BY <1>1 DEF NoMessageStranded
  <1>4. ASSUME \A q \in Process : q # p => stack'[q] = stack[q] /\ toDispatch'[q] = toDispatch[q],
               ToSet(toDispatch'[p]) \cup Kept(stack'[p]) \subseteq ToSet(toDispatch[p])
        PROVE  \A e \in Endpoint : Awaited(e)' => Awaited(e)
    <2> SUFFICES ASSUME NEW e \in Endpoint, Awaited(e)' PROVE Awaited(e)
      OBVIOUS
    <2>1. CASE ProcessOf(e) = p
      BY <1>4, <2>1 DEF Awaited
    <2>2. CASE ProcessOf(e) # p
      <3>1. ProcessOf(e) \in Process
        BY EndpointFacts
      <3> QED
        BY <1>4, <2>2, <3>1 DEF Awaited
    <2> QED
      BY <2>1, <2>2
  <1> HIDE DEF t, g, w
  <1>5. CASE /\ t.what = "dispatchOneMessage" /\ w = <<>>
             /\ UNCHANGED <<stack, m_incomingMessages, toDispatch, didSchedule>>
    <2>1. PICK e \in Endpoint : e = g
      BY <1>2
    <2>2. Tasks("dispatchOneMessage", e) = 0
      BY <1>3, <1>5, <2>1, EmptyFacts DEF w
    <2>3. FALSE
      BY <1>3, <1>5, <2>1, <2>2
    <2> QED
      BY <2>3
  <1>6. CASE /\ t.what = "dispatchOneMessage" /\ w # <<>>
             /\ m_incomingMessages' = [m_incomingMessages EXCEPT ![g] = Tail(@)]
             /\ DispatchMessage(p, g, Head(w), <<>>) /\ UNCHANGED <<toDispatch, didSchedule>>
    <2> DEFINE h == [call |-> "handler", e |-> g, m |-> Head(w)]
    <2>1. Head(w) \in Msg /\ Len(w) \in Nat \ {0} /\ Len(Tail(w)) = Len(w) - 1
      BY <1>2, <1>6, TailFacts
    <2>2. h \in Frame(p) /\ h.call = "handler"
      BY <1>2, <2>1 DEF Frame, Handler
    <2>3. stack' = [stack EXCEPT ![p] = Append(z, h)] \/ stack' = [stack EXCEPT ![p] = z]
      BY <1>0, <1>6 DEF DispatchMessage
    <2> HIDE DEF h
    <2>4. Kept(Append(z, h)) = Kept(z) \cup KeptBy(h) /\ KeptBy(h) = {}
      <3> HIDE DEF z
      <3> QED
        BY <1>0a, <2>2, KeptPush DEF KeptBy
    <2> HIDE DEF z
    <2>5. Kept(stack'[p]) = {} /\ \A q \in Process : q # p => stack'[q] = stack[q]
      BY <1>0, <2>3, <2>4
    <2>6. \A e \in Endpoint : Awaited(e)' => Awaited(e)
      BY <1>4, <1>6, <2>5
    <2>7. /\ Len(m_incomingMessages'[g]) = Len(m_incomingMessages[g]) - 1
          /\ \A e \in Endpoint : e # g => m_incomingMessages'[e] = m_incomingMessages[e]
      BY <1>2, <1>6, <2>1 DEF w, TypeOK
    <2>8. ASSUME NEW e \in Endpoint
          PROVE  /\ Tasks("dispatchOneMessage", e)' = Len(m_incomingMessages'[e])
                 /\ Tasks("dispatchMessages", e)' = IF e \in didSchedule[ProcessOf(e)] THEN 1 ELSE 0
                 /\ Awaited(e)' => e \in didSchedule[ProcessOf(e)]
      <3>1. Tasks("dispatchOneMessage", e)' = Len(m_incomingMessages'[e])
        BY <1>3, <1>6, <2>7
      <3>2. Tasks("dispatchMessages", e)' = Tasks("dispatchMessages", e)
        BY <1>3, <1>6
      <3> QED
        BY <1>3, <2>6, <3>1, <3>2
    <2> QED
      BY <1>6, <2>8 DEF NoMessageStranded
  <1>7. CASE /\ t.what = "dispatchMessages" /\ didSchedule' = [didSchedule EXCEPT ![p] = @ \ {g}]
             /\ stack' = Push(stack, p, Batch(p, g)) /\ toDispatch' = [toDispatch EXCEPT ![p] = <<>>]
             /\ UNCHANGED m_incomingMessages
    <2> DEFINE b == Batch(p, g)
    <2>1. /\ b \in Frame(p) /\ b.call = "dispatchMessages" /\ b.allowed = g /\ b.putBack = <<>>
          /\ b.messages = toDispatch[p]
      BY <1>2, NewBatchTypes DEF Batch
    <2>2. stack' = [stack EXCEPT ![p] = Append(z, b)]
      BY <1>7 DEF Push
    <2> HIDE DEF b, z
    <2>3. Kept(Append(z, b)) = Kept(z) \cup KeptBy(b)
      BY <1>0a, <2>1, KeptPush
    <2>4. /\ Kept(stack'[p]) = KeptBy(b) /\ toDispatch'[p] = <<>>
          /\ \A q \in Process : q # p => stack'[q] = stack[q] /\ toDispatch'[q] = toDispatch[q]
      BY <1>0, <1>7, <2>2, <2>3
    <2>5. KeptBy(b) = {x \in ToSet(toDispatch[p]) : PutBack(b, x)} /\ ToSet(toDispatch'[p]) = {}
      BY <2>1, <2>4, EmptyFacts DEF KeptBy
    <2>6. \A x : x \in KeptBy(b) => x \in ToSet(toDispatch[p]) /\ x.e # g
      BY <2>1, <2>5 DEF PutBack
    <2>7. \A e \in Endpoint : Awaited(e)' => Awaited(e)
      BY <1>4, <2>4, <2>5
    <2>8. \A e \in Endpoint : e = g => ~Awaited(e)'
      BY <1>2, <2>4, <2>5, <2>6 DEF Awaited
    <2>9. didSchedule \in [Process -> SUBSET Endpoint]
      BY DEF TypeOK
    <2>10. /\ g \notin didSchedule'[p]
           /\ \A e \in Endpoint : e # g => (e \in didSchedule'[ProcessOf(e)] <=> e \in didSchedule[ProcessOf(e)])
      <3>1. \A e \in Endpoint : ProcessOf(e) \in Process
        BY EndpointFacts
      <3> QED
        BY <1>7, <2>9, <3>1
    <2>11. ASSUME NEW e \in Endpoint
          PROVE  /\ Tasks("dispatchOneMessage", e)' = Len(m_incomingMessages[e])
                 /\ Tasks("dispatchMessages", e)' = IF e \in didSchedule'[ProcessOf(e)] THEN 1 ELSE 0
                 /\ Awaited(e)' => e \in didSchedule'[ProcessOf(e)]
      <3>1. Tasks("dispatchOneMessage", e)' = Len(m_incomingMessages[e])
        BY <1>3, <1>7
      <3>2. CASE e = g
        <4>1. Tasks("dispatchMessages", e)' = 0
          BY <1>3, <1>7, <3>2
        <4> QED
          BY <1>2, <2>8, <2>10, <3>1, <3>2, <4>1
      <3>3. CASE e # g
        <4>1. Tasks("dispatchMessages", e)' = Tasks("dispatchMessages", e)
          BY <1>3, <3>3
        <4> QED
          BY <1>3, <2>7, <2>10, <3>1, <3>3, <4>1
      <3> QED
        BY <3>2, <3>3
    <2> QED
      BY <1>7, <2>11 DEF NoMessageStranded
  <1>8. CASE t.what = "didClose" /\ UNCHANGED <<stack, m_incomingMessages, toDispatch, didSchedule>>
    <2>1. \A e \in Endpoint : Awaited(e)' => Awaited(e)
      BY <1>8 DEF Awaited
    <2>2. \A e \in Endpoint : Tasks("dispatchOneMessage", e)' = Tasks("dispatchOneMessage", e)
                              /\ Tasks("dispatchMessages", e)' = Tasks("dispatchMessages", e)
      BY <1>3, <1>8
    <2> QED
      BY <1>3, <1>8, <2>1, <2>2 DEF NoMessageStranded
  <1> QED
    BY <1>5, <1>6, <1>7, <1>8 DEF RunLoopTask, t, g, w

\* A message that arrives has its task, or finds one scheduled.
LEMMA ReceiveStrandsNone ==
  ASSUME TypeOK, NoMessageStranded, NEW g \in Endpoint, Receive(g)
  PROVE  NoMessageStranded'
  <1> DEFINE p == ProcessOf(g)
             x == Head(wire[PeerOf(g)])
             y == [e |-> g, m |-> x]
  <1>0. /\ p \in Process /\ g \in Of(p) /\ DOMAIN toDispatch = Process /\ toDispatch[p] \in Seq(Item(p))
        /\ m_incomingMessages \in [Endpoint -> Seq(Msg)] /\ didSchedule \in [Process -> SUBSET Endpoint]
        /\ \A e \in Endpoint : ProcessOf(e) \in Process
    BY EndpointFacts DEF TypeOK
  <1>1. stack' = stack
    BY DEF Receive
  <1>2. x \in Msg
    <2>1. wire[PeerOf(g)] \in Seq(Msg) /\ wire[PeerOf(g)] # <<>>
      BY EndpointFacts DEF Receive, TypeOK
    <2> QED
      BY <2>1, TailFacts
  <1>3. y \in Item(p) /\ y.e = g
    BY <1>0, <1>2 DEF Item
  <1>4. IF x.kind = "reply" THEN ProcessIncomingSyncReply(g, x.id) ELSE ProcessIncomingMessage(g, x)
    BY DEF Receive
  <1>5. \A e \in Endpoint : /\ Tasks("dispatchOneMessage", e) = Len(m_incomingMessages[e])
                            /\ Tasks("dispatchMessages", e) = IF e \in didSchedule[ProcessOf(e)] THEN 1 ELSE 0
                            /\ Awaited(e) => e \in didSchedule[ProcessOf(e)]
    BY DEF NoMessageStranded
  <1>6. \A v \in {"dispatchOneMessage", "dispatchMessages"} : Task(v, g) \in LoopTask(p)
    BY <1>0 DEF Task, LoopTask
  <1>7. CASE x.kind = "reply"
    <2>1. UNCHANGED <<toDispatch, didSchedule, runLoop, m_incomingMessages>>
      BY <1>4, <1>7 DEF ProcessIncomingSyncReply
    <2> QED
      BY <1>0, <1>1, <2>1, StrandsNone
  <1>8. CASE x.kind # "reply" /\ x.marked
    <2>0. /\ toDispatch' = [toDispatch EXCEPT ![p] = Append(@, y)]
          /\ didSchedule' = [didSchedule EXCEPT ![p] = @ \cup {g}]
          /\ runLoop' = IF g \in didSchedule[p] THEN runLoop ELSE Push(runLoop, p, Task("dispatchMessages", g))
          /\ UNCHANGED m_incomingMessages
      BY <1>4, <1>8 DEF ProcessIncomingMessage, Push
    <2> HIDE DEF y
    <2>1. ToSet(Append(toDispatch[p], y)) = ToSet(toDispatch[p]) \cup {y}
      BY <1>0, <1>3, PushFacts
    <2>2. \A q \in Process : toDispatch'[q] = IF q = p THEN Append(toDispatch[p], y) ELSE toDispatch[q]
      BY <1>0, <2>0
    <2>3. ASSUME NEW e \in Endpoint, e # g, Awaited(e)' PROVE Awaited(e)
      <3>1. PICK c \in ToSet(toDispatch'[ProcessOf(e)]) \cup Kept(stack[ProcessOf(e)]) : c.e = e
        BY <1>1, <2>3 DEF Awaited
      <3>2. c # y
        BY <1>3, <2>3, <3>1
      <3>3. c \in ToSet(toDispatch[ProcessOf(e)]) \cup Kept(stack[ProcessOf(e)])
        <4> HIDE DEF p
        <4> QED
          BY <1>0, <2>1, <2>2, <3>1, <3>2
      <3> QED
        BY <3>1, <3>3 DEF Awaited
    <2>4. /\ g \in didSchedule'[p]
          /\ \A e \in Endpoint : e # g => (e \in didSchedule'[ProcessOf(e)] <=> e \in didSchedule[ProcessOf(e)])
      BY <1>0, <2>0
    <2>5. \A e \in Endpoint : /\ Tasks("dispatchOneMessage", e)' = Tasks("dispatchOneMessage", e)
                              /\ Tasks("dispatchMessages", e)' =
                                   IF e = g THEN 1 ELSE Tasks("dispatchMessages", e)
      <3>1. CASE g \in didSchedule[p]
        BY <1>5, <2>0, <3>1 DEF Tasks
      <3>2. CASE g \notin didSchedule[p]
        <4>1. runLoop' = Push(runLoop, p, Task("dispatchMessages", g))
          BY <2>0, <3>2
        <4> HIDE DEF p
        <4>2. \A e \in Endpoint : \A w :
                 /\ Tasks(w, e) \in Nat
                 /\ Tasks(w, e)' = Tasks(w, e) + (IF e = g /\ w = "dispatchMessages" THEN 1 ELSE 0)
          BY <1>0, <1>6, <4>1, TasksPush
        <4>3. Tasks("dispatchMessages", g) = 0
          BY <1>5, <3>2 DEF p
        <4> QED
          BY <4>2, <4>3
      <3> QED
        BY <3>1, <3>2
    <2>6. ASSUME NEW e \in Endpoint
          PROVE  /\ Tasks("dispatchOneMessage", e)' = Len(m_incomingMessages'[e])
                 /\ Tasks("dispatchMessages", e)' = IF e \in didSchedule'[ProcessOf(e)] THEN 1 ELSE 0
                 /\ Awaited(e)' => e \in didSchedule'[ProcessOf(e)]
      <3>1. CASE e = g
        BY <1>5, <2>0, <2>4, <2>5, <3>1
      <3>2. CASE e # g
        BY <1>5, <2>0, <2>3, <2>4, <2>5, <3>2
      <3> QED
        BY <3>1, <3>2
    <2> QED
      BY <2>6 DEF NoMessageStranded
  <1>9. CASE x.kind # "reply" /\ ~x.marked
    <2>0. /\ m_incomingMessages' = [m_incomingMessages EXCEPT ![g] = Append(@, x)]
          /\ runLoop' = Push(runLoop, p, Task("dispatchOneMessage", g))
          /\ UNCHANGED <<toDispatch, didSchedule>>
      BY <1>4, <1>9 DEF ProcessIncomingMessage, Push
    <2> HIDE DEF x, p
    <2>1. \A e \in Endpoint : \A w :
             /\ Tasks(w, e) \in Nat
             /\ Tasks(w, e)' = Tasks(w, e) + (IF e = g /\ w = "dispatchOneMessage" THEN 1 ELSE 0)
      BY <1>0, <1>6, <2>0, TasksPush
    <2>2. \A e \in Endpoint : Awaited(e)' => Awaited(e)
      BY <1>1, <2>0 DEF Awaited
    <2>3. \A e \in Endpoint : Len(m_incomingMessages'[e]) = Len(m_incomingMessages[e]) + (IF e = g THEN 1 ELSE 0)
      <3>1. \A e \in Endpoint : m_incomingMessages[e] \in Seq(Msg) /\ Len(m_incomingMessages[e]) \in Nat
        BY <1>0
      <3>2. Len(Append(m_incomingMessages[g], x)) = Len(m_incomingMessages[g]) + 1
        BY <1>2, <3>1, PushFacts
      <3> QED
        BY <1>0, <2>0, <3>1, <3>2
    <2>4. ASSUME NEW e \in Endpoint
          PROVE  /\ Tasks("dispatchOneMessage", e)' = Len(m_incomingMessages'[e])
                 /\ Tasks("dispatchMessages", e)' = Tasks("dispatchMessages", e)
      <3>1. /\ Tasks("dispatchOneMessage", e) = Len(m_incomingMessages[e])
            /\ Tasks("dispatchOneMessage", e)' = Tasks("dispatchOneMessage", e) + (IF e = g THEN 1 ELSE 0)
        BY <1>5, <2>1
      <3>2. Tasks("dispatchMessages", e)' = Tasks("dispatchMessages", e)
        BY <2>1
      <3> QED
        BY <2>3, <3>1, <3>2
    <2> QED
      BY <1>5, <2>0, <2>2, <2>4 DEF NoMessageStranded
  <1> QED
    BY <1>7, <1>8, <1>9

\* A closed connection posts a task of its own.
LEMMA DidCloseStrandsNone ==
  ASSUME TypeOK, NoMessageStranded, NEW g \in Endpoint, ConnectionDidClose(g)
  PROVE  NoMessageStranded'
  <1> DEFINE p == ProcessOf(g)
  <1>0. p \in Process /\ g \in Of(p) /\ Task("didClose", g) \in LoopTask(p)
    BY EndpointFacts DEF Task, LoopTask
  <1>1. /\ runLoop' = Push(runLoop, p, Task("didClose", g))
        /\ UNCHANGED <<m_incomingMessages, toDispatch, didSchedule, stack>>
    BY DEF ConnectionDidClose
  <1> HIDE DEF p
  <1>2. \A e \in Endpoint : \A w :
             /\ Tasks(w, e) \in Nat
             /\ Tasks(w, e)' = Tasks(w, e) + (IF e = g /\ w = "didClose" THEN 1 ELSE 0)
    BY <1>0, <1>1, TasksPush
  <1>3. \A e \in Endpoint : /\ Tasks("dispatchOneMessage", e)' = Tasks("dispatchOneMessage", e)
                            /\ Tasks("dispatchMessages", e)' = Tasks("dispatchMessages", e)
    BY <1>2
  <1>4. \A e \in Endpoint : Awaited(e)' => Awaited(e)
    BY <1>1 DEF Awaited
  <1> QED
    BY <1>1, <1>3, <1>4 DEF NoMessageStranded

\* A call that waits keeps nothing.
LEMMA SendSyncStrandsNone ==
  ASSUME TypeOK, NoMessageStranded, NEW g \in Endpoint, SendSyncMessage(g)
  PROVE  NoMessageStranded'
  <1> DEFINE p == ProcessOf(g)
             f == [call |-> "wait", e |-> g, id |-> sent', at |-> "dispatch"]
             t == Append(stack[p], f)
  <1>0. sent' \in Nat /\ p \in Process /\ g \in Of(p) /\ stack[p] \in Seq(Frame(p))
    BY EndpointFacts DEF TypeOK, SendSyncMessage
  <1>1. /\ stack' = [stack EXCEPT ![p] = t]
        /\ UNCHANGED <<m_incomingMessages, toDispatch, didSchedule, runLoop>>
    BY DEF SendSyncMessage, Push, processVars
  <1>2. f \in Frame(p) /\ f.call = "wait"
    BY <1>0 DEF Frame, Wait
  <1> HIDE DEF f, p
  <1>3. KeptBy(f) = {} /\ Kept(t) = Kept(stack[p]) \cup KeptBy(f)
    BY <1>0, <1>2, KeptPush DEF KeptBy
  <1>4. Kept(t) \subseteq Kept(stack[p])
    BY <1>3
  <1> HIDE DEF t
  <1> QED
    BY <1>0, <1>1, <1>4, CallsStrandNone

\* No step strands a message.
LEMMA NextStrandsNone == TypeOK /\ NoMessageStranded /\ [Next]_vars => NoMessageStranded'
  <1> SUFFICES ASSUME TypeOK, NoMessageStranded, [Next]_vars PROVE NoMessageStranded'
    OBVIOUS
  <1>1. ASSUME NEW p \in Process, MainStep(p) \/ WaitTimesOut(p) PROVE NoMessageStranded'
    BY <1>1, MainStrandsNone, WaitStrandsNone, DispatchStrandsNone, RunLoopStrandsNone DEF MainStep
  <1>2. ASSUME UNCHANGED <<m_incomingMessages, didSchedule, runLoop, toDispatch, stack>>
        PROVE  NoMessageStranded'
    BY <1>2 DEF NoMessageStranded, Tasks, Awaited
  <1>3. ASSUME NEW p \in Process, Crash(p) PROVE NoMessageStranded'
    BY <1>2, <1>3 DEF Crash, processVars
  <1>4. ASSUME NEW e \in Endpoint, QueueStep(e) PROVE NoMessageStranded'
    <2>1. CASE PlatformInvalidate(e)
      BY <1>2, <2>1 DEF PlatformInvalidate, processVars
    <2> QED
      BY <1>4, <2>1, ReceiveStrandsNone, DidCloseStrandsNone DEF QueueStep
  <1>5. ASSUME NEW e \in Endpoint, SendMessage(e) \/ Invalidate(e) PROVE NoMessageStranded'
    BY <1>2, <1>5 DEF SendMessage, Invalidate, endpointVars, processVars
  <1>6. ASSUME NEW e \in Endpoint, SendSyncMessage(e) PROVE NoMessageStranded'
    BY <1>6, SendSyncStrandsNone
  <1>7. ASSUME UNCHANGED vars PROVE NoMessageStranded'
    BY <1>2, <1>7 DEF vars, endpointVars, processVars
  <1>8. ASSUME Next PROVE NoMessageStranded'
    BY <1>1, <1>3, <1>4, <1>5, <1>6, <1>8 DEF Next
  <1> QED
    BY <1>7, <1>8

\* Nothing has arrived and no task is posted.
LEMMA InitStrandsNone == Init => NoMessageStranded
  <1> SUFFICES ASSUME Init PROVE NoMessageStranded
    OBVIOUS
  <1>1. \A p \in Process : /\ runLoop[p] = <<>> /\ didSchedule[p] = {}
                           /\ ToSet(toDispatch[p]) = {} /\ ToSet(stack[p]) = {}
    BY EmptyFacts DEF Init, Const
  <1>2. ASSUME NEW e \in Endpoint
        PROVE  Len(m_incomingMessages[e]) = 0 /\ ~Awaited(e) /\ e \notin didSchedule[ProcessOf(e)]
               /\ runLoop[ProcessOf(e)] = <<>>
    <2>1. ProcessOf(e) \in Process /\ m_incomingMessages[e] = <<>>
      BY EndpointFacts DEF Init, Const
    <2> QED
      BY <1>1, <2>1, EmptyFacts DEF Awaited, Kept
  <1>3. \A x : Cardinality(Places(<< >>, x)) = 0
    <2> SUFFICES ASSUME NEW x PROVE Cardinality(Places(<< >>, x)) = 0
      OBVIOUS
    <2>1. Places(<< >>, x) = {}
      BY DEF Places
    <2> QED
      BY <2>1, FS_EmptySet
  <1>4. \A e \in Endpoint : \A what : Tasks(what, e) = 0
    BY <1>2, <1>3 DEF Tasks
  <1> QED
    BY <1>2, <1>4 DEF NoMessageStranded

\* Every message that a process received and did not dispatch has a task in its
\* run loop, one each for the unmarked and one per connection for the marked,
\* even while a nested wait or the batch of another connection holds them.
THEOREM IPCStrandsNoMessage == Spec => []NoMessageStranded
  <1>1. IInv => TypeOK
    BY DEF IInv
  <1> QED
    BY <1>1, InitStrandsNone, NextStrandsNone, IPCInvariance, PTL DEF Spec

-----------------------------------------------------------------------------
(* waitForMessage(): what the main thread takes out of turn was asked for,   *)
(* so the other messages stay in the order in which they came, and every     *)
(* message is in one place at a time.                                        *)

CONSTANTS MaxMessage, InterruptWaiting
VARIABLES wMain, wRegistered, wInterrupted, wClosing

WM == INSTANCE IPCWaitForMessage WITH main <- wMain, registered <- wRegistered,
            interrupted <- wInterrupted, closing <- wClosing

\* The instance names the members of a sequence as everybody does.
LEMMA WMToSet == \A s : WM!ToSet(s) = ToSet(s)
  BY DEF WM!ToSet, ToSet

\* A place of a sequence without its element at i is a place of the sequence,
\* and the order of the places is kept.
Shift(i, k) == IF k < i THEN k ELSE k + 1

\* RemoveAt(), by places.
LEMMA RemoveFacts ==
  ASSUME NEW s \in Seq(Nat), NEW i \in 1 .. Len(s)
  PROVE  /\ WM!RemoveAt(s, i) \in Seq(Nat)
         /\ Len(s) \in Nat \ {0} /\ Len(WM!RemoveAt(s, i)) = Len(s) - 1
         /\ \A k \in 1 .. Len(s) - 1 :
               Shift(i, k) \in 1 .. Len(s) /\ WM!RemoveAt(s, i)[k] = s[Shift(i, k)]
         /\ ToSet(s) = ToSet(WM!RemoveAt(s, i)) \cup {s[i]}
  <1> DEFINE a == SubSeq(s, 1, i - 1)
             b == SubSeq(s, i + 1, Len(s))
             t == a \o b
  <1>1. Len(s) \in Nat \ {0} /\ DOMAIN s = 1 .. Len(s) /\ i \in Nat /\ 1 <= i /\ i <= Len(s)
    OBVIOUS
  <1>2. /\ a \in Seq(Nat) /\ Len(a) = i - 1
        /\ \A k \in 1 .. i - 1 : a[k] = s[k]
    BY <1>1
  <1>3. /\ b \in Seq(Nat) /\ Len(b) = Len(s) - i
        /\ \A k \in 1 .. Len(s) - i : b[k] = s[i + k]
    <2> DEFINE m == i + 1
               n == Len(s)
    <2>1. /\ m \in Int /\ n \in Int /\ n - m + 1 = Len(s) - i
          /\ \A k \in m .. n : s[k] \in Nat
          /\ \A k \in 1 .. Len(s) - i : m + k - 1 = i + k
      BY <1>1
    <2>2. /\ SubSeq(s, m, n) \in Seq(Nat)
          /\ Len(SubSeq(s, m, n)) = IF m <= n THEN n - m + 1 ELSE 0
          /\ \A k \in 1 .. n - m + 1 : SubSeq(s, m, n)[k] = s[m + k - 1]
      <3> HIDE DEF m, n
      <3> QED
        BY <2>1, SubSeqProperties
    <2>3. Len(SubSeq(s, m, n)) = Len(s) - i
      <3>1. (m <= n /\ n - m + 1 = Len(s) - i) \/ (~(m <= n) /\ Len(s) - i = 0)
        <4>1. \A x, y \in Nat : y <= x =>
                 \/ (y + 1 <= x /\ x - (y + 1) + 1 = x - y)
                 \/ (~(y + 1 <= x) /\ x - y = 0)
          OBVIOUS
        <4> QED
          BY <1>1, <4>1
      <3> HIDE DEF m, n
      <3> QED
        BY <2>2, <3>1
    <2>4. \A k \in 1 .. Len(s) - i : SubSeq(s, m, n)[k] = s[i + k]
      BY <2>1, <2>2
    <2> QED
      BY <2>2, <2>3, <2>4
  <1> HIDE DEF a, b
  <1>4. /\ t \in Seq(Nat) /\ Len(t) = Len(s) - 1
        /\ \A k \in 1 .. Len(s) - 1 : t[k] = IF k < i THEN a[k] ELSE b[k - (i - 1)]
    <2>0. PICK c : c = a \o b
      OBVIOUS
    <2>1. c \in Seq(Nat) /\ Len(c) = Len(a) + Len(b)
      BY <1>2, <1>3, <2>0, ConcatProperties
    <2>2. \A k \in 1 .. Len(a) + Len(b) : c[k] = IF k <= Len(a) THEN a[k] ELSE b[k - Len(a)]
      BY <1>2, <1>3, <2>0, ConcatProperties
    <2>3. Len(c) = Len(s) - 1
      BY <1>1, <1>2, <1>3, <2>1
    <2>4. ASSUME NEW k \in 1 .. Len(s) - 1
          PROVE  c[k] = IF k < i THEN a[k] ELSE b[k - (i - 1)]
      <3>1. k \in 1 .. Len(a) + Len(b) /\ (k <= Len(a) <=> k < i)
        BY <1>1, <1>2, <1>3
      <3> QED
        BY <1>2, <2>2, <3>1
    <2> QED
      BY <2>0, <2>1, <2>3, <2>4
  <1>5. ASSUME NEW k \in 1 .. Len(s) - 1
        PROVE  Shift(i, k) \in 1 .. Len(s) /\ t[k] = s[Shift(i, k)]
    <2>1. CASE k < i
      BY <1>1, <1>2, <1>4, <2>1 DEF Shift
    <2>2. CASE ~(k < i)
      <3>1. k - (i - 1) \in 1 .. Len(s) - i /\ i + (k - (i - 1)) = k + 1
        BY <1>1, <2>2
      <3> QED
        BY <1>1, <1>3, <1>4, <2>2, <3>1, SMTT(30) DEF Shift
    <2> QED
      BY <2>1, <2>2
  <1>6. DOMAIN t = 1 .. Len(s) - 1
    BY <1>4
  <1> HIDE DEF t
  <1>7. ASSUME NEW x \in ToSet(s) PROVE x \in ToSet(t) \cup {s[i]}
    <2>1. PICK m \in 1 .. Len(s) : x = s[m]
      BY <1>1, <1>7 DEF ToSet
    <2>2. CASE m < i
      <3>1. m \in 1 .. Len(s) - 1 /\ Shift(i, m) = m
        BY <1>1, <2>2 DEF Shift
      <3> QED
        BY <1>5, <1>6, <2>1, <3>1 DEF ToSet
    <2>3. CASE m > i
      <3>1. m - 1 \in 1 .. Len(s) - 1 /\ Shift(i, m - 1) = m
        BY <1>1, <2>3 DEF Shift
      <3> QED
        BY <1>5, <1>6, <2>1, <3>1 DEF ToSet
    <2>4. CASE m = i
      BY <2>1, <2>4
    <2> QED
      BY <1>1, <2>2, <2>3, <2>4
  <1>8. ToSet(s) = ToSet(t) \cup {s[i]}
    <2>1. ToSet(t) \subseteq ToSet(s) /\ s[i] \in ToSet(s)
      BY <1>1, <1>5, <1>6 DEF ToSet
    <2> QED
      BY <1>7, <2>1
  <1>9. WM!RemoveAt(s, i) = t
    BY DEF WM!RemoveAt, t, a, b
  <1> QED
    BY <1>1, <1>4, <1>5, <1>8, <1>9

\* What the types say about the places of the two sequences.
LEMMA WaitPlaces ==
  ASSUME WM!TypeOK
  PROVE  /\ received \in Seq(WM!Kind) /\ Len(received) \in Nat
         /\ DOMAIN received = 1 .. Len(received)
         /\ incoming \in Seq(Nat) /\ Len(incoming) \in Nat /\ DOMAIN incoming = 1 .. Len(incoming)
         /\ \A i \in 1 .. Len(incoming) : incoming[i] \in 1 .. Len(received)
         /\ processed \in Seq(Nat) /\ Len(processed) \in Nat
         /\ DOMAIN processed = 1 .. Len(processed)
         /\ \A i \in 1 .. Len(processed) : processed[i] \in 1 .. Len(received)
         /\ enqueuing = 0 \/ enqueuing \in 1 .. Len(received)
         /\ decoder = NoDecoder \/ decoder \in 1 .. Len(received)
         /\ \A n \in discarded : n \in 1 .. Len(received)
         /\ tasks \in Nat
  <1>1. /\ received \in Seq(WM!Kind) /\ incoming \in Seq(Nat) /\ processed \in Seq(Nat)
        /\ ToSet(incoming) \subseteq DOMAIN received /\ ToSet(processed) \subseteq DOMAIN received
        /\ enqueuing = 0 \/ enqueuing \in DOMAIN received
        /\ decoder = NoDecoder \/ decoder \in DOMAIN received
        /\ discarded \subseteq DOMAIN received
        /\ tasks \in Nat
    BY WMToSet DEF WM!TypeOK, WM!None
  <1>2. /\ Len(received) \in Nat /\ DOMAIN received = 1 .. Len(received)
        /\ Len(incoming) \in Nat /\ DOMAIN incoming = 1 .. Len(incoming)
        /\ Len(processed) \in Nat /\ DOMAIN processed = 1 .. Len(processed)
    BY <1>1
  <1>3. /\ \A i \in 1 .. Len(incoming) : incoming[i] \in 1 .. Len(received)
        /\ \A i \in 1 .. Len(processed) : processed[i] \in 1 .. Len(received)
    BY <1>1, <1>2 DEF ToSet
  <1> QED
    BY <1>1, <1>2, <1>3

LEMMA WaitInit == WM!Init => WM!IInv
  <1> SUFFICES ASSUME WM!Init PROVE WM!IInv
    OBVIOUS
  <1>1. /\ received = <<>> /\ incoming = <<>> /\ processed = <<>>
        /\ DOMAIN received = {} /\ DOMAIN incoming = {} /\ DOMAIN processed = {}
        /\ Len(incoming) = 0 /\ tasks = 0 /\ decoder = NoDecoder /\ discarded = {}
        /\ enqueuing = 0 /\ wRegistered = FALSE
    BY DEF WM!Init, WM!None
  <1>2. ToSet(incoming) = {} /\ ToSet(processed) = {}
    BY <1>1 DEF ToSet
  <1>3. WM!TypeOK
    <2>1. <<>> \in Seq(WM!Kind) /\ <<>> \in Seq(Nat)
      OBVIOUS
    <2>2. WM!ToSet(incoming) = {} /\ WM!ToSet(processed) = {}
      BY <1>2, WMToSet
    <2>3. received \in Seq(WM!Kind) /\ incoming \in Seq(Nat) /\ processed \in Seq(Nat)
      BY <1>1, <2>1
    <2>4. WM!ToSet(incoming) \subseteq DOMAIN received /\ WM!ToSet(processed) \subseteq DOMAIN received
      BY <2>2
    <2> QED
      BY <2>3, <2>4 DEF WM!Init, WM!TypeOK
  <1>4. WM!OthersAscend /\ WM!NothingLost /\ WM!OnePlace /\ WM!TaskForEach
    <2>1. WM!OnePlace
      BY <1>1, <1>2, WMToSet, DecoderAssumption DEF WM!OnePlace
    <2> QED
      BY <1>1, <2>1 DEF WM!OthersAscend, WM!NothingLost, WM!TaskForEach, WM!Unwanted, WM!UnwantedIn
  <1>5. WM!DecoderWanted /\ WM!QueueAscends /\ WM!ClientAhead
    BY <1>1 DEF WM!DecoderWanted, WM!QueueAscends, WM!ClientAhead, WM!UnwantedIn
  <1> QED
    BY <1>3, <1>4, <1>5 DEF WM!IInv

\* Steps that leave the messages where they are.
LEMMA WaitQuiet ==
  ASSUME WM!IInv, UNCHANGED <<incoming, tasks, received, enqueuing, decoder, processed, discarded>>,
         wMain' \in {"idle", "register", "look", "asleep", "awake", "timedOut"},
         wRegistered' \in BOOLEAN, wInterrupted' \in BOOLEAN,
         valid' \in BOOLEAN, valid' => valid,
         wMain' \in {"idle", "register"} => ~wRegistered' /\ decoder = NoDecoder,
         wClosing' \in {"open", "invalidated", "told", "notified", "closed", "done"}
  PROVE  WM!IInv'
  <1>1. WM!TypeOK'
    BY DEF WM!IInv, WM!TypeOK, WM!Kind
  <1>2. WM!OthersAscend' /\ WM!NothingLost' /\ WM!TaskForEach'
    BY DEF WM!IInv, WM!OthersAscend, WM!NothingLost, WM!TaskForEach, WM!Unwanted, WM!UnwantedIn
  <1>3. WM!DecoderWanted' /\ WM!QueueAscends' /\ WM!ClientAhead'
    BY DEF WM!IInv, WM!DecoderWanted, WM!QueueAscends, WM!ClientAhead, WM!UnwantedIn, WM!Unwanted
  <1>4. WM!OnePlace'
    BY DEF WM!IInv, WM!OnePlace
  <1> QED
    BY <1>1, <1>2, <1>3, <1>4 DEF WM!IInv

\* StopWaiting, with the message there: it is thrown away.
LEMMA WaitGivesUp ==
  ASSUME WM!IInv, WM!StopWaiting, decoder' # decoder
  PROVE  WM!IInv'
  <1>1. /\ WM!TypeOK /\ decoder # NoDecoder /\ decoder \in DOMAIN received
        /\ received[decoder] = "wanted" /\ decoder' = NoDecoder
        /\ discarded' = discarded \cup {decoder}
        /\ wMain' = "idle" /\ wRegistered' = FALSE
        /\ UNCHANGED <<wInterrupted, valid, incoming, tasks, received, enqueuing, wClosing, processed>>
    BY DEF WM!StopWaiting, WM!IInv, WM!TypeOK, WM!DecoderWanted
  <1>2. WM!TypeOK'
    BY <1>1 DEF WM!TypeOK, WM!Kind
  <1>3. WM!Unwanted' = WM!Unwanted /\ decoder \notin WM!Unwanted
    BY <1>1 DEF WM!Unwanted
  <1>4. /\ WM!UnwantedIn(processed)' = WM!UnwantedIn(processed)
        /\ WM!UnwantedIn(incoming)' = WM!UnwantedIn(incoming)
    BY <1>1 DEF WM!UnwantedIn
  <1>5. WM!OthersAscend' /\ WM!TaskForEach' /\ WM!QueueAscends' /\ WM!DecoderWanted'
    BY <1>1, <1>4 DEF WM!IInv, WM!OthersAscend, WM!TaskForEach, WM!QueueAscends, WM!DecoderWanted
  <1>6. WM!NothingLost'
    BY <1>1, <1>3 DEF WM!IInv, WM!NothingLost
  <1>7. WM!ClientAhead'
    <2>1. (discarded \cap WM!Unwanted)' = discarded \cap WM!Unwanted
      BY <1>1, <1>3
    <2> QED
      BY <1>1, <1>4, <2>1 DEF WM!IInv, WM!ClientAhead
  <1>8. WM!OnePlace'
    <2>1. NoDecoder \notin DOMAIN received /\ NoDecoder # enqueuing
      BY <1>1, WaitPlaces, DecoderAssumption
    <2>2. WM!ToSet(processed) \subseteq DOMAIN received /\ WM!ToSet(incoming) \subseteq DOMAIN received
          /\ discarded \subseteq DOMAIN received
      BY <1>1 DEF WM!TypeOK
    <2> QED
      BY <1>1, <2>1, <2>2 DEF WM!IInv, WM!OnePlace
  <1> QED
    BY <1>2, <1>5, <1>6, <1>7, <1>8 DEF WM!IInv

\* A sequence without repetitions stays one when it gets a new member.
LEMMA OnceMore ==
  ASSUME NEW s \in Seq(Nat), NEW m \in Nat, m \notin ToSet(s),
         \A i, j \in DOMAIN s : s[i] = s[j] => i = j
  PROVE  \A i, j \in DOMAIN Append(s, m) : Append(s, m)[i] = Append(s, m)[j] => i = j
  <1>1. PICK t : t = Append(s, m)
    OBVIOUS
  <1>2. /\ t \in Seq(Nat) /\ Len(s) \in Nat /\ Len(t) = Len(s) + 1 /\ t[Len(s) + 1] = m
        /\ \A i \in 1 .. Len(s) : t[i] = s[i]
    BY <1>1, PushFacts
  <1>3. /\ DOMAIN s = 1 .. Len(s) /\ DOMAIN t = 1 .. Len(s) + 1
        /\ \A i \in DOMAIN t : i \in DOMAIN s \/ i = Len(s) + 1
    BY <1>2
  <1>3a. \A i \in DOMAIN s : t[i] = s[i] /\ s[i] # m
    BY <1>2, <1>3 DEF ToSet
  <1>4. ASSUME NEW i \in DOMAIN t, NEW j \in DOMAIN t, t[i] = t[j] PROVE i = j
    BY <1>2, <1>3, <1>3a, <1>4
  <1> QED
    BY <1>1, <1>4

\* A message that was asked for reaches the client out of turn: the unwanted ones
\* are at the same places as before.
LEMMA WaitGives ==
  ASSUME WM!TypeOK, NEW m \in DOMAIN received, received[m] = "wanted",
         received' = received, processed' = Append(processed, m),
         WM!OnePlace, m \notin ToSet(processed)
  PROVE  /\ processed' \in Seq(Nat) /\ ToSet(processed') \subseteq DOMAIN received
         /\ \A i, j \in DOMAIN processed' : processed'[i] = processed'[j] => i = j
         /\ ToSet(processed') = ToSet(processed) \cup {m}
         /\ WM!UnwantedIn(processed)' = WM!UnwantedIn(processed)
         /\ \A i \in WM!UnwantedIn(processed) :
               i \in Nat /\ processed[i] \in Nat /\ processed'[i] = processed[i]
  <1>1. /\ m \in Nat /\ processed \in Seq(Nat) /\ Len(processed) \in Nat
        /\ DOMAIN processed = 1 .. Len(processed)
    BY WaitPlaces
  <1>2. /\ processed' \in Seq(Nat) /\ Len(processed') = Len(processed) + 1
        /\ \A i \in 1 .. Len(processed) : processed'[i] = processed[i]
        /\ processed'[Len(processed) + 1] = m
        /\ ToSet(processed') = ToSet(processed) \cup {m}
    BY <1>1, PushFacts
  <1>3. ToSet(processed') \subseteq DOMAIN received
    BY <1>2, WMToSet DEF WM!TypeOK
  <1>4. /\ DOMAIN processed' = 1 .. Len(processed) + 1
        /\ \A i \in 1 .. Len(processed) + 1 : i \in 1 .. Len(processed) \/ i = Len(processed) + 1
        /\ \A i \in 1 .. Len(processed) : i \in 1 .. Len(processed) + 1
    BY <1>1, <1>2
  <1>5. WM!UnwantedIn(processed)' = WM!UnwantedIn(processed)
    BY <1>1, <1>2, <1>4 DEF WM!UnwantedIn
  <1>6. \A i \in WM!UnwantedIn(processed) :
           i \in Nat /\ processed[i] \in Nat /\ processed'[i] = processed[i]
    BY <1>1, <1>2 DEF WM!UnwantedIn
  <1>7. \A i, j \in DOMAIN processed' : processed'[i] = processed'[j] => i = j
    BY <1>1, <1>2, <1>4, OnceMore DEF WM!OnePlace
  <1> QED
    BY <1>2, <1>3, <1>5, <1>6, <1>7

\* Look, with the message there.
LEMMA WaitLook ==
  ASSUME WM!IInv, WM!Look, decoder # NoDecoder
  PROVE  WM!IInv'
  <1>1. /\ WM!TypeOK /\ decoder \in DOMAIN received /\ received[decoder] = "wanted"
        /\ received' = received /\ processed' = Append(processed, decoder)
        /\ incoming' = incoming /\ tasks' = tasks /\ enqueuing' = enqueuing
        /\ decoder' = NoDecoder /\ wRegistered' = FALSE /\ wMain' = "idle"
        /\ wInterrupted' = wInterrupted /\ wClosing' = wClosing
        /\ valid' = valid /\ discarded' = discarded
    BY DEF WM!IInv, WM!Look, WM!TypeOK, WM!DecoderWanted
  <1>1a. WM!OnePlace /\ decoder \notin ToSet(processed)
    BY WMToSet DEF WM!IInv, WM!OnePlace
  <1>2. /\ processed' \in Seq(Nat) /\ ToSet(processed') \subseteq DOMAIN received
        /\ ToSet(processed') = ToSet(processed) \cup {decoder}
        /\ WM!UnwantedIn(processed)' = WM!UnwantedIn(processed)
        /\ \A i \in WM!UnwantedIn(processed) : processed'[i] = processed[i]
        /\ \A i, j \in DOMAIN processed' : processed'[i] = processed'[j] => i = j
    BY <1>1, <1>1a, WaitGives
  <1>3. WM!TypeOK'
    <2>1. WM!ToSet(processed') \subseteq DOMAIN received
      BY <1>2, WMToSet
    <2> QED
      BY <1>1, <1>2, <2>1 DEF WM!TypeOK, WM!Kind
  <1>4. WM!OthersAscend'
    BY <1>2 DEF WM!IInv, WM!OthersAscend
  <1>5. WM!NothingLost' /\ WM!TaskForEach'
    <2>1. WM!Unwanted' = WM!Unwanted
      BY <1>1 DEF WM!Unwanted
    <2> QED
      BY <1>1, <1>2, <2>1, WMToSet DEF WM!IInv, WM!NothingLost, WM!TaskForEach
  <1>6. WM!DecoderWanted' /\ WM!QueueAscends'
    BY <1>1 DEF WM!IInv, WM!DecoderWanted, WM!QueueAscends
  <1>7. WM!ClientAhead'
    <2>1. WM!UnwantedIn(incoming)' = WM!UnwantedIn(incoming)
      BY <1>1 DEF WM!UnwantedIn
    <2>2. WM!Unwanted' = WM!Unwanted
      BY <1>1 DEF WM!Unwanted
    <2> QED
      BY <1>1, <1>2, <2>1, <2>2 DEF WM!IInv, WM!ClientAhead
  <1>8. WM!OnePlace'
    <2>1. NoDecoder \notin DOMAIN received /\ NoDecoder # enqueuing
      BY <1>1, WaitPlaces, DecoderAssumption
    <2>2. /\ ToSet(processed) \subseteq DOMAIN received /\ ToSet(incoming) \subseteq DOMAIN received
          /\ discarded \subseteq DOMAIN received
      BY <1>1, WMToSet DEF WM!TypeOK
    <2> QED
      BY <1>1, <1>1a, <1>2, <2>1, <2>2, WMToSet DEF WM!OnePlace
  <1> QED
    BY <1>3, <1>4, <1>5, <1>6, <1>7, <1>8 DEF WM!IInv

\* Scan, with a message there: it leaves its place in the middle of the queue.
LEMMA WaitScan ==
  ASSUME WM!IInv, WM!Scan, WM!Queued("wanted") # {}
  PROVE  WM!IInv'
  <1>1. PICK i \in WM!Queued("wanted") :
           processed' = Append(processed, incoming[i]) /\ incoming' = WM!RemoveAt(incoming, i)
    BY DEF WM!Scan
  <1>2. /\ UNCHANGED <<wMain, wRegistered, decoder, wInterrupted, valid, tasks, received, enqueuing,
                       wClosing, discarded>>
        /\ WM!TypeOK /\ WM!OnePlace
    BY DEF WM!Scan, WM!waitVars, WM!IInv
  <1>3. /\ incoming \in Seq(Nat) /\ Len(incoming) \in Nat /\ DOMAIN incoming = 1 .. Len(incoming)
        /\ i \in 1 .. Len(incoming) /\ incoming[i] \in DOMAIN received /\ received[incoming[i]] = "wanted"
        /\ \A k \in 1 .. Len(incoming) : incoming[k] \in Nat
    BY <1>1, <1>2, WaitPlaces DEF WM!Queued
  <1>4. /\ processed' \in Seq(Nat) /\ ToSet(processed') \subseteq DOMAIN received
        /\ ToSet(processed') = ToSet(processed) \cup {incoming[i]}
        /\ WM!UnwantedIn(processed)' = WM!UnwantedIn(processed)
        /\ \A k \in WM!UnwantedIn(processed) : processed'[k] = processed[k]
        /\ \A j, k \in DOMAIN processed' : processed'[j] = processed'[k] => j = k
    <2>1. PICK m \in DOMAIN received : m = incoming[i]
      BY <1>3
    <2>2. m \in ToSet(incoming)
      BY <1>3, <2>1 DEF ToSet
    <2>3. m \notin ToSet(processed)
      BY <1>2, <2>2, WMToSet DEF WM!OnePlace
    <2> QED
      BY <1>1, <1>2, <1>3, <2>1, <2>3, WaitGives
  <1>5. /\ incoming' \in Seq(Nat) /\ Len(incoming') = Len(incoming) - 1
        /\ DOMAIN incoming' = 1 .. Len(incoming) - 1
        /\ \A k \in 1 .. Len(incoming) - 1 :
              Shift(i, k) \in 1 .. Len(incoming) /\ incoming'[k] = incoming[Shift(i, k)]
        /\ ToSet(incoming) = ToSet(incoming') \cup {incoming[i]}
    <2>1. PICK q : q = WM!RemoveAt(incoming, i)
      OBVIOUS
    <2>2. q \in Seq(Nat) /\ Len(q) = Len(incoming) - 1
      BY <1>3, <2>1, RemoveFacts
    <2>3. DOMAIN q = 1 .. Len(incoming) - 1
      BY <2>2
    <2>4. \A k \in 1 .. Len(incoming) - 1 :
             Shift(i, k) \in 1 .. Len(incoming) /\ q[k] = incoming[Shift(i, k)]
      BY <1>3, <2>1, RemoveFacts, Zenon
    <2>5. ToSet(incoming) = ToSet(q) \cup {incoming[i]}
      BY <1>3, <2>1, RemoveFacts
    <2> QED
      BY <1>1, <2>1, <2>2, <2>3, <2>4, <2>5
  <1>6. WM!TypeOK'
    <2>1. ToSet(incoming) \subseteq DOMAIN received
      BY <1>2, WMToSet DEF WM!TypeOK
    <2>2. WM!ToSet(processed') \subseteq DOMAIN received /\ WM!ToSet(incoming') \subseteq DOMAIN received
      BY <1>4, <1>5, <2>1, WMToSet
    <2> QED
      BY <1>2, <1>4, <1>5, <2>2 DEF WM!TypeOK, WM!Kind
  <1>7. WM!OthersAscend'
    BY <1>4 DEF WM!IInv, WM!OthersAscend
  <1>8. WM!NothingLost'
    <2>1. DOMAIN received \subseteq ToSet(processed) \cup ToSet(incoming) \cup {enqueuing, decoder}
                                     \cup discarded
      BY WMToSet DEF WM!IInv, WM!NothingLost
    <2>2. WM!Unwanted' = WM!Unwanted
      BY <1>2 DEF WM!Unwanted
    <2> QED
      BY <1>2, <1>4, <1>5, <2>1, <2>2, WMToSet DEF WM!NothingLost, WM!IInv
  <1>9. WM!TaskForEach' /\ WM!DecoderWanted'
    <2>1. WM!TaskForEach'
      BY <1>2, <1>3, <1>5 DEF WM!IInv, WM!TaskForEach, WM!TypeOK
    <2> QED
      BY <1>2, <2>1 DEF WM!IInv, WM!DecoderWanted
  <1>10. WM!QueueAscends'
    <2>1. ASSUME NEW j \in 1 .. Len(incoming) - 1, NEW k \in 1 .. Len(incoming) - 1, j < k
          PROVE  incoming'[j] < incoming'[k]
      <3>1. Shift(i, j) < Shift(i, k)
        BY <1>3, <2>1 DEF Shift
      <3> QED
        BY <1>3, <1>5, <3>1 DEF WM!IInv, WM!QueueAscends
    <2>2. enqueuing # WM!None => \A k \in 1 .. Len(incoming) - 1 : incoming'[k] < enqueuing
      BY <1>3, <1>5 DEF WM!IInv, WM!QueueAscends
    <2> QED
      BY <1>2, <1>5, <2>1, <2>2 DEF WM!QueueAscends, WM!None
  <1>11. WM!ClientAhead'
    <2>1. ASSUME NEW k \in WM!UnwantedIn(incoming)'
          PROVE  \E j \in WM!UnwantedIn(incoming) : incoming'[k] = incoming[j]
      <3>1. k \in 1 .. Len(incoming) - 1 /\ received[incoming'[k]] # "wanted"
        BY <1>2, <1>5 DEF WM!UnwantedIn
      <3> QED
        BY <1>3, <1>5, <3>1 DEF WM!UnwantedIn
    <2>2. ASSUME NEW j \in WM!UnwantedIn(processed)', NEW k \in WM!UnwantedIn(incoming)'
          PROVE  processed'[j] < incoming'[k]
      BY <1>4, <2>1 DEF WM!IInv, WM!ClientAhead
    <2>3. ASSUME NEW j \in WM!UnwantedIn(processed)', enqueuing # WM!None
          PROVE  processed'[j] < enqueuing
      BY <1>4, <2>3 DEF WM!IInv, WM!ClientAhead
    <2>4. WM!Unwanted' = WM!Unwanted
      BY <1>2 DEF WM!Unwanted
    <2>5. ASSUME NEW j \in WM!UnwantedIn(processed)', NEW n \in discarded \cap WM!Unwanted
          PROVE  processed'[j] < n
      BY <1>4, <2>5 DEF WM!IInv, WM!ClientAhead
    <2> QED
      BY <1>2, <2>2, <2>3, <2>4, <2>5 DEF WM!ClientAhead, WM!None
  <1>12. WM!OnePlace'
    <2>1. incoming[i] \notin ToSet(incoming')
      <3>1. ASSUME NEW k \in 1 .. Len(incoming) - 1 PROVE incoming'[k] # incoming[i]
        <4>1. PICK m \in 1 .. Len(incoming) : m = Shift(i, k)
          BY <1>5
        <4>2. m < i \/ i < m
          BY <1>3, <4>1 DEF Shift
        <4>3. incoming[m] < incoming[i] \/ incoming[i] < incoming[m]
          BY <1>3, <4>2 DEF WM!IInv, WM!QueueAscends
        <4> QED
          BY <1>3, <1>5, <4>1, <4>3
      <3> QED
        BY <1>5, <3>1 DEF ToSet
    <2>2. incoming[i] \in ToSet(incoming)
      BY <1>3 DEF ToSet
    <2>3. /\ \A n \in ToSet(processed) : n \notin ToSet(incoming) /\ n \notin discarded
          /\ \A n \in ToSet(incoming) : n \notin discarded
          /\ \A n \in {enqueuing, decoder} :
                 n \notin ToSet(processed) /\ n \notin ToSet(incoming) /\ n \notin discarded
          /\ enqueuing # decoder
      BY <1>2, WMToSet DEF WM!OnePlace
    <2> QED
      BY <1>2, <1>4, <1>5, <2>1, <2>2, <2>3, WMToSet DEF WM!OnePlace
  <1> QED
    BY <1>6, <1>7, <1>8, <1>9, <1>10, <1>11, <1>12 DEF WM!IInv

\* The oldest message leaves the queue.
LEMMA WaitTail ==
  ASSUME WM!IInv, incoming # <<>>, incoming' = Tail(incoming), UNCHANGED <<received, enqueuing>>,
         NEW h, h = Head(incoming)
  PROVE  /\ h \in Nat /\ h \in DOMAIN received /\ h = incoming[1] /\ 1 \in DOMAIN incoming
         /\ incoming' \in Seq(Nat) /\ Len(incoming) \in Nat \ {0} /\ Len(incoming') = Len(incoming) - 1
         /\ ToSet(incoming) = {h} \cup ToSet(incoming') /\ h \notin ToSet(incoming')
         /\ ToSet(incoming') \subseteq DOMAIN received
         /\ WM!QueueAscends'
         /\ enqueuing # 0 => h < enqueuing
         /\ \A k \in WM!UnwantedIn(incoming)' :
               h < incoming'[k] /\ \E m \in WM!UnwantedIn(incoming) : incoming'[k] = incoming[m]
  <1>1. /\ incoming \in Seq(Nat) /\ Len(incoming) \in Nat \ {0} /\ DOMAIN incoming = 1 .. Len(incoming)
        /\ \A k \in 1 .. Len(incoming) : incoming[k] \in Nat /\ incoming[k] \in DOMAIN received
    BY WaitPlaces DEF WM!IInv
  <1>2. h \in Nat /\ h = incoming[1] /\ h \in DOMAIN received /\ 1 \in DOMAIN incoming
    BY <1>1, TailFacts
  <1>3. /\ incoming' \in Seq(Nat) /\ Len(incoming') = Len(incoming) - 1
        /\ DOMAIN incoming' = 1 .. Len(incoming) - 1
        /\ \A k \in 1 .. Len(incoming) - 1 : k + 1 \in 1 .. Len(incoming) /\ incoming'[k] = incoming[k + 1]
        /\ ToSet(incoming) = {h} \cup ToSet(incoming')
    <2>1. PICK q : q = Tail(incoming)
      OBVIOUS
    <2>2. /\ q \in Seq(Nat) /\ Len(q) = Len(incoming) - 1
          /\ \A k \in 1 .. Len(incoming) - 1 : q[k] = incoming[k + 1]
          /\ ToSet(incoming) = {h} \cup ToSet(q)
      BY <1>1, <1>2, <2>1, TailFacts
    <2>3. DOMAIN q = 1 .. Len(incoming) - 1 /\ \A k \in 1 .. Len(incoming) - 1 : k + 1 \in 1 .. Len(incoming)
      BY <1>1, <2>2
    <2> QED
      BY <2>1, <2>2, <2>3
  <1>4. /\ \A j, k \in 1 .. Len(incoming) : j < k => incoming[j] < incoming[k]
        /\ enqueuing # WM!None => \A k \in 1 .. Len(incoming) : incoming[k] < enqueuing
    BY <1>1 DEF WM!IInv, WM!QueueAscends
  <1>5. WM!QueueAscends'
    <2>1. ASSUME NEW j \in 1 .. Len(incoming) - 1, NEW k \in 1 .. Len(incoming) - 1, j < k
          PROVE  incoming'[j] < incoming'[k]
      <3>1. j + 1 \in 1 .. Len(incoming) /\ k + 1 \in 1 .. Len(incoming) /\ j + 1 < k + 1
        BY <1>3, <2>1
      <3> QED
        BY <1>3, <1>4, <3>1
    <2>2. enqueuing # WM!None => \A k \in 1 .. Len(incoming) - 1 : incoming'[k] < enqueuing
      BY <1>3, <1>4
    <2> QED
      BY <1>3, <2>1, <2>2 DEF WM!QueueAscends, WM!None
  <1>6. ASSUME NEW k \in 1 .. Len(incoming) - 1 PROVE h < incoming'[k]
    <2>1. 1 \in 1 .. Len(incoming) /\ k + 1 \in 1 .. Len(incoming) /\ 1 < k + 1
      BY <1>1, <1>3
    <2> QED
      BY <1>2, <1>3, <1>4, <2>1
  <1>7. h \notin ToSet(incoming')
    <2>1. \A k \in 1 .. Len(incoming) - 1 : incoming'[k] \in Nat /\ h # incoming'[k]
      BY <1>1, <1>2, <1>3, <1>6
    <2> QED
      BY <1>3, <2>1 DEF ToSet
  <1>8. ToSet(incoming') \subseteq DOMAIN received
    BY <1>3, WMToSet DEF WM!IInv, WM!TypeOK
  <1>9. ASSUME NEW k \in WM!UnwantedIn(incoming)'
        PROVE  h < incoming'[k] /\ \E m \in WM!UnwantedIn(incoming) : incoming'[k] = incoming[m]
    <2>1. k \in 1 .. Len(incoming) - 1 /\ received[incoming'[k]] # "wanted"
      BY <1>3 DEF WM!UnwantedIn
    <2>2. PICK m \in 1 .. Len(incoming) : m = k + 1 /\ incoming'[k] = incoming[m]
      BY <1>3, <2>1
    <2> QED
      BY <1>1, <1>6, <2>1, <2>2 DEF WM!UnwantedIn
  <1>10. enqueuing # 0 => h < enqueuing
    BY <1>1, <1>2, <1>4 DEF WM!None
  <1> QED
    BY <1>1, <1>2, <1>3, <1>5, <1>7, <1>8, <1>9, <1>10

\* DispatchOneMessage: the oldest message of the queue goes to the client.
LEMMA WaitDispatch ==
  ASSUME WM!IInv, WM!DispatchOneMessage, incoming # <<>>, valid
  PROVE  WM!IInv'
  <1>1. /\ tasks > 0 /\ tasks' = tasks - 1 /\ incoming' = Tail(incoming)
        /\ processed' = Append(processed, Head(incoming))
        /\ UNCHANGED <<wMain, wRegistered, decoder, wInterrupted, valid, received, enqueuing, wClosing,
                       discarded>>
        /\ WM!TypeOK /\ WM!OnePlace
    BY DEF WM!DispatchOneMessage, WM!waitVars, WM!IInv
  <1>2. /\ processed \in Seq(Nat) /\ Len(processed) \in Nat
        /\ DOMAIN processed = 1 .. Len(processed)
        /\ \A k \in 1 .. Len(processed) : processed[k] \in Nat
        /\ tasks \in Nat /\ enqueuing \in Nat
    BY <1>1, WaitPlaces
  <1>3. PICK h : h = Head(incoming)
    OBVIOUS
  <1>4. /\ h \in Nat /\ h \in DOMAIN received /\ h = incoming[1] /\ 1 \in DOMAIN incoming
        /\ incoming' \in Seq(Nat) /\ Len(incoming) \in Nat \ {0} /\ Len(incoming') = Len(incoming) - 1
        /\ ToSet(incoming) = {h} \cup ToSet(incoming') /\ h \notin ToSet(incoming')
        /\ ToSet(incoming') \subseteq DOMAIN received
        /\ WM!QueueAscends'
        /\ enqueuing # 0 => h < enqueuing
    BY <1>1, <1>3, WaitTail
  <1>4a. \A k \in WM!UnwantedIn(incoming)' :
            h < incoming'[k] /\ \E m \in WM!UnwantedIn(incoming) : incoming'[k] = incoming[m]
    BY <1>1, <1>3, WaitTail
  <1>5. /\ processed' \in Seq(Nat) /\ DOMAIN processed' = 1 .. Len(processed) + 1
        /\ \A k \in 1 .. Len(processed) : processed'[k] = processed[k]
        /\ processed'[Len(processed) + 1] = h
        /\ ToSet(processed') = ToSet(processed) \cup {h}
    <2>1. PICK p : p = Append(processed, h)
      OBVIOUS
    <2>2. /\ p \in Seq(Nat) /\ Len(p) = Len(processed) + 1
          /\ \A k \in 1 .. Len(processed) : p[k] = processed[k]
          /\ p[Len(processed) + 1] = h
          /\ ToSet(p) = ToSet(processed) \cup {h}
      BY <1>2, <1>4, <2>1, PushFacts
    <2>3. DOMAIN p = 1 .. Len(processed) + 1
      BY <2>2
    <2> QED
      BY <1>1, <1>3, <2>1, <2>2, <2>3
  <1>6. WM!TypeOK'
    <2>1. ToSet(processed) \subseteq DOMAIN received
      BY <1>1, WMToSet DEF WM!TypeOK
    <2>2. WM!ToSet(processed') \subseteq DOMAIN received /\ WM!ToSet(incoming') \subseteq DOMAIN received
      BY <1>4, <1>5, <2>1, WMToSet
    <2>3. tasks' \in Nat
      BY <1>1, <1>2
    <2> QED
      BY <1>1, <1>4, <1>5, <2>2, <2>3 DEF WM!TypeOK, WM!Kind
  <1>7. /\ \A k \in WM!UnwantedIn(processed) : received[h] # "wanted" => processed[k] < h
        /\ \A j, k \in WM!UnwantedIn(processed) : j < k => processed[j] < processed[k]
    <2>1. received[h] # "wanted" => 1 \in WM!UnwantedIn(incoming)
      BY <1>4 DEF WM!UnwantedIn
    <2> QED
      BY <1>4, <2>1 DEF WM!IInv, WM!ClientAhead, WM!OthersAscend
  <1>8. \A k \in WM!UnwantedIn(processed)' :
           \/ k \in 1 .. Len(processed) /\ k \in WM!UnwantedIn(processed) /\ processed'[k] = processed[k]
           \/ k = Len(processed) + 1 /\ processed'[k] = h /\ received[h] # "wanted"
    BY <1>1, <1>2, <1>5 DEF WM!UnwantedIn
  <1>9. WM!OthersAscend'
    <2>1. ASSUME NEW j \in WM!UnwantedIn(processed)', NEW k \in WM!UnwantedIn(processed)', j < k
          PROVE  processed'[j] < processed'[k]
      <3>1. CASE j = Len(processed) + 1
        BY <1>2, <1>8, <2>1, <3>1
      <3>2. CASE k = Len(processed) + 1 /\ j # k
        BY <1>2, <1>7, <1>8, <3>2, SMTT(30)
      <3>3. CASE j # Len(processed) + 1 /\ k # Len(processed) + 1
        BY <1>7, <1>8, <2>1, <3>3
      <3> QED
        BY <1>2, <2>1, <3>1, <3>2, <3>3
    <2> QED
      BY <2>1 DEF WM!OthersAscend
  <1>10. WM!Unwanted' = WM!Unwanted /\ discarded \cap WM!Unwanted = {}
    BY <1>1 DEF WM!Unwanted, WM!IInv, WM!NothingLost
  <1>11. WM!NothingLost'
    <2>1. DOMAIN received \subseteq ToSet(processed) \cup ToSet(incoming) \cup {enqueuing, decoder}
                                     \cup discarded
      BY WMToSet DEF WM!IInv, WM!NothingLost
    <2> QED
      BY <1>1, <1>4, <1>5, <1>10, <2>1, WMToSet DEF WM!NothingLost
  <1>12. WM!TaskForEach' /\ WM!DecoderWanted'
    <2>1. WM!TaskForEach'
      BY <1>1, <1>2, <1>4 DEF WM!IInv, WM!TaskForEach
    <2> QED
      BY <1>1, <2>1 DEF WM!IInv, WM!DecoderWanted
  <1>13. WM!ClientAhead'
    <2>1. ASSUME NEW j \in WM!UnwantedIn(processed)', NEW k \in WM!UnwantedIn(incoming)'
          PROVE  processed'[j] < incoming'[k]
      <3>1. \A i \in WM!UnwantedIn(processed) : processed[i] < incoming'[k]
        BY <1>4a DEF WM!IInv, WM!ClientAhead
      <3> QED
        BY <1>4a, <1>8, <3>1
    <2>2. ASSUME NEW j \in WM!UnwantedIn(processed)', enqueuing # WM!None
          PROVE  processed'[j] < enqueuing
      <3>1. \A k \in WM!UnwantedIn(processed) : processed[k] < enqueuing
        BY <2>2 DEF WM!IInv, WM!ClientAhead
      <3> QED
        BY <1>4, <1>8, <2>2, <3>1 DEF WM!None
    <2> QED
      BY <1>1, <1>10, <2>1, <2>2 DEF WM!ClientAhead, WM!None
  <1>14. WM!OnePlace'
    <2>1. /\ \A n \in ToSet(processed) : n \notin ToSet(incoming) /\ n \notin discarded
          /\ \A n \in ToSet(incoming) : n \notin discarded
          /\ \A n \in {enqueuing, decoder} :
                 n \notin ToSet(processed) /\ n \notin ToSet(incoming) /\ n \notin discarded
          /\ enqueuing # decoder
      BY <1>1, WMToSet DEF WM!OnePlace
    <2>2. \A j, k \in DOMAIN processed' : processed'[j] = processed'[k] => j = k
      <3>1. h \notin ToSet(processed) /\ \A j, k \in DOMAIN processed : processed[j] = processed[k] => j = k
        BY <1>1, <1>4, <2>1 DEF WM!OnePlace
      <3>2. PICK p : p = processed' /\ p = Append(processed, h)
        BY <1>1, <1>3
      <3>3. \A j, k \in DOMAIN p : p[j] = p[k] => j = k
        BY <1>2, <1>4, <3>1, <3>2, OnceMore
      <3> QED
        BY <3>2, <3>3
    <2> QED
      BY <1>1, <1>4, <1>5, <2>1, <2>2, WMToSet DEF WM!OnePlace
  <1> QED
    BY <1>4, <1>6, <1>9, <1>11, <1>12, <1>13, <1>14 DEF WM!IInv

\* DispatchOneMessage of an invalid connection: the oldest message is dropped.
LEMMA WaitDrop ==
  ASSUME WM!IInv, WM!DispatchOneMessage, incoming # <<>>, ~valid
  PROVE  WM!IInv'
  <1>1. /\ tasks > 0 /\ tasks' = tasks - 1 /\ incoming' = Tail(incoming)
        /\ discarded' = discarded \cup {Head(incoming)}
        /\ UNCHANGED <<wMain, wRegistered, decoder, wInterrupted, valid, received, enqueuing, wClosing,
                       processed>>
        /\ WM!TypeOK /\ WM!OnePlace
    BY DEF WM!DispatchOneMessage, WM!waitVars, WM!IInv
  <1>2. tasks \in Nat
    BY <1>1, WaitPlaces
  <1>3. PICK h : h = Head(incoming)
    OBVIOUS
  <1>4. /\ h \in Nat /\ h \in DOMAIN received /\ h = incoming[1] /\ 1 \in DOMAIN incoming
        /\ incoming' \in Seq(Nat) /\ Len(incoming) \in Nat \ {0} /\ Len(incoming') = Len(incoming) - 1
        /\ ToSet(incoming) = {h} \cup ToSet(incoming') /\ h \notin ToSet(incoming')
        /\ ToSet(incoming') \subseteq DOMAIN received
        /\ WM!QueueAscends'
    BY <1>1, <1>3, WaitTail
  <1>5. \A k \in WM!UnwantedIn(incoming)' : \E m \in WM!UnwantedIn(incoming) : incoming'[k] = incoming[m]
    BY <1>1, <1>3, WaitTail
  <1>6. WM!TypeOK'
    <2>1. WM!ToSet(incoming') \subseteq DOMAIN received
      BY <1>4, WMToSet
    <2>2. tasks' \in Nat
      BY <1>1, <1>2
    <2> QED
      BY <1>1, <1>3, <1>4, <2>1, <2>2 DEF WM!TypeOK, WM!Kind
  <1>7. WM!Unwanted' = WM!Unwanted /\ WM!UnwantedIn(processed)' = WM!UnwantedIn(processed)
    BY <1>1 DEF WM!Unwanted, WM!UnwantedIn
  <1>8. WM!OthersAscend' /\ WM!TaskForEach' /\ WM!DecoderWanted'
    <2>1. WM!TaskForEach'
      BY <1>1, <1>2, <1>4 DEF WM!IInv, WM!TaskForEach
    <2> QED
      BY <1>1, <1>7, <2>1 DEF WM!IInv, WM!OthersAscend, WM!DecoderWanted
  <1>9. WM!NothingLost'
    <2>1. DOMAIN received \subseteq ToSet(processed) \cup ToSet(incoming) \cup {enqueuing, decoder}
                                     \cup discarded
      BY WMToSet DEF WM!IInv, WM!NothingLost
    <2> QED
      BY <1>1, <1>3, <1>4, <2>1, WMToSet DEF WM!NothingLost
  <1>10. WM!ClientAhead'
    <2>1. ASSUME NEW j \in WM!UnwantedIn(processed), NEW k \in WM!UnwantedIn(incoming)'
          PROVE  processed[j] < incoming'[k]
      BY <1>5 DEF WM!IInv, WM!ClientAhead
    <2>2. ASSUME NEW j \in WM!UnwantedIn(processed), NEW n \in discarded' \cap WM!Unwanted
          PROVE  processed[j] < n
      <3>1. CASE n = h
        <4>1. 1 \in WM!UnwantedIn(incoming)
          BY <1>4, <2>2, <3>1 DEF WM!UnwantedIn, WM!Unwanted
        <4> QED
          BY <1>4, <3>1, <4>1 DEF WM!IInv, WM!ClientAhead
      <3>2. CASE n \in discarded
        BY <2>2, <3>2 DEF WM!IInv, WM!ClientAhead
      <3> QED
        BY <1>1, <1>3, <2>2, <3>1, <3>2
    <2>3. \A j \in WM!UnwantedIn(processed) : enqueuing # WM!None => processed[j] < enqueuing
      BY DEF WM!IInv, WM!ClientAhead
    <2> QED
      BY <1>1, <1>7, <2>1, <2>2, <2>3 DEF WM!ClientAhead, WM!None
  <1>11. WM!OnePlace'
    <2>1. /\ \A n \in ToSet(processed) : n \notin ToSet(incoming) /\ n \notin discarded
          /\ \A n \in ToSet(incoming) : n \notin discarded
          /\ \A n \in {enqueuing, decoder} :
                 n \notin ToSet(processed) /\ n \notin ToSet(incoming) /\ n \notin discarded
          /\ enqueuing # decoder
      BY <1>1, WMToSet DEF WM!OnePlace
    <2>2. \A j, k \in DOMAIN processed : processed[j] = processed[k] => j = k
      BY <1>1 DEF WM!OnePlace
    <2> QED
      BY <1>1, <1>3, <1>4, <2>1, <2>2, WMToSet DEF WM!OnePlace
  <1> QED
    BY <1>4, <1>6, <1>8, <1>9, <1>10, <1>11 DEF WM!IInv

\* ProcessIncomingMessage: the youngest message is a new one.
LEMMA WaitReceive ==
  ASSUME WM!IInv, NEW kind \in WM!Kind, WM!ProcessIncomingMessage(kind)
  PROVE  WM!IInv'
  <1> DEFINE n == Len(received) + 1
  <1>1. /\ received' = Append(received, kind) /\ enqueuing = 0
        /\ UNCHANGED <<wRegistered, valid, incoming, tasks, wClosing, processed, discarded>>
        /\ WM!TypeOK
    BY DEF WM!ProcessIncomingMessage, WM!outcome, WM!IInv, WM!None
  <1>2. /\ Len(received) \in Nat /\ DOMAIN received = 1 .. Len(received)
        /\ DOMAIN incoming = 1 .. Len(incoming) /\ DOMAIN processed = 1 .. Len(processed)
        /\ \A k \in DOMAIN incoming : incoming[k] \in 1 .. Len(received)
        /\ \A k \in DOMAIN processed : processed[k] \in 1 .. Len(received)
    BY <1>1, WaitPlaces
  <1>3. /\ received' \in Seq(WM!Kind) /\ Len(received') = n
        /\ \A k \in 1 .. Len(received) : received'[k] = received[k]
        /\ received'[n] = kind
    <2>1. received \in Seq(WM!Kind)
      BY <1>1 DEF WM!TypeOK
    <2> QED
      BY <1>1, <2>1, PushFacts
  <1>4. DOMAIN received' = 1 .. n /\ n \in 1 .. n /\ n # 0
    BY <1>2, <1>3
  <1>5. \/ /\ decoder = NoDecoder /\ wRegistered /\ decoder' = n /\ kind = "wanted"
           /\ enqueuing' = 0
        \/ decoder' = decoder /\ enqueuing' = n
    BY <1>1, <1>3 DEF WM!ProcessIncomingMessage
  <1>6. /\ wMain' \in {"idle", "register", "look", "asleep", "awake", "timedOut"}
        /\ wInterrupted' \in BOOLEAN
    BY <1>1 DEF WM!ProcessIncomingMessage, WM!TypeOK, WM!Notify
  <1> HIDE DEF n
  <1>7. \A k \in 1 .. Len(received) : k \in Nat /\ k \in 1 .. n /\ k < n
    BY <1>2 DEF n
  <1>8. WM!TypeOK'
    <2>1. WM!ToSet(incoming) \subseteq DOMAIN received' /\ WM!ToSet(processed) \subseteq DOMAIN received'
      BY <1>1, <1>2, <1>4, <1>7 DEF WM!TypeOK
    <2>2. decoder' = NoDecoder \/ decoder' \in DOMAIN received'
      BY <1>1, <1>2, <1>4, <1>5, <1>7 DEF WM!TypeOK
    <2>3. enqueuing' = WM!None \/ enqueuing' \in DOMAIN received'
      BY <1>4, <1>5 DEF WM!None
    <2>4. discarded \subseteq DOMAIN received'
      BY <1>1, <1>2, <1>4, <1>7 DEF WM!TypeOK
    <2> QED
      BY <1>1, <1>3, <1>6, <2>1, <2>2, <2>3, <2>4 DEF WM!TypeOK, WM!Kind, WM!None
  <1>9. /\ WM!UnwantedIn(incoming)' = WM!UnwantedIn(incoming)
        /\ WM!UnwantedIn(processed)' = WM!UnwantedIn(processed)
    BY <1>1, <1>2, <1>3 DEF WM!UnwantedIn
  <1>10. WM!OthersAscend' /\ WM!TaskForEach'
    BY <1>1, <1>9 DEF WM!IInv, WM!OthersAscend, WM!TaskForEach
  <1>11. /\ \A k \in 1 .. n : k \in 1 .. Len(received) \/ k = n
         /\ n \notin DOMAIN received /\ n \in Nat /\ n # NoDecoder
         /\ decoder = NoDecoder \/ decoder \in DOMAIN received
         /\ discarded \subseteq DOMAIN received
         /\ 0 \notin DOMAIN received
    <2>1. n \in Nat /\ n \notin 1 .. Len(received) /\ 0 \notin 1 .. Len(received)
          /\ \A k \in 1 .. n : k \in 1 .. Len(received) \/ k = n
      BY <1>2 DEF n
    <2> QED
      BY <1>1, <1>2, <2>1, DecoderAssumption DEF WM!TypeOK
  <1>11a. discarded \cap WM!Unwanted' = discarded \cap WM!Unwanted
    BY <1>2, <1>3, <1>4, <1>7, <1>11 DEF WM!Unwanted
  <1>11b. WM!NothingLost'
    <2>1. DOMAIN received \subseteq WM!ToSet(processed) \cup WM!ToSet(incoming) \cup {0, decoder} \cup discarded
      BY <1>1 DEF WM!IInv, WM!NothingLost
    <2>2. ASSUME NEW k \in DOMAIN received'
          PROVE  k \in WM!ToSet(processed) \cup WM!ToSet(incoming) \cup {enqueuing', decoder'} \cup discarded
      <3>1. CASE k = n
        BY <1>5, <3>1
      <3>2. CASE k \in DOMAIN received
        <4>1. k # 0 /\ k # NoDecoder
          BY <1>2, <1>7, <1>11, <3>2, DecoderAssumption
        <4> QED
          BY <1>5, <2>1, <3>2, <4>1
      <3> QED
        BY <1>2, <1>4, <1>11, <3>1, <3>2
    <2>3. valid => discarded \cap WM!Unwanted = {}
      BY DEF WM!IInv, WM!NothingLost
    <2> QED
      BY <1>1, <1>11a, <2>2, <2>3 DEF WM!NothingLost
  <1>11c. WM!OnePlace'
    <2>1. /\ \A i \in WM!ToSet(processed) : i \in DOMAIN received
          /\ \A i \in WM!ToSet(incoming) : i \in DOMAIN received
      BY <1>1 DEF WM!TypeOK
    <2>2. /\ n \notin WM!ToSet(processed) /\ n \notin WM!ToSet(incoming) /\ n \notin discarded
          /\ 0 \notin WM!ToSet(processed) /\ 0 \notin WM!ToSet(incoming) /\ 0 \notin discarded
      BY <1>11, <2>1
    <2>3. decoder # n /\ n # 0 /\ WM!OnePlace
      BY <1>4, <1>11 DEF WM!IInv
    <2> QED
      BY <1>1, <1>5, <2>2, <2>3 DEF WM!OnePlace
  <1>12. WM!DecoderWanted'
    <2>1. decoder' # NoDecoder => received'[decoder'] = "wanted"
      BY <1>2, <1>3, <1>5, <1>11 DEF WM!IInv, WM!DecoderWanted
    <2>2. wMain' = wMain \/ (wMain = "asleep" /\ wMain' = "awake")
      BY DEF WM!ProcessIncomingMessage, WM!Notify
    <2>3. wMain' \in {"idle", "register"} => ~wRegistered' /\ decoder' = NoDecoder
      BY <1>1, <1>5, <2>2 DEF WM!IInv, WM!DecoderWanted
    <2> QED
      BY <2>1, <2>3 DEF WM!DecoderWanted
  <1>13. WM!QueueAscends'
    <2>1. \A k \in DOMAIN incoming : incoming[k] < n
      BY <1>2, <1>7
    <2> QED
      BY <1>1, <1>5, <2>1 DEF WM!IInv, WM!QueueAscends, WM!None
  <1>14. WM!ClientAhead'
    <2>1. \A k \in WM!UnwantedIn(processed) : processed[k] < n
      BY <1>2, <1>7 DEF WM!UnwantedIn
    <2> QED
      BY <1>1, <1>5, <1>9, <1>11a, <2>1 DEF WM!IInv, WM!ClientAhead, WM!None
  <1> QED
    BY <1>8, <1>10, <1>11b, <1>11c, <1>12, <1>13, <1>14 DEF WM!IInv

\* EnqueueIncomingMessage: the youngest message joins the queue at its end.
LEMMA WaitEnqueue ==
  ASSUME WM!IInv, WM!EnqueueIncomingMessage
  PROVE  WM!IInv'
  <1>1. /\ enqueuing # 0 /\ enqueuing' = 0 /\ tasks' = tasks + 1
        /\ incoming' = Append(incoming, enqueuing)
        /\ UNCHANGED <<wMain, wRegistered, decoder, wInterrupted, valid, received, wClosing, processed,
                       discarded>>
        /\ WM!TypeOK
    BY DEF WM!EnqueueIncomingMessage, WM!waitVars, WM!outcome, WM!IInv, WM!None
  <1>2. /\ incoming \in Seq(Nat) /\ Len(incoming) \in Nat /\ DOMAIN incoming = 1 .. Len(incoming)
        /\ enqueuing \in Nat /\ enqueuing \in DOMAIN received /\ tasks \in Nat
    BY <1>1, WaitPlaces
  <1>3. /\ incoming' \in Seq(Nat) /\ Len(incoming') = Len(incoming) + 1
        /\ DOMAIN incoming' = 1 .. Len(incoming) + 1
        /\ \A k \in 1 .. Len(incoming) : incoming'[k] = incoming[k]
        /\ incoming'[Len(incoming) + 1] = enqueuing
        /\ ToSet(incoming') = ToSet(incoming) \cup {enqueuing}
    <2>1. PICK q : q = Append(incoming, enqueuing)
      OBVIOUS
    <2>2. /\ q \in Seq(Nat) /\ Len(q) = Len(incoming) + 1
          /\ \A k \in 1 .. Len(incoming) : q[k] = incoming[k]
          /\ q[Len(incoming) + 1] = enqueuing
          /\ ToSet(q) = ToSet(incoming) \cup {enqueuing}
      BY <1>2, <2>1, PushFacts
    <2>3. DOMAIN q = 1 .. Len(incoming) + 1
      BY <2>2
    <2> QED
      BY <1>1, <2>1, <2>2, <2>3
  <1>4. WM!TypeOK'
    <2>1. ToSet(incoming) \subseteq DOMAIN received
      BY <1>1, WMToSet DEF WM!TypeOK
    <2>2. WM!ToSet(incoming') \subseteq DOMAIN received
      BY <1>2, <1>3, <2>1, WMToSet
    <2>3. tasks' \in Nat
      BY <1>1, <1>2
    <2> QED
      BY <1>1, <1>3, <2>2, <2>3 DEF WM!TypeOK, WM!Kind, WM!None
  <1>5. \A k \in 1 .. Len(incoming) + 1 : k \in 1 .. Len(incoming) \/ k = Len(incoming) + 1
    BY <1>2
  <1>6. /\ \A j, k \in 1 .. Len(incoming) : j < k => incoming[j] < incoming[k]
        /\ \A k \in 1 .. Len(incoming) : incoming[k] < enqueuing
    BY <1>1, <1>2 DEF WM!IInv, WM!QueueAscends, WM!None
  <1>7. WM!QueueAscends'
    <2>1. ASSUME NEW j \in 1 .. Len(incoming) + 1, NEW k \in 1 .. Len(incoming) + 1, j < k
          PROVE  incoming'[j] < incoming'[k]
      <3>1. j \in 1 .. Len(incoming)
        BY <1>2, <2>1
      <3>2. CASE k = Len(incoming) + 1
        BY <1>3, <1>6, <3>1, <3>2
      <3>3. CASE k \in 1 .. Len(incoming)
        BY <1>3, <1>6, <2>1, <3>1, <3>3
      <3> QED
        BY <1>5, <3>2, <3>3
    <2> QED
      BY <1>1, <1>3, <2>1 DEF WM!QueueAscends, WM!None
  <1>8. WM!UnwantedIn(processed)' = WM!UnwantedIn(processed)
    BY <1>1 DEF WM!UnwantedIn
  <1>9. WM!OthersAscend' /\ WM!DecoderWanted'
    BY <1>1, <1>8 DEF WM!IInv, WM!OthersAscend, WM!DecoderWanted
  <1>10. WM!NothingLost'
    <2>1. DOMAIN received \subseteq ToSet(processed) \cup ToSet(incoming) \cup {enqueuing, decoder}
                                     \cup discarded
      BY WMToSet DEF WM!IInv, WM!NothingLost
    <2>2. WM!Unwanted' = WM!Unwanted
      BY <1>1 DEF WM!Unwanted
    <2> QED
      BY <1>1, <1>3, <2>1, <2>2, WMToSet DEF WM!IInv, WM!NothingLost
  <1>11. WM!TaskForEach'
    BY <1>1, <1>2, <1>3 DEF WM!IInv, WM!TaskForEach
  <1>12. WM!ClientAhead'
    <2>1. ASSUME NEW j \in WM!UnwantedIn(processed), NEW k \in WM!UnwantedIn(incoming)'
          PROVE  processed[j] < incoming'[k]
      <3>1. k \in 1 .. Len(incoming) + 1 /\ received[incoming'[k]] # "wanted"
        BY <1>1, <1>3 DEF WM!UnwantedIn
      <3>2. CASE k = Len(incoming) + 1
        BY <1>1, <1>3, <3>2 DEF WM!IInv, WM!ClientAhead, WM!None
      <3>3. CASE k \in 1 .. Len(incoming)
        <4>1. k \in WM!UnwantedIn(incoming)
          BY <1>2, <1>3, <3>1, <3>3 DEF WM!UnwantedIn
        <4> QED
          BY <1>3, <3>3, <4>1 DEF WM!IInv, WM!ClientAhead
      <3> QED
        BY <1>5, <3>1, <3>2, <3>3
    <2>2. WM!Unwanted' = WM!Unwanted
      BY <1>1 DEF WM!Unwanted
    <2>3. \A j \in WM!UnwantedIn(processed) : \A n \in discarded \cap WM!Unwanted : processed[j] < n
      BY DEF WM!IInv, WM!ClientAhead
    <2> QED
      BY <1>1, <1>8, <2>1, <2>2, <2>3 DEF WM!ClientAhead, WM!None
  <1>13. WM!OnePlace'
    <2>1. /\ \A n \in ToSet(processed) : n \notin ToSet(incoming) /\ n \notin discarded
          /\ \A n \in ToSet(incoming) : n \notin discarded
          /\ \A n \in {enqueuing, decoder} :
                 n \notin ToSet(processed) /\ n \notin ToSet(incoming) /\ n \notin discarded
          /\ enqueuing # decoder
          /\ \A j, k \in DOMAIN processed : processed[j] = processed[k] => j = k
      BY WMToSet DEF WM!IInv, WM!OnePlace
    <2>2. /\ 0 \notin DOMAIN received /\ decoder # 0
          /\ ToSet(processed) \subseteq DOMAIN received /\ ToSet(incoming) \subseteq DOMAIN received
          /\ discarded \subseteq DOMAIN received
      BY <1>1, WMToSet, WaitPlaces, DecoderAssumption DEF WM!TypeOK
    <2> QED
      BY <1>1, <1>3, <2>1, <2>2, WMToSet DEF WM!OnePlace
  <1> QED
    BY <1>4, <1>7, <1>9, <1>10, <1>11, <1>12, <1>13 DEF WM!IInv

\* Every step keeps the invariant.
LEMMA WaitNext == WM!IInv /\ [WM!Next]_WM!vars => WM!IInv'
  <1> SUFFICES ASSUME WM!IInv, [WM!Next]_WM!vars PROVE WM!IInv'
    OBVIOUS
  <1>0. /\ wMain \in {"idle", "register", "look", "asleep", "awake", "timedOut"}
        /\ wRegistered \in BOOLEAN /\ wInterrupted \in BOOLEAN /\ valid \in BOOLEAN
        /\ wClosing \in {"open", "invalidated", "told", "notified", "closed", "done"}
        /\ wMain \in {"idle", "register"} => ~wRegistered /\ decoder = NoDecoder
    BY DEF WM!IInv, WM!TypeOK, WM!DecoderWanted
  <1>1. CASE WM!Scan
    <2>1. CASE WM!Queued("wanted") = {}
      BY <1>0, <1>1, <2>1, WaitQuiet DEF WM!Scan, WM!waitVars
    <2> QED
      BY <1>1, <2>1, WaitScan
  <1>2. CASE WM!Register
    BY <1>0, <1>2, WaitQuiet DEF WM!Register, WM!outcome
  <1>3. CASE WM!Look
    <2>1. CASE decoder = NoDecoder
      BY <1>0, <1>3, <2>1, WaitQuiet DEF WM!Look
    <2> QED
      BY <1>3, <2>1, WaitLook
  <1>4. CASE WM!TimeOut
    BY <1>0, <1>4, WaitQuiet DEF WM!TimeOut, WM!waitVars, WM!outcome
  <1>5. CASE WM!StopWaiting
    <2>1. CASE decoder' = decoder
      <3>1. UNCHANGED <<incoming, tasks, received, enqueuing, decoder, processed, discarded, valid,
                        wInterrupted, wClosing>>
        BY <1>5, <2>1 DEF WM!StopWaiting
      <3>2. \/ wMain' = "idle" /\ wRegistered' = FALSE /\ decoder = NoDecoder
            \/ wMain' = "look" /\ wRegistered' = wRegistered
        BY <1>5, <2>1 DEF WM!StopWaiting
      <3> QED
        BY <1>0, <3>1, <3>2, WaitQuiet
    <2> QED
      BY <1>5, <2>1, WaitGivesUp
  <1>6. CASE WM!DispatchOneMessage
    <2>1. CASE incoming = <<>>
      <3>1. /\ tasks > 0 /\ tasks' = tasks - 1
            /\ UNCHANGED <<wMain, wRegistered, decoder, wInterrupted, valid, incoming, received, enqueuing,
                           wClosing, processed, discarded>>
        BY <1>6, <2>1 DEF WM!DispatchOneMessage, WM!waitVars, WM!outcome
      <3>2. tasks \in Nat /\ tasks' \in Nat /\ tasks' >= 0 /\ Len(incoming) = 0
        BY <2>1, <3>1 DEF WM!IInv, WM!TypeOK
      <3>3. WM!TypeOK' /\ WM!TaskForEach'
        BY <3>1, <3>2 DEF WM!IInv, WM!TypeOK, WM!TaskForEach, WM!Kind
      <3>4. WM!OthersAscend' /\ WM!NothingLost' /\ WM!OnePlace'
        BY <3>1 DEF WM!IInv, WM!OthersAscend, WM!NothingLost, WM!OnePlace, WM!Unwanted, WM!UnwantedIn
      <3>5. WM!DecoderWanted' /\ WM!QueueAscends' /\ WM!ClientAhead'
        BY <3>1 DEF WM!IInv, WM!DecoderWanted, WM!QueueAscends, WM!ClientAhead, WM!UnwantedIn, WM!Unwanted
      <3> QED
        BY <3>3, <3>4, <3>5 DEF WM!IInv
    <2>2. CASE incoming # <<>> /\ valid
      BY <1>6, <2>2, WaitDispatch
    <2>3. CASE incoming # <<>> /\ ~valid
      BY <1>6, <2>3, WaitDrop
    <2> QED
      BY <2>1, <2>2, <2>3
  <1>7. ASSUME NEW kind \in WM!Kind, WM!ProcessIncomingMessage(kind) PROVE WM!IInv'
    BY <1>7, WaitReceive
  <1>8. CASE WM!EnqueueIncomingMessage
    BY <1>8, WaitEnqueue
  <1>9. CASE WM!InterruptWaiter
    BY <1>0, <1>9, WaitQuiet DEF WM!InterruptWaiter, WM!outcome
  <1>10. CASE WM!NotifyWaiter
    BY <1>0, <1>10, WaitQuiet DEF WM!NotifyWaiter, WM!Notify, WM!waitVars, WM!outcome
  <1>11. CASE WM!TellMainThread
    BY <1>0, <1>11, WaitQuiet DEF WM!TellMainThread, WM!waitVars, WM!outcome
  <1>12. CASE WM!Invalidate
    BY <1>0, <1>12, WaitQuiet DEF WM!Invalidate, WM!waitVars, WM!outcome
  <1>13. CASE WM!DidClose
    BY <1>0, <1>13, WaitQuiet DEF WM!DidClose, WM!waitVars, WM!outcome
  <1>14. CASE WM!PlatformInvalidate
    BY <1>0, <1>14, WaitQuiet DEF WM!PlatformInvalidate, WM!waitVars, WM!outcome
  <1>15. CASE UNCHANGED WM!vars
    BY <1>0, <1>15, WaitQuiet DEF WM!vars, WM!waitVars, WM!outcome
  <1> QED
    BY <1>1, <1>2, <1>3, <1>4, <1>5, <1>6, <1>7, <1>8, <1>9, <1>10, <1>11, <1>12, <1>13, <1>14, <1>15
       DEF WM!Next

\* However waits, timeouts, the peer's end, invalidate() and messages interleave,
\* no message reaches the client of the connection twice, those that
\* waitForMessage() does not want reach it in the order they came, none skipped,
\* and one that is queued, missed by the waiter or not, has a task to dispatch it.
\* Lost are only messages of an invalid connection, and the wanted one that a wait
\* gives up together with itself.
THEOREM WaitForMessageKeepsOrder == WM!Spec => []DeliveredInOrder
  <1>1. WM!IInv => DeliveredInOrder
    <2> SUFFICES ASSUME WM!IInv PROVE DeliveredInOrder
      OBVIOUS
    <2>1. ASSUME NEW n \in WM!Unwanted, NEW i \in WM!UnwantedIn(processed), processed[i] > n
          PROVE  n \in WM!ToSet(processed)
      <3>1. /\ n \in Nat /\ processed[i] \in Nat /\ ~(processed[i] < n)
            /\ n \in DOMAIN received /\ received[n] # "wanted" /\ n # 0 /\ n # NoDecoder
        BY <2>1, WaitPlaces, DecoderAssumption DEF WM!IInv, WM!Unwanted, WM!UnwantedIn
      <3>2. n \notin ToSet(incoming)
        <4> SUFFICES ASSUME n \in ToSet(incoming) PROVE FALSE
          OBVIOUS
        <4>1. PICK j \in DOMAIN incoming : n = incoming[j]
          BY DEF ToSet
        <4> QED
          BY <2>1, <3>1, <4>1 DEF WM!IInv, WM!ClientAhead, WM!UnwantedIn
      <3>3. n # enqueuing /\ n # decoder
        BY <2>1, <3>1 DEF WM!IInv, WM!ClientAhead, WM!DecoderWanted, WM!None
      <3>4. n \notin discarded
        BY <2>1, <3>1 DEF WM!IInv, WM!ClientAhead
      <3> QED
        BY <2>1, <3>1, <3>2, <3>3, <3>4, WMToSet DEF WM!IInv, WM!NothingLost
    <2>2. OthersAscend /\ TaskForEach
      BY DEF WM!IInv, WM!OthersAscend, WM!TaskForEach, WM!UnwantedIn, OthersAscend, TaskForEach, UnwantedIn
    <2>3. NothingLost /\ OnePlace
      BY WMToSet DEF WM!IInv, WM!NothingLost, WM!OnePlace, WM!Unwanted, NothingLost, OnePlace, Unwanted
    <2> QED
      BY <2>1, <2>2, <2>3, WMToSet DEF WM!Unwanted, WM!UnwantedIn, DeliveredInOrder, Unwanted, UnwantedIn
  <1> QED
    BY WaitInit, WaitNext, <1>1, PTL DEF WM!Spec

-----------------------------------------------------------------------------
(* The reply handlers: the map and the run loop share no handler.            *)

VARIABLES hRequestID, hHandlers, hValid, hConnected, hOutgoing, hIncoming, hRunLoop,
          hClosing, hPeerUp, hCalls, hLate

RH == INSTANCE IPCReplyHandlers WITH MaxRequest <- MaxSend,
          m_syncRequestID <- hRequestID, m_replyHandlers <- hHandlers, m_isValid <- hValid,
          m_isConnected <- hConnected, outgoing <- hOutgoing, incoming <- hIncoming,
          runLoop <- hRunLoop, closing <- hClosing, peerUp <- hPeerUp, calls <- hCalls,
          late <- hLate

LEMMA ReplyInit == RH!Init => RH!IInv
  <1> SUFFICES ASSUME RH!Init PROVE RH!IInv
    OBVIOUS
  <1>1. /\ hRunLoop = <<>> /\ DOMAIN hRunLoop = {} /\ hRunLoop \in Seq(Nat)
        /\ hIncoming \in Seq(RH!Request) /\ hHandlers = {}
        /\ hCalls \in [RH!Request -> Nat] /\ \A r \in RH!Request : hCalls[r] = 0
    BY DEF RH!Init
  <1>2. RH!TypeOK
    BY <1>1 DEF RH!Init, RH!TypeOK
  <1>3. RH!OneCall /\ RH!CalledAtMostOnce
    BY <1>1 DEF RH!OneCall, RH!CalledAtMostOnce
  <1> QED
    BY <1>2, <1>3 DEF RH!IInv

\* What the types say in terms of numbers and places.
LEMMA ReplyPlaces ==
  ASSUME RH!TypeOK
  PROVE  /\ MaxSend \in Nat /\ RH!Request = 1 .. MaxSend /\ RH!DidClose = 0
         /\ hRequestID \in Nat /\ hRequestID <= MaxSend
         /\ \A r \in hHandlers : r \in Nat /\ r \in RH!Request /\ r # 0 /\ r <= hRequestID
         /\ hRunLoop \in Seq(Nat) /\ Len(hRunLoop) \in Nat /\ DOMAIN hRunLoop = 1 .. Len(hRunLoop)
         /\ \A i \in DOMAIN hRunLoop : hRunLoop[i] \in Nat /\ hRunLoop[i] <= hRequestID
         /\ \A i \in DOMAIN hRunLoop : hRunLoop[i] # 0 => hRunLoop[i] \in RH!Request
         /\ \A r \in RH!Request : r \in Nat /\ r # 0 /\ hCalls[r] \in Nat
  <1>1. /\ MaxSend \in Nat /\ RH!Request = 1 .. MaxSend /\ RH!DidClose = 0
        /\ hRequestID \in Nat /\ hRequestID <= MaxSend
        /\ hRunLoop \in Seq(Nat) /\ Len(hRunLoop) \in Nat /\ DOMAIN hRunLoop = 1 .. Len(hRunLoop)
        /\ \A i \in DOMAIN hRunLoop : hRunLoop[i] \in Nat /\ hRunLoop[i] <= hRequestID
    BY DEF RH!TypeOK, RH!Request, RH!DidClose
  <1>2. \A r \in hHandlers : r \in Nat /\ r \in RH!Request /\ r # 0 /\ r <= hRequestID
    BY <1>1 DEF RH!TypeOK
  <1>3. \A i \in DOMAIN hRunLoop : hRunLoop[i] # 0 => hRunLoop[i] \in RH!Request
    <2> SUFFICES ASSUME NEW i \in DOMAIN hRunLoop, hRunLoop[i] # 0 PROVE hRunLoop[i] \in RH!Request
      OBVIOUS
    <2>1. PICK x \in Nat : x = hRunLoop[i] /\ x <= hRequestID
      BY <1>1
    <2> QED
      BY <1>1, <2>1
  <1>4. \A r \in RH!Request : r \in Nat /\ r # 0 /\ hCalls[r] \in Nat
    BY <1>1 DEF RH!TypeOK
  <1> QED
    BY <1>1, <1>2, <1>3, <1>4

\* A task of a handler that nobody has called and that has left the map joins the
\* run loop, which has no other task of that handler.
LEMMA ReplyPush ==
  ASSUME RH!IInv, NEW r \in Nat, hRunLoop' = Append(hRunLoop, r), hCalls' = hCalls,
         \A i \in DOMAIN hRunLoop : hRunLoop[i] = r => r = 0,
         r # 0 => r \in RH!Request /\ hCalls[r] = 0 /\ r \notin hHandlers',
         \A x \in hHandlers' : x \in hHandlers, r <= hRequestID',
         hRequestID' \in Nat, hRequestID <= hRequestID', hRequestID' <= MaxSend
  PROVE  /\ RH!OneCall' /\ RH!CalledAtMostOnce'
         /\ hRunLoop' \in Seq(Nat) /\ \A i \in DOMAIN hRunLoop' : hRunLoop'[i] <= hRequestID'
  <1>1. /\ RH!DidClose = 0 /\ hRunLoop \in Seq(Nat) /\ Len(hRunLoop) \in Nat
        /\ DOMAIN hRunLoop = 1 .. Len(hRunLoop) /\ hRequestID \in Nat
        /\ \A i \in DOMAIN hRunLoop : hRunLoop[i] \in Nat /\ hRunLoop[i] <= hRequestID
        /\ \A x \in RH!Request : x \in Nat
    BY ReplyPlaces DEF RH!IInv
  <1>2. PICK q : q = hRunLoop'
    OBVIOUS
  <1>3. /\ q \in Seq(Nat) /\ Len(q) = Len(hRunLoop) + 1
        /\ \A i \in 1 .. Len(hRunLoop) : q[i] = hRunLoop[i]
        /\ q[Len(hRunLoop) + 1] = r
    BY <1>1, <1>2, PushFacts
  <1>4. /\ DOMAIN q = 1 .. Len(hRunLoop) + 1
        /\ \A i \in DOMAIN q : \/ i \in DOMAIN hRunLoop /\ q[i] = hRunLoop[i]
                               \/ i = Len(hRunLoop) + 1 /\ q[i] = r
    BY <1>1, <1>3
  <1>5. ASSUME NEW i \in DOMAIN q PROVE q[i] <= hRequestID'
    <2>1. PICK x \in Nat : x = q[i] /\ (x <= hRequestID \/ x = r)
      BY <1>1, <1>4
    <2> QED
      BY <1>1, <2>1
  <1>6. /\ \A x \in RH!Request : x > hRequestID \/ x \in hHandlers => hCalls[x] = 0
        /\ \A i \in DOMAIN hRunLoop :
              hRunLoop[i] # 0 => hRunLoop[i] \notin hHandlers /\ hCalls[hRunLoop[i]] = 0
        /\ \A i, j \in DOMAIN hRunLoop : hRunLoop[i] = hRunLoop[j] /\ hRunLoop[i] # 0 => i = j
    BY <1>1 DEF RH!IInv, RH!OneCall
  <1>7. \A x \in RH!Request : x > hRequestID' \/ x \in hHandlers' => hCalls[x] = 0
    BY <1>1, <1>6
  <1>8. \A i \in DOMAIN q : q[i] # 0 => q[i] \notin hHandlers' /\ hCalls[q[i]] = 0
    BY <1>4, <1>6
  <1>9. \A i, j \in DOMAIN q : q[i] = q[j] /\ q[i] # 0 => i = j
    BY <1>4, <1>6
  <1>10. RH!OneCall'
    BY <1>1, <1>2, <1>7, <1>8, <1>9 DEF RH!OneCall, RH!Request, RH!DidClose
  <1>11. RH!CalledAtMostOnce'
    BY DEF RH!IInv, RH!CalledAtMostOnce, RH!Request
  <1> QED
    BY <1>2, <1>3, <1>5, <1>10, <1>11

\* A set of requests is finite, and each of its enumerations names a request
\* once.
LEMMA ReplyEnumeration ==
  ASSUME RH!TypeOK, NEW f \in RH!SetToSeqs(hHandlers)
  PROVE  /\ f \in Seq(Nat) /\ Len(f) \in Nat /\ DOMAIN f = 1 .. Len(f)
         /\ \A i \in 1 .. Len(f) : f[i] \in hHandlers
         /\ \A i, j \in 1 .. Len(f) : f[i] = f[j] => i = j
  <1>1. \A r \in hHandlers : r \in Nat
    BY ReplyPlaces
  <1>2. Cardinality(hHandlers) \in Nat
    <2>1. IsFiniteSet(1 .. hRequestID)
      BY ReplyPlaces, FS_Interval
    <2>2. hHandlers \subseteq 1 .. hRequestID
      BY DEF RH!TypeOK
    <2>3. IsFiniteSet(hHandlers)
      BY <2>1, <2>2, FS_Subset
    <2> QED
      BY <2>3, FS_CardinalityType
  <1>3. PICK n \in Nat : n = Cardinality(hHandlers)
    BY <1>2
  <1>4. RH!Cardinality(hHandlers) = n
    BY <1>3 DEF RH!Cardinality, Cardinality
  <1>5. /\ f \in [1 .. n -> hHandlers]
        /\ \A i, j \in 1 .. n : i # j => f[i] # f[j]
    BY <1>4 DEF RH!SetToSeqs
  <1>6. f \in Seq(Nat) /\ Len(f) = n
    <2>1. f \in [1 .. n -> Nat]
      BY <1>1, <1>5
    <2> QED
      BY <2>1
  <1> QED
    BY <1>5, <1>6

\* The whole map moves to the run loop.
LEMMA ReplyAnswerAll ==
  ASSUME RH!IInv, RH!AnswerAll, hCalls' = hCalls, hRequestID' = hRequestID
  PROVE  /\ RH!OneCall' /\ RH!CalledAtMostOnce' /\ hHandlers' = {}
         /\ hRunLoop' \in Seq(Nat) /\ \A i \in DOMAIN hRunLoop' : hRunLoop'[i] <= hRequestID'
  <1>1. /\ RH!DidClose = 0 /\ hRunLoop \in Seq(Nat) /\ Len(hRunLoop) \in Nat
        /\ DOMAIN hRunLoop = 1 .. Len(hRunLoop) /\ hRequestID \in Nat
        /\ \A i \in DOMAIN hRunLoop : hRunLoop[i] \in Nat /\ hRunLoop[i] <= hRequestID
        /\ \A r \in hHandlers : r \in Nat /\ r \in RH!Request /\ r # 0 /\ r <= hRequestID
    BY ReplyPlaces DEF RH!IInv
  <1>2. PICK f \in RH!SetToSeqs(hHandlers) : hRunLoop' = hRunLoop \o f
    BY DEF RH!AnswerAll
  <1>3. /\ f \in Seq(Nat) /\ Len(f) \in Nat
        /\ \A i \in 1 .. Len(f) : f[i] \in hHandlers
        /\ \A i, j \in 1 .. Len(f) : f[i] = f[j] => i = j
    BY ReplyEnumeration DEF RH!IInv
  <1>4. PICK q : q = hRunLoop'
    OBVIOUS
  <1>5. /\ q \in Seq(Nat) /\ Len(q) = Len(hRunLoop) + Len(f)
        /\ \A i \in 1 .. Len(hRunLoop) + Len(f) :
              q[i] = IF i <= Len(hRunLoop) THEN hRunLoop[i] ELSE f[i - Len(hRunLoop)]
    BY <1>1, <1>2, <1>3, <1>4, ConcatProperties
  <1>6. ASSUME NEW i \in DOMAIN q
        PROVE  \/ i \in DOMAIN hRunLoop /\ q[i] = hRunLoop[i]
               \/ /\ i \notin DOMAIN hRunLoop /\ i \in Nat /\ i - Len(hRunLoop) \in 1 .. Len(f)
                  /\ q[i] = f[i - Len(hRunLoop)]
    <2>1. i \in 1 .. Len(hRunLoop) + Len(f)
      BY <1>5
    <2>2. CASE i <= Len(hRunLoop)
      BY <1>1, <1>5, <2>1, <2>2
    <2>3. CASE ~(i <= Len(hRunLoop))
      <3>1. i \notin DOMAIN hRunLoop /\ i \in Nat /\ i - Len(hRunLoop) \in 1 .. Len(f)
        BY <1>1, <1>3, <2>1, <2>3
      <3> QED
        BY <1>5, <2>1, <2>3, <3>1
    <2> QED
      BY <2>2, <2>3
  <1>7. /\ \A x \in RH!Request : x > hRequestID \/ x \in hHandlers => hCalls[x] = 0
        /\ \A i \in DOMAIN hRunLoop :
              hRunLoop[i] # 0 => hRunLoop[i] \notin hHandlers /\ hCalls[hRunLoop[i]] = 0
        /\ \A i, j \in DOMAIN hRunLoop : hRunLoop[i] = hRunLoop[j] /\ hRunLoop[i] # 0 => i = j
    BY <1>1 DEF RH!IInv, RH!OneCall
  <1>8. hHandlers' = {}
    BY DEF RH!AnswerAll
  <1>9. ASSUME NEW i \in DOMAIN q PROVE q[i] <= hRequestID
    <2>1. CASE i \in DOMAIN hRunLoop
      BY <1>1, <1>6, <2>1
    <2>2. CASE i \notin DOMAIN hRunLoop
      <3>1. q[i] \in hHandlers
        BY <1>3, <1>6, <2>2
      <3> QED
        BY <1>1, <3>1
    <2> QED
      BY <2>1, <2>2
  <1>10. ASSUME NEW i \in DOMAIN q, q[i] # 0 PROVE hCalls[q[i]] = 0
    <2>1. CASE i \in DOMAIN hRunLoop
      BY <1>6, <1>7, <1>10, <2>1
    <2>2. CASE i \notin DOMAIN hRunLoop
      <3>1. q[i] \in hHandlers
        BY <1>3, <1>6, <2>2
      <3> QED
        BY <1>1, <1>7, <3>1
    <2> QED
      BY <2>1, <2>2
  <1>11. ASSUME NEW i \in DOMAIN q, NEW j \in DOMAIN q, q[i] = q[j], q[i] # 0 PROVE i = j
    <2>1. CASE i \in DOMAIN hRunLoop /\ j \in DOMAIN hRunLoop
      BY <1>6, <1>7, <1>11, <2>1
    <2>2. CASE i \in DOMAIN hRunLoop /\ j \notin DOMAIN hRunLoop
      BY <1>3, <1>6, <1>7, <1>11, <2>2
    <2>3. CASE i \notin DOMAIN hRunLoop /\ j \in DOMAIN hRunLoop
      BY <1>3, <1>6, <1>7, <1>11, <2>3
    <2>4. CASE i \notin DOMAIN hRunLoop /\ j \notin DOMAIN hRunLoop
      <3>1. /\ i - Len(hRunLoop) \in 1 .. Len(f) /\ j - Len(hRunLoop) \in 1 .. Len(f)
            /\ f[i - Len(hRunLoop)] = f[j - Len(hRunLoop)] /\ i \in Nat /\ j \in Nat
        BY <1>6, <1>11, <2>4
      <3>2. i - Len(hRunLoop) = j - Len(hRunLoop)
        BY <1>3, <3>1
      <3> QED
        BY <1>1, <3>1, <3>2
    <2> QED
      BY <2>1, <2>2, <2>3, <2>4
  <1>12. RH!OneCall'
    BY <1>1, <1>4, <1>7, <1>8, <1>10, <1>11 DEF RH!OneCall, RH!Request, RH!DidClose
  <1>13. RH!CalledAtMostOnce'
    BY DEF RH!IInv, RH!CalledAtMostOnce, RH!Request
  <1> QED
    BY <1>4, <1>5, <1>8, <1>9, <1>12, <1>13

\* sendWithReply() takes a number that nobody has used.
LEMMA ReplySend ==
  ASSUME RH!IInv, RH!SendWithReply
  PROVE  RH!IInv'
  <1>1. /\ RH!TypeOK /\ hRequestID' = hRequestID + 1 /\ hRequestID + 1 \in RH!Request
        /\ UNCHANGED <<hValid, hConnected, hIncoming, hClosing, hPeerUp, hCalls>>
    BY DEF RH!IInv, RH!SendWithReply
  <1>2. PICK id \in Nat : /\ id = hRequestID + 1 /\ hRequestID' = id /\ id \in RH!Request
                          /\ id # 0 /\ hRequestID <= id /\ id <= MaxSend /\ id > hRequestID
    BY <1>1, ReplyPlaces
  <1>3. /\ RH!DidClose = 0 /\ hRequestID \in Nat
        /\ \A i \in DOMAIN hRunLoop : hRunLoop[i] \in Nat /\ hRunLoop[i] <= hRequestID
        /\ \A r \in hHandlers : r \in Nat /\ r <= hRequestID
        /\ \A r \in RH!Request : r \in Nat /\ r # 0
    BY <1>1, ReplyPlaces
  <1>4. hCalls[id] = 0 /\ id \notin hHandlers /\ \A i \in DOMAIN hRunLoop : hRunLoop[i] # id
    BY <1>2, <1>3 DEF RH!IInv, RH!OneCall
  <1>5. hOutgoing' \subseteq RH!Request /\ hLate' \subseteq RH!Request
    BY <1>1 DEF RH!SendWithReply, RH!TypeOK
  <1>6. CASE hValid
    <2>1. hHandlers' = hHandlers \cup {id} /\ hRunLoop' = hRunLoop
      BY <1>2, <1>6 DEF RH!SendWithReply
    <2>2. RH!TypeOK'
      <3>1. hRequestID' \in 0 .. MaxSend /\ hHandlers' \subseteq 1 .. hRequestID'
        BY <1>1, <1>2, <1>3, <2>1 DEF RH!TypeOK
      <3>2. \A i \in DOMAIN hRunLoop : hRunLoop[i] <= hRequestID'
        BY <1>2, <1>3
      <3> QED
        BY <1>1, <1>5, <2>1, <3>1, <3>2 DEF RH!TypeOK, RH!Request
    <2>3. RH!OneCall'
      <3>1. \A r \in RH!Request : r > hRequestID' \/ r \in hHandlers' => hCalls[r] = 0
        BY <1>2, <1>3, <1>4, <2>1 DEF RH!IInv, RH!OneCall
      <3>2. \A i \in DOMAIN hRunLoop : hRunLoop[i] # 0 => hRunLoop[i] \notin hHandlers' /\ hCalls[hRunLoop[i]] = 0
        BY <1>3, <1>4, <2>1 DEF RH!IInv, RH!OneCall
      <3>3. \A i, j \in DOMAIN hRunLoop : hRunLoop[i] = hRunLoop[j] /\ hRunLoop[i] # 0 => i = j
        BY <1>3 DEF RH!IInv, RH!OneCall
      <3> QED
        BY <1>1, <1>3, <2>1, <3>1, <3>2, <3>3 DEF RH!OneCall, RH!Request, RH!DidClose
    <2>4. RH!CalledAtMostOnce'
      BY <1>1 DEF RH!IInv, RH!CalledAtMostOnce, RH!Request
    <2> QED
      BY <2>2, <2>3, <2>4 DEF RH!IInv
  <1>7. CASE ~hValid
    <2>1. hHandlers' = hHandlers /\ hRunLoop' = Append(hRunLoop, id)
      BY <1>2, <1>7 DEF RH!SendWithReply
    <2>2. /\ RH!OneCall' /\ RH!CalledAtMostOnce'
          /\ hRunLoop' \in Seq(Nat) /\ \A i \in DOMAIN hRunLoop' : hRunLoop'[i] <= hRequestID'
      <3>1. /\ \A i \in DOMAIN hRunLoop : hRunLoop[i] = id => id = 0
            /\ id \in RH!Request /\ hCalls[id] = 0 /\ id \notin hHandlers'
            /\ \A x \in hHandlers' : x \in hHandlers
            /\ id <= hRequestID' /\ hRequestID' \in Nat /\ hRequestID <= hRequestID'
            /\ hRequestID' <= MaxSend /\ hCalls' = hCalls
        BY <1>1, <1>2, <1>3, <1>4, <2>1
      <3> QED
        BY <2>1, <3>1, ReplyPush
    <2>3. RH!TypeOK'
      <3>1. hRequestID' \in 0 .. MaxSend /\ hHandlers' \subseteq 1 .. hRequestID'
        BY <1>1, <1>2, <1>3, <2>1 DEF RH!TypeOK
      <3> QED
        BY <1>1, <1>5, <2>2, <3>1 DEF RH!TypeOK, RH!Request
    <2> QED
      BY <2>2, <2>3 DEF RH!IInv
  <1> QED
    BY <1>6, <1>7

\* The handler at the head of the run loop is called: it has no second task, and
\* is not in the map.
LEMMA ReplyTask ==
  ASSUME RH!IInv, RH!RunLoopTask
  PROVE  RH!IInv'
  <1>1. /\ RH!TypeOK /\ hRunLoop # <<>> /\ hRunLoop' = Tail(hRunLoop)
        /\ UNCHANGED <<hRequestID, hHandlers, hConnected, hOutgoing, hIncoming, hClosing, hPeerUp, hLate>>
    BY DEF RH!IInv, RH!RunLoopTask
  <1>2. /\ RH!DidClose = 0 /\ hRunLoop \in Seq(Nat) /\ Len(hRunLoop) \in Nat
        /\ DOMAIN hRunLoop = 1 .. Len(hRunLoop) /\ hRequestID \in Nat
        /\ \A i \in DOMAIN hRunLoop : hRunLoop[i] \in Nat /\ hRunLoop[i] <= hRequestID
        /\ \A i \in DOMAIN hRunLoop : hRunLoop[i] # 0 => hRunLoop[i] \in RH!Request
        /\ \A r \in RH!Request : r \in Nat /\ r # 0 /\ hCalls[r] \in Nat
    BY <1>1, ReplyPlaces
  <1>3. PICK q : q = hRunLoop'
    OBVIOUS
  <1>4. /\ Len(hRunLoop) \in Nat \ {0} /\ q \in Seq(Nat) /\ Len(q) = Len(hRunLoop) - 1
        /\ \A i \in 1 .. Len(hRunLoop) - 1 : q[i] = hRunLoop[i + 1]
        /\ Head(hRunLoop) = hRunLoop[1]
    BY <1>1, <1>2, <1>3, TailFacts
  <1>5. \A i \in DOMAIN q : /\ i \in Nat /\ i + 1 \in DOMAIN hRunLoop /\ i + 1 # 1
                            /\ q[i] = hRunLoop[i + 1]
    BY <1>2, <1>4
  <1>6. PICK h \in Nat : h = Head(hRunLoop) /\ h = hRunLoop[1] /\ 1 \in DOMAIN hRunLoop /\ h <= hRequestID
    BY <1>2, <1>4
  <1>7. /\ \A x \in RH!Request : x > hRequestID \/ x \in hHandlers => hCalls[x] = 0
        /\ \A i \in DOMAIN hRunLoop :
              hRunLoop[i] # 0 => hRunLoop[i] \notin hHandlers /\ hCalls[hRunLoop[i]] = 0
        /\ \A i, j \in DOMAIN hRunLoop : hRunLoop[i] = hRunLoop[j] /\ hRunLoop[i] # 0 => i = j
    BY <1>2 DEF RH!IInv, RH!OneCall
  <1>8. /\ \A i \in DOMAIN q : q[i] # 0 => q[i] \notin hHandlers /\ hCalls[q[i]] = 0 /\ q[i] # h
        /\ \A i, j \in DOMAIN q : q[i] = q[j] /\ q[i] # 0 => i = j
    <2>1. ASSUME NEW i \in DOMAIN q, q[i] # 0
          PROVE  q[i] \notin hHandlers /\ hCalls[q[i]] = 0 /\ q[i] # h
      BY <1>5, <1>6, <1>7, <2>1
    <2>2. ASSUME NEW i \in DOMAIN q, NEW j \in DOMAIN q, q[i] = q[j], q[i] # 0 PROVE i = j
      <3>1. i + 1 = j + 1
        BY <1>5, <1>7, <2>2
      <3> QED
        BY <1>5, <3>1
    <2> QED
      BY <2>1, <2>2
  <1>9. \A i \in DOMAIN q : q[i] <= hRequestID
    BY <1>2, <1>5
  <1>10. CASE h = 0
    <2>1. hValid' = FALSE /\ hCalls' = hCalls
      BY <1>2, <1>6, <1>10 DEF RH!RunLoopTask
    <2>2. RH!TypeOK'
      BY <1>1, <1>3, <1>4, <1>9, <2>1 DEF RH!TypeOK, RH!Request
    <2>3. RH!OneCall'
      BY <1>1, <1>2, <1>3, <1>7, <1>8, <2>1 DEF RH!OneCall, RH!Request, RH!DidClose
    <2>4. RH!CalledAtMostOnce'
      BY <2>1 DEF RH!IInv, RH!CalledAtMostOnce, RH!Request
    <2> QED
      BY <2>2, <2>3, <2>4 DEF RH!IInv
  <1>11. CASE h # 0
    <2>1. hValid' = hValid /\ hCalls' = [hCalls EXCEPT ![h] = @ + 1]
      BY <1>2, <1>6, <1>11 DEF RH!RunLoopTask
    <2>2. h \in RH!Request /\ hCalls[h] = 0 /\ h \notin hHandlers
      BY <1>2, <1>6, <1>7, <1>11
    <2>3. /\ hCalls' \in [RH!Request -> Nat] /\ hCalls'[h] = 1
          /\ \A r \in RH!Request : r # h => hCalls'[r] = hCalls[r]
      <3>1. hCalls \in [RH!Request -> Nat]
        BY <1>1 DEF RH!TypeOK
      <3> QED
        BY <2>1, <2>2, <3>1
    <2>4. RH!TypeOK'
      BY <1>1, <1>3, <1>4, <1>9, <2>1, <2>3 DEF RH!TypeOK, RH!Request
    <2>5. RH!OneCall'
      <3>1. \A x \in RH!Request : x > hRequestID \/ x \in hHandlers => hCalls'[x] = 0
        <4>1. ~(h > hRequestID)
          BY <1>2, <1>6
        <4> QED
          BY <1>7, <2>2, <2>3, <4>1
      <3>2. \A i \in DOMAIN q : q[i] # 0 => q[i] \in RH!Request
        BY <1>2, <1>5
      <3>3. \A i \in DOMAIN q : q[i] # 0 => q[i] \notin hHandlers /\ hCalls'[q[i]] = 0
        BY <1>8, <2>3, <3>2
      <3> QED
        BY <1>1, <1>2, <1>3, <1>8, <3>1, <3>3 DEF RH!OneCall, RH!Request, RH!DidClose
    <2>6. RH!CalledAtMostOnce'
      <3>1. \A r \in RH!Request : hCalls'[r] <= 1
        BY <2>3 DEF RH!IInv, RH!CalledAtMostOnce
      <3> QED
        BY <3>1 DEF RH!CalledAtMostOnce, RH!Request
    <2> QED
      BY <2>4, <2>5, <2>6 DEF RH!IInv
  <1> QED
    BY <1>10, <1>11

\* A reply takes its handler out of the map, if it is still there, into the run
\* loop.
LEMMA ReplyReceived ==
  ASSUME RH!IInv, RH!ProcessIncomingSyncReply
  PROVE  RH!IInv'
  <1>1. /\ RH!TypeOK /\ hIncoming # <<>> /\ hIncoming' = Tail(hIncoming)
        /\ hHandlers' = hHandlers \ {Head(hIncoming)}
        /\ hRunLoop' = IF Head(hIncoming) \in hHandlers THEN Append(hRunLoop, Head(hIncoming)) ELSE hRunLoop
        /\ UNCHANGED <<hRequestID, hValid, hConnected, hOutgoing, hClosing, hPeerUp, hCalls, hLate>>
    BY DEF RH!IInv, RH!ProcessIncomingSyncReply
  <1>2. PICK h : h = Head(hIncoming)
    OBVIOUS
  <1>3. hIncoming' \in Seq(RH!Request)
    <2>1. hIncoming \in Seq(RH!Request)
      BY <1>1 DEF RH!TypeOK
    <2> QED
      BY <1>1, <2>1, TailFacts
  <1>4. hHandlers' \subseteq 1 .. hRequestID
    BY <1>1 DEF RH!TypeOK
  <1>5. CASE h \in hHandlers
    <2>1. hRunLoop' = Append(hRunLoop, h)
      BY <1>1, <1>2, <1>5
    <2>2. /\ h \in Nat /\ h \in RH!Request /\ h # 0 /\ h <= hRequestID
          /\ hRequestID \in Nat /\ hRequestID <= MaxSend /\ RH!DidClose = 0
      BY <1>1, <1>5, ReplyPlaces
    <2>3. /\ \A i \in DOMAIN hRunLoop : hRunLoop[i] = h => h = 0
          /\ hCalls[h] = 0 /\ h \notin hHandlers' /\ \A x \in hHandlers' : x \in hHandlers
          /\ hRequestID' \in Nat /\ hRequestID <= hRequestID' /\ h <= hRequestID'
          /\ hRequestID' <= MaxSend /\ hCalls' = hCalls
      BY <1>1, <1>2, <1>5, <2>2 DEF RH!IInv, RH!OneCall
    <2>4. /\ RH!OneCall' /\ RH!CalledAtMostOnce'
          /\ hRunLoop' \in Seq(Nat) /\ \A i \in DOMAIN hRunLoop' : hRunLoop'[i] <= hRequestID'
      BY <2>1, <2>2, <2>3, ReplyPush
    <2>5. RH!TypeOK'
      BY <1>1, <1>3, <1>4, <2>4 DEF RH!TypeOK, RH!Request
    <2> QED
      BY <2>4, <2>5 DEF RH!IInv
  <1>6. CASE h \notin hHandlers
    <2>1. hRunLoop' = hRunLoop /\ hHandlers' = hHandlers
      BY <1>1, <1>2, <1>6
    <2>2. RH!TypeOK'
      BY <1>1, <1>3, <2>1 DEF RH!TypeOK, RH!Request
    <2>3. RH!OneCall' /\ RH!CalledAtMostOnce'
      BY <1>1, <2>1 DEF RH!IInv, RH!OneCall, RH!CalledAtMostOnce, RH!Request, RH!DidClose
    <2> QED
      BY <2>2, <2>3 DEF RH!IInv
  <1> QED
    BY <1>5, <1>6

\* Every step keeps the invariant.
LEMMA ReplyNext == RH!IInv /\ [RH!Next]_RH!vars => RH!IInv'
  <1> SUFFICES ASSUME RH!IInv, [RH!Next]_RH!vars PROVE RH!IInv'
    OBVIOUS
  <1>0. RH!TypeOK
    BY DEF RH!IInv
  <1>1. CASE RH!Invalidate \/ RH!ClearHandlers
    <2>1. /\ RH!AnswerAll
          /\ UNCHANGED <<hRequestID, hConnected, hOutgoing, hIncoming, hPeerUp, hCalls, hLate>>
          /\ hValid' = hValid \/ hValid' = FALSE
          /\ hClosing' = hClosing \/ hClosing' = "cleared"
      BY <1>1 DEF RH!Invalidate, RH!ClearHandlers
    <2>2. /\ RH!OneCall' /\ RH!CalledAtMostOnce' /\ hHandlers' = {}
          /\ hRunLoop' \in Seq(Nat) /\ \A i \in DOMAIN hRunLoop' : hRunLoop'[i] <= hRequestID'
      BY <2>1, ReplyAnswerAll
    <2>3. RH!TypeOK'
      BY <1>0, <2>1, <2>2 DEF RH!TypeOK, RH!Request
    <2> QED
      BY <2>2, <2>3 DEF RH!IInv
  <1>2. CASE RH!TellMainThread
    <2>1. /\ hRunLoop' = Append(hRunLoop, 0) /\ hClosing' = "closed"
          /\ UNCHANGED <<hRequestID, hHandlers, hValid, hConnected, hOutgoing, hIncoming, hPeerUp,
                         hCalls, hLate>>
      BY <1>2 DEF RH!TellMainThread, RH!DidClose
    <2>2. /\ RH!OneCall' /\ RH!CalledAtMostOnce'
          /\ hRunLoop' \in Seq(Nat) /\ \A i \in DOMAIN hRunLoop' : hRunLoop'[i] <= hRequestID'
      <3>1. /\ 0 \in Nat /\ hRequestID' \in Nat /\ hRequestID <= hRequestID' /\ hRequestID' <= MaxSend
            /\ 0 <= hRequestID' /\ \A x \in hHandlers' : x \in hHandlers
        BY <1>0, <2>1, ReplyPlaces
      <3> QED
        BY <2>1, <3>1, ReplyPush
    <2>3. RH!TypeOK'
      BY <1>0, <2>1, <2>2 DEF RH!TypeOK, RH!Request
    <2> QED
      BY <2>2, <2>3 DEF RH!IInv
  <1>3. CASE RH!PlatformInvalidate \/ RH!CloseSocket \/ RH!PeerReplies \/ RH!PeerExits \/ UNCHANGED RH!vars
    <2>1. /\ UNCHANGED <<hRequestID, hHandlers, hValid, hRunLoop, hCalls, hLate>>
          /\ hConnected' \in BOOLEAN /\ hPeerUp' \in BOOLEAN
          /\ hClosing' = hClosing \/ hClosing' = "socket"
      BY <1>0, <1>3 DEF RH!PlatformInvalidate, RH!CloseSocket, RH!PeerReplies, RH!PeerExits,
                        RH!vars, RH!TypeOK
    <2>2. hOutgoing' \subseteq RH!Request /\ hIncoming' \in Seq(RH!Request)
      <3>1. hOutgoing \subseteq RH!Request /\ hIncoming \in Seq(RH!Request)
        BY <1>0 DEF RH!TypeOK
      <3>2. CASE RH!PeerReplies
        <4>1. PICK id \in hOutgoing : hOutgoing' = hOutgoing \ {id} /\ hIncoming' = Append(hIncoming, id)
          BY <3>2 DEF RH!PeerReplies
        <4>2. id \in RH!Request
          BY <3>1
        <4> QED
          BY <3>1, <4>1, <4>2, PushFacts
      <3>3. CASE ~RH!PeerReplies
        BY <1>3, <3>1, <3>3 DEF RH!PlatformInvalidate, RH!CloseSocket, RH!PeerExits, RH!vars
      <3> QED
        BY <3>2, <3>3
    <2>3. RH!TypeOK'
      BY <1>0, <2>1, <2>2 DEF RH!TypeOK, RH!Request
    <2>4. RH!OneCall' /\ RH!CalledAtMostOnce'
      BY <2>1 DEF RH!IInv, RH!OneCall, RH!CalledAtMostOnce, RH!Request, RH!DidClose
    <2> QED
      BY <2>3, <2>4 DEF RH!IInv
  <1> QED
    BY <1>1, <1>2, <1>3, ReplySend, ReplyTask, ReplyReceived DEF RH!Next, RH!QueueStep

\* However a reply, the peer's end and invalidate() race for the handlers, and in
\* whatever order the HashMap yields them, none is called twice.
THEOREM ReplyHandlersCalledAtMostOnce == RH!Spec => []RH!CalledAtMostOnce
  <1>1. RH!IInv => RH!CalledAtMostOnce
    BY DEF RH!IInv
  <1> QED
    BY ReplyInit, ReplyNext, <1>1, PTL DEF RH!Spec
=============================================================================
