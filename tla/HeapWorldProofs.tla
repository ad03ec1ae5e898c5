-------------------------- MODULE HeapWorldProofs --------------------------
(***************************************************************************)
(* For any number of tickets: the mutator and the collector thread are     *)
(* never both in the phases of a collection, the world is stopped while    *)
(* the collector thread believes so, and each collection's finalizers run  *)
(* before the next one asks for its own.                                   *)
(***************************************************************************)
EXTENDS HeapWorld, SequenceTheorems, TLAPS

-----------------------------------------------------------------------------
(* Sequences of calls, by their first call and by what is among them. *)

Push(x, s) == <<x>> \o s
Has(s, L) == \E i \in DOMAIN s : s[i] \in L

\* What the mutator repeats when it has finalized.
Repeated == On("stopIfNecessarySlow", AfterStop) \cup On("handleNeedFinalize", AfterStop)
               \cup On("waitForCollector", AfterWait) \cup On("releaseAccess", Empty)

\* The calls of a collection, and those that the facts about the mutator's
\* tickets and waits look for.
PhaseLabels == {"runCurrentPhase", "runPhase", "changePhase", "endPhase", "setNeedFinalize"}
WaitLabels == {"waitForCollector", "waitMore", "waitDone", "park", "clearMutatorWaiting"}
SideLabels == WaitLabels \cup {"prevented", "stopThread"}

\* A call put before others.
LEMMA PushFacts ==
  ASSUME NEW s \in Seq(Label), NEW x \in Label
  PROVE  /\ Push(x, s) \in Seq(Label) /\ Push(x, s) # <<>>
         /\ Head(Push(x, s)) = x /\ Tail(Push(x, s)) = s
  <1> DEFINE p == Push(x, s)
  <1>0. <<x>> \in Seq(Label) /\ Len(<<x>>) = 1 /\ <<x>>[1] = x
    OBVIOUS
  <1>1. p \in Seq(Label) /\ Len(p) = 1 + Len(s)
        /\ \A i \in 1 .. 1 + Len(s) : p[i] = IF i <= 1 THEN <<x>>[i] ELSE s[i - 1]
    BY <1>0, ConcatProperties DEF Push
  <1> HIDE DEF p
  <1>2. Len(s) \in Nat /\ Len(<<>>) = 0
    OBVIOUS
  <1>3. p # <<>>
    BY <1>1, <1>2
  <1>4. Head(p) = x
    BY <1>0, <1>1, <1>2, <1>3
  <1>5. Tail(p) \in Seq(Label) /\ Len(Tail(p)) = Len(s) /\ \A i \in 1 .. Len(s) : Tail(p)[i] = p[i + 1]
    BY <1>1, <1>2, <1>3, HeadTailProperties
  <1>6. \A i \in 1 .. Len(s) : Tail(p)[i] = s[i]
    BY <1>1, <1>2, <1>5
  <1>7. Tail(p) = s
    BY <1>5, <1>6, SeqEqual
  <1> QED
    BY <1>1, <1>3, <1>4, <1>7 DEF p

\* What is still to be done is the next call, or is done after it.
LEMMA HasHead ==
  ASSUME NEW s \in Seq(Label), s # <<>>, NEW L
  PROVE  Tail(s) \in Seq(Label) /\ (Has(s, L) <=> Head(s) \in L \/ Has(Tail(s), L))
  <1>1. Len(s) \in Nat \ {0} /\ DOMAIN s = 1 .. Len(s) /\ s[1] = Head(s)
    OBVIOUS
  <1>2. Tail(s) \in Seq(Label) /\ DOMAIN Tail(s) = 1 .. Len(s) - 1
        /\ \A i \in 1 .. Len(s) - 1 : Tail(s)[i] = s[i + 1]
    OBVIOUS
  <1>3. Has(s, L) => Head(s) \in L \/ Has(Tail(s), L)
    <2>1. ASSUME NEW i \in 1 .. Len(s), s[i] \in L, i # 1 PROVE Has(Tail(s), L)
      <3>1. i - 1 \in 1 .. Len(s) - 1 /\ Tail(s)[i - 1] = s[i]
        BY <2>1, <1>1, <1>2
      <3> QED
        BY <3>1, <2>1, <1>2 DEF Has
    <2> QED
      BY <2>1, <1>1 DEF Has
  <1>4. Head(s) \in L => Has(s, L)
    BY <1>1 DEF Has
  <1>5. Has(Tail(s), L) => Has(s, L)
    <2>1. ASSUME NEW i \in 1 .. Len(s) - 1, Tail(s)[i] \in L PROVE Has(s, L)
      <3>1. i + 1 \in 1 .. Len(s) /\ s[i + 1] \in L
        BY <2>1, <1>1, <1>2
      <3> QED
        BY <3>1, <1>1 DEF Has
    <2> QED
      BY <2>1, <1>2 DEF Has
  <1> QED
    BY <1>2, <1>3, <1>4, <1>5

\* The same for a call put before others.
LEMMA HasPush ==
  ASSUME NEW s \in Seq(Label), NEW x \in Label, NEW L
  PROVE  Has(Push(x, s), L) <=> x \in L \/ Has(s, L)
  <1> DEFINE p == Push(x, s)
  <1>1. p \in Seq(Label) /\ p # <<>> /\ Head(p) = x /\ Tail(p) = s
    BY PushFacts
  <1> HIDE DEF p
  <1>2. Has(p, L) <=> Head(p) \in L \/ Has(Tail(p), L)
    BY <1>1, HasHead
  <1> QED
    BY <1>1, <1>2 DEF p

\* Nothing is left to do at the end.
LEMMA HasNone == \A L : ~Has(<<>>, L)
  BY DEF Has

\* A list of calls is one call pushed after the other.
LEMMA OneCall ==
  ASSUME NEW s \in Seq(Label), NEW x \in Label
  PROVE  <<>> \o s = s /\ <<x>> \o s = Push(x, s) /\ <<x>> = Push(x, <<>>)
  <1>1. <<>> \in Seq(Label) /\ <<x>> \in Seq(Label)
    OBVIOUS
  <1> QED
    BY <1>1, ConcatEmptySeq DEF Push

\* Pushing a call and prepending a list of calls, in either order.
LEMMA PushConcat ==
  ASSUME NEW s \in Seq(Label), NEW t \in Seq(Label), NEW x \in Label
  PROVE  Push(x, t) \o s = Push(x, t \o s)
  <1>1. <<x>> \in Seq(Label)
    OBVIOUS
  <1> QED
    BY <1>1, ConcatAssociative DEF Push

\* Two calls.
LEMMA TwoCalls ==
  ASSUME NEW s \in Seq(Label), NEW x \in Label, NEW y \in Label
  PROVE  <<x, y>> \o s = Push(x, Push(y, s)) /\ <<x, y>> = Push(x, Push(y, <<>>))
  <1>0. <<y>> \in Seq(Label) /\ <<x>> \in Seq(Label) /\ <<x, y>> \in Seq(Label)
    OBVIOUS
  <1>a. <<x, y>> = <<x>> \o <<y>>
    <2> DEFINE a == <<x>>  b == <<y>>  c == <<x, y>>
    <2>1. /\ a \in Seq(Label) /\ b \in Seq(Label) /\ c \in Seq(Label)
          /\ Len(a) = 1 /\ Len(b) = 1 /\ Len(c) = 2 /\ a[1] = x /\ b[1] = y /\ c[1] = x /\ c[2] = y
      OBVIOUS
    <2> HIDE DEF a, b, c
    <2>2. /\ a \o b \in Seq(Label) /\ Len(a \o b) = 2
          /\ \A i \in 1 .. 2 : (a \o b)[i] = IF i <= 1 THEN a[i] ELSE b[i - 1]
      <3>1. /\ a \o b \in Seq(Label) /\ Len(a \o b) = Len(a) + Len(b)
            /\ \A i \in 1 .. Len(a) + Len(b) : (a \o b)[i] = IF i <= Len(a) THEN a[i] ELSE b[i - Len(a)]
        BY <2>1, ConcatProperties
      <3> QED
        BY <2>1, <3>1
    <2>3. \A i \in 1 .. 2 : c[i] = (a \o b)[i]
      BY <2>1, <2>2
    <2>4. c = a \o b
      BY <2>1, <2>2, <2>3, SeqEqual
    <2> QED
      BY <2>4 DEF a, b, c
  <1>1. <<y>> \in Seq(Label) /\ <<x, y>> = Push(x, <<y>>)
    BY <1>0, <1>a DEF Push
  <1>2. <<x, y>> \o s = Push(x, <<y>> \o s)
    BY <1>1, PushConcat
  <1> QED
    BY <1>1, <1>2, OneCall

\* Three calls.
LEMMA ThreeCalls ==
  ASSUME NEW s \in Seq(Label), NEW x \in Label, NEW y \in Label, NEW z \in Label
  PROVE  <<x, y, z>> \o s = Push(x, Push(y, Push(z, s))) /\ <<x, y, z>> = Push(x, Push(y, Push(z, <<>>)))
  <1>1. <<y, z>> \in Seq(Label) /\ <<x, y, z>> = Push(x, <<y, z>>)
    BY DEF Push
  <1>2. <<x, y, z>> \o s = Push(x, <<y, z>> \o s)
    BY <1>1, PushConcat
  <1> QED
    BY <1>1, <1>2, TwoCalls

-----------------------------------------------------------------------------
(* The sequences of calls. *)

\* What a member of On(x, S) starts and goes on with.
LEMMA OnFacts ==
  ASSUME NEW x, NEW S, NEW s \in On(x, S)
  PROVE  /\ s \in Seq(Label) /\ s # <<>> /\ Head(s) = x /\ Tail(s) \in S /\ Tail(s) \in Seq(Label)
         /\ \A L : Has(s, L) <=> x \in L \/ Has(Tail(s), L)
  BY HasHead DEF On

\* How to get into On(x, S).
LEMMA PushOn ==
  ASSUME NEW x \in Label, NEW S, NEW s \in Seq(Label), s \in S
  PROVE  Push(x, s) \in On(x, S)
  BY PushFacts DEF On

\* What follows a call of the mutator outside collections.
LEMMA OutTails ==
  ASSUME NEW s \in MutatorOut, s # <<>>
  PROVE  /\ s \in Seq(Label) /\ Tail(s) \in Seq(Label)
         /\ Head(s) = "stopIfNecessary" => Tail(s) \in AfterStop
         /\ Head(s) = "stopIfNecessarySlow" => Tail(s) \in AfterStop
         /\ Head(s) = "stopped?" => Tail(s) \in Handling
         /\ Head(s) = "handleGCDidJIT" => Tail(s) \in On("handleNeedFinalize", AfterStop)
         /\ Head(s) = "handleNeedFinalize" => Tail(s) \in AfterStop
         /\ Head(s) = "requestCollection" =>
              Tail(s) \in Empty \cup On("stopIfNecessary", Empty) \cup On("waitForCollector", Empty)
         /\ Head(s) \in {"prevented", "stopThread", "acquireAccess", "releaseAccess", "join", "dead"} =>
              Tail(s) = <<>>
         /\ Head(s) \in {"waitForCollector", "waitMore", "waitDone", "park", "clearMutatorWaiting"} =>
              Tail(s) \in AfterWait
         /\ Head(s) = "relinquishConn" => Tail(s) \in WaitEnds
         /\ Head(s) = "finishRelinquishingConn" => Tail(s) \in Empty \cup On("relinquishConn", WaitEnds)
         /\ Head(s) = "finalize" => Tail(s) \in On("unparkAll", Repeated)
         /\ Head(s) = "unparkAll" => Tail(s) \in Repeated
  <1>1. \A r \in MutatorOut : r \in Seq(Label)
    <2>1. <<>> \in Seq(Label)
      OBVIOUS
    <2> QED
      BY <2>1 DEF MutatorOut, AfterStop, AfterWait, MutatorRest, WaitEnds, Handling, Loop, On, Empty
  <1>2. Tail(s) \in Seq(Label)
    BY <1>1
  <1> QED
    BY <1>1, <1>2 DEF MutatorOut, AfterStop, AfterWait, MutatorRest, WaitEnds, Handling, Loop, Repeated, On, Empty

\* Doing() in terms of Has().
LEMMA DoingHas == \A a \in Actor : \A L : Doing(a, L) <=> Has(todo[a], L)
  BY DEF Doing, Has

\* What comes after a stop, a wait or a collection.
LEMMA RestsHave ==
  ASSUME NEW s, NEW L, L \cap ({"finalize", "unparkAll"} \cup PhaseLabels) = L
  PROVE  /\ s \in AfterStop \cup AfterWait \cup WaitEnds \cup Handling \cup MutatorRest => ~Has(s, L)
         /\ s \in On("handleNeedFinalize", AfterStop) => ~Has(s, L)
  <1> USE HasNone, OnFacts DEF PhaseLabels
  <1>1. ASSUME NEW r \in Empty PROVE ~Has(r, L)
    BY <1>1 DEF Empty
  <1>2. ASSUME NEW r, r \in Empty \cup On("stopIfNecessary", Empty) \cup On("waitForCollector", Empty)
        PROVE ~Has(r, L)
    BY <1>1, <1>2
  <1>3. ASSUME NEW r \in AfterStop PROVE ~Has(r, L)
    BY <1>1, <1>2, <1>3 DEF AfterStop
  <1>4. ASSUME NEW r \in AfterWait PROVE ~Has(r, L)
    BY <1>1, <1>4 DEF AfterWait
  <1>5. ASSUME NEW r \in WaitEnds PROVE ~Has(r, L)
    BY <1>4, <1>5 DEF WaitEnds
  <1>6. ASSUME NEW r \in On("handleNeedFinalize", AfterStop) PROVE ~Has(r, L)
    BY <1>3, <1>6
  <1>7. ASSUME NEW r \in Handling PROVE ~Has(r, L)
    BY <1>6, <1>7 DEF Handling
  <1>8. ASSUME NEW r \in MutatorRest PROVE ~Has(r, L)
    BY <1>5, <1>7, <1>8 DEF MutatorRest
  <1> QED
    BY <1>3, <1>4, <1>5, <1>6, <1>7, <1>8

\* Outside collections the mutator has nothing of a collection to do.
LEMMA OutHasNoPhase ==
  ASSUME NEW s \in MutatorOut
  PROVE  ~Has(s, PhaseLabels)
  <1> DEFINE L == PhaseLabels
  <1> USE HasNone, OnFacts DEF PhaseLabels
  <1>1. ASSUME NEW r, r \in AfterStop \cup AfterWait \cup WaitEnds \cup Handling \cup MutatorRest
                             \cup On("handleNeedFinalize", AfterStop)
        PROVE ~Has(r, L)
    BY <1>1, RestsHave
  <1>2. ASSUME NEW r \in Repeated PROVE ~Has(r, L)
    BY <1>1, <1>2 DEF Repeated, Empty
  <1>3. ASSUME NEW r \in On("unparkAll", Repeated) PROVE ~Has(r, L)
    BY <1>2, <1>3
  <1>4. ASSUME NEW r \in Empty \cup On("relinquishConn", WaitEnds) PROVE ~Has(r, L)
    BY <1>1, <1>4 DEF Empty
  <1>5. CASE s = <<>>
    BY <1>5
  <1>6. CASE s # <<>>
    <2>1. /\ s \in Seq(Label) /\ (Has(s, L) <=> Head(s) \in L \/ Has(Tail(s), L))
      BY <1>6, OutTails, HasHead
    <2>2. Tail(s) \in Empty \cup AfterStop \cup AfterWait \cup WaitEnds \cup Handling \cup MutatorRest
             \cup On("handleNeedFinalize", AfterStop) \cup Repeated \cup On("unparkAll", Repeated)
             \cup (Empty \cup On("relinquishConn", WaitEnds))
          /\ Head(s) \notin L
      BY <1>6 DEF MutatorOut, AfterStop, AfterWait, MutatorRest, WaitEnds, Handling, Loop, Repeated, On, Empty
    <2> QED
      BY <2>1, <2>2, <1>1, <1>2, <1>3, <1>4
  <1> QED
    BY <1>5, <1>6

-----------------------------------------------------------------------------
(* Where the actors are. *)

\* The calls that can come first in a collection.
InLabels == {"runCurrentPhase", "runPhase", "changePhase", "setPhase", "stopThePeriphery",
             "resumeThePeriphery", "unparkAll", "setNeedFinalize", "endPhase",
             "waitWhileNeedFinalize", "stopTheMutator", "resumeTheMutator",
             "handleNeedFinalize", "finalize"}

\* The next call of somebody in a collection is one of a collection.
LEMMA InHeads ==
  /\ MutatorIn => todo[Mutator] # <<>> /\ Head(todo[Mutator]) \in InLabels
  /\ CollectorIn => todo[Collector] # <<>> /\ Head(todo[Collector]) \in InLabels
  BY DEF MutatorIn, CollectorIn, InPhase, Running, Setting, Ending, Loop, On, InLabels

\* Somebody in a collection goes on with a phase, or ends the collection.
LEMMA SettingHas ==
  ASSUME NEW R, NEW s, NEW L, {"runCurrentPhase", "runPhase"} \subseteq L
  PROVE  s \in Setting(R) \/ s \in Running(R) => Has(s, L)
  BY OnFacts DEF Setting, Running

\* In a collection there is a phase left to run, or the last one ends.
LEMMA InPhaseHas ==
  ASSUME NEW a \in Actor, NEW R, InPhase(a, R)
  PROVE  /\ Has(todo[a], PhaseLabels)
         /\ Has(todo[a], {"runCurrentPhase", "runPhase", "changePhase"}) \/ cur = "End"
  <1> DEFINE K == {"runCurrentPhase", "runPhase", "changePhase"}
  <1> USE OnFacts DEF PhaseLabels
  <1>1. ASSUME NEW s, s \in Setting(R) \/ s \in Running(R) PROVE Has(s, PhaseLabels) /\ Has(s, K)
    <2> HIDE DEF K, PhaseLabels
    <2>1. {"runCurrentPhase", "runPhase"} \subseteq K /\ {"runCurrentPhase", "runPhase"} \subseteq PhaseLabels
      BY DEF K, PhaseLabels
    <2> QED
      BY <1>1, <2>1, SettingHas
  <1>2. ASSUME NEW s, s \in On("stopThePeriphery", Setting(R)) \/ s \in On("changePhase", Running(R))
        PROVE Has(s, PhaseLabels) /\ Has(s, K)
    BY <1>1, <1>2
  <1>3. ASSUME NEW s \in On("runCurrentPhase", R) \cup On("runPhase", R)
        PROVE Has(s, PhaseLabels) /\ Has(s, K)
    BY <1>3
  <1>4. ASSUME NEW s \in On("endPhase", R) PROVE Has(s, PhaseLabels)
    BY <1>4
  <1>5. ASSUME NEW s \in On("unparkAll", On("endPhase", R)) PROVE Has(s, PhaseLabels)
    BY <1>4, <1>5
  <1>6. ASSUME NEW s \in Ending(R) PROVE Has(s, PhaseLabels)
    BY <1>6 DEF Ending
  <1>7. ASSUME NEW s \in On("unparkAll", Ending(R)) PROVE Has(s, PhaseLabels)
    BY <1>6, <1>7
  <1> QED
    BY <1>1, <1>2, <1>3, <1>4, <1>5, <1>6, <1>7 DEF InPhase

\* So for the collector thread.
LEMMA CollectorInHas ==
  ASSUME CollectorIn
  PROVE  Has(todo[Collector], {"runCurrentPhase", "runPhase", "changePhase"}) \/ cur = "End"
  <1> DEFINE K == {"runCurrentPhase", "runPhase", "changePhase"}
             R == On("poll", Empty)
             c == todo[Collector]
  <1> USE OnFacts
  <1>1. ASSUME NEW s \in Setting(R) PROVE Has(s, K)
    BY <1>1, SettingHas
  <1>2. ASSUME NEW s \in On("stopThePeriphery", Setting(R)) PROVE Has(s, K)
    BY <1>1, <1>2
  <1>3. ASSUME NEW s \in On("stopTheMutator", On("stopThePeriphery", Setting(R))) PROVE Has(s, K)
    BY <1>2, <1>3
  <1>4. ASSUME NEW s \in On("waitWhileNeedFinalize", On("stopTheMutator", On("stopThePeriphery", Setting(R))))
        PROVE Has(s, K)
    BY <1>3, <1>4
  <1>5. ASSUME NEW s \in On("resumeTheMutator", Setting(R)) \cup On("unparkAll", Setting(R)) PROVE Has(s, K)
    BY <1>1, <1>5
  <1>6. ASSUME NEW s \in On("resumeThePeriphery", On("resumeTheMutator", Setting(R))) PROVE Has(s, K)
    BY <1>5, <1>6
  <1>7. \/ InPhase(Collector, R) \/ c \in On("stopTheMutator", On("stopThePeriphery", Setting(R)))
        \/ c \in On("waitWhileNeedFinalize", On("stopTheMutator", On("stopThePeriphery", Setting(R))))
        \/ c \in On("resumeTheMutator", Setting(R)) \cup On("unparkAll", Setting(R))
        \/ c \in On("resumeThePeriphery", On("resumeTheMutator", Setting(R)))
    BY DEF CollectorIn
  <1>8. Collector \in Actor
    BY DEF Actor
  <1> QED
    BY <1>3, <1>4, <1>5, <1>6, <1>7, <1>8, InPhaseHas

\* So for the mutator.
LEMMA MutatorInHas ==
  ASSUME MutatorIn
  PROVE  Has(todo[Mutator], PhaseLabels)
  <1> DEFINE R == MutatorRest
             h == "handleNeedFinalize"
             c == todo[Mutator]
  <1> USE OnFacts
  <1>1. ASSUME NEW s \in Setting(R) PROVE Has(s, PhaseLabels)
    BY <1>1, SettingHas DEF PhaseLabels
  <1>2. ASSUME NEW s \in On("stopThePeriphery", Setting(R)) PROVE Has(s, PhaseLabels)
    BY <1>1, <1>2
  <1>3. ASSUME NEW s \in On(h, Setting(R)) \cup On(h, On("stopThePeriphery", Setting(R))) PROVE Has(s, PhaseLabels)
    BY <1>1, <1>2, <1>3
  <1>4. ASSUME NEW s \in On("unparkAll", On(h, Setting(R))) \cup On("unparkAll", On(h, On("stopThePeriphery", Setting(R))))
                          \cup On("resumeThePeriphery", On(h, Setting(R)))
        PROVE Has(s, PhaseLabels)
    BY <1>3, <1>4
  <1>5. ASSUME NEW s \in On("finalize", On("unparkAll", On(h, Setting(R))))
                           \cup On("finalize", On("unparkAll", On(h, On("stopThePeriphery", Setting(R)))))
        PROVE Has(s, PhaseLabels)
    BY <1>4, <1>5
  <1>6. Mutator \in Actor
    BY DEF Actor
  <1>7. \/ InPhase(Mutator, R) \/ c \in Loop(h, Setting(R)) \/ c \in Loop(h, On("stopThePeriphery", Setting(R)))
        \/ c \in On("resumeThePeriphery", On(h, Setting(R)))
    BY DEF MutatorIn
  <1> QED
    BY <1>3, <1>4, <1>5, <1>6, <1>7, InPhaseHas DEF Loop

\* The mutator is not in and outside a collection at a time.
LEMMA NotBoth == ~(MutatorIn /\ todo[Mutator] \in MutatorOut)
  BY MutatorInHas, OutHasNoPhase

-----------------------------------------------------------------------------
(* What a step of the mutator outside collections keeps. *)

\* A step outside collections that leaves the phases alone and takes nothing
\* from the one who is in a collection keeps OneDrives and PhaseFacts.
LEMMA OutKeeps ==
  ASSUME IInv, todo[Mutator] \in MutatorOut, todo'[Mutator] \in MutatorOut,
         todo'[Collector] = todo[Collector]
           \/ (todo[Collector] \in CollectorOut /\ todo'[Collector] \in CollectorOut),
         UNCHANGED phases,
         "finalize" \in world' => "finalize" \in world,
         "stopped" \in world => "stopped" \in world',
         "conn" \in world' => "conn" \in world \/ todo[Collector] \in CollectorOut,
         requests # 0 => requests' # 0
  PROVE  OneDrives' /\ PhaseFacts'
  <1>1. PhaseFacts'
    BY DEF PhaseFacts, IInv, phases, Suspended
  <1>2. CASE todo[Collector] \in CollectorOut /\ NobodyIn
    <2>1. NobodyIn'
      BY <1>2 DEF NobodyIn, phases, Halfway, Change, Suspended
    <2> QED
      BY <1>1, <1>2, <2>1 DEF OneDrives
  <1>3. CASE CollectorIn
    <2>1. CASE todo'[Collector] = todo[Collector] /\ "conn" \notin world'
      <3>1. CollectorIn'
        BY <1>3, <2>1 DEF CollectorIn, InPhase, phases, Halfway, Settled, Resumes, Change, Suspended
      <3> QED
        BY <1>1, <3>1 DEF OneDrives
    <2>2. todo[Collector] \notin CollectorOut
      <3>1. CollectorIn => todo[Collector] \notin CollectorOut
        BY DEF CollectorIn, CollectorOut, InPhase, Running, Setting, Ending, On, Empty
      <3> QED
        BY <1>3, <3>1
    <2>3. "conn" \notin world
      BY <1>3 DEF CollectorIn
    <2> QED
      BY <2>1, <2>2, <2>3
  <1> QED
    BY <1>2, <1>3, NotBoth DEF IInv, OneDrives

\* What a step keeps that changes no ticket and none of the mutator's waits.
LEMMA SideKeeps ==
  ASSUME IInv, TypeOK',
         \A L \in SUBSET SideLabels : Has(todo'[Mutator], L) <=> Has(todo[Mutator], L),
         UNCHANGED <<granted, ticket>>, served <= served', granted' = served' + requests',
         "conn" \in world' => "access" \in world',
         "stopped" \in world' => "access" \notin world',
         "waiting" \in world' => "waiting" \in world /\ "access" \in world'
  PROVE  WorldFacts' /\ TicketFacts'
  <1> DEFINE A == {"waitDone", "clearMutatorWaiting"}
             B == {"prevented", "stopThread"}
             C == {"waitForCollector", "waitMore", "park"}
  <1>1. \A L : (Doing(Mutator, L) <=> Has(todo[Mutator], L)) /\ (Doing(Mutator, L)' <=> Has(todo'[Mutator], L))
    BY DEF Doing, Has
  <1>2. \A L \in {WaitLabels, A, B, C} : L \in SUBSET SideLabels
    BY DEF SideLabels, WaitLabels
  <1>3. \A L \in {WaitLabels, A, B, C} : Doing(Mutator, L)' <=> Doing(Mutator, L)
    BY <1>1, <1>2
  <1> HIDE DEF A, B, C
  <1>4. WorldFacts'
    <2>1. Doing(Mutator, WaitLabels)' <=> Doing(Mutator, WaitLabels)
      BY <1>3
    <2> QED
      BY <2>1 DEF IInv, WorldFacts, WaitLabels
  <1>5. TicketFacts'
    <2>1. (Doing(Mutator, A)' <=> Doing(Mutator, A)) /\ (Doing(Mutator, B)' <=> Doing(Mutator, B))
          /\ (Doing(Mutator, C)' <=> Doing(Mutator, C))
      BY <1>3
    <2>2. /\ Doing(Mutator, A) => served >= ticket
          /\ Doing(Mutator, B) => ticket = granted /\ (served >= ticket \/ Doing(Mutator, C))
      BY DEF IInv, TicketFacts, A, B, C
    <2>3. served >= ticket => served' >= ticket'
      BY DEF IInv, TypeOK
    <2>4. /\ Doing(Mutator, A)' => served' >= ticket'
          /\ Doing(Mutator, B)' => ticket' = granted' /\ (served' >= ticket' \/ Doing(Mutator, C)')
      BY <2>1, <2>2, <2>3
    <2> QED
      BY <2>4 DEF TicketFacts, A, B, C
  <1> QED
    BY <1>4, <1>5

\* The mutator at a call; one that no collection makes is made outside them.
LEMMA MutatorHead ==
  ASSUME IInv, NEW l, At(Mutator, l)
  PROVE  /\ todo[Mutator] \in Seq(Label) /\ todo[Mutator] # <<>> /\ Head(todo[Mutator]) = l
         /\ Tail(todo[Mutator]) \in Seq(Label)
         /\ \A L : Has(todo[Mutator], L) <=> l \in L \/ Has(Tail(todo[Mutator]), L)
         /\ l \notin InLabels => todo[Mutator] \in MutatorOut
  <1>1. todo[Mutator] \in Seq(Label) /\ todo[Mutator] # <<>> /\ Head(todo[Mutator]) = l
    BY DEF IInv, TypeOK, At, Actor
  <1>2. l \notin InLabels => todo[Mutator] \in MutatorOut
    BY <1>1, InHeads DEF IInv, OneDrives
  <1> QED
    BY <1>1, <1>2, HasHead

\* A step of the mutator outside collections that has nothing to do with
\* tickets and waits.
LEMMA OutStep ==
  ASSUME IInv, todo[Mutator] \in MutatorOut, todo'[Mutator] \in MutatorOut,
         todo' \in [Actor -> Seq(Label)],
         todo'[Collector] = todo[Collector]
           \/ (todo[Collector] \in CollectorOut /\ todo'[Collector] \in CollectorOut \ On("stopped", Empty)),
         \A L \in SUBSET SideLabels : Has(todo'[Mutator], L) <=> Has(todo[Mutator], L),
         UNCHANGED <<phases, tickets, shouldStop, ticket>>,
         world' \subseteq Bits,
         "finalize" \in world' => "finalize" \in world,
         "stopped" \in world => "stopped" \in world',
         "conn" \in world' => "conn" \in world /\ "access" \in world',
         "stopped" \in world' => "access" \notin world',
         "waiting" \in world' => "waiting" \in world /\ "access" \in world',
         ~shouldStop,
         "access" \in world' \/ todo'[Mutator] \in Empty \cup On("acquireAccess", Empty)
             \cup On("finishRelinquishingConn", Empty) \cup On("dead", Empty),
         At(Mutator, "acquireAccess")' => "access" \notin world'
  PROVE  IInv'
  <1>1. TypeOK'
    BY DEF IInv, TypeOK, phases, tickets
  <1>2. OneDrives' /\ PhaseFacts'
    BY OutKeeps DEF tickets
  <1>3. WorldFacts' /\ TicketFacts'
    BY <1>1, SideKeeps DEF IInv, TypeOK, TicketFacts, tickets
  <1>4. ClientFacts'
    <2>1. ~At(Collector, "stopped")'
      <3>1. ~At(Collector, "stopped")
        BY DEF IInv, ClientFacts
      <3> QED
        BY <3>1 DEF At, CollectorOut, On, Empty
    <2> QED
      BY <2>1 DEF ClientFacts
  <1> QED
    BY <1>1, <1>2, <1>3, <1>4 DEF IInv

\* With access, the client has the heap.
LEMMA Accessing ==
  ASSUME IInv, NEW l, At(Mutator, l)
  PROVE  /\ l \notin {"acquireAccess", "finishRelinquishingConn", "dead"} => "access" \in world
         /\ "access" \in world => "stopped" \notin world
         /\ l \notin {"join", "dead"} => ~shouldStop
         /\ l = "finishRelinquishingConn" /\ Tail(todo[Mutator]) # <<>> => "access" \in world
  BY DEF IInv, ClientFacts, WorldFacts, At, On, Empty

\* Then() replaces the next call of one actor.
LEMMA ThenIs ==
  ASSUME IInv, NEW a \in Actor, NEW calls, todo' = Then(a, calls)
  PROVE  /\ todo'[a] = calls \o Tail(todo[a]) /\ DOMAIN todo' = Actor
         /\ \A b \in Actor : b # a => todo'[b] = todo[b]
  BY DEF IInv, TypeOK, Then

\* A call is replaced by none, one, two, three or four.
LEMMA ThenNone ==
  ASSUME IInv, NEW a \in Actor, todo[a] # <<>>, todo' = Then(a, <<>>)
  PROVE  /\ todo'[a] \in {Tail(todo[a])} /\ todo' \in [Actor -> Seq(Label)]
         /\ \A b \in Actor : b # a => todo'[b] = todo[b]
         /\ \A L : Has(todo'[a], L) <=> Has(Tail(todo[a]), L)
  <1> DEFINE T == Tail(todo[a])
  <1>1. T \in Seq(Label)
    BY DEF IInv, TypeOK
  <1>2. todo'[a] = <<>> \o T /\ DOMAIN todo' = Actor /\ \A b \in Actor : b # a => todo'[b] = todo[b]
    BY ThenIs
  <1>3. todo'[a] = T
    BY <1>1, <1>2, ConcatEmptySeq
  <1> QED
    BY <1>1, <1>2, <1>3 DEF IInv, TypeOK, Then

\* By one call.
LEMMA ThenOne ==
  ASSUME IInv, NEW a \in Actor, todo[a] # <<>>, NEW x \in Label, todo' = Then(a, <<x>>)
  PROVE  /\ todo'[a] \in On(x, {Tail(todo[a])}) /\ todo' \in [Actor -> Seq(Label)]
         /\ \A b \in Actor : b # a => todo'[b] = todo[b]
         /\ \A L : Has(todo'[a], L) <=> x \in L \/ Has(Tail(todo[a]), L)
  <1> DEFINE T == Tail(todo[a])
  <1>1. T \in Seq(Label)
    BY DEF IInv, TypeOK
  <1>2. todo'[a] = <<x>> \o T /\ DOMAIN todo' = Actor /\ \A b \in Actor : b # a => todo'[b] = todo[b]
    BY ThenIs
  <1> DEFINE p1 == Push(x, T)
  <1>3. todo'[a] = p1
    BY <1>1, <1>2, OneCall
  <1>p1. p1 \in Seq(Label) /\ p1 \in On(x, {T}) /\ \A L : Has(p1, L) <=> x \in L \/ Has(T, L)
    BY <1>1, PushFacts, PushOn, HasPush
  <1> HIDE DEF p1
  <1>4. todo' \in [Actor -> Seq(Label)]
    BY <1>2, <1>3, <1>p1 DEF IInv, TypeOK, Then
  <1> QED
    BY <1>2, <1>3, <1>4, <1>p1

\* By two calls.
LEMMA ThenTwo ==
  ASSUME IInv, NEW a \in Actor, todo[a] # <<>>, NEW x \in Label, NEW y \in Label, todo' = Then(a, <<x, y>>)
  PROVE  /\ todo'[a] \in On(x, On(y, {Tail(todo[a])})) /\ todo' \in [Actor -> Seq(Label)]
         /\ \A b \in Actor : b # a => todo'[b] = todo[b]
         /\ \A L : Has(todo'[a], L) <=> x \in L \/ y \in L \/ Has(Tail(todo[a]), L)
  <1> DEFINE T == Tail(todo[a])
  <1>1. T \in Seq(Label)
    BY DEF IInv, TypeOK
  <1>2. todo'[a] = <<x, y>> \o T /\ DOMAIN todo' = Actor /\ \A b \in Actor : b # a => todo'[b] = todo[b]
    BY ThenIs
  <1> DEFINE p2 == Push(y, T)
             p1 == Push(x, p2)
  <1>3. todo'[a] = p1
    BY <1>1, <1>2, TwoCalls
  <1>p2. p2 \in Seq(Label) /\ p2 \in On(y, {T}) /\ \A L : Has(p2, L) <=> y \in L \/ Has(T, L)
    BY <1>1, PushFacts, PushOn, HasPush
  <1> HIDE DEF p2
  <1>p1. p1 \in Seq(Label) /\ p1 \in On(x, On(y, {T})) /\ \A L : Has(p1, L) <=> x \in L \/ Has(p2, L)
    BY <1>p2, PushFacts, PushOn, HasPush
  <1> HIDE DEF p1
  <1>4. todo' \in [Actor -> Seq(Label)]
    BY <1>2, <1>3, <1>p1 DEF IInv, TypeOK, Then
  <1> QED
    BY <1>2, <1>3, <1>4, <1>p1, <1>p2

\* By three calls.
LEMMA ThenThree ==
  ASSUME IInv, NEW a \in Actor, todo[a] # <<>>, NEW x \in Label, NEW y \in Label, NEW z \in Label,
         todo' = Then(a, <<x, y, z>>)
  PROVE  /\ todo'[a] \in On(x, On(y, On(z, {Tail(todo[a])}))) /\ todo' \in [Actor -> Seq(Label)]
         /\ \A b \in Actor : b # a => todo'[b] = todo[b]
         /\ \A L : Has(todo'[a], L) <=> x \in L \/ y \in L \/ z \in L \/ Has(Tail(todo[a]), L)
  <1> DEFINE T == Tail(todo[a])
  <1>1. T \in Seq(Label)
    BY DEF IInv, TypeOK
  <1>2. todo'[a] = <<x, y, z>> \o T /\ DOMAIN todo' = Actor /\ \A b \in Actor : b # a => todo'[b] = todo[b]
    BY ThenIs
  <1> DEFINE p3 == Push(z, T)
             p2 == Push(y, p3)
             p1 == Push(x, p2)
  <1>3. todo'[a] = p1
    BY <1>1, <1>2, ThreeCalls
  <1>p3. p3 \in Seq(Label) /\ p3 \in On(z, {T}) /\ \A L : Has(p3, L) <=> z \in L \/ Has(T, L)
    BY <1>1, PushFacts, PushOn, HasPush
  <1> HIDE DEF p3
  <1>p2. p2 \in Seq(Label) /\ p2 \in On(y, On(z, {T})) /\ \A L : Has(p2, L) <=> y \in L \/ Has(p3, L)
    BY <1>p3, PushFacts, PushOn, HasPush
  <1> HIDE DEF p2
  <1>p1. p1 \in Seq(Label) /\ p1 \in On(x, On(y, On(z, {T}))) /\ \A L : Has(p1, L) <=> x \in L \/ Has(p2, L)
    BY <1>p2, PushFacts, PushOn, HasPush
  <1> HIDE DEF p1
  <1>4. todo' \in [Actor -> Seq(Label)]
    BY <1>2, <1>3, <1>p1 DEF IInv, TypeOK, Then
  <1> QED
    BY <1>2, <1>3, <1>4, <1>p1, <1>p2, <1>p3

\* By four calls.
LEMMA ThenFour ==
  ASSUME IInv, NEW a \in Actor, todo[a] # <<>>, NEW x \in Label, NEW y \in Label, NEW z \in Label,
         NEW u \in Label, todo' = Then(a, <<x, y, z, u>>)
  PROVE  /\ todo'[a] \in On(x, On(y, On(z, On(u, {Tail(todo[a])})))) /\ todo' \in [Actor -> Seq(Label)]
         /\ \A b \in Actor : b # a => todo'[b] = todo[b]
         /\ \A L : Has(todo'[a], L) <=> x \in L \/ y \in L \/ z \in L \/ u \in L \/ Has(Tail(todo[a]), L)
  <1> DEFINE T == Tail(todo[a])
  <1>1. T \in Seq(Label)
    BY DEF IInv, TypeOK
  <1>2. todo'[a] = <<x, y, z, u>> \o T /\ DOMAIN todo' = Actor /\ \A b \in Actor : b # a => todo'[b] = todo[b]
    BY ThenIs
  <1> DEFINE p4 == Push(u, T)
             p3 == Push(z, p4)
             p2 == Push(y, p3)
             p1 == Push(x, p2)
  <1>3. todo'[a] = p1
    <2>1. <<x, y, z, u>> \o T = Push(x, <<y, z, u>> \o T)
      <3>1. <<y, z, u>> \in Seq(Label) /\ <<x, y, z, u>> = Push(x, <<y, z, u>>)
        BY DEF Push
      <3> QED
        BY <1>1, <3>1, PushConcat
    <2>a. \A t \in Seq(Label) : <<y, z, u>> \o t = Push(y, Push(z, Push(u, t)))
      BY ThreeCalls
    <2>2. <<y, z, u>> \o T = p2
      BY <1>1, <2>a
    <2> QED
      BY <1>2, <2>1, <2>2
  <1>p4. p4 \in Seq(Label) /\ p4 \in On(u, {T}) /\ \A L : Has(p4, L) <=> u \in L \/ Has(T, L)
    BY <1>1, PushFacts, PushOn, HasPush
  <1> HIDE DEF p4
  <1>p3. p3 \in Seq(Label) /\ p3 \in On(z, On(u, {T})) /\ \A L : Has(p3, L) <=> z \in L \/ Has(p4, L)
    BY <1>p4, PushFacts, PushOn, HasPush
  <1> HIDE DEF p3
  <1>p2. p2 \in Seq(Label) /\ p2 \in On(y, On(z, On(u, {T}))) /\ \A L : Has(p2, L) <=> y \in L \/ Has(p3, L)
    BY <1>p3, PushFacts, PushOn, HasPush
  <1> HIDE DEF p2
  <1>p1. p1 \in Seq(Label) /\ p1 \in On(x, On(y, On(z, On(u, {T})))) /\ \A L : Has(p1, L) <=> x \in L \/ Has(p2, L)
    BY <1>p2, PushFacts, PushOn, HasPush
  <1> HIDE DEF p1
  <1>4. todo' \in [Actor -> Seq(Label)]
    BY <1>2, <1>3, <1>p1 DEF IInv, TypeOK, Then
  <1> QED
    BY <1>2, <1>3, <1>4, <1>p1, <1>p2, <1>p3, <1>p4

\* handleNeedFinalize() outside collections.
LEMMA HandleNeedFinalizeOut ==
  ASSUME IInv, HandleNeedFinalize, todo[Mutator] \in MutatorOut
  PROVE  IInv'
  <1> DEFINE s == todo[Mutator]
             T == Tail(s)
             h == "handleNeedFinalize"
  <1>1. /\ s \in Seq(Label) /\ s # <<>> /\ Head(s) = h /\ T \in Seq(Label) /\ T \in AfterStop
        /\ \A L : Has(s, L) <=> h \in L \/ Has(T, L)
    BY MutatorHead, OutTails DEF HandleNeedFinalize, Enter
  <1>2. "access" \in world /\ "stopped" \notin world /\ ~shouldStop
    BY Accessing DEF HandleNeedFinalize, Enter
  <1>3. /\ "finalize" \in Label /\ "unparkAll" \in Label /\ h \in Label
    BY DEF Label
  <1>4. /\ todo'[Mutator] \in {T} \cup On("finalize", On("unparkAll", On(h, {T})))
        /\ todo'[Collector] = todo[Collector] /\ todo' \in [Actor -> Seq(Label)]
        /\ \A L \in SUBSET SideLabels : Has(todo'[Mutator], L) <=> Has(T, L)
    <2>1. CASE todo' = Then(Mutator, <<"finalize", "unparkAll", h>>)
      <3>1. Mutator \in Actor /\ Collector \in Actor /\ Mutator # Collector
        BY DEF Actor, Mutator, Collector
      <3>2. /\ todo'[Mutator] \in On("finalize", On("unparkAll", On(h, {T}))) /\ todo' \in [Actor -> Seq(Label)]
            /\ todo'[Collector] = todo[Collector]
            /\ \A L : Has(todo'[Mutator], L) <=> "finalize" \in L \/ "unparkAll" \in L \/ h \in L \/ Has(T, L)
        BY <1>1, <1>3, <2>1, <3>1, ThenThree
      <3> QED
        BY <3>2 DEF SideLabels, WaitLabels
    <2>2. CASE todo' = Then(Mutator, <<>>)
      BY <1>1, <2>2, ThenNone DEF Actor, Mutator, Collector
    <2> QED
      BY <2>1, <2>2 DEF HandleNeedFinalize
  <1>5. todo'[Mutator] \in MutatorOut /\ ~At(Mutator, "acquireAccess")'
    BY <1>1, <1>4 DEF MutatorOut, Loop, At, On, AfterStop, Empty
  <1>6. \A L \in SUBSET SideLabels : Has(todo'[Mutator], L) <=> Has(s, L)
    BY <1>1, <1>4 DEF SideLabels, WaitLabels
  <1>7. world' = world \ {"finalize"} /\ UNCHANGED <<phases, tickets, shouldStop, ticket>>
    BY DEF HandleNeedFinalize, locals
  <1>8. WorldFacts /\ world \subseteq Bits
    BY DEF IInv, TypeOK
  <1> QED
    BY <1>2, <1>4, <1>5, <1>6, <1>7, <1>8, OutStep DEF WorldFacts

\* finalize() outside collections.
LEMMA FinalizeOut ==
  ASSUME IInv, Finalize, todo[Mutator] \in MutatorOut
  PROVE  IInv'
  <1> DEFINE s == todo[Mutator]
             T == Tail(s)
  <1>1. /\ s \in MutatorOut /\ s # <<>> /\ Head(s) = "finalize" /\ T \in Seq(Label) /\ T \in On("unparkAll", Repeated)
        /\ \A L : Has(s, L) <=> "finalize" \in L \/ Has(T, L)
    BY MutatorHead, OutTails DEF Finalize, Enter, InLabels
  <1>2. "access" \in world /\ "stopped" \notin world /\ ~shouldStop
    BY Accessing DEF Finalize, Enter
  <1>3. "finalize" \in Label
    BY DEF Label
  <1>4. /\ todo'[Mutator] \in {T}
        /\ todo'[Collector] = todo[Collector] /\ todo' \in [Actor -> Seq(Label)]
        /\ \A L \in SUBSET SideLabels : Has(todo'[Mutator], L) <=> Has(T, L)
    <2>0. Mutator \in Actor /\ Collector \in Actor /\ Mutator # Collector
      BY DEF Actor, Mutator, Collector
    <2>1. todo' = Then(Mutator, <<>>)
      BY DEF Finalize
    <2>3. /\ todo'[Mutator] \in {T} /\ todo' \in [Actor -> Seq(Label)]
          /\ todo'[Collector] = todo[Collector] /\ \A L : Has(todo'[Mutator], L) <=> Has(T, L)
      BY <1>1, <1>3, <2>1, <2>0, ThenNone
    <2> QED
      BY <2>3 DEF SideLabels, WaitLabels
  <1>5. todo'[Mutator] \in MutatorOut /\ ~At(Mutator, "acquireAccess")'
    BY <1>1, <1>4 DEF MutatorOut, MutatorRest, Loop, Repeated, Handling, WaitEnds, At, On, AfterStop, AfterWait, Empty
  <1>6. \A L \in SUBSET SideLabels : Has(todo'[Mutator], L) <=> Has(s, L)
    BY <1>1, <1>4 DEF SideLabels, WaitLabels
  <1>7. world' \in {world} /\ UNCHANGED <<phases, tickets, shouldStop, ticket>>
    BY DEF Finalize, locals
  <1>8. WorldFacts /\ world \subseteq Bits
    BY DEF IInv, TypeOK
  <1> QED
    BY <1>1, <1>2, <1>4, <1>5, <1>6, <1>7, <1>8, OutStep DEF WorldFacts

\* ParkingLot::unparkAll() by the mutator outside collections.
LEMMA UnparkAllOut ==
  ASSUME IInv, UnparkAll(Mutator), todo[Mutator] \in MutatorOut
  PROVE  IInv'
  <1> DEFINE s == todo[Mutator]
             T == Tail(s)
  <1>1. /\ s \in MutatorOut /\ s # <<>> /\ Head(s) = "unparkAll" /\ T \in Seq(Label) /\ T \in Repeated
        /\ \A L : Has(s, L) <=> "unparkAll" \in L \/ Has(T, L)
    BY MutatorHead, OutTails DEF UnparkAll, Enter, InLabels
  <1>2. "access" \in world /\ "stopped" \notin world /\ ~shouldStop
    BY Accessing DEF UnparkAll, Enter
  <1>3. "unparkAll" \in Label
    BY DEF Label
  <1>4. /\ todo'[Mutator] \in {T}
        /\ todo'[Collector] = todo[Collector] /\ todo' \in [Actor -> Seq(Label)]
        /\ \A L \in SUBSET SideLabels : Has(todo'[Mutator], L) <=> Has(T, L)
    <2>0. Mutator \in Actor /\ Collector \in Actor /\ Mutator # Collector
      BY DEF Actor, Mutator, Collector
    <2>1. todo' = Then(Mutator, <<>>)
      BY DEF UnparkAll
    <2>3. /\ todo'[Mutator] \in {T} /\ todo' \in [Actor -> Seq(Label)]
          /\ todo'[Collector] = todo[Collector] /\ \A L : Has(todo'[Mutator], L) <=> Has(T, L)
      BY <1>1, <1>3, <2>1, <2>0, ThenNone
    <2> QED
      BY <2>3 DEF SideLabels, WaitLabels
  <1>5. todo'[Mutator] \in MutatorOut /\ ~At(Mutator, "acquireAccess")'
    BY <1>1, <1>4 DEF MutatorOut, MutatorRest, Loop, Repeated, Handling, WaitEnds, At, On, AfterStop, AfterWait, Empty
  <1>6. \A L \in SUBSET SideLabels : Has(todo'[Mutator], L) <=> Has(s, L)
    BY <1>1, <1>4 DEF SideLabels, WaitLabels
  <1>7. world' \in {world} /\ UNCHANGED <<phases, tickets, shouldStop, ticket>>
    BY DEF UnparkAll, locals
  <1>8. WorldFacts /\ world \subseteq Bits
    BY DEF IInv, TypeOK
  <1> QED
    BY <1>1, <1>2, <1>4, <1>5, <1>6, <1>7, <1>8, OutStep DEF WorldFacts

\* handleGCDidJIT().
LEMMA HandleGCDidJITOut ==
  ASSUME IInv, HandleGCDidJIT
  PROVE  IInv'
  <1> DEFINE s == todo[Mutator]
             T == Tail(s)
  <1>1. /\ s \in MutatorOut /\ s # <<>> /\ Head(s) = "handleGCDidJIT"
        /\ T \in Seq(Label) /\ T \in On("handleNeedFinalize", AfterStop)
        /\ \A L : Has(s, L) <=> "handleGCDidJIT" \in L \/ Has(T, L)
    BY MutatorHead, OutTails DEF HandleGCDidJIT, Enter, InLabels
  <1>2. "access" \in world /\ "stopped" \notin world /\ ~shouldStop
    BY Accessing DEF HandleGCDidJIT, Enter
  <1>3. "handleGCDidJIT" \in Label
    BY DEF Label
  <1>4. /\ todo'[Mutator] \in {T} \cup On("handleGCDidJIT", {T})
        /\ todo'[Collector] = todo[Collector] /\ todo' \in [Actor -> Seq(Label)]
        /\ \A L \in SUBSET SideLabels : Has(todo'[Mutator], L) <=> Has(T, L)
    <2>0. Mutator \in Actor /\ Collector \in Actor /\ Mutator # Collector
      BY DEF Actor, Mutator, Collector
    <2>1. CASE todo' = Then(Mutator, <<>>)
      <3>3. /\ todo'[Mutator] \in {T} /\ todo' \in [Actor -> Seq(Label)]
            /\ todo'[Collector] = todo[Collector] /\ \A L : Has(todo'[Mutator], L) <=> Has(T, L)
        BY <1>1, <1>3, <2>1, <2>0, ThenNone
      <3> QED
        BY <3>3 DEF SideLabels, WaitLabels
    <2>2. CASE todo' = Then(Mutator, <<"handleGCDidJIT">>)
      <3>3. /\ todo'[Mutator] \in On("handleGCDidJIT", {T}) /\ todo' \in [Actor -> Seq(Label)]
            /\ todo'[Collector] = todo[Collector] /\ \A L : Has(todo'[Mutator], L) <=> "handleGCDidJIT" \in L \/ Has(T, L)
        BY <1>1, <1>3, <2>2, <2>0, ThenOne
      <3> QED
        BY <3>3 DEF SideLabels, WaitLabels
    <2> QED
      BY <2>1, <2>2 DEF HandleGCDidJIT
  <1>5. todo'[Mutator] \in MutatorOut /\ ~At(Mutator, "acquireAccess")'
    BY <1>1, <1>4 DEF MutatorOut, MutatorRest, Loop, Repeated, Handling, WaitEnds, At, On, AfterStop, AfterWait, Empty
  <1>6. \A L \in SUBSET SideLabels : Has(todo'[Mutator], L) <=> Has(s, L)
    BY <1>1, <1>4 DEF SideLabels, WaitLabels
  <1>7. world' \in {world \ {"didJIT"}} /\ UNCHANGED <<phases, tickets, shouldStop, ticket>>
    BY DEF HandleGCDidJIT, locals
  <1>8. WorldFacts /\ world \subseteq Bits
    BY DEF IInv, TypeOK
  <1> QED
    BY <1>1, <1>2, <1>4, <1>5, <1>6, <1>7, <1>8, OutStep DEF WorldFacts

\* stopIfNecessary().
LEMMA StopIfNecessaryOut ==
  ASSUME IInv, StopIfNecessary
  PROVE  IInv'
  <1> DEFINE s == todo[Mutator]
             T == Tail(s)
  <1>1. /\ s \in MutatorOut /\ s # <<>> /\ Head(s) = "stopIfNecessary" /\ T \in Seq(Label) /\ T \in AfterStop
        /\ \A L : Has(s, L) <=> "stopIfNecessary" \in L \/ Has(T, L)
    BY MutatorHead, OutTails DEF StopIfNecessary, Enter, InLabels
  <1>2. "access" \in world /\ "stopped" \notin world /\ ~shouldStop
    BY Accessing DEF StopIfNecessary, Enter
  <1>3. "stopIfNecessary" \in Label /\ "stopIfNecessarySlow" \in Label
    BY DEF Label
  <1>4. /\ todo'[Mutator] \in {T} \cup On("stopIfNecessarySlow", {T})
        /\ todo'[Collector] = todo[Collector] /\ todo' \in [Actor -> Seq(Label)]
        /\ \A L \in SUBSET SideLabels : Has(todo'[Mutator], L) <=> Has(T, L)
    <2>0. Mutator \in Actor /\ Collector \in Actor /\ Mutator # Collector
      BY DEF Actor, Mutator, Collector
    <2>1. CASE todo' = Then(Mutator, <<>>)
      <3>3. /\ todo'[Mutator] \in {T} /\ todo' \in [Actor -> Seq(Label)]
            /\ todo'[Collector] = todo[Collector] /\ \A L : Has(todo'[Mutator], L) <=> Has(T, L)
        BY <1>1, <1>3, <2>1, <2>0, ThenNone
      <3> QED
        BY <3>3 DEF SideLabels, WaitLabels
    <2>2. CASE todo' = Then(Mutator, <<"stopIfNecessarySlow">>)
      <3>3. /\ todo'[Mutator] \in On("stopIfNecessarySlow", {T}) /\ todo' \in [Actor -> Seq(Label)]
            /\ todo'[Collector] = todo[Collector]
            /\ \A L : Has(todo'[Mutator], L) <=> "stopIfNecessarySlow" \in L \/ Has(T, L)
        BY <1>1, <1>3, <2>2, <2>0, ThenOne
      <3> QED
        BY <3>3 DEF SideLabels, WaitLabels
    <2> QED
      BY <2>1, <2>2 DEF StopIfNecessary
  <1>5. todo'[Mutator] \in MutatorOut /\ ~At(Mutator, "acquireAccess")'
    BY <1>1, <1>4 DEF MutatorOut, MutatorRest, Loop, Repeated, Handling, WaitEnds, At, On, AfterStop, AfterWait, Empty
  <1>6. \A L \in SUBSET SideLabels : Has(todo'[Mutator], L) <=> Has(s, L)
    BY <1>1, <1>4 DEF SideLabels, WaitLabels
  <1>7. world' \in {world} /\ UNCHANGED <<phases, tickets, shouldStop, ticket>>
    BY DEF StopIfNecessary, locals
  <1>8. WorldFacts /\ world \subseteq Bits
    BY DEF IInv, TypeOK
  <1> QED
    BY <1>1, <1>2, <1>4, <1>5, <1>6, <1>7, <1>8, OutStep DEF WorldFacts

\* The RELEASE_ASSERT of stopIfNecessarySlow() on the stopped bit.
LEMMA CheckNotStoppedOut ==
  ASSUME IInv, CheckNotStopped
  PROVE  IInv'
  <1> DEFINE s == todo[Mutator]
             T == Tail(s)
  <1>1. /\ s \in MutatorOut /\ s # <<>> /\ Head(s) = "stopped?" /\ T \in Seq(Label) /\ T \in Handling
        /\ \A L : Has(s, L) <=> "stopped?" \in L \/ Has(T, L)
    BY MutatorHead, OutTails DEF CheckNotStopped, Enter, InLabels
  <1>2. "access" \in world /\ "stopped" \notin world /\ ~shouldStop
    BY Accessing DEF CheckNotStopped, Enter
  <1>3. "stopped?" \in Label
    BY DEF Label
  <1>4. /\ todo'[Mutator] \in {T}
        /\ todo'[Collector] = todo[Collector] /\ todo' \in [Actor -> Seq(Label)]
        /\ \A L \in SUBSET SideLabels : Has(todo'[Mutator], L) <=> Has(T, L)
    <2>0. Mutator \in Actor /\ Collector \in Actor /\ Mutator # Collector
      BY DEF Actor, Mutator, Collector
    <2>1. todo' = Then(Mutator, <<>>)
      BY DEF CheckNotStopped
    <2>3. /\ todo'[Mutator] \in {T} /\ todo' \in [Actor -> Seq(Label)]
          /\ todo'[Collector] = todo[Collector] /\ \A L : Has(todo'[Mutator], L) <=> Has(T, L)
      BY <1>1, <1>3, <2>1, <2>0, ThenNone
    <2> QED
      BY <2>3 DEF SideLabels, WaitLabels
  <1>5. todo'[Mutator] \in MutatorOut /\ ~At(Mutator, "acquireAccess")'
    BY <1>1, <1>4 DEF MutatorOut, MutatorRest, Loop, Repeated, Handling, WaitEnds, At, On, AfterStop, AfterWait, Empty
  <1>6. \A L \in SUBSET SideLabels : Has(todo'[Mutator], L) <=> Has(s, L)
    BY <1>1, <1>4 DEF SideLabels, WaitLabels
  <1>7. world' \in {world} /\ UNCHANGED <<phases, tickets, shouldStop, ticket>>
    BY DEF CheckNotStopped, locals
  <1>8. WorldFacts /\ world \subseteq Bits
    BY DEF IInv, TypeOK
  <1> QED
    BY <1>1, <1>2, <1>4, <1>5, <1>6, <1>7, <1>8, OutStep DEF WorldFacts

\* relinquishConn() gives the conn back.
LEMMA RelinquishConnOut ==
  ASSUME IInv, RelinquishConn
  PROVE  IInv'
  <1> DEFINE s == todo[Mutator]
             T == Tail(s)
  <1>1. /\ s \in MutatorOut /\ s # <<>> /\ Head(s) = "relinquishConn" /\ T \in Seq(Label) /\ T \in WaitEnds
        /\ \A L : Has(s, L) <=> "relinquishConn" \in L \/ Has(T, L)
    BY MutatorHead, OutTails DEF RelinquishConn, Enter, InLabels
  <1>2. "access" \in world /\ "stopped" \notin world /\ ~shouldStop
    BY Accessing DEF RelinquishConn, Enter
  <1>3. "finishRelinquishingConn" \in Label /\ "relinquishConn" \in Label
    BY DEF Label
  <1>4. /\ todo'[Mutator] \in {T} \cup On("finishRelinquishingConn", On("relinquishConn", {T}))
        /\ todo'[Collector] = todo[Collector] /\ todo' \in [Actor -> Seq(Label)]
        /\ \A L \in SUBSET SideLabels : Has(todo'[Mutator], L) <=> Has(T, L)
    <2>0. Mutator \in Actor /\ Collector \in Actor /\ Mutator # Collector
      BY DEF Actor, Mutator, Collector
    <2>1. CASE todo' = Then(Mutator, <<>>)
      <3>3. /\ todo'[Mutator] \in {T} /\ todo' \in [Actor -> Seq(Label)]
            /\ todo'[Collector] = todo[Collector] /\ \A L : Has(todo'[Mutator], L) <=> Has(T, L)
        BY <1>1, <1>3, <2>1, <2>0, ThenNone
      <3> QED
        BY <3>3 DEF SideLabels, WaitLabels
    <2>2. CASE todo' = Then(Mutator, <<"finishRelinquishingConn", "relinquishConn">>)
      <3>3. /\ todo'[Mutator] \in On("finishRelinquishingConn", On("relinquishConn", {T})) /\ todo' \in [Actor -> Seq(Label)]
            /\ todo'[Collector] = todo[Collector]
            /\ \A L : Has(todo'[Mutator], L) <=> "finishRelinquishingConn" \in L \/ "relinquishConn" \in L \/ Has(T, L)
        BY <1>1, <1>3, <2>2, <2>0, ThenTwo
      <3> QED
        BY <3>3 DEF SideLabels, WaitLabels
    <2> QED
      BY <2>1, <2>2 DEF RelinquishConn
  <1>5. todo'[Mutator] \in MutatorOut /\ ~At(Mutator, "acquireAccess")'
    BY <1>1, <1>4 DEF MutatorOut, MutatorRest, Loop, Repeated, Handling, WaitEnds, At, On, AfterStop, AfterWait, Empty
  <1>6. \A L \in SUBSET SideLabels : Has(todo'[Mutator], L) <=> Has(s, L)
    BY <1>1, <1>4 DEF SideLabels, WaitLabels
  <1>7. world' \in {world, world \ {"conn"}} /\ UNCHANGED <<phases, tickets, shouldStop, ticket>>
    BY DEF RelinquishConn, locals
  <1>8. WorldFacts /\ world \subseteq Bits
    BY DEF IInv, TypeOK
  <1> QED
    BY <1>1, <1>2, <1>4, <1>5, <1>6, <1>7, <1>8, OutStep DEF WorldFacts

\* notifyOne() wakes the collector thread or starts it anew, or does nothing.
LEMMA NotifyIs ==
  ASSUME IInv, NEW t \in [Actor -> Seq(Label)], t[Collector] = todo[Collector],
         todo' = NotifyOne(t) \/ todo' = t
  PROVE  /\ todo'[Mutator] = t[Mutator] /\ todo' \in [Actor -> Seq(Label)]
         /\ \/ todo'[Collector] = todo[Collector]
            \/ /\ todo[Collector] \in CollectorOut \ On("stopped", Empty)
               /\ todo'[Collector] \in On("poll", Empty)
  <1>0. Mutator \in Actor /\ Collector \in Actor /\ Mutator # Collector
    BY DEF Actor, Mutator, Collector
  <1>1. "asleep" \in Label /\ "none" \in Label /\ "poll" \in Label /\ <<>> \in Seq(Label) /\ <<>> \in Empty
    BY DEF Label, Empty
  <1>2. ASSUME NEW x \in Label PROVE <<x>> \in On(x, Empty) /\ <<x>> \in Seq(Label)
    <2>1. <<x>> = Push(x, <<>>)
      BY <1>1, OneCall
    <2>2. Push(x, <<>>) \in On(x, Empty) /\ Push(x, <<>>) \in Seq(Label)
      <3> HIDE DEF Empty
      <3> QED
        BY <1>1, PushOn, PushFacts
    <2> QED
      BY <2>1, <2>2
  <1>3. CASE todo' = t
    BY <1>3
  <1>4. CASE todo' = [t EXCEPT ![Collector] = <<"poll">>] /\ t[Collector] \in {<<"asleep">>, <<"none">>}
    <2>1. todo'[Collector] \in On("poll", Empty)
      BY <1>0, <1>1, <1>2, <1>4
    <2>2. todo[Collector] \in On("asleep", Empty) \cup On("none", Empty)
      BY <1>1, <1>2, <1>4
    <2>3. todo[Collector] \in CollectorOut \ On("stopped", Empty)
      BY <2>2 DEF CollectorOut, On
    <2> QED
      BY <1>0, <1>1, <1>2, <1>4, <2>1, <2>3
  <1> QED
    BY <1>3, <1>4 DEF NotifyOne

\* finishRelinquishingConn() tells the collector thread of it.
LEMMA FinishRelinquishingConnOut ==
  ASSUME IInv, FinishRelinquishingConn
  PROVE  IInv'
  <1> DEFINE s == todo[Mutator]
             T == Tail(s)
             t == Then(Mutator, <<>>)
  <1>0. Mutator \in Actor /\ Collector \in Actor /\ Mutator # Collector
    BY DEF Actor, Mutator, Collector
  <1>1. /\ s \in MutatorOut /\ s # <<>> /\ Head(s) = "finishRelinquishingConn"
        /\ T \in Seq(Label) /\ T \in Empty \cup On("relinquishConn", WaitEnds)
        /\ \A L : Has(s, L) <=> "finishRelinquishingConn" \in L \/ Has(T, L)
    BY MutatorHead, OutTails DEF FinishRelinquishingConn, Enter, InLabels
  <1>2. /\ T # <<>> => "access" \in world
        /\ ~shouldStop
    BY Accessing DEF FinishRelinquishingConn, Enter
  <1>3. t[Mutator] = T /\ t[Collector] = todo[Collector] /\ t \in [Actor -> Seq(Label)]
    BY <1>0, <1>1, ConcatEmptySeq DEF Then, IInv, TypeOK
  <1>4. todo' = NotifyOne(t) \/ todo' = t
    BY DEF FinishRelinquishingConn
  <1> HIDE DEF t
  <1>5. /\ todo'[Mutator] = T /\ todo' \in [Actor -> Seq(Label)]
        /\ \/ todo'[Collector] = todo[Collector]
           \/ /\ todo[Collector] \in CollectorOut
              /\ todo'[Collector] \in CollectorOut \ On("stopped", Empty)
    <2>1. On("poll", Empty) \subseteq CollectorOut \ On("stopped", Empty)
      BY DEF CollectorOut, On
    <2> QED
      BY <1>3, <1>4, <2>1, NotifyIs
  <1>6. todo'[Mutator] \in MutatorOut /\ ~At(Mutator, "acquireAccess")'
    BY <1>1, <1>5 DEF MutatorOut, MutatorRest, AfterStop, At, On, Empty
  <1>7. \A L \in SUBSET SideLabels : Has(todo'[Mutator], L) <=> Has(s, L)
    BY <1>1, <1>5 DEF SideLabels, WaitLabels
  <1>8. world' = world /\ UNCHANGED <<phases, tickets, shouldStop, ticket>>
    BY DEF FinishRelinquishingConn, locals
  <1>9. WorldFacts /\ world \subseteq Bits
    BY DEF IInv, TypeOK
  <1>10. "access" \in world' \/ todo'[Mutator] \in Empty
    BY <1>2, <1>5, <1>8 DEF Empty
  <1> QED
    BY <1>1, <1>2, <1>5, <1>6, <1>7, <1>8, <1>9, <1>10, OutStep DEF WorldFacts

\* The facts about tickets and waits after a step that changes no ticket.
LEMMA SideStep ==
  ASSUME IInv, TypeOK', UNCHANGED <<granted, served, requests, ticket>>,
         "conn" \in world' => "access" \in world',
         "stopped" \in world' => "access" \notin world',
         "waiting" \in world' => "access" \in world' /\ Has(todo'[Mutator], WaitLabels),
         Has(todo'[Mutator], {"waitDone", "clearMutatorWaiting"}) => served >= ticket,
         Has(todo'[Mutator], {"prevented", "stopThread"}) =>
           /\ Has(todo[Mutator], {"prevented", "stopThread"})
           /\ served >= ticket \/ Has(todo'[Mutator], {"waitForCollector", "waitMore", "park"})
  PROVE  WorldFacts' /\ TicketFacts'
  <1>1. \A L : (Doing(Mutator, L) <=> Has(todo[Mutator], L)) /\ (Doing(Mutator, L)' <=> Has(todo'[Mutator], L))
    BY DEF Doing, Has
  <1>2. WorldFacts'
    BY <1>1 DEF WorldFacts, WaitLabels
  <1>3. TicketFacts'
    BY <1>1 DEF TicketFacts, IInv
  <1> QED
    BY <1>2, <1>3

\* With access and before the VM ends, the facts about the client are kept.
LEMMA ClientKeeps ==
  ASSUME IInv, "access" \in world', ~shouldStop, UNCHANGED shouldStop, ~At(Mutator, "acquireAccess")',
         \/ todo'[Collector] = todo[Collector]
         \/ todo'[Collector] \in CollectorOut \ On("stopped", Empty)
  PROVE  ClientFacts'
  <1>1. ~At(Collector, "stopped")'
    <2>1. ~At(Collector, "stopped")
      BY DEF IInv, ClientFacts
    <2> QED
      BY <2>1 DEF At, CollectorOut, On, Empty
  <1> QED
    BY <1>1 DEF ClientFacts

\* The mutator starts or goes on with a collection.
LEMMA EnterKeeps ==
  ASSUME IInv, todo[Mutator] \in MutatorOut, "conn" \in world, "finalize" \notin world,
         todo'[Mutator] \in On("runCurrentPhase", MutatorRest), todo'[Collector] = todo[Collector],
         UNCHANGED <<phases, world, requests>>
  PROVE  OneDrives' /\ PhaseFacts'
  <1>1. todo[Collector] \in CollectorOut /\ NobodyIn
    BY NotBoth DEF IInv, OneDrives, CollectorIn
  <1>2. PhaseFacts'
    BY DEF IInv, PhaseFacts, phases
  <1>3. (Settled \/ Halfway)'
    BY <1>1 DEF NobodyIn, Settled, Halfway, Change, phases, Suspended, IInv, TypeOK
  <1>4. InPhase(Mutator, MutatorRest)'
    BY <1>3 DEF InPhase
  <1>5. MutatorIn'
    BY <1>4 DEF MutatorIn
  <1> QED
    BY <1>1, <1>2, <1>5 DEF OneDrives

\* Lists of calls, put together.
LEMMA FourCalls ==
  ASSUME NEW x \in Label, NEW y \in Label, NEW z \in Label, NEW u \in Label
  PROVE  /\ <<x>> \o <<y, z, u>> = <<x, y, z, u>>
         /\ <<x>> \o <<y, z>> = <<x, y, z>> /\ <<x>> \o <<y>> = <<x, y>>
  <1>1. <<y, z, u>> \in Seq(Label) /\ <<x, y, z, u>> = Push(x, <<y, z, u>>)
    BY DEF Push
  <1>2. <<y, z>> \in Seq(Label) /\ <<x, y, z>> = Push(x, <<y, z>>)
    BY DEF Push
  <1>3. <<y>> = Push(y, <<>>) /\ <<x, y>> = Push(x, Push(y, <<>>))
    <2>1. <<>> \in Seq(Label)
      OBVIOUS
    <2> QED
      BY <2>1, OneCall, TwoCalls
  <1> QED
    BY <1>1, <1>2, <1>3 DEF Push

\* Two calls and two more.
LEMMA TwoAndTwo ==
  ASSUME NEW x \in Label, NEW y \in Label, NEW z \in Label, NEW u \in Label
  PROVE  <<x, y>> \o <<z, u>> = <<x, y, z, u>>
  <1>1. <<z, u>> \in Seq(Label) /\ <<y, z, u>> = <<y>> \o <<z, u>> /\ <<x, y, z, u>> = <<x>> \o <<y, z, u>>
        /\ <<x, y>> = <<x>> \o <<y>>
    <2>1. <<z, u>> \in Seq(Label)
      OBVIOUS
    <2>2. <<x>> \o <<y, z, u>> = <<x, y, z, u>>
      <3>1. <<y, z, u>> \in Seq(Label) /\ <<x, y, z, u>> = Push(x, <<y, z, u>>)
        BY DEF Push
      <3> QED
        BY <3>1, Zenon DEF Push
    <2>4. <<x>> \o <<y>> = <<x, y>>
      <3>1. \A v \in Label : <<x>> \o <<y>> = <<x, y>>
        BY FourCalls, Zenon
      <3> QED
        BY <3>1, Zenon
    <2>3. <<y>> \o <<z, u>> = <<y, z, u>>
      BY FourCalls, Zenon
    <2> QED
      BY <2>1, <2>2, <2>3, <2>4
  <1>2. <<x>> \in Seq(Label) /\ <<y>> \in Seq(Label)
    OBVIOUS
  <1>3. (<<x>> \o <<y>>) \o <<z, u>> = <<x>> \o (<<y>> \o <<z, u>>)
    BY <1>1, <1>2, ConcatAssociative
  <1> QED
    BY <1>1, <1>3

\* stopIfNecessarySlow(): the mutator starts a collection when it has the conn.
LEMMA StopIfNecessarySlowKeeps ==
  ASSUME IInv, StopIfNecessarySlow
  PROVE  IInv'
  <1> DEFINE s == todo[Mutator]
             T == Tail(s)
             l == "stopIfNecessarySlow"
             h == "handleNeedFinalize"
             j == "handleGCDidJIT"
             r == "runCurrentPhase"
  <1>0. Mutator \in Actor /\ Collector \in Actor /\ Mutator # Collector
    BY DEF Actor, Mutator, Collector
  <1>1. /\ s \in MutatorOut /\ s # <<>> /\ Head(s) = l /\ T \in Seq(Label) /\ T \in AfterStop
        /\ \A L : Has(s, L) <=> l \in L \/ Has(T, L)
    BY MutatorHead, OutTails DEF StopIfNecessarySlow, Enter, InLabels
  <1>2. "access" \in world /\ "stopped" \notin world /\ ~shouldStop
    BY Accessing DEF StopIfNecessarySlow, Enter
  <1>3. /\ "finalize" \in Label /\ "unparkAll" \in Label /\ l \in Label
        /\ "stopped?" \in Label /\ h \in Label /\ j \in Label /\ r \in Label
    BY DEF Label
  <1>4. UNCHANGED <<phases, tickets, shouldStop, ticket>>
    BY DEF StopIfNecessarySlow, locals
  <1>5. WorldFacts /\ world \subseteq Bits
    BY DEF IInv, TypeOK
  <1>6. CASE todo' = Then(Mutator, <<"finalize", "unparkAll", l>>) /\ world' = world \ {"finalize"}
    <2>1. /\ todo'[Mutator] \in On("finalize", On("unparkAll", On(l, {T})))
          /\ todo'[Collector] = todo[Collector] /\ todo' \in [Actor -> Seq(Label)]
          /\ \A L : Has(todo'[Mutator], L) <=> "finalize" \in L \/ "unparkAll" \in L \/ l \in L \/ Has(T, L)
      BY <1>0, <1>1, <1>3, <1>6, ThenThree
    <2>2. todo'[Mutator] \in MutatorOut /\ ~At(Mutator, "acquireAccess")'
      BY <1>1, <2>1 DEF MutatorOut, Loop, At, On
    <2>3. \A L \in SUBSET SideLabels : Has(todo'[Mutator], L) <=> Has(s, L)
      BY <1>1, <2>1 DEF SideLabels, WaitLabels
    <2> QED
      BY <1>1, <1>2, <1>4, <1>5, <1>6, <2>1, <2>2, <2>3, OutStep DEF WorldFacts
  <1>7. CASE todo' = Then(Mutator, <<>> \o <<"stopped?", j, h>>) /\ UNCHANGED world
    <2>0. todo' = Then(Mutator, <<"stopped?", j, h>>)
      <3>1. <<"stopped?", j, h>> \in Seq(Label)
        BY <1>3
      <3>2. <<>> \o <<"stopped?", j, h>> = <<"stopped?", j, h>>
        BY <3>1, ConcatEmptySeq
      <3> QED
        BY <1>7, <3>2
    <2>1. /\ todo'[Mutator] \in On("stopped?", On(j, On(h, {T})))
          /\ todo'[Collector] = todo[Collector] /\ todo' \in [Actor -> Seq(Label)]
          /\ \A L : Has(todo'[Mutator], L) <=> "stopped?" \in L \/ j \in L \/ h \in L \/ Has(T, L)
      BY <1>0, <1>1, <1>3, <2>0, ThenThree
    <2>2. todo'[Mutator] \in MutatorOut /\ ~At(Mutator, "acquireAccess")'
      BY <1>1, <2>1 DEF MutatorOut, MutatorRest, Handling, At, On
    <2>3. \A L \in SUBSET SideLabels : Has(todo'[Mutator], L) <=> Has(s, L)
      BY <1>1, <2>1 DEF SideLabels, WaitLabels
    <2> QED
      BY <1>1, <1>2, <1>4, <1>5, <1>7, <2>1, <2>2, <2>3, OutStep DEF WorldFacts
  <1>8. CASE /\ "finalize" \notin world /\ "conn" \in world
             /\ todo' = Then(Mutator, <<r>> \o <<"stopped?", j, h>>) /\ UNCHANGED world
    <2>0. todo' = Then(Mutator, <<r, "stopped?", j, h>>)
      <3>1. \A x, y, z, u \in Label : <<x>> \o <<y, z, u>> = <<x, y, z, u>>
        BY FourCalls
      <3>2. <<r>> \o <<"stopped?", j, h>> = <<r, "stopped?", j, h>>
        BY <1>3, <3>1
      <3> QED
        BY <1>8, <3>2
    <2>1. /\ todo'[Mutator] \in On(r, On("stopped?", On(j, On(h, {T}))))
          /\ todo'[Collector] = todo[Collector] /\ todo' \in [Actor -> Seq(Label)]
          /\ \A L : Has(todo'[Mutator], L) <=> r \in L \/ "stopped?" \in L \/ j \in L \/ h \in L \/ Has(T, L)
      BY <1>0, <1>1, <1>3, <2>0, ThenFour
    <2>2. todo'[Mutator] \in On(r, MutatorRest) /\ ~At(Mutator, "acquireAccess")'
      BY <1>1, <2>1 DEF MutatorRest, Handling, At, On
    <2>3. \A L \in SUBSET SideLabels : Has(todo'[Mutator], L) <=> Has(s, L)
      BY <1>1, <2>1 DEF SideLabels, WaitLabels
    <2>4. OneDrives' /\ PhaseFacts'
      BY <1>1, <1>4, <1>8, <2>1, <2>2, EnterKeeps DEF tickets
    <2>5. TypeOK'
      BY <1>4, <1>8, <2>1 DEF IInv, TypeOK, phases, tickets
    <2>6. WorldFacts' /\ TicketFacts'
      BY <1>4, <1>5, <1>8, <2>3, <2>5, SideKeeps DEF IInv, TypeOK, TicketFacts, WorldFacts, tickets
    <2>7. ClientFacts'
      BY <1>2, <1>4, <1>8, <2>1, <2>2, ClientKeeps
    <2> QED
      BY <2>4, <2>5, <2>6, <2>7 DEF IInv
  <1> QED
    BY <1>6, <1>7, <1>8 DEF StopIfNecessarySlow, StopSlow

\* The mutator waits for the collector, and gets on with it.
LEMMA WaitForCollectorKeeps ==
  ASSUME IInv, WaitForCollector
  PROVE  IInv'
  <1> DEFINE s == todo[Mutator]
             T == Tail(s)
             l == "waitForCollector"
  <1>0. Mutator \in Actor /\ Collector \in Actor /\ Mutator # Collector
    BY DEF Actor, Mutator, Collector
  <1>1. /\ s \in MutatorOut /\ s # <<>> /\ Head(s) = l /\ T \in Seq(Label) /\ T \in AfterWait
        /\ \A L : Has(s, L) <=> l \in L \/ Has(T, L)
    BY MutatorHead, OutTails DEF WaitForCollector, Enter, InLabels
  <1>2. "access" \in world /\ "stopped" \notin world /\ ~shouldStop
    BY Accessing DEF WaitForCollector, Enter
  <1>3. "waitDone" \in Label /\ "waitMore" \in Label
    BY DEF Label
  <1>4. UNCHANGED <<phases, tickets, shouldStop, ticket>>
    BY DEF WaitForCollector, locals
  <1>5. WorldFacts /\ world \subseteq Bits
    BY DEF IInv, TypeOK
  <1>6. ~Has(T, {"waitDone", "clearMutatorWaiting"})
    <2>1. CASE T \in Empty
      BY <2>1, HasNone DEF Empty
    <2>2. ASSUME NEW y \in {"prevented", "stopThread"}, T \in On(y, Empty)
          PROVE ~Has(T, {"waitDone", "clearMutatorWaiting"})
      <3>0. T \in On(y, Empty)
        BY <2>2
      <3>1. /\ Tail(T) \in Empty
            /\ \A L : Has(T, L) <=> y \in L \/ Has(Tail(T), L)
        BY <3>0, OnFacts
      <3> QED
        BY <2>2, <3>1, HasNone DEF Empty
    <2> QED
      BY <1>1, <2>1, <2>2 DEF AfterWait
  <1>7. ASSUME NEW x \in {"waitDone", "waitMore"}, todo' = Then(Mutator, <<x>>),
               world' \subseteq world \cup {"waiting"}, world \subseteq world',
               x = "waitDone" => served >= ticket
        PROVE IInv'
    <2>0. x \in Label
      BY <1>3, <1>7
    <2>1. /\ todo'[Mutator] \in On(x, {T})
          /\ todo'[Collector] = todo[Collector] /\ todo' \in [Actor -> Seq(Label)]
          /\ \A L : Has(todo'[Mutator], L) <=> x \in L \/ Has(T, L)
      <3>1. todo' = Then(Mutator, <<x>>)
        BY <1>7
      <3> QED
        BY <1>0, <1>1, <2>0, <3>1, ThenOne
    <2>2. todo'[Mutator] \in MutatorOut /\ ~At(Mutator, "acquireAccess")'
      BY <1>1, <1>7, <2>1 DEF MutatorOut, At, On
    <2>3. TypeOK'
      BY <1>4, <1>5, <1>7, <2>1 DEF IInv, TypeOK, phases, tickets, Bits
    <2>4. OneDrives' /\ PhaseFacts'
      BY <1>1, <1>4, <1>7, <2>1, <2>2, OutKeeps DEF tickets
    <2>5. WorldFacts' /\ TicketFacts'
      <3>1. Has(todo'[Mutator], WaitLabels)
        BY <2>1, <1>7 DEF WaitLabels
      <3>2. Has(todo'[Mutator], {"waitDone", "clearMutatorWaiting"}) => served >= ticket
        BY <2>1, <1>6, <1>7
      <3>3. Has(todo'[Mutator], {"prevented", "stopThread"}) => Has(s, {"prevented", "stopThread"})
        BY <2>1, <1>1, <1>7
      <3>4. served >= ticket \/ Has(todo'[Mutator], {"waitForCollector", "waitMore", "park"})
        BY <2>1, <1>7
      <3>5. /\ "conn" \in world' => "access" \in world' /\ "stopped" \notin world' /\ "access" \in world'
        BY <1>2, <1>5, <1>7 DEF WorldFacts
      <3> QED
        BY <1>2, <1>4, <1>7, <2>3, <3>1, <3>2, <3>3, <3>4, <3>5, SideStep DEF tickets
    <2>6. ClientFacts'
      BY <1>2, <1>4, <1>7, <2>1, <2>2, ClientKeeps
    <2> QED
      BY <2>3, <2>4, <2>5, <2>6 DEF IInv
  <1> QED
    BY <1>7 DEF WaitForCollector

\* After a wait there is only the caller's next step to do.
LEMMA AfterWaitHas ==
  ASSUME NEW T \in AfterWait, NEW L, "prevented" \notin L, "stopThread" \notin L
  PROVE  ~Has(T, L)
  <1>1. CASE T \in Empty
    BY <1>1, HasNone DEF Empty
  <1>2. ASSUME NEW y \in {"prevented", "stopThread"}, T \in On(y, Empty)
        PROVE ~Has(T, L)
    <2>0. T \in On(y, Empty)
      BY <1>2
    <2>1. Tail(T) \in Empty /\ (Has(T, L) <=> y \in L \/ Has(Tail(T), L))
      BY <2>0, OnFacts
    <2> QED
      BY <1>2, <2>1, HasNone DEF Empty
  <1> QED
    BY <1>1, <1>2 DEF AfterWait

\* A step of waitForCollector() that changes at most the mutator's waiting bit.
LEMMA WaitStep ==
  ASSUME IInv, todo[Mutator] \in MutatorOut,
         \/ todo'[Mutator] \in MutatorOut
         \/ todo'[Mutator] \in On("runCurrentPhase", MutatorRest) /\ "conn" \in world
              /\ "finalize" \notin world /\ UNCHANGED world,
         ~At(Mutator, "acquireAccess")',
         todo' \in [Actor -> Seq(Label)], todo'[Collector] = todo[Collector],
         UNCHANGED <<phases, tickets, shouldStop, ticket>>,
         "access" \in world, ~shouldStop, world' \subseteq world, "access" \in world',
         "waiting" \in world' => Has(todo'[Mutator], WaitLabels),
         Has(todo'[Mutator], {"waitDone", "clearMutatorWaiting"}) => served >= ticket,
         Has(todo'[Mutator], {"prevented", "stopThread"}) =>
           /\ Has(todo[Mutator], {"prevented", "stopThread"})
           /\ served >= ticket \/ Has(todo'[Mutator], {"waitForCollector", "waitMore", "park"})
  PROVE  IInv'
  <1>1. TypeOK'
    BY DEF IInv, TypeOK, phases, tickets
  <1>2. "stopped" \notin world
    BY DEF IInv, WorldFacts
  <1>3. OneDrives' /\ PhaseFacts'
    <2>1. CASE todo'[Mutator] \in MutatorOut
      BY <1>2, <2>1, OutKeeps DEF tickets
    <2>2. CASE todo'[Mutator] \in On("runCurrentPhase", MutatorRest) /\ "conn" \in world
                 /\ "finalize" \notin world /\ UNCHANGED world
      BY <2>2, EnterKeeps DEF tickets
    <2> QED
      BY <2>1, <2>2
  <1>4. WorldFacts' /\ TicketFacts'
    <2>1. /\ "conn" \in world' => "access" \in world'
          /\ "stopped" \in world' => "access" \notin world'
          /\ UNCHANGED <<granted, served, requests, ticket>>
      BY <1>2 DEF tickets
    <2> QED
      BY <1>1, <2>1, SideStep
  <1>5. ClientFacts'
    BY ClientKeeps
  <1> QED
    BY <1>1, <1>3, <1>4, <1>5 DEF IInv

\* One look of waitForCollector() at m_worldState.
LEMMA WaitLoadKeeps ==
  ASSUME IInv, NEW l \in {"waitMore", "waitDone"}, NEW e \in {"park", "clearMutatorWaiting"},
         Enter(Mutator, l), l = "waitDone" <=> e = "clearMutatorWaiting",
         StopSlow("waitForCollector", <<"relinquishConn", e>>),
         UNCHANGED <<phases, tickets, shouldStop, parked, ticket>>
  PROVE  IInv'
  <1> DEFINE s == todo[Mutator]
             T == Tail(s)
             w == "waitForCollector"
             q == "relinquishConn"
             r == "runCurrentPhase"
             P == {"prevented", "stopThread"}
             D == {"waitDone", "clearMutatorWaiting"}
             M == {"waitForCollector", "waitMore", "park"}
  <1>0. Mutator \in Actor /\ Collector \in Actor /\ Mutator # Collector
    BY DEF Actor, Mutator, Collector
  <1>1. /\ s \in MutatorOut /\ s # <<>> /\ Head(s) = l /\ T \in Seq(Label) /\ T \in AfterWait
        /\ \A L : Has(s, L) <=> l \in L \/ Has(T, L)
    BY MutatorHead, OutTails DEF Enter, InLabels
  <1>2. "access" \in world /\ "stopped" \notin world /\ ~shouldStop
    BY Accessing DEF Enter
  <1>3. /\ "finalize" \in Label /\ "unparkAll" \in Label /\ w \in Label
        /\ q \in Label /\ e \in Label /\ r \in Label
    BY DEF Label
  <1>5. WorldFacts /\ world \subseteq Bits
    BY DEF IInv, TypeOK
  <1>d. l = "waitDone" => served >= ticket
    <2>1. l = "waitDone" => Doing(Mutator, D)
      BY <1>1 DEF Doing, Has
    <2> QED
      BY <2>1 DEF IInv, TicketFacts
  <1>6. CASE todo' = Then(Mutator, <<"finalize", "unparkAll", w>>) /\ world' = world \ {"finalize"}
    <2>1. /\ todo'[Mutator] \in On("finalize", On("unparkAll", On(w, {T})))
          /\ todo'[Collector] = todo[Collector] /\ todo' \in [Actor -> Seq(Label)]
          /\ \A L : Has(todo'[Mutator], L) <=> "finalize" \in L \/ "unparkAll" \in L \/ w \in L \/ Has(T, L)
      BY <1>0, <1>1, <1>3, <1>6, ThenThree
    <2>2. todo'[Mutator] \in MutatorOut /\ ~At(Mutator, "acquireAccess")'
      BY <1>1, <2>1 DEF MutatorOut, Loop, At, On
    <2>3. Has(todo'[Mutator], WaitLabels) /\ Has(todo'[Mutator], M) /\ ~Has(todo'[Mutator], D)
          /\ (Has(todo'[Mutator], P) => Has(s, P))
      BY <1>1, <2>1, AfterWaitHas DEF WaitLabels
    <2> QED
      BY <1>1, <1>2, <1>6, <2>1, <2>2, <2>3, WaitStep
  <1>a. ASSUME \A L : Has(todo'[Mutator], L) => q \in L \/ e \in L \/ r \in L \/ Has(T, L),
               \A L : e \in L => Has(todo'[Mutator], L)
        PROVE  /\ Has(todo'[Mutator], WaitLabels) /\ (Has(todo'[Mutator], D) => served >= ticket)
               /\ Has(todo'[Mutator], P) => Has(s, P) /\ (served >= ticket \/ Has(todo'[Mutator], M))
    BY <1>1, <1>a, <1>d, AfterWaitHas DEF WaitLabels
  <1>7. CASE todo' = Then(Mutator, <<>> \o <<q, e>>) /\ UNCHANGED world
    <2>0. todo' = Then(Mutator, <<q, e>>)
      <3>1. <<q, e>> \in Seq(Label)
        BY <1>3
      <3>2. <<>> \o <<q, e>> = <<q, e>>
        BY <3>1, ConcatEmptySeq
      <3> QED
        BY <1>7, <3>2
    <2>1. /\ todo'[Mutator] \in On(q, On(e, {T}))
          /\ todo'[Collector] = todo[Collector] /\ todo' \in [Actor -> Seq(Label)]
          /\ \A L : Has(todo'[Mutator], L) <=> q \in L \/ e \in L \/ Has(T, L)
      BY <1>0, <1>1, <1>3, <2>0, ThenTwo
    <2>2. todo'[Mutator] \in MutatorOut /\ ~At(Mutator, "acquireAccess")'
      BY <1>1, <2>1 DEF MutatorOut, MutatorRest, WaitEnds, At, On
    <2>3. /\ Has(todo'[Mutator], WaitLabels) /\ (Has(todo'[Mutator], D) => served >= ticket)
          /\ Has(todo'[Mutator], P) => Has(s, P) /\ (served >= ticket \/ Has(todo'[Mutator], M))
      BY <2>1, <1>a
    <2> QED
      BY <1>1, <1>2, <1>7, <2>1, <2>2, <2>3, WaitStep
  <1>8. CASE /\ "finalize" \notin world /\ "conn" \in world
             /\ todo' = Then(Mutator, <<r>> \o <<q, e>>) /\ UNCHANGED world
    <2>0. todo' = Then(Mutator, <<r, q, e>>)
      <3>1. \A x, y, z \in Label : <<x>> \o <<y, z>> = <<x, y, z>>
        BY FourCalls
      <3>2. <<r>> \o <<q, e>> = <<r, q, e>>
        BY <1>3, <3>1
      <3> QED
        BY <1>8, <3>2
    <2>1. /\ todo'[Mutator] \in On(r, On(q, On(e, {T})))
          /\ todo'[Collector] = todo[Collector] /\ todo' \in [Actor -> Seq(Label)]
          /\ \A L : Has(todo'[Mutator], L) <=> r \in L \/ q \in L \/ e \in L \/ Has(T, L)
      BY <1>0, <1>1, <1>3, <2>0, ThenThree
    <2>2. todo'[Mutator] \in On(r, MutatorRest) /\ ~At(Mutator, "acquireAccess")'
      BY <1>1, <2>1 DEF MutatorRest, WaitEnds, At, On
    <2>3. /\ Has(todo'[Mutator], WaitLabels) /\ (Has(todo'[Mutator], D) => served >= ticket)
          /\ Has(todo'[Mutator], P) => Has(s, P) /\ (served >= ticket \/ Has(todo'[Mutator], M))
      BY <2>1, <1>a
    <2> QED
      BY <1>1, <1>2, <1>8, <2>1, <2>2, <2>3, WaitStep
  <1> QED
    BY <1>6, <1>7, <1>8 DEF StopSlow

\* The mutator parks on m_worldState, or sees that it has changed.
LEMMA CompareAndParkKeeps ==
  ASSUME IInv, CompareAndPark
  PROVE  IInv'
  <1> DEFINE s == todo[Mutator]
             T == Tail(s)
             w == "waitForCollector"
             P == {"prevented", "stopThread"}
             D == {"waitDone", "clearMutatorWaiting"}
             M == {"waitForCollector", "waitMore", "park"}
  <1>0. Mutator \in Actor /\ Collector \in Actor /\ Mutator # Collector
    BY DEF Actor, Mutator, Collector
  <1>1. /\ s \in MutatorOut /\ s # <<>> /\ T \in Seq(Label) /\ T \in AfterWait
        /\ \A L : Has(s, L) <=> "park" \in L \/ Has(T, L)
    BY MutatorHead, OutTails DEF CompareAndPark, Enter, InLabels
  <1>2. "access" \in world /\ ~shouldStop
    BY Accessing DEF CompareAndPark, Enter
  <1>3. w \in Label /\ UNCHANGED <<world, phases, tickets, shouldStop, ticket>> /\ todo' = Then(Mutator, <<w>>)
    BY DEF Label, CompareAndPark, locals
  <1>4. /\ todo'[Mutator] \in On(w, {T})
        /\ todo'[Collector] = todo[Collector] /\ todo' \in [Actor -> Seq(Label)]
        /\ \A L : Has(todo'[Mutator], L) <=> w \in L \/ Has(T, L)
    BY <1>0, <1>1, <1>3, ThenOne
  <1>5. todo'[Mutator] \in MutatorOut /\ ~At(Mutator, "acquireAccess")'
    BY <1>1, <1>4 DEF MutatorOut, Loop, At, On
  <1>6. Has(todo'[Mutator], WaitLabels) /\ Has(todo'[Mutator], M) /\ ~Has(todo'[Mutator], D)
        /\ (Has(todo'[Mutator], P) => Has(s, P))
    BY <1>1, <1>4, AfterWaitHas DEF WaitLabels
  <1> QED
    BY <1>1, <1>2, <1>3, <1>4, <1>5, <1>6, WaitStep

\* waitForCollector() ends: its ticket is served.
LEMMA ClearMutatorWaitingKeeps ==
  ASSUME IInv, ClearMutatorWaiting
  PROVE  IInv'
  <1> DEFINE s == todo[Mutator]
             T == Tail(s)
             P == {"prevented", "stopThread"}
             D == {"waitDone", "clearMutatorWaiting"}
  <1>0. Mutator \in Actor /\ Collector \in Actor /\ Mutator # Collector
    BY DEF Actor, Mutator, Collector
  <1>1. /\ s \in MutatorOut /\ s # <<>> /\ T \in Seq(Label) /\ T \in AfterWait
        /\ \A L : Has(s, L) <=> "clearMutatorWaiting" \in L \/ Has(T, L)
    BY MutatorHead, OutTails DEF ClearMutatorWaiting, Enter, InLabels
  <1>2. "access" \in world /\ ~shouldStop
    BY Accessing DEF ClearMutatorWaiting, Enter
  <1>3. /\ UNCHANGED <<phases, tickets, shouldStop, ticket>> /\ todo' = Then(Mutator, <<>>)
        /\ world' = world \ {"waiting"}
    BY DEF ClearMutatorWaiting, locals
  <1>4. /\ todo'[Mutator] = T
        /\ todo'[Collector] = todo[Collector] /\ todo' \in [Actor -> Seq(Label)]
    BY <1>0, <1>1, <1>3, ThenNone
  <1>5. todo'[Mutator] \in MutatorOut /\ ~At(Mutator, "acquireAccess")'
    BY <1>1, <1>4 DEF MutatorOut, AfterWait, At, On, Empty
  <1>6. served >= ticket
    <2>1. Doing(Mutator, D)
      BY <1>1 DEF Doing, Has
    <2> QED
      BY <2>1 DEF IInv, TicketFacts
  <1>7. Has(todo'[Mutator], P) => Has(s, P)
    BY <1>1, <1>4
  <1> QED
    BY <1>1, <1>2, <1>3, <1>4, <1>5, <1>6, <1>7, WaitStep

\* The same for the load as an action.
LEMMA WaitLoadStep ==
  ASSUME IInv, WaitLoad
  PROVE  IInv'
  BY WaitLoadKeeps DEF WaitLoad

\* Which threads are parked, and what waitForCollector() has loaded, is free.
LEMMA ParkedKeeps ==
  ASSUME IInv, UNCHANGED <<world, phases, tickets, shouldStop, todo, ticket>>
  PROVE  IInv'
  <1>1. TypeOK' /\ PhaseFacts' /\ WorldFacts' /\ TicketFacts' /\ ClientFacts'
    BY DEF IInv, TypeOK, PhaseFacts, WorldFacts, TicketFacts, ClientFacts, Doing, At, phases, tickets
  <1>2. OneDrives'
    BY DEF IInv, OneDrives, NobodyIn, MutatorIn, CollectorIn, InPhase, Settled, Halfway, Resumes,
           Change, Suspended, phases
  <1> QED
    BY <1>1, <1>2 DEF IInv

\* acquireAccess() takes access when the world is not stopped.
LEMMA AcquireAccessKeeps ==
  ASSUME IInv, AcquireAccess
  PROVE  IInv'
  <1> DEFINE s == todo[Mutator]
             T == Tail(s)
  <1>0. Mutator \in Actor /\ Collector \in Actor /\ Mutator # Collector
    BY DEF Actor, Mutator, Collector
  <1>1. /\ s \in MutatorOut /\ s # <<>> /\ Head(s) = "acquireAccess" /\ T \in Seq(Label) /\ T = <<>>
        /\ \A L : Has(s, L) <=> "acquireAccess" \in L \/ Has(T, L)
    BY MutatorHead, OutTails DEF AcquireAccess, Enter, InLabels
  <1>2. ~shouldStop /\ "access" \notin world
    BY Accessing DEF AcquireAccess, Enter, IInv, ClientFacts
  <1>3. "handleGCDidJIT" \in Label /\ "handleNeedFinalize" \in Label /\ "stopIfNecessary" \in Label
    BY DEF Label
  <1>4. UNCHANGED <<phases, tickets, shouldStop, ticket>>
    BY DEF AcquireAccess, locals
  <1>5. WorldFacts /\ world \subseteq Bits
    BY DEF IInv, TypeOK
  <1>6. CASE UNCHANGED <<world, todo>>
    BY <1>4, <1>6, ParkedKeeps
  <1>7. ASSUME "stopped" \notin world, world' = world \cup {"access"},
               todo' = Then(Mutator, <<>>) \/
               todo' = Then(Mutator, <<"handleGCDidJIT", "handleNeedFinalize", "stopIfNecessary">>)
        PROVE IInv'
    <2>1. /\ todo'[Mutator] \in {T} \cup On("handleGCDidJIT", On("handleNeedFinalize", On("stopIfNecessary", {T})))
          /\ todo'[Collector] = todo[Collector] /\ todo' \in [Actor -> Seq(Label)]
          /\ \A L \in SUBSET SideLabels : Has(todo'[Mutator], L) <=> Has(T, L)
      <3>1. CASE todo' = Then(Mutator, <<>>)
        BY <1>0, <1>1, <3>1, ThenNone
      <3>2. CASE todo' = Then(Mutator, <<"handleGCDidJIT", "handleNeedFinalize", "stopIfNecessary">>)
        <4>1. /\ todo'[Mutator] \in On("handleGCDidJIT", On("handleNeedFinalize", On("stopIfNecessary", {T})))
              /\ todo'[Collector] = todo[Collector] /\ todo' \in [Actor -> Seq(Label)]
              /\ \A L : Has(todo'[Mutator], L) <=> "handleGCDidJIT" \in L \/ "handleNeedFinalize" \in L
                                                     \/ "stopIfNecessary" \in L \/ Has(T, L)
          BY <1>0, <1>1, <1>3, <3>2, ThenThree
        <4> QED
          BY <4>1 DEF SideLabels, WaitLabels
      <3> QED
        BY <1>7, <3>1, <3>2
    <2>2. todo'[Mutator] \in MutatorOut /\ ~At(Mutator, "acquireAccess")'
      BY <1>1, <2>1 DEF MutatorOut, Handling, AfterStop, Empty, At, On
    <2>3. \A L \in SUBSET SideLabels : Has(todo'[Mutator], L) <=> Has(s, L)
      BY <1>1, <2>1 DEF SideLabels, WaitLabels
    <2>4. world' \subseteq Bits
      BY <1>5, <1>7 DEF Bits
    <2> QED
      BY <1>1, <1>2, <1>4, <1>5, <1>7, <2>1, <2>2, <2>3, <2>4, OutStep DEF WorldFacts
  <1> QED
    BY <1>6, <1>7 DEF AcquireAccess

\* releaseAccess() gives access, and the conn if it has it, back.
LEMMA ReleaseAccessKeeps ==
  ASSUME IInv, ReleaseAccess
  PROVE  IInv'
  <1> DEFINE s == todo[Mutator]
             T == Tail(s)
  <1>0. Mutator \in Actor /\ Collector \in Actor /\ Mutator # Collector
    BY DEF Actor, Mutator, Collector
  <1>1. /\ s \in MutatorOut /\ s # <<>> /\ Head(s) = "releaseAccess" /\ T \in Seq(Label) /\ T = <<>>
        /\ \A L : Has(s, L) <=> "releaseAccess" \in L \/ Has(T, L)
    BY MutatorHead, OutTails DEF ReleaseAccess, Enter, InLabels
  <1>2. ~shouldStop /\ "access" \in world /\ "stopped" \notin world
    BY Accessing DEF ReleaseAccess, Enter
  <1>3. "finalize" \in Label /\ "unparkAll" \in Label /\ "releaseAccess" \in Label
        /\ "finishRelinquishingConn" \in Label
    BY DEF Label
  <1>4. UNCHANGED <<phases, tickets, shouldStop, ticket>>
    BY DEF ReleaseAccess, locals
  <1>5. WorldFacts /\ world \subseteq Bits
    BY DEF IInv, TypeOK
  <1>6. "waiting" \notin world
    <2>1. ~Has(s, WaitLabels)
      BY <1>1, HasNone DEF WaitLabels
    <2> QED
      BY <1>5, <2>1 DEF WorldFacts, WaitLabels, Doing, Has
  <1>7. CASE todo' = Then(Mutator, <<"finalize", "unparkAll", "releaseAccess">>) /\ world' = world \ {"finalize"}
    <2>1. /\ todo'[Mutator] \in On("finalize", On("unparkAll", On("releaseAccess", {T})))
          /\ todo'[Collector] = todo[Collector] /\ todo' \in [Actor -> Seq(Label)]
          /\ \A L : Has(todo'[Mutator], L) <=> "finalize" \in L \/ "unparkAll" \in L \/ "releaseAccess" \in L \/ Has(T, L)
      BY <1>0, <1>1, <1>3, <1>7, ThenThree
    <2>2. todo'[Mutator] \in MutatorOut /\ ~At(Mutator, "acquireAccess")'
      BY <1>1, <2>1 DEF MutatorOut, Loop, Empty, At, On
    <2>3. \A L \in SUBSET SideLabels : Has(todo'[Mutator], L) <=> Has(s, L)
      BY <1>1, <2>1 DEF SideLabels, WaitLabels
    <2> QED
      BY <1>1, <1>2, <1>4, <1>5, <1>7, <2>1, <2>2, <2>3, OutStep DEF WorldFacts
  <1>8. ASSUME world' \in {world \ {"access", "conn"}, (world \ {"access", "conn"}) \cup {"stopped"}},
               todo' = Then(Mutator, <<>>) \/ todo' = Then(Mutator, <<"finishRelinquishingConn">>)
        PROVE IInv'
    <2>1. /\ todo'[Mutator] \in {T} \cup On("finishRelinquishingConn", {T})
          /\ todo'[Collector] = todo[Collector] /\ todo' \in [Actor -> Seq(Label)]
          /\ \A L \in SUBSET SideLabels : Has(todo'[Mutator], L) <=> Has(T, L)
      <3>1. CASE todo' = Then(Mutator, <<>>)
        BY <1>0, <1>1, <3>1, ThenNone
      <3>2. CASE todo' = Then(Mutator, <<"finishRelinquishingConn">>)
        <4>1. /\ todo'[Mutator] \in On("finishRelinquishingConn", {T})
              /\ todo'[Collector] = todo[Collector] /\ todo' \in [Actor -> Seq(Label)]
              /\ \A L : Has(todo'[Mutator], L) <=> "finishRelinquishingConn" \in L \/ Has(T, L)
          BY <1>0, <1>1, <1>3, <3>2, ThenOne
        <4> QED
          BY <4>1 DEF SideLabels, WaitLabels
      <3> QED
        BY <1>8, <3>1, <3>2
    <2>2. /\ todo'[Mutator] \in MutatorOut /\ ~At(Mutator, "acquireAccess")'
          /\ todo'[Mutator] \in Empty \cup On("finishRelinquishingConn", Empty)
      BY <1>1, <2>1 DEF MutatorOut, AfterStop, Empty, At, On
    <2>3. \A L \in SUBSET SideLabels : Has(todo'[Mutator], L) <=> Has(s, L)
      BY <1>1, <2>1 DEF SideLabels, WaitLabels
    <2>4. world' \subseteq Bits /\ "access" \notin world' /\ "conn" \notin world' /\ "waiting" \notin world'
          /\ ("finalize" \in world' => "finalize" \in world)
      BY <1>5, <1>6, <1>8 DEF Bits
    <2> QED
      BY <1>1, <1>2, <1>4, <2>1, <2>2, <2>3, <2>4, OutStep
  <1> QED
    BY <1>7, <1>8 DEF ReleaseAccess

\* A request may give the mutator the conn, when the collector thread is not in
\* a collection: this is where the theorems need that no request falls into the
\* window before the collector thread's next poll.
LEMMA RequestCollectionKeeps ==
  ASSUME IInv, RequestCollection, ~WindowRequests
  PROVE  IInv'
  <1> DEFINE s == todo[Mutator]
             T == Tail(s)
  <1>0. Mutator \in Actor /\ Collector \in Actor /\ Mutator # Collector
    BY DEF Actor, Mutator, Collector
  <1>1. /\ s \in MutatorOut /\ s # <<>> /\ Head(s) = "requestCollection"
        /\ T \in Seq(Label) /\ T \in Empty \cup On("stopIfNecessary", Empty) \cup On("waitForCollector", Empty)
        /\ \A L : Has(s, L) <=> "requestCollection" \in L \/ Has(T, L)
    BY MutatorHead, OutTails DEF RequestCollection, Enter, InLabels
  <1> DEFINE t == Then(Mutator, <<>>)
  <1>2. ~shouldStop /\ "access" \in world /\ "stopped" \notin world
    BY Accessing DEF RequestCollection, Enter
  <1>3. t[Mutator] = T /\ t[Collector] = todo[Collector] /\ t \in [Actor -> Seq(Label)]
    BY <1>0, <1>1, ConcatEmptySeq DEF Then, IInv, TypeOK
  <1>4. todo' = NotifyOne(t) \/ todo' = t
    BY DEF RequestCollection
  <1> HIDE DEF t
  <1>5. /\ todo'[Mutator] = T /\ todo' \in [Actor -> Seq(Label)]
        /\ \/ todo'[Collector] = todo[Collector]
           \/ /\ todo[Collector] \in CollectorOut
              /\ todo'[Collector] \in CollectorOut \ On("stopped", Empty)
    <2>1. On("poll", Empty) \subseteq CollectorOut \ On("stopped", Empty)
      BY DEF CollectorOut, On
    <2> QED
      BY <1>3, <1>4, <2>1, NotifyIs
  <1>6. todo'[Mutator] \in MutatorOut /\ ~At(Mutator, "acquireAccess")'
    BY <1>1, <1>5 DEF MutatorOut, AfterStop, AfterWait, Loop, At, On, Empty
  <1>7. /\ world' \in {world, world \cup {"conn"}} /\ UNCHANGED <<phases, shouldStop, served>>
        /\ requests' = requests + 1 /\ granted' = granted + 1 /\ ticket' = granted + 1
        /\ world' # world => ~InWork /\ cur = "NotRunning"
    BY DEF RequestCollection, Steal
  <1>8. WorldFacts /\ TicketFacts /\ world \subseteq Bits /\ requests \in Nat /\ granted \in Nat /\ served \in Nat
    BY DEF IInv, TypeOK
  <1>9. world' # world => todo[Collector] \in CollectorOut
    <2>1. ASSUME world' # world, CollectorIn PROVE FALSE
      <3>1. ~Has(todo[Collector], {"runCurrentPhase", "runPhase", "changePhase"})
        BY <1>7, <2>1 DEF InWork, Doing, Has
      <3> QED
        BY <1>7, <2>1, <3>1, CollectorInHas
    <2> QED
      BY <2>1 DEF IInv, OneDrives
  <1>10. OneDrives' /\ PhaseFacts'
    BY <1>1, <1>5, <1>6, <1>7, <1>8, <1>9, OutKeeps
  <1>11. TypeOK'
    BY <1>5, <1>7, <1>8 DEF IInv, TypeOK, phases, Bits
  <1>12. /\ \A L : (Doing(Mutator, L) <=> Has(s, L)) /\ (Doing(Mutator, L)' <=> Has(T, L))
    BY <1>5 DEF Doing, Has
  <1>13. /\ Has(s, WaitLabels) => Has(T, WaitLabels)
         /\ ~Has(T, {"waitDone", "clearMutatorWaiting"}) /\ ~Has(T, {"prevented", "stopThread"})
    <2>1. Has(s, WaitLabels) => Has(T, WaitLabels)
      BY <1>1 DEF WaitLabels
    <2>2. ASSUME NEW y \in {"stopIfNecessary", "waitForCollector"}, T \in On(y, Empty)
          PROVE ~Has(T, {"waitDone", "clearMutatorWaiting"}) /\ ~Has(T, {"prevented", "stopThread"})
      <3>1. T \in On(y, Empty)
        BY <2>2
      <3>2. Tail(T) \in Empty /\ \A L : Has(T, L) <=> y \in L \/ Has(Tail(T), L)
        BY <3>1, OnFacts
      <3> QED
        BY <2>2, <3>2, HasNone DEF Empty
    <2>3. ASSUME T \in Empty
          PROVE ~Has(T, {"waitDone", "clearMutatorWaiting"}) /\ ~Has(T, {"prevented", "stopThread"})
      BY <2>3, HasNone DEF Empty
    <2> QED
      BY <1>1, <2>1, <2>2, <2>3
  <1>14. WorldFacts'
    BY <1>2, <1>7, <1>8, <1>12, <1>13 DEF WorldFacts, WaitLabels
  <1>15. TicketFacts'
    BY <1>7, <1>8, <1>12, <1>13 DEF TicketFacts
  <1>16. ClientFacts'
    BY <1>2, <1>5, <1>6, <1>7, ClientKeeps
  <1> QED
    BY <1>10, <1>11, <1>14, <1>15, <1>16 DEF IInv

\* A list of calls, and what is to be done in it.
LEMMA CallIs ==
  ASSUME NEW x \in Label, NEW y \in Label, NEW z \in Label
  PROVE  /\ <<x>> \in On(x, Empty) /\ <<x>> \in Seq(Label) /\ \A L : Has(<<x>>, L) <=> x \in L
         /\ <<x, y>> \in On(x, On(y, Empty)) /\ <<x, y>> \in Seq(Label)
         /\ \A L : Has(<<x, y>>, L) <=> x \in L \/ y \in L
         /\ <<x, y, z>> \in On(x, On(y, On(z, Empty))) /\ <<x, y, z>> \in Seq(Label)
         /\ \A L : Has(<<x, y, z>>, L) <=> x \in L \/ y \in L \/ z \in L
  <1> DEFINE e == <<>>
             E == Empty
  <1>0. e \in Seq(Label) /\ e \in E /\ \A L : ~Has(e, L)
    BY HasNone DEF Empty
  <1>1. <<x>> = Push(x, e) /\ <<x, y>> = Push(x, Push(y, e)) /\ <<x, y, z>> = Push(x, Push(y, Push(z, e)))
    <2>0. <<>> \in Seq(Label)
      OBVIOUS
    <2>1. <<x>> = Push(x, <<>>)
      BY <2>0, OneCall
    <2>2. <<x, y>> = Push(x, Push(y, <<>>))
      BY <2>0, TwoCalls
    <2>3. <<x, y, z>> = Push(x, Push(y, Push(z, <<>>)))
      BY <2>0, ThreeCalls
    <2> QED
      BY <2>1, <2>2, <2>3
  <1> HIDE DEF e, E
  <1>2. ASSUME NEW S, NEW t \in Seq(Label), t \in S, NEW v \in Label
        PROVE  Push(v, t) \in Seq(Label) /\ Push(v, t) \in On(v, S)
               /\ \A L : Has(Push(v, t), L) <=> v \in L \/ Has(t, L)
    BY <1>2, PushFacts, PushOn, HasPush
  <1>3. ASSUME NEW v \in Label
        PROVE  Push(v, e) \in Seq(Label) /\ Push(v, e) \in On(v, E) /\ \A L : Has(Push(v, e), L) <=> v \in L
    BY <1>0, <1>2
  <1>4. ASSUME NEW v \in Label, NEW w \in Label
        PROVE  Push(w, Push(v, e)) \in Seq(Label) /\ Push(w, Push(v, e)) \in On(w, On(v, E))
               /\ \A L : Has(Push(w, Push(v, e)), L) <=> w \in L \/ v \in L
    BY <1>2, <1>3
  <1>5. /\ Push(x, Push(y, Push(z, e))) \in Seq(Label)
        /\ Push(x, Push(y, Push(z, e))) \in On(x, On(y, On(z, E)))
        /\ \A L : Has(Push(x, Push(y, Push(z, e))), L) <=> x \in L \/ y \in L \/ z \in L
    <2> DEFINE t == Push(y, Push(z, e))
    <2>1. t \in Seq(Label) /\ t \in On(y, On(z, E)) /\ \A L : Has(t, L) <=> y \in L \/ z \in L
      BY <1>4
    <2> HIDE DEF t
    <2>2. Push(x, t) \in Seq(Label) /\ Push(x, t) \in On(x, On(y, On(z, E)))
          /\ \A L : Has(Push(x, t), L) <=> x \in L \/ Has(t, L)
      BY <1>2, <2>1
    <2>3. \A L : Has(Push(x, t), L) <=> x \in L \/ y \in L \/ z \in L
      BY <2>1, <2>2
    <2> QED
      BY <2>2, <2>3 DEF t
  <1>6. /\ <<x>> \in On(x, E) /\ <<x>> \in Seq(Label) /\ \A L : Has(<<x>>, L) <=> x \in L
    BY <1>1, <1>3
  <1>7. /\ <<x, y>> \in On(x, On(y, E)) /\ <<x, y>> \in Seq(Label)
        /\ \A L : Has(<<x, y>>, L) <=> x \in L \/ y \in L
    <2> DEFINE p == Push(x, Push(y, e))
    <2>1. p \in Seq(Label) /\ p \in On(x, On(y, E)) /\ \A L : Has(p, L) <=> x \in L \/ y \in L
      BY <1>4
    <2>2. <<x, y>> = p
      BY <1>1
    <2> HIDE DEF p
    <2> QED
      BY <2>1, <2>2
  <1>8. /\ <<x, y, z>> \in On(x, On(y, On(z, E))) /\ <<x, y, z>> \in Seq(Label)
        /\ \A L : Has(<<x, y, z>>, L) <=> x \in L \/ y \in L \/ z \in L
    BY <1>1, <1>5
  <1> QED
    BY <1>6, <1>7, <1>8 DEF E

\* lastChanceToFinalize() tells the collector thread to stop.
LEMMA StopThreadKeeps ==
  ASSUME IInv, StopThread
  PROVE  IInv'
  <1> DEFINE s == todo[Mutator]
             T == Tail(s)
  <1>0. Mutator \in Actor /\ Collector \in Actor /\ Mutator # Collector
    BY DEF Actor, Mutator, Collector
  <1>1. /\ s \in MutatorOut /\ s # <<>> /\ Head(s) = "stopThread" /\ T \in Seq(Label) /\ T = <<>>
        /\ \A L : Has(s, L) <=> "stopThread" \in L \/ Has(T, L)
    BY MutatorHead, OutTails DEF StopThread, Enter, InLabels
  <1>2. "access" \in world /\ "stopped" \notin world
    BY Accessing DEF StopThread, Enter
  <1>3. "dead" \in Label /\ "stopped" \in Label /\ "join" \in Label /\ "none" \in Label
    BY DEF Label
  <1>4. UNCHANGED <<world, phases, tickets, ticket>> /\ shouldStop'
    BY DEF StopThread, locals
  <1>5. \A x \in Label : <<x>> \in On(x, Empty) /\ <<x>> \in Seq(Label) /\ \A L : Has(<<x>>, L) <=> x \in L
    BY CallIs
  <1>6. /\ todo' \in [Actor -> Seq(Label)] /\ todo'[Mutator] \in On("join", Empty) \cup On("dead", Empty)
        /\ \A L : Has(todo'[Mutator], L) => "join" \in L \/ "dead" \in L
        /\ \/ todo'[Collector] = todo[Collector]
           \/ todo[Collector] \in CollectorOut /\ todo'[Collector] \in CollectorOut
    <2>1. CASE todo[Collector] = <<"none">>
               /\ todo' = [todo EXCEPT ![Mutator] = <<"dead">>, ![Collector] = <<"stopped">>]
      <3>1. todo'[Mutator] = <<"dead">> /\ todo'[Collector] = <<"stopped">> /\ todo' \in [Actor -> Seq(Label)]
        BY <1>0, <1>3, <1>5, <2>1 DEF IInv, TypeOK
      <3>2. /\ todo'[Mutator] \in On("dead", Empty) /\ \A L : Has(todo'[Mutator], L) <=> "dead" \in L
        BY <1>3, <1>5, <3>1
      <3>3. todo[Collector] \in On("none", Empty) /\ todo'[Collector] \in On("stopped", Empty)
        BY <1>3, <1>5, <2>1, <3>1
      <3> QED
        BY <3>1, <3>2, <3>3 DEF CollectorOut
    <2>2. CASE todo' = NotifyOne(Then(Mutator, <<"join">>))
      <3> DEFINE t == Then(Mutator, <<"join">>)
      <3>1. t[Mutator] = <<"join">> /\ t[Collector] = todo[Collector] /\ t \in [Actor -> Seq(Label)]
        <4>1. <<"join">> \in Seq(Label)
          BY <1>3, <1>5
        <4>2. <<"join">> \o <<>> = <<"join">>
          BY <4>1, ConcatEmptySeq
        <4> QED
          BY <1>0, <1>1, <4>1, <4>2 DEF Then, IInv, TypeOK
      <3> HIDE DEF t
      <3>2. todo'[Mutator] = <<"join">> /\ todo' \in [Actor -> Seq(Label)]
            /\ \/ todo'[Collector] = todo[Collector]
               \/ todo[Collector] \in CollectorOut /\ todo'[Collector] \in CollectorOut
        BY <2>2, <3>1, NotifyIs DEF CollectorOut, t
      <3>3. todo'[Mutator] \in On("join", Empty) /\ \A L : Has(todo'[Mutator], L) <=> "join" \in L
        BY <1>3, <1>5, <3>2
      <3> QED
        BY <3>2, <3>3
    <2> QED
      BY <2>1, <2>2 DEF StopThread
  <1>7. todo'[Mutator] \in MutatorOut
    BY <1>6 DEF MutatorOut
  <1>8. ~Has(s, WaitLabels)
    BY <1>1, HasNone DEF WaitLabels
  <1>9. "waiting" \notin world /\ WorldFacts
    BY <1>8 DEF IInv, WorldFacts, WaitLabels, Doing, Has
  <1>10. TypeOK'
    BY <1>4, <1>6 DEF IInv, TypeOK, phases, tickets, StopThread
  <1>11. OneDrives' /\ PhaseFacts'
    BY <1>1, <1>4, <1>6, <1>7, OutKeeps DEF tickets
  <1>12. WorldFacts' /\ TicketFacts'
    <2>1. \A L \in {{"waitDone", "clearMutatorWaiting"}, {"prevented", "stopThread"}} : ~Has(todo'[Mutator], L)
      BY <1>6
    <2> QED
      BY <1>2, <1>4, <1>9, <1>10, <2>1, SideStep DEF WorldFacts, tickets
  <1>13. ClientFacts'
    BY <1>2, <1>4, <1>6 DEF ClientFacts, At, On
  <1> QED
    BY <1>10, <1>11, <1>12, <1>13 DEF IInv

\* lastChanceToFinalize() waits for the end of the collector thread.
LEMMA JoinKeeps ==
  ASSUME IInv, Join
  PROVE  IInv'
  <1> DEFINE s == todo[Mutator]
             T == Tail(s)
  <1>0. Mutator \in Actor /\ Collector \in Actor /\ Mutator # Collector
    BY DEF Actor, Mutator, Collector
  <1>1. /\ s \in MutatorOut /\ s # <<>> /\ Head(s) = "join" /\ T \in Seq(Label) /\ T = <<>>
        /\ \A L : Has(s, L) <=> "join" \in L \/ Has(T, L)
    BY MutatorHead, OutTails DEF Join, Enter, InLabels
  <1>2. "access" \in world /\ "stopped" \notin world
    BY Accessing DEF Join, Enter
  <1>3. "dead" \in Label /\ UNCHANGED <<world, phases, tickets, ticket, shouldStop>> /\ todo' = Then(Mutator, <<"dead">>)
    BY DEF Label, Join, locals
  <1>4. /\ todo'[Mutator] \in On("dead", {T})
        /\ todo'[Collector] = todo[Collector] /\ todo' \in [Actor -> Seq(Label)]
        /\ \A L : Has(todo'[Mutator], L) <=> "dead" \in L \/ Has(T, L)
    BY <1>0, <1>1, <1>3, ThenOne
  <1>5. todo'[Mutator] \in MutatorOut /\ todo'[Mutator] \in On("dead", Empty)
    BY <1>1, <1>4 DEF MutatorOut, Empty
  <1>6. \A L \in SUBSET SideLabels : Has(todo'[Mutator], L) <=> Has(s, L)
    BY <1>1, <1>4 DEF SideLabels, WaitLabels
  <1>10. TypeOK'
    BY <1>3, <1>4 DEF IInv, TypeOK, phases, tickets
  <1>11. OneDrives' /\ PhaseFacts'
    BY <1>1, <1>3, <1>4, <1>5, OutKeeps DEF tickets
  <1>12. WorldFacts' /\ TicketFacts'
    BY <1>2, <1>3, <1>6, <1>10, SideKeeps DEF IInv, TypeOK, TicketFacts, WorldFacts, tickets
  <1>13. ClientFacts'
    BY <1>2, <1>3, <1>4, <1>5 DEF IInv, ClientFacts, At, On
  <1> QED
    BY <1>10, <1>11, <1>12, <1>13 DEF IInv

\* preventCollection() has waited for the collection there was.
LEMMA PreventedKeeps ==
  ASSUME IInv, Prevented
  PROVE  IInv'
  <1> DEFINE s == todo[Mutator]
             T == Tail(s)
  <1>0. Mutator \in Actor /\ Collector \in Actor /\ Mutator # Collector
    BY DEF Actor, Mutator, Collector
  <1>1. /\ s \in MutatorOut /\ s # <<>> /\ Head(s) = "prevented" /\ T \in Seq(Label) /\ T = <<>>
        /\ \A L : Has(s, L) <=> "prevented" \in L \/ Has(T, L)
    BY MutatorHead, OutTails DEF Prevented, Enter, InLabels
  <1>2. "access" \in world /\ ~shouldStop
    BY Accessing DEF Prevented, Enter
  <1>3. UNCHANGED <<world, phases, tickets, ticket, shouldStop>> /\ todo' = Then(Mutator, <<>>)
    BY DEF Prevented, locals
  <1>4. /\ todo'[Mutator] = T
        /\ todo'[Collector] = todo[Collector] /\ todo' \in [Actor -> Seq(Label)]
    BY <1>0, <1>1, <1>3, ThenNone
  <1>5. todo'[Mutator] \in MutatorOut /\ ~At(Mutator, "acquireAccess")'
    BY <1>1, <1>4 DEF MutatorOut, AfterStop, Empty, At
  <1>6. ~Has(s, WaitLabels)
    BY <1>1, HasNone DEF WaitLabels
  <1>7. "waiting" \notin world
    BY <1>6 DEF IInv, WorldFacts, WaitLabels, Doing, Has
  <1> QED
    BY <1>1, <1>2, <1>3, <1>4, <1>5, <1>7, HasNone, WaitStep

-----------------------------------------------------------------------------
(* What the client calls. *)

\* The client, which is in no call, makes one.
LEMMA CallStep ==
  ASSUME IInv, NEW calls \in Seq(Label), Call(calls), calls \in MutatorOut, ticket' \in Nat,
         ("access" \in world /\ Head(calls) # "acquireAccess")
           \/ ("access" \notin world /\ calls \in On("acquireAccess", Empty)),
         ~Has(calls, {"waitDone", "clearMutatorWaiting"}),
         Has(calls, {"prevented", "stopThread"}) =>
           /\ ticket' = granted
           /\ served >= ticket' \/ Has(calls, {"waitForCollector", "waitMore", "park"})
  PROVE  IInv'
  <1>0. Mutator \in Actor /\ Collector \in Actor /\ Mutator # Collector
    BY DEF Actor, Mutator, Collector
  <1>1. /\ todo' \in [Actor -> Seq(Label)] /\ todo'[Mutator] = calls /\ todo'[Collector] = todo[Collector]
        /\ UNCHANGED <<world, phases, tickets, shouldStop>> /\ todo[Mutator] = <<>>
    BY <1>0 DEF Call, IInv, TypeOK
  <1>2. todo[Mutator] \in MutatorOut
    BY <1>1 DEF MutatorOut, AfterStop, Empty
  <1>3. TypeOK'
    BY <1>1 DEF IInv, TypeOK, phases, tickets
  <1>4. OneDrives' /\ PhaseFacts'
    BY <1>1, <1>2, OutKeeps DEF tickets
  <1>5. "waiting" \notin world
    BY <1>1, HasNone DEF IInv, WorldFacts, Doing, Has
  <1>6. WorldFacts'
    BY <1>1, <1>5 DEF IInv, WorldFacts
  <1>7. TicketFacts'
    <2>1. \A L : Doing(Mutator, L)' <=> Has(calls, L)
      BY <1>1 DEF Doing, Has
    <2> QED
      BY <1>1, <2>1 DEF IInv, TicketFacts, tickets
  <1>8. ~shouldStop
    BY <1>1 DEF IInv, ClientFacts, On
  <1>9. ClientFacts'
    BY <1>1, <1>8 DEF IInv, ClientFacts, At
  <1> QED
    BY <1>3, <1>4, <1>6, <1>7, <1>9 DEF IInv

\* Every call the client can make.
LEMMA ClientKeepsInv ==
  ASSUME IInv, Client
  PROVE  IInv'
  <1> DEFINE D == {"waitDone", "clearMutatorWaiting"}
             P == {"prevented", "stopThread"}
             M == {"waitForCollector", "waitMore", "park"}
  <1>0. /\ "acquireAccess" \in Label /\ "releaseAccess" \in Label /\ "stopIfNecessary" \in Label
        /\ "requestCollection" \in Label /\ "waitForCollector" \in Label /\ "prevented" \in Label
        /\ "stopThread" \in Label
    BY DEF Label
  <1>1. \A x \in Label : <<x>> \in On(x, Empty) /\ <<x>> \in Seq(Label) /\ \A L : Has(<<x>>, L) <=> x \in L
    BY CallIs
  <1>2. \A x, y \in Label : <<x, y>> \in On(x, On(y, Empty)) /\ <<x, y>> \in Seq(Label)
                              /\ \A L : Has(<<x, y>>, L) <=> x \in L \/ y \in L
    BY CallIs
  <1>3. \A x, y, z \in Label : <<x, y, z>> \in On(x, On(y, On(z, Empty))) /\ <<x, y, z>> \in Seq(Label)
                              /\ \A L : Has(<<x, y, z>>, L) <=> x \in L \/ y \in L \/ z \in L
    BY CallIs
  <1>4. ticket \in Nat /\ granted \in Nat /\ served \in Nat
    BY DEF IInv, TypeOK
  <1>5. CASE CallAcquireAccess
    <2> DEFINE c == <<"acquireAccess">>
    <2>1. c \in Seq(Label) /\ c \in On("acquireAccess", Empty) /\ ~Has(c, D) /\ ~Has(c, P)
      BY <1>0, <1>1
    <2>2. Call(c) /\ "access" \notin world /\ ticket' \in Nat
      BY <1>4, <1>5 DEF CallAcquireAccess
    <2> HIDE DEF c
    <2>3. c \in MutatorOut
      BY <2>1 DEF MutatorOut
    <2> QED
      BY <2>1, <2>2, <2>3, CallStep
  <1>6. CASE CallReleaseAccess
    <2> DEFINE c == <<"releaseAccess">>
    <2>1. c \in Seq(Label) /\ c \in On("releaseAccess", Empty) /\ ~Has(c, D) /\ ~Has(c, P)
      BY <1>0, <1>1
    <2>2. Call(c) /\ "access" \in world /\ ticket' \in Nat
      BY <1>4, <1>6 DEF CallReleaseAccess
    <2> HIDE DEF c
    <2>3. c \in MutatorOut /\ Head(c) # "acquireAccess"
      BY <2>1 DEF MutatorOut, Loop, On
    <2> QED
      BY <2>1, <2>2, <2>3, CallStep
  <1>7. CASE CallStopIfNecessary
    <2> DEFINE c == <<"stopIfNecessary">>
    <2>1. c \in Seq(Label) /\ c \in On("stopIfNecessary", Empty) /\ ~Has(c, D) /\ ~Has(c, P)
      BY <1>0, <1>1
    <2>2. Call(c) /\ "access" \in world /\ ticket' \in Nat
      BY <1>4, <1>7 DEF CallStopIfNecessary
    <2> HIDE DEF c
    <2>3. c \in MutatorOut /\ Head(c) # "acquireAccess"
      BY <2>1 DEF MutatorOut, AfterStop, On
    <2> QED
      BY <2>1, <2>2, <2>3, CallStep
  <1>8. ASSUME NEW e \in {"stopIfNecessary", "waitForCollector"},
               Call(<<"stopIfNecessary", "requestCollection", e>>), "access" \in world, UNCHANGED ticket
        PROVE IInv'
    <2> DEFINE c == <<"stopIfNecessary", "requestCollection", e>>
    <2>1. c \in Seq(Label) /\ c \in On("stopIfNecessary", On("requestCollection", On(e, Empty)))
          /\ ~Has(c, D) /\ ~Has(c, P)
      BY <1>0, <1>3, <1>8
    <2>2. Call(c) /\ "access" \in world /\ ticket' \in Nat
      BY <1>4, <1>8
    <2> HIDE DEF c
    <2>3. c \in MutatorOut /\ Head(c) # "acquireAccess"
      BY <1>8, <2>1 DEF MutatorOut, AfterStop, On
    <2> QED
      BY <2>1, <2>2, <2>3, CallStep
  <1>9. ASSUME NEW e \in {"prevented", "stopThread"},
               Call(<<"waitForCollector", e>>), "access" \in world, ticket' = granted
        PROVE IInv'
    <2> DEFINE c == <<"waitForCollector", e>>
    <2>1. c \in Seq(Label) /\ c \in On("waitForCollector", On(e, Empty))
          /\ ~Has(c, D) /\ Has(c, M)
      BY <1>0, <1>2, <1>9
    <2>2. Call(c) /\ "access" \in world /\ ticket' \in Nat
      BY <1>4, <1>9
    <2> HIDE DEF c
    <2>3. c \in MutatorOut /\ Head(c) # "acquireAccess"
      BY <1>9, <2>1 DEF MutatorOut, AfterWait, Loop, On
    <2> QED
      BY <1>9, <2>1, <2>2, <2>3, CallStep
  <1>10. ASSUME Call(<<"stopThread">>), "access" \in world, ticket' = granted, ~(served < granted)
        PROVE IInv'
    <2> DEFINE c == <<"stopThread">>
    <2>1. c \in Seq(Label) /\ c \in On("stopThread", Empty) /\ ~Has(c, D)
      BY <1>0, <1>1
    <2>2. Call(c) /\ "access" \in world /\ ticket' \in Nat /\ served >= ticket'
      BY <1>4, <1>10
    <2> HIDE DEF c
    <2>3. c \in MutatorOut /\ Head(c) # "acquireAccess"
      BY <2>1 DEF MutatorOut, AfterWait, On
    <2> QED
      BY <1>10, <2>1, <2>2, <2>3, CallStep
  <1>8a. ASSUME Call(<<"stopIfNecessary", "requestCollection">>), "access" \in world, UNCHANGED ticket
         PROVE IInv'
    <2> DEFINE c == <<"stopIfNecessary", "requestCollection">>
    <2>1. c \in Seq(Label) /\ c \in On("stopIfNecessary", On("requestCollection", Empty))
          /\ ~Has(c, D) /\ ~Has(c, P)
      BY <1>0, <1>2
    <2>2. Call(c) /\ "access" \in world /\ ticket' \in Nat
      BY <1>4, <1>8a
    <2> HIDE DEF c
    <2>3. c \in MutatorOut /\ Head(c) # "acquireAccess"
      BY <2>1 DEF MutatorOut, AfterStop, On
    <2> QED
      BY <2>1, <2>2, <2>3, CallStep
  <1>11. CASE CollectAsync \/ CollectSync
    BY <1>8, <1>8a, <1>11 DEF CollectAsync, CollectSync
  <1>12. CASE PreventCollection \/ LastChanceToFinalize
    BY <1>9, <1>10, <1>12 DEF PreventCollection, LastChanceToFinalize
  <1> QED
    BY <1>5, <1>6, <1>7, <1>11, <1>12 DEF Client

-----------------------------------------------------------------------------
(* Who is in a collection. *)

\* What actor a has to do after its collection, what it can rely on in it, and
\* that the other one is not in a collection.
Rest(a) == IF a = Mutator THEN MutatorRest ELSE On("poll", Empty)
Leads(a) == IF a = Mutator THEN "conn" \in world /\ ("finalize" \in world => cur = "End")
                           ELSE "conn" \notin world /\ (believes => "stopped" \in world)
OtherOut(a) == IF a = Mutator THEN todo[Collector] \in CollectorOut
                              ELSE todo[Mutator] \in MutatorOut
In(a) == IF a = Mutator THEN MutatorIn ELSE CollectorIn

\* The calls that are made in collections only.
OnlyIn == InLabels \ {"unparkAll", "handleNeedFinalize", "finalize"}

\* Who makes a call of a collection is in one, and the other is not.
LEMMA Leading ==
  ASSUME IInv, NEW a \in Actor, NEW x \in OnlyIn, At(a, x)
  PROVE  In(a) /\ OtherOut(a) /\ Leads(a)
  <1>0. Mutator \in Actor /\ Collector \in Actor /\ Mutator # Collector /\ Actor = {Mutator, Collector}
    BY DEF Actor, Mutator, Collector
  <1>1. At(Mutator, x) => todo[Mutator] \notin MutatorOut
    <2>1. ASSUME NEW s \in MutatorOut, s # <<>> PROVE Head(s) # x
      BY <2>1 DEF MutatorOut, AfterStop, AfterWait, MutatorRest, WaitEnds, Handling, Loop, On, Empty, OnlyIn, InLabels
    <2> QED
      BY <2>1 DEF At
  <1>2. At(Collector, x) => todo[Collector] \notin CollectorOut
    BY DEF At, CollectorOut, On, OnlyIn, InLabels
  <1>3. CASE a = Mutator
    BY <1>0, <1>1, <1>3 DEF IInv, OneDrives, In, OtherOut, Leads, MutatorIn
  <1>4. CASE a = Collector
    BY <1>0, <1>2, <1>4 DEF IInv, OneDrives, In, OtherOut, Leads, CollectorIn
  <1> QED
    BY <1>0, <1>3, <1>4

\* Where somebody in a collection is.
LEMMA Position ==
  ASSUME IInv, NEW a \in Actor, NEW x \in OnlyIn, At(a, x)
  PROVE  /\ todo[a] \in Seq(Label) /\ todo[a] # <<>> /\ Head(todo[a]) = x /\ Tail(todo[a]) \in Seq(Label)
         /\ x = "runCurrentPhase" => Tail(todo[a]) \in Rest(a) /\ (Settled \/ Halfway)
         /\ x = "runPhase" => Tail(todo[a]) \in Rest(a) /\ Settled
         /\ x = "changePhase" =>
              Tail(todo[a]) \in Running(Rest(a)) /\ Change(cur, next) /\ (believes <=> Suspended(cur))
         /\ x = "setPhase" =>
              /\ Tail(todo[a]) \in Running(Rest(a)) /\ Change(cur, next) /\ (believes <=> Suspended(next))
              /\ "finalize" \in world => next = "NotRunning" /\ a = Collector
         /\ x = "stopThePeriphery" =>
              /\ Tail(todo[a]) \in Setting(Rest(a)) /\ Halfway /\ "finalize" \notin world
              /\ a = Collector => "stopped" \in world
         /\ x = "setNeedFinalize" =>
              /\ Tail(todo[a]) \in On("unparkAll", On("endPhase", Rest(a)))
              /\ cur = "End" /\ next = "End" /\ ~scope /\ believes /\ "finalize" \notin world
         /\ x = "endPhase" =>
              Tail(todo[a]) \in Rest(a) /\ cur = "End" /\ next = "End" /\ ~scope /\ believes
         /\ x = "resumeThePeriphery" =>
              /\ Resumes /\ believes
              /\ Tail(todo[a]) \in On(IF a = Collector THEN "resumeTheMutator" ELSE "handleNeedFinalize",
                                      Setting(Rest(a)))
  <1>0. Mutator \in Actor /\ Collector \in Actor /\ Mutator # Collector /\ Actor = {Mutator, Collector}
    BY DEF Actor, Mutator, Collector
  <1>1. In(a)
    BY Leading
  <1>2. todo[a] \in Seq(Label) /\ todo[a] # <<>> /\ Head(todo[a]) = x /\ Tail(todo[a]) \in Seq(Label)
    BY DEF IInv, TypeOK, At
  <1>3. \A y, S, t : t \in On(y, S) <=> t \in Seq(Label) /\ t # <<>> /\ Head(t) = y /\ Tail(t) \in S
    BY DEF On
  <1>4. CASE a = Mutator
    BY <1>0, <1>1, <1>2, <1>3, <1>4 DEF In, MutatorIn, InPhase, Rest, Setting, Ending, Loop
  <1>5. CASE a = Collector
    BY <1>0, <1>1, <1>2, <1>3, <1>5 DEF In, CollectorIn, InPhase, Rest, Setting, Ending
  <1> QED
    BY <1>0, <1>4, <1>5

\* Somebody goes on with a collection, or ends it.
LEMMA GoesOn ==
  ASSUME NEW a \in Actor, OtherOut(a), \A b \in Actor : b # a => todo'[b] = todo[b],
         \/ InPhase(a, Rest(a))' /\ Leads(a)'
         \/ todo'[a] \in Rest(a) /\ NobodyIn'
  PROVE  OneDrives'
  <1>0. Mutator \in Actor /\ Collector \in Actor /\ Mutator # Collector /\ Actor = {Mutator, Collector}
    BY DEF Actor, Mutator, Collector
  <1>1. CASE a = Mutator
    <2>1. todo'[Collector] \in CollectorOut
      BY <1>0, <1>1 DEF OtherOut
    <2>2. CASE InPhase(a, Rest(a))' /\ Leads(a)'
      <3>1. MutatorIn'
        BY <1>1, <2>2 DEF MutatorIn, Rest, Leads
      <3> QED
        BY <2>1, <3>1 DEF OneDrives
    <2>3. CASE todo'[a] \in Rest(a) /\ NobodyIn'
      <3>1. todo'[Mutator] \in MutatorOut
        BY <1>1, <2>3 DEF MutatorOut, Rest
      <3> QED
        BY <2>1, <2>3, <3>1 DEF OneDrives
    <2> QED
      BY <2>2, <2>3
  <1>2. CASE a = Collector
    <2>1. todo'[Mutator] \in MutatorOut
      BY <1>0, <1>2 DEF OtherOut
    <2>2. CASE InPhase(a, Rest(a))' /\ Leads(a)'
      <3>1. CollectorIn'
        BY <1>0, <1>2, <2>2 DEF CollectorIn, Rest, Leads
      <3> QED
        BY <2>1, <3>1 DEF OneDrives
    <2>3. CASE todo'[a] \in Rest(a) /\ NobodyIn'
      <3>1. todo'[Collector] \in CollectorOut
        BY <1>0, <1>2, <2>3 DEF CollectorOut, Rest
      <3> QED
        BY <2>1, <2>3, <3>1 DEF OneDrives
    <2> QED
      BY <2>2, <2>3
  <1> QED
    BY <1>0, <1>1, <1>2

\* A step in a collection changes nothing the client relies on.
LEMMA PhaseStep ==
  ASSUME IInv, NEW a \in Actor, NEW x \in InLabels, At(a, x), In(a), OneDrives', PhaseFacts',
         todo' \in [Actor -> Seq(Label)], \A b \in Actor : b # a => todo'[b] = todo[b],
         \A L \in SUBSET SideLabels : Has(todo'[a], L) <=> Has(Tail(todo[a]), L),
         ~At(Mutator, "acquireAccess")' \/ a = Collector, ~At(Collector, "stopped")' \/ a = Mutator,
         UNCHANGED <<granted, ticket, shouldStop>>,
         world' \subseteq Bits, cur' \in PhaseName, next' \in PhaseName,
         believes' \in BOOLEAN, scope' \in BOOLEAN, requests' \in Nat, served' \in Nat,
         served <= served', granted' = served' + requests',
         "access" \in world' <=> "access" \in world,
         "conn" \in world' => "access" \in world',
         "stopped" \in world' => "access" \notin world',
         "waiting" \in world' => "waiting" \in world
  PROVE  IInv'
  <1>0. Mutator \in Actor /\ Collector \in Actor /\ Mutator # Collector /\ Actor = {Mutator, Collector}
    BY DEF Actor, Mutator, Collector
  <1>1. TypeOK'
    BY DEF IInv, TypeOK
  <1>2. \A L \in SUBSET SideLabels : Has(todo'[Mutator], L) <=> Has(todo[Mutator], L)
    <2>1. CASE a = Mutator
      <3>1. \A L : Has(todo[Mutator], L) <=> x \in L \/ Has(Tail(todo[Mutator]), L)
        BY <2>1, MutatorHead
      <3>2. x \notin SideLabels
        BY DEF InLabels, SideLabels, WaitLabels
      <3> QED
        BY <2>1, <3>1, <3>2
    <2>2. CASE a = Collector
      BY <1>0, <2>2
    <2> QED
      BY <1>0, <2>1, <2>2
  <1>3. WorldFacts' /\ TicketFacts'
    <2>1. "waiting" \in world' => "waiting" \in world /\ "access" \in world'
      BY DEF IInv, WorldFacts
    <2> QED
      BY <1>1, <1>2, <2>1, SideKeeps
  <1>4. ClientFacts'
    <2>1. CASE a = Mutator
      <3>1. ~shouldStop /\ "access" \in world
        BY <2>1, Accessing DEF InLabels
      <3> QED
        BY <1>0, <2>1, <3>1 DEF IInv, ClientFacts, At
    <2>2. CASE a = Collector
      BY <1>0, <2>2 DEF IInv, ClientFacts, At
    <2> QED
      BY <1>0, <2>1, <2>2
  <1> QED
    BY <1>1, <1>3, <1>4 DEF IInv

\* The same for a step that leaves m_worldState and the tickets alone.
LEMMA QuietStep ==
  ASSUME IInv, NEW a \in Actor, NEW x \in InLabels, At(a, x), In(a), OneDrives', PhaseFacts',
         todo' \in [Actor -> Seq(Label)], \A b \in Actor : b # a => todo'[b] = todo[b],
         \A L \in SUBSET SideLabels : Has(todo'[a], L) <=> Has(Tail(todo[a]), L),
         ~At(a, "acquireAccess")', ~At(a, "stopped")',
         UNCHANGED <<world, tickets, ticket, shouldStop>>,
         cur' \in PhaseName, next' \in PhaseName, believes' \in BOOLEAN, scope' \in BOOLEAN
  PROVE  IInv'
  <1>0. Mutator \in Actor /\ Collector \in Actor /\ Mutator # Collector /\ Actor = {Mutator, Collector}
    BY DEF Actor, Mutator, Collector
  <1>1. /\ UNCHANGED <<granted, ticket, shouldStop>> /\ world' \subseteq Bits
        /\ requests' \in Nat /\ served' \in Nat /\ served <= served' /\ granted' = served' + requests'
    BY DEF IInv, TypeOK, TicketFacts, tickets
  <1>2. /\ "access" \in world' <=> "access" \in world
        /\ "conn" \in world' => "access" \in world'
        /\ "stopped" \in world' => "access" \notin world'
        /\ "waiting" \in world' => "waiting" \in world
    BY DEF IInv, WorldFacts
  <1>3. /\ ~At(Mutator, "acquireAccess")' \/ a = Collector
        /\ ~At(Collector, "stopped")' \/ a = Mutator
    BY <1>0
  <1> QED
    BY <1>1, <1>2, <1>3, PhaseStep

\* runCurrentPhase() goes on, or first changes the phase.
LEMMA RunCurrentPhaseKeeps ==
  ASSUME IInv, NEW a \in Actor, RunCurrentPhase(a)
  PROVE  IInv'
  <1> DEFINE T == Tail(todo[a])
  <1>0. "runCurrentPhase" \in OnlyIn /\ "runCurrentPhase" \in InLabels /\ At(a, "runCurrentPhase")
    BY DEF OnlyIn, InLabels, RunCurrentPhase, Enter
  <1>1. In(a) /\ OtherOut(a) /\ Leads(a)
    BY <1>0, Leading
  <1>2. todo[a] # <<>> /\ T \in Rest(a) /\ (Settled \/ Halfway)
    BY <1>0, Position
  <1>3. "changePhase" \in Label /\ "runPhase" \in Label
    BY DEF Label
  <1>4. UNCHANGED <<world, phases, tickets, shouldStop, ticket>>
    BY DEF RunCurrentPhase, locals
  <1>5. PhaseFacts'
    BY <1>4 DEF IInv, PhaseFacts, phases, tickets
  <1>6. TypeOK
    BY DEF IInv
  <1>7. Leads(a)'
    BY <1>1, <1>4 DEF Leads, phases
  <1>8. CASE next # cur /\ todo' = Then(a, <<"changePhase", "runPhase">>)
    <2>1. /\ todo'[a] \in On("changePhase", On("runPhase", {T})) /\ todo' \in [Actor -> Seq(Label)]
          /\ \A b \in Actor : b # a => todo'[b] = todo[b]
          /\ \A L : Has(todo'[a], L) <=> "changePhase" \in L \/ "runPhase" \in L \/ Has(T, L)
      BY <1>2, <1>3, <1>8, ThenTwo
    <2>2. \A L \in SUBSET SideLabels : Has(todo'[a], L) <=> Has(T, L)
      BY <2>1 DEF SideLabels, WaitLabels
    <2>3. todo'[a] \in On("changePhase", Running(Rest(a))) /\ ~At(a, "acquireAccess")' /\ ~At(a, "stopped")'
      BY <1>2, <2>1 DEF Running, On, At
    <2>4. (Change(cur, next) /\ (believes <=> Suspended(cur)))'
      BY <1>2, <1>4, <1>8 DEF Settled, Halfway, Change, Suspended, phases
    <2>5. InPhase(a, Rest(a))'
      BY <2>3, <2>4 DEF InPhase, Rest
    <2>6. OneDrives'
      BY <1>1, <1>7, <2>1, <2>5, GoesOn
    <2> QED
      BY <1>0, <1>1, <1>4, <1>5, <1>6, <2>1, <2>2, <2>3, <2>6, QuietStep DEF TypeOK, phases
  <1>9. CASE next = cur /\ todo' = Then(a, <<"runPhase">>)
    <2>1. /\ todo'[a] \in On("runPhase", {T}) /\ todo' \in [Actor -> Seq(Label)]
          /\ \A b \in Actor : b # a => todo'[b] = todo[b]
          /\ \A L : Has(todo'[a], L) <=> "runPhase" \in L \/ Has(T, L)
      BY <1>2, <1>3, <1>9, ThenOne
    <2>2. \A L \in SUBSET SideLabels : Has(todo'[a], L) <=> Has(T, L)
      BY <2>1 DEF SideLabels, WaitLabels
    <2>3. todo'[a] \in On("runPhase", Rest(a)) /\ ~At(a, "acquireAccess")' /\ ~At(a, "stopped")'
      BY <1>2, <2>1 DEF On, At
    <2>4. Settled'
      BY <1>2, <1>4, <1>9 DEF Settled, Halfway, Change, Suspended, phases
    <2>5. InPhase(a, Rest(a))'
      BY <2>3, <2>4 DEF InPhase, Rest
    <2>6. OneDrives'
      BY <1>1, <1>7, <2>1, <2>5, GoesOn
    <2> QED
      BY <1>0, <1>1, <1>4, <1>5, <1>6, <2>1, <2>2, <2>3, <2>6, QuietStep DEF TypeOK, phases
  <1> QED
    BY <1>8, <1>9 DEF RunCurrentPhase

\* A change of phase starts: the next phase is set, and to be changed to.
LEMMA ChangeStarts ==
  ASSUME IInv, NEW a \in Actor, NEW x \in OnlyIn, At(a, x), NEW p \in PhaseName, ChangePhase(a, p),
         Tail(todo[a]) \in Rest(a), Change(cur, p), believes <=> Suspended(cur), PhaseFacts',
         UNCHANGED <<world, cur, believes, tickets, shouldStop, ticket>>, scope' \in BOOLEAN
  PROVE  IInv'
  <1> DEFINE T == Tail(todo[a])
  <1>0. x \in InLabels /\ In(a) /\ OtherOut(a) /\ Leads(a) /\ todo[a] # <<>>
    BY Leading, Position DEF OnlyIn
  <1>1. "changePhase" \in Label /\ "runCurrentPhase" \in Label
    BY DEF Label
  <1>2. next' = p /\ todo' = Then(a, <<"changePhase", "runCurrentPhase">>)
    BY DEF ChangePhase
  <1>3. /\ todo'[a] \in On("changePhase", On("runCurrentPhase", {T})) /\ todo' \in [Actor -> Seq(Label)]
        /\ \A b \in Actor : b # a => todo'[b] = todo[b]
        /\ \A L : Has(todo'[a], L) <=> "changePhase" \in L \/ "runCurrentPhase" \in L \/ Has(T, L)
    BY <1>0, <1>1, <1>2, ThenTwo
  <1>4. \A L \in SUBSET SideLabels : Has(todo'[a], L) <=> Has(T, L)
    BY <1>3 DEF SideLabels, WaitLabels
  <1>5. todo'[a] \in On("changePhase", Running(Rest(a))) /\ ~At(a, "acquireAccess")' /\ ~At(a, "stopped")'
    BY <1>3 DEF Running, On, At
  <1>6. (Change(cur, next) /\ (believes <=> Suspended(cur)))'
    BY <1>2 DEF Change, Suspended
  <1>7. InPhase(a, Rest(a))' /\ Leads(a)'
    BY <1>0, <1>5, <1>6 DEF InPhase, Rest, Leads
  <1>8. OneDrives'
    BY <1>0, <1>3, <1>7, GoesOn
  <1>9. cur' \in PhaseName /\ next' \in PhaseName /\ believes' \in BOOLEAN
    BY <1>2 DEF IInv, TypeOK
  <1> QED
    BY <1>0, <1>3, <1>4, <1>5, <1>8, <1>9, QuietStep

\* A collection is over, or goes on later.
LEMMA CollectionEnds ==
  ASSUME IInv, NEW a \in Actor, At(a, "runPhase"), Finished(a), cur \in {"NotRunning", "Concurrent"},
         UNCHANGED <<world, phases, tickets, shouldStop, ticket>>
  PROVE  IInv'
  <1> DEFINE T == Tail(todo[a])
  <1>0. "runPhase" \in OnlyIn /\ "runPhase" \in InLabels
    BY DEF OnlyIn, InLabels
  <1>1. In(a) /\ OtherOut(a) /\ todo[a] # <<>> /\ T \in Rest(a) /\ Settled
    BY <1>0, Leading, Position
  <1>2. todo' = Then(a, <<>>)
    BY DEF Finished
  <1>3. /\ todo'[a] = T /\ todo' \in [Actor -> Seq(Label)]
        /\ \A b \in Actor : b # a => todo'[b] = todo[b]
        /\ \A L \in SUBSET SideLabels : Has(todo'[a], L) <=> Has(T, L)
    BY <1>1, <1>2, ThenNone
  <1>4. NobodyIn'
    BY <1>1 DEF NobodyIn, Settled, Suspended, phases
  <1>5. OneDrives'
    BY <1>1, <1>3, <1>4, GoesOn
  <1>6. PhaseFacts' /\ TypeOK
    BY DEF IInv, PhaseFacts, phases, tickets
  <1>7. ~At(a, "acquireAccess")' /\ ~At(a, "stopped")'
    BY <1>1, <1>3 DEF Rest, MutatorRest, On, At
  <1> QED
    BY <1>0, <1>1, <1>3, <1>5, <1>6, <1>7, QuietStep DEF TypeOK, phases

\* runEndPhase() serves the ticket and ends the collection.
LEMMA RunEndPhaseKeeps ==
  ASSUME IInv, NEW a \in Actor, At(a, "runPhase"), RunEndPhase(a), UNCHANGED <<shouldStop, ticket>>
  PROVE  IInv'
  <1> DEFINE T == Tail(todo[a])
             k == "unparkAll"
             n == "setNeedFinalize"
             e == "endPhase"
  <1>0. "runPhase" \in OnlyIn /\ "runPhase" \in InLabels
    BY DEF OnlyIn, InLabels
  <1>1. In(a) /\ OtherOut(a) /\ Leads(a) /\ todo[a] # <<>> /\ T \in Rest(a) /\ Settled
    BY <1>0, Leading, Position
  <1>2. k \in Label /\ n \in Label /\ e \in Label
    BY DEF Label
  <1>3. /\ todo'[a] \in On(k, On(n, On(k, On(e, {T})))) /\ todo' \in [Actor -> Seq(Label)]
        /\ \A b \in Actor : b # a => todo'[b] = todo[b]
        /\ \A L : Has(todo'[a], L) <=> k \in L \/ n \in L \/ k \in L \/ e \in L \/ Has(T, L)
    <2>1. todo' = Then(a, <<k, n, k, e>>)
      BY DEF RunEndPhase
    <2> QED
      BY <1>1, <1>2, <2>1, ThenFour
  <1>4. \A L \in SUBSET SideLabels : Has(todo'[a], L) <=> Has(T, L)
    BY <1>3 DEF SideLabels, WaitLabels
  <1>5. todo'[a] \in On(k, Ending(Rest(a))) /\ ~At(a, "acquireAccess")' /\ ~At(a, "stopped")'
    BY <1>1, <1>3 DEF Ending, On, At
  <1>6. /\ world' = world \ {"waiting"} /\ scope' = FALSE /\ UNCHANGED <<cur, next, believes, granted>>
        /\ requests' = requests - 1 /\ served' = served + 1 /\ cur = "End"
    BY DEF RunEndPhase
  <1>7. next = "End" /\ scope /\ believes /\ "finalize" \notin world
    BY <1>1, <1>6 DEF Settled, Suspended, IInv, PhaseFacts
  <1>8. /\ requests' \in Nat /\ served' \in Nat /\ served <= served' /\ granted' = served' + requests'
    <2>1. requests \in Nat /\ requests # 0 /\ served \in Nat /\ granted = served + requests
      BY <1>7 DEF IInv, TypeOK, PhaseFacts, TicketFacts
    <2> QED
      BY <1>6, <2>1
  <1>9. (cur = "End" /\ next = "End" /\ ~scope /\ believes /\ "finalize" \notin world)'
    BY <1>6, <1>7
  <1>10. InPhase(a, Rest(a))' /\ Leads(a)'
    BY <1>1, <1>5, <1>6, <1>9 DEF InPhase, Rest, Leads
  <1>11. OneDrives'
    BY <1>1, <1>3, <1>10, GoesOn
  <1>12. PhaseFacts'
    BY <1>9 DEF PhaseFacts
  <1>13. /\ world' \subseteq Bits /\ cur' \in PhaseName /\ next' \in PhaseName
         /\ believes' \in BOOLEAN /\ scope' \in BOOLEAN
    BY <1>6 DEF IInv, TypeOK
  <1>14. /\ "access" \in world' <=> "access" \in world
         /\ "conn" \in world' => "access" \in world'
         /\ "stopped" \in world' => "access" \notin world'
         /\ "waiting" \in world' => "waiting" \in world
    BY <1>6 DEF IInv, WorldFacts
  <1>15. /\ ~At(Mutator, "acquireAccess")' \/ a = Collector
         /\ ~At(Collector, "stopped")' \/ a = Mutator
    BY <1>5 DEF Actor
  <1> QED
    BY <1>0, <1>1, <1>3, <1>4, <1>6, <1>8, <1>11, <1>12, <1>13, <1>14, <1>15, PhaseStep

\* The phases, by what each of them sets next.
LEMMA RunPhaseKeeps ==
  ASSUME IInv, NEW a \in Actor, RunPhase(a)
  PROVE  IInv'
  <1> DEFINE T == Tail(todo[a])
  <1>0. "runPhase" \in OnlyIn /\ "runPhase" \in InLabels /\ At(a, "runPhase")
    BY DEF OnlyIn, InLabels, RunPhase, Enter
  <1>1. In(a) /\ OtherOut(a) /\ Leads(a)
    BY <1>0, Leading
  <1>2. T \in Rest(a) /\ Settled
    BY <1>0, Position
  <1>3. UNCHANGED <<shouldStop, ticket>>
    BY DEF RunPhase, locals
  <1>4. PhaseFacts
    BY DEF IInv
  <1>5. {"NotRunning", "Begin", "Fixpoint", "Concurrent", "Reloop", "End"} = PhaseName
    BY DEF PhaseName
  <1>6. CASE RunNotRunningPhase(a)
    <2>1. CASE requests = 0
      BY <1>0, <1>3, <1>6, <2>1, CollectionEnds DEF RunNotRunningPhase, phases
    <2>2. CASE requests # 0
      <3>1. ChangePhase(a, "Begin") /\ Change(cur, "Begin") /\ (believes <=> Suspended(cur))
        BY <1>2, <1>6, <2>2 DEF RunNotRunningPhase, Change, Settled
      <3>2. UNCHANGED <<world, cur, believes, tickets, scope>>
        BY <1>6 DEF RunNotRunningPhase
      <3>3. PhaseFacts' /\ scope' \in BOOLEAN
        BY <1>4, <1>6, <2>2, <3>1, <3>2 DEF PhaseFacts, ChangePhase, tickets, RunNotRunningPhase, IInv, TypeOK
      <3> QED
        BY <1>0, <1>2, <1>3, <1>5, <3>1, <3>2, <3>3, ChangeStarts
    <2> QED
      BY <2>1, <2>2
  <1>7. CASE RunBeginPhase(a)
    <2>1. ChangePhase(a, "Fixpoint") /\ Change(cur, "Fixpoint") /\ (believes <=> Suspended(cur))
      BY <1>2, <1>7 DEF RunBeginPhase, Change, Settled
    <2>2. UNCHANGED <<world, cur, believes, tickets>> /\ scope' = TRUE /\ cur = "Begin" /\ next = "Begin"
      BY <1>2, <1>7 DEF RunBeginPhase, Settled
    <2>3. PhaseFacts'
      BY <1>4, <2>1, <2>2 DEF PhaseFacts, ChangePhase, tickets
    <2> QED
      BY <1>0, <1>2, <1>3, <1>5, <2>1, <2>2, <2>3, ChangeStarts
  <1>8. ASSUME NEW p \in {"End", "Fixpoint", "Concurrent", "Reloop"},
               ChangePhase(a, p), Change(cur, p), cur \in {"Fixpoint", "Concurrent", "Reloop"},
               UNCHANGED <<world, cur, believes, scope, tickets>>
        PROVE IInv'
    <2>1. believes <=> Suspended(cur)
      BY <1>2 DEF Settled
    <2>2. PhaseFacts' /\ scope' \in BOOLEAN
      BY <1>4, <1>8 DEF PhaseFacts, ChangePhase, tickets, IInv, TypeOK
    <2> QED
      BY <1>0, <1>2, <1>3, <1>5, <1>8, <2>1, <2>2, ChangeStarts
  <1>9. CASE RunFixpointPhase(a)
    BY <1>8, <1>9 DEF RunFixpointPhase, Change
  <1>10. CASE RunConcurrentPhase(a)
    <2>1. CASE ChangePhase(a, "Reloop")
      BY <1>8, <1>10, <2>1 DEF RunConcurrentPhase, Change
    <2>2. CASE Finished(a) /\ UNCHANGED next
      BY <1>0, <1>3, <1>10, <2>2, CollectionEnds DEF RunConcurrentPhase, phases
    <2> QED
      BY <1>10, <2>1, <2>2 DEF RunConcurrentPhase
  <1>11. CASE RunReloopPhase(a)
    BY <1>8, <1>11 DEF RunReloopPhase, Change
  <1>12. CASE RunEndPhase(a)
    BY <1>0, <1>3, <1>12, RunEndPhaseKeeps
  <1> QED
    BY <1>6, <1>7, <1>9, <1>10, <1>11, <1>12 DEF RunPhase

\* The last change of phase of a collection.
LEMMA EndPhaseKeeps ==
  ASSUME IInv, NEW a \in Actor, EndPhase(a)
  PROVE  IInv'
  <1> DEFINE T == Tail(todo[a])
  <1>0. "endPhase" \in OnlyIn /\ "endPhase" \in InLabels /\ At(a, "endPhase")
    BY DEF OnlyIn, InLabels, EndPhase, Enter
  <1>1. In(a) /\ OtherOut(a) /\ Leads(a)
    BY <1>0, Leading
  <1>2. T \in Rest(a) /\ cur = "End" /\ next = "End" /\ ~scope /\ believes
    BY <1>0, Position
  <1>3. ChangePhase(a, "NotRunning") /\ Change(cur, "NotRunning") /\ (believes <=> Suspended(cur))
    BY <1>2 DEF EndPhase, Change, Suspended
  <1>4. UNCHANGED <<world, cur, believes, tickets, shouldStop, ticket, scope>> /\ "NotRunning" \in PhaseName
    BY DEF EndPhase, locals, PhaseName
  <1>5. PhaseFacts' /\ scope' \in BOOLEAN
    BY <1>2, <1>3, <1>4 DEF IInv, TypeOK, PhaseFacts, ChangePhase, tickets
  <1> QED
    BY <1>0, <1>2, <1>3, <1>4, <1>5, ChangeStarts

\* setNeedFinalize() leaves the finalizers of the collection to the mutator.
LEMMA SetNeedFinalizeKeeps ==
  ASSUME IInv, NEW a \in Actor, SetNeedFinalize(a)
  PROVE  IInv'
  <1> DEFINE T == Tail(todo[a])
  <1>0. "setNeedFinalize" \in OnlyIn /\ "setNeedFinalize" \in InLabels /\ At(a, "setNeedFinalize")
    BY DEF OnlyIn, InLabels, SetNeedFinalize, Enter
  <1>1. In(a) /\ OtherOut(a) /\ Leads(a)
    BY <1>0, Leading
  <1>2. /\ todo[a] # <<>> /\ T \in On("unparkAll", On("endPhase", Rest(a)))
        /\ cur = "End" /\ next = "End" /\ ~scope /\ believes
    BY <1>0, Position
  <1>3. todo' = Then(a, <<>>) /\ world' = world \cup {"finalize"} /\ UNCHANGED <<phases, tickets, shouldStop, ticket>>
    BY DEF SetNeedFinalize, locals
  <1>4. /\ todo'[a] = T /\ todo' \in [Actor -> Seq(Label)]
        /\ \A b \in Actor : b # a => todo'[b] = todo[b]
        /\ \A L \in SUBSET SideLabels : Has(todo'[a], L) <=> Has(T, L)
    BY <1>2, <1>3, ThenNone
  <1>5. (cur = "End" /\ next = "End" /\ ~scope /\ believes)'
    BY <1>2, <1>3 DEF phases
  <1>6. InPhase(a, Rest(a))' /\ Leads(a)'
    BY <1>1, <1>2, <1>3, <1>4, <1>5 DEF InPhase, Rest, Leads, phases
  <1>7. OneDrives'
    BY <1>1, <1>4, <1>6, GoesOn
  <1>8. PhaseFacts'
    BY <1>5 DEF PhaseFacts
  <1>9. ~At(a, "acquireAccess")' /\ ~At(a, "stopped")'
    BY <1>2, <1>4 DEF On, At
  <1>10. /\ world' \subseteq Bits /\ cur' \in PhaseName /\ next' \in PhaseName
         /\ believes' \in BOOLEAN /\ scope' \in BOOLEAN
    BY <1>3 DEF IInv, TypeOK, Bits, phases
  <1>11. /\ requests' \in Nat /\ served' \in Nat /\ served <= served' /\ granted' = served' + requests'
         /\ UNCHANGED <<granted, ticket, shouldStop>>
    BY <1>3 DEF IInv, TypeOK, TicketFacts, tickets
  <1>12. /\ "access" \in world' <=> "access" \in world
         /\ "conn" \in world' => "access" \in world'
         /\ "stopped" \in world' => "access" \notin world'
         /\ "waiting" \in world' => "waiting" \in world
    BY <1>3 DEF IInv, WorldFacts
  <1> QED
    BY <1>0, <1>1, <1>4, <1>7, <1>8, <1>9, <1>10, <1>11, <1>12, PhaseStep DEF Actor

\* finishChangingPhase() sets m_currentPhase.
LEMMA SetPhaseKeeps ==
  ASSUME IInv, NEW a \in Actor, SetPhase(a)
  PROVE  IInv'
  <1> DEFINE T == Tail(todo[a])
  <1>0. "setPhase" \in OnlyIn /\ "setPhase" \in InLabels /\ At(a, "setPhase")
    BY DEF OnlyIn, InLabels, SetPhase, Enter
  <1>1. In(a) /\ OtherOut(a) /\ Leads(a)
    BY <1>0, Leading
  <1>2. /\ todo[a] # <<>> /\ T \in Running(Rest(a)) /\ Change(cur, next) /\ (believes <=> Suspended(next))
        /\ "finalize" \in world => next = "NotRunning" /\ a = Collector
    BY <1>0, Position
  <1>3. todo' = Then(a, <<>>) /\ cur' = next /\ UNCHANGED <<world, next, believes, scope, tickets, shouldStop, ticket>>
    BY DEF SetPhase, locals
  <1>4. /\ todo'[a] = T /\ todo' \in [Actor -> Seq(Label)]
        /\ \A b \in Actor : b # a => todo'[b] = todo[b]
        /\ \A L \in SUBSET SideLabels : Has(todo'[a], L) <=> Has(T, L)
    BY <1>2, <1>3, ThenNone
  <1>5. PhaseFacts'
    BY <1>2, <1>3 DEF IInv, PhaseFacts, Change, tickets
  <1>6. Settled'
    BY <1>2, <1>3 DEF IInv, PhaseFacts, Settled, Change, Suspended
  <1>7. InPhase(a, Rest(a))'
    BY <1>2, <1>4, <1>6 DEF InPhase, Rest, Running
  <1>8. Leads(a)'
    BY <1>1, <1>2, <1>3 DEF Leads, Mutator, Collector
  <1>9. OneDrives'
    BY <1>1, <1>4, <1>7, <1>8, GoesOn
  <1>10. ~At(a, "acquireAccess")' /\ ~At(a, "stopped")'
    BY <1>2, <1>4 DEF Running, On, At
  <1>11. TypeOK
    BY DEF IInv
  <1> QED
    BY <1>0, <1>1, <1>3, <1>4, <1>5, <1>9, <1>10, <1>11, QuietStep DEF TypeOK

\* stopThePeriphery(): the world counts as stopped.
LEMMA StopThePeripheryKeeps ==
  ASSUME IInv, NEW a \in Actor, StopThePeriphery(a)
  PROVE  IInv'
  <1> DEFINE T == Tail(todo[a])
  <1>0. "stopThePeriphery" \in OnlyIn /\ "stopThePeriphery" \in InLabels /\ At(a, "stopThePeriphery")
    BY DEF OnlyIn, InLabels, StopThePeriphery, Enter
  <1>1. In(a) /\ OtherOut(a) /\ Leads(a)
    BY <1>0, Leading
  <1>2. /\ todo[a] # <<>> /\ T \in Setting(Rest(a)) /\ Halfway /\ "finalize" \notin world
        /\ a = Collector => "stopped" \in world
    BY <1>0, Position
  <1>3. /\ todo' = Then(a, <<>>) /\ believes' = TRUE /\ world' \in {world, world \cup {"didJIT"}}
        /\ UNCHANGED <<cur, next, scope, tickets, shouldStop, ticket>>
    BY DEF StopThePeriphery, locals
  <1>4. /\ todo'[a] = T /\ todo' \in [Actor -> Seq(Label)]
        /\ \A b \in Actor : b # a => todo'[b] = todo[b]
        /\ \A L \in SUBSET SideLabels : Has(todo'[a], L) <=> Has(T, L)
    BY <1>2, <1>3, ThenNone
  <1>5. PhaseFacts'
    BY <1>2, <1>3 DEF IInv, PhaseFacts, tickets
  <1>6. (Change(cur, next) /\ (believes <=> Suspended(next)) /\ "finalize" \notin world)'
    BY <1>2, <1>3 DEF Halfway, Change, Suspended
  <1>7. InPhase(a, Rest(a))'
    BY <1>2, <1>4, <1>6 DEF InPhase, Rest
  <1>8. Leads(a)'
    BY <1>1, <1>2, <1>3 DEF Leads, Actor
  <1>9. OneDrives'
    BY <1>1, <1>4, <1>7, <1>8, GoesOn
  <1>10. ~At(a, "acquireAccess")' /\ ~At(a, "stopped")'
    BY <1>2, <1>4 DEF Setting, On, At
  <1>11. /\ world' \subseteq Bits /\ cur' \in PhaseName /\ next' \in PhaseName
         /\ believes' \in BOOLEAN /\ scope' \in BOOLEAN
    BY <1>3 DEF IInv, TypeOK, Bits
  <1>12. /\ requests' \in Nat /\ served' \in Nat /\ served <= served' /\ granted' = served' + requests'
         /\ UNCHANGED <<granted, ticket, shouldStop>>
    BY <1>3 DEF IInv, TypeOK, TicketFacts, tickets
  <1>13. /\ "access" \in world' <=> "access" \in world
         /\ "conn" \in world' => "access" \in world'
         /\ "stopped" \in world' => "access" \notin world'
         /\ "waiting" \in world' => "waiting" \in world
    BY <1>3 DEF IInv, WorldFacts
  <1> QED
    BY <1>0, <1>1, <1>4, <1>5, <1>9, <1>10, <1>11, <1>12, <1>13, PhaseStep DEF Actor

\* Somebody stays in a collection.
LEMMA StaysIn ==
  ASSUME NEW a \in Actor, OtherOut(a), \A b \in Actor : b # a => todo'[b] = todo[b], In(a)'
  PROVE  OneDrives'
  <1>0. Mutator \in Actor /\ Collector \in Actor /\ Mutator # Collector /\ Actor = {Mutator, Collector}
    BY DEF Actor, Mutator, Collector
  <1>1. CASE a = Mutator
    BY <1>0, <1>1 DEF OneDrives, In, OtherOut
  <1>2. CASE a = Collector
    BY <1>0, <1>2 DEF OneDrives, In, OtherOut
  <1> QED
    BY <1>0, <1>1, <1>2

\* resumeThePeriphery(): it does not count as stopped any more.
LEMMA ResumeThePeripheryKeeps ==
  ASSUME IInv, NEW a \in Actor, ResumeThePeriphery(a)
  PROVE  IInv'
  <1> DEFINE T == Tail(todo[a])
  <1>0. "resumeThePeriphery" \in OnlyIn /\ "resumeThePeriphery" \in InLabels /\ At(a, "resumeThePeriphery")
    BY DEF OnlyIn, InLabels, ResumeThePeriphery, Enter
  <1>1. In(a) /\ OtherOut(a) /\ Leads(a)
    BY <1>0, Leading
  <1>2. /\ todo[a] # <<>> /\ Resumes /\ believes
        /\ T \in On(IF a = Collector THEN "resumeTheMutator" ELSE "handleNeedFinalize", Setting(Rest(a)))
    BY <1>0, Position
  <1>3. todo' = Then(a, <<>>) /\ believes' = FALSE /\ UNCHANGED <<world, cur, next, scope, tickets, shouldStop, ticket>>
    BY DEF ResumeThePeriphery, locals
  <1>4. /\ todo'[a] = T /\ todo' \in [Actor -> Seq(Label)]
        /\ \A b \in Actor : b # a => todo'[b] = todo[b]
        /\ \A L \in SUBSET SideLabels : Has(todo'[a], L) <=> Has(T, L)
    BY <1>2, <1>3, ThenNone
  <1>5. PhaseFacts'
    BY <1>3 DEF IInv, PhaseFacts, tickets
  <1>6. Resumes' /\ ~believes'
    BY <1>2, <1>3 DEF Resumes, Change, Suspended
  <1>7. In(a)'
    <2>1. CASE a = Mutator
      <3>1. todo'[Mutator] \in Loop("handleNeedFinalize", Setting(MutatorRest))
        BY <1>2, <1>4, <2>1 DEF Loop, Rest, Mutator, Collector
      <3>2. MutatorIn'
        BY <1>1, <1>3, <1>6, <2>1, <3>1 DEF MutatorIn, Leads
      <3> QED
        BY <2>1, <3>2 DEF In
    <2>2. CASE a = Collector
      <3>1. todo'[Collector] \in On("resumeTheMutator", Setting(On("poll", Empty)))
        BY <1>2, <1>4, <2>2 DEF Rest, Mutator, Collector
      <3>2. "conn" \notin world /\ "stopped" \in world
        BY <1>1, <1>2, <2>2 DEF Leads, Mutator, Collector
      <3>3. CollectorIn'
        BY <1>3, <1>6, <3>1, <3>2 DEF CollectorIn
      <3> QED
        BY <2>2, <3>3 DEF In, Mutator, Collector
    <2> QED
      BY <2>1, <2>2 DEF Actor
  <1>8. OneDrives'
    BY <1>1, <1>4, <1>7, StaysIn
  <1>9. ~At(a, "acquireAccess")' /\ ~At(a, "stopped")'
    BY <1>2, <1>4 DEF On, At
  <1>10. TypeOK
    BY DEF IInv
  <1> QED
    BY <1>0, <1>1, <1>3, <1>4, <1>5, <1>8, <1>9, <1>10, QuietStep DEF TypeOK

\* What finishChangingPhase() has the collector thread do to stop the mutator.
LEMMA StoppingCalls ==
  ASSUME IInv, NEW a \in Actor, todo[a] # <<>>,
         todo' = Then(a, <<"waitWhileNeedFinalize", "stopTheMutator", "stopThePeriphery", "setPhase">>)
  PROVE  /\ todo'[a] \in On("waitWhileNeedFinalize", On("stopTheMutator",
                              On("stopThePeriphery", On("setPhase", {Tail(todo[a])}))))
         /\ todo' \in [Actor -> Seq(Label)]
         /\ \A b \in Actor : b # a => todo'[b] = todo[b]
         /\ \A L : Has(todo'[a], L) <=> "waitWhileNeedFinalize" \in L \/ "stopTheMutator" \in L
                        \/ "stopThePeriphery" \in L \/ "setPhase" \in L \/ Has(Tail(todo[a]), L)
  <1>1. /\ "waitWhileNeedFinalize" \in Label /\ "stopTheMutator" \in Label
        /\ "stopThePeriphery" \in Label /\ "setPhase" \in Label
    BY DEF Label
  <1> DEFINE w == "waitWhileNeedFinalize"
             m == "stopTheMutator"
             p == "stopThePeriphery"
             q == "setPhase"
  <1>2. w \in Label /\ m \in Label /\ p \in Label /\ q \in Label /\ todo' = Then(a, <<w, m, p, q>>)
    BY <1>1
  <1> HIDE DEF w, m, p, q
  <1>3. todo'[a] \in On(w, On(m, On(p, On(q, {Tail(todo[a])}))))
    BY <1>2, ThenFour
  <1>4. todo' \in [Actor -> Seq(Label)]
    BY <1>2, ThenFour
  <1>5. \A b \in Actor : b # a => todo'[b] = todo[b]
    BY <1>2, ThenFour
  <1>6. \A L : Has(todo'[a], L) <=> w \in L \/ m \in L \/ p \in L \/ q \in L \/ Has(Tail(todo[a]), L)
    <2> DEFINE t1 == todo'[a]
               t2 == Tail(t1)
               t3 == Tail(t2)
               t4 == Tail(t3)
               T == Tail(todo[a])
    <2>1. t1 \in On(w, On(m, On(p, On(q, {T}))))
      BY <1>3
    <2> HIDE DEF t1, T
    <2>2. t2 \in On(m, On(p, On(q, {T}))) /\ \A L : Has(t1, L) <=> w \in L \/ Has(t2, L)
      BY <2>1, OnFacts
    <2> HIDE DEF t2
    <2>3. t3 \in On(p, On(q, {T})) /\ \A L : Has(t2, L) <=> m \in L \/ Has(t3, L)
      BY <2>2, OnFacts
    <2> HIDE DEF t3
    <2>4. t4 \in On(q, {T}) /\ \A L : Has(t3, L) <=> p \in L \/ Has(t4, L)
      BY <2>3, OnFacts
    <2> HIDE DEF t4
    <2>5. Tail(t4) \in {T} /\ \A L : Has(t4, L) <=> q \in L \/ Has(Tail(t4), L)
      BY <2>4, OnFacts
    <2>6. \A L : Has(t1, L) <=> w \in L \/ m \in L \/ p \in L \/ q \in L \/ Has(T, L)
      BY <2>2, <2>3, <2>4, <2>5
    <2> QED
      BY <2>6 DEF t1, T
  <1> QED
    BY <1>3, <1>4, <1>5, <1>6 DEF w, m, p, q

\* finishChangingPhase() stops or resumes the world, or need not.
LEMMA FinishChangingPhaseKeeps ==
  ASSUME IInv, NEW a \in Actor, FinishChangingPhase(a)
  PROVE  IInv'
  <1> DEFINE T == Tail(todo[a])
  <1>0. "changePhase" \in OnlyIn /\ "changePhase" \in InLabels /\ At(a, "changePhase")
    BY DEF OnlyIn, InLabels, FinishChangingPhase, Enter
  <1>1. In(a) /\ OtherOut(a) /\ Leads(a)
    BY <1>0, Leading
  <1>2. /\ todo[a] # <<>> /\ T \in Running(Rest(a)) /\ Change(cur, next) /\ (believes <=> Suspended(cur))
    BY <1>0, Position
  <1>3. UNCHANGED <<world, phases, tickets, shouldStop, ticket>>
    BY DEF FinishChangingPhase, locals
  <1>4. /\ "setPhase" \in Label /\ "resumeThePeriphery" \in Label /\ "resumeTheMutator" \in Label
        /\ "handleNeedFinalize" \in Label /\ "waitWhileNeedFinalize" \in Label
        /\ "stopTheMutator" \in Label /\ "stopThePeriphery" \in Label
    BY DEF Label
  <1>5. PhaseFacts' /\ TypeOK
    BY <1>3 DEF IInv, PhaseFacts, phases, tickets
  <1>6. Leads(a)'
    BY <1>1, <1>3 DEF Leads, phases
  <1>7. ASSUME todo' \in [Actor -> Seq(Label)], \A b \in Actor : b # a => todo'[b] = todo[b],
               \A L \in SUBSET SideLabels : Has(todo'[a], L) <=> Has(T, L),
               ~At(a, "acquireAccess")', ~At(a, "stopped")', OneDrives'
        PROVE IInv'
    BY <1>0, <1>1, <1>3, <1>5, <1>7, QuietStep DEF TypeOK, phases
  <1>8. CASE Suspended(cur) = Suspended(next) /\ todo' = Then(a, <<"setPhase">>)
    <2>1. /\ todo'[a] \in On("setPhase", {T}) /\ todo' \in [Actor -> Seq(Label)]
          /\ \A b \in Actor : b # a => todo'[b] = todo[b]
          /\ \A L : Has(todo'[a], L) <=> "setPhase" \in L \/ Has(T, L)
      BY <1>2, <1>4, <1>8, ThenOne
    <2>2. \A L \in SUBSET SideLabels : Has(todo'[a], L) <=> Has(T, L)
      BY <2>1 DEF SideLabels, WaitLabels
    <2>3. todo'[a] \in Setting(Rest(a)) /\ ~At(a, "acquireAccess")' /\ ~At(a, "stopped")'
      BY <1>2, <2>1 DEF Setting, On, At
    <2>4. (Change(cur, next) /\ (believes <=> Suspended(next)) /\ "finalize" \notin world)'
      BY <1>2, <1>3, <1>8 DEF Change, Suspended, phases, IInv, PhaseFacts
    <2>5. InPhase(a, Rest(a))'
      BY <2>3, <2>4 DEF InPhase, Rest
    <2>6. OneDrives'
      BY <1>1, <1>6, <2>1, <2>5, GoesOn
    <2> QED
      BY <1>7, <2>1, <2>2, <2>3, <2>6
  <1>9. CASE /\ Suspended(cur) /\ ~Suspended(next)
             /\ todo' = Then(a, <<"resumeThePeriphery", IF a = Collector THEN "resumeTheMutator"
                                                        ELSE "handleNeedFinalize", "setPhase">>)
    <2> DEFINE y == IF a = Collector THEN "resumeTheMutator" ELSE "handleNeedFinalize"
    <2>0. y \in Label /\ todo' = Then(a, <<"resumeThePeriphery", y, "setPhase">>) /\ y \notin SideLabels
      BY <1>4, <1>9 DEF SideLabels, WaitLabels
    <2>a. y = IF a = Collector THEN "resumeTheMutator" ELSE "handleNeedFinalize"
      OBVIOUS
    <2> HIDE DEF y
    <2>1. /\ todo'[a] \in On("resumeThePeriphery", On(y, On("setPhase", {T}))) /\ todo' \in [Actor -> Seq(Label)]
          /\ \A b \in Actor : b # a => todo'[b] = todo[b]
          /\ \A L : Has(todo'[a], L) <=> "resumeThePeriphery" \in L \/ y \in L \/ "setPhase" \in L \/ Has(T, L)
      BY <1>2, <1>4, <2>0, ThenThree
    <2>2. \A L \in SUBSET SideLabels : Has(todo'[a], L) <=> Has(T, L)
      BY <2>0, <2>1 DEF SideLabels, WaitLabels
    <2>3. todo'[a] \in On("resumeThePeriphery", On(y, Setting(Rest(a)))) /\ ~At(a, "acquireAccess")' /\ ~At(a, "stopped")'
      BY <1>2, <2>1 DEF Setting, On, At
    <2>4. Resumes' /\ believes'
      BY <1>2, <1>3, <1>9 DEF Change, Suspended, phases, Resumes
    <2>5. In(a)'
      <3>1. CASE a = Mutator
        <4>1. todo'[Mutator] \in On("resumeThePeriphery", On("handleNeedFinalize", Setting(MutatorRest)))
          BY <2>3, <2>a, <3>1 DEF Rest, Mutator, Collector
        <4>2. MutatorIn'
          BY <1>6, <2>4, <3>1, <4>1 DEF MutatorIn, Leads
        <4> QED
          BY <3>1, <4>2 DEF In
      <3>2. CASE a = Collector
        <4>1. todo'[Collector] \in On("resumeThePeriphery", On("resumeTheMutator", Setting(On("poll", Empty))))
          BY <2>3, <2>a, <3>2 DEF Rest, Mutator, Collector
        <4>2. ("conn" \notin world /\ (believes => "stopped" \in world))'
          BY <1>6, <3>2 DEF Leads, Mutator, Collector
        <4>3. CollectorIn'
          BY <2>4, <4>1, <4>2 DEF CollectorIn
        <4> QED
          BY <3>2, <4>3 DEF In, Mutator, Collector
      <3> QED
        BY <3>1, <3>2 DEF Actor
    <2>6. OneDrives'
      BY <1>1, <2>1, <2>5, StaysIn
    <2> QED
      BY <1>7, <2>1, <2>2, <2>3, <2>6
  <1>10. CASE /\ ~(Suspended(cur) = Suspended(next)) /\ ~Suspended(cur) /\ a = Collector
              /\ todo' = Then(a, <<"waitWhileNeedFinalize", "stopTheMutator">> \o <<"stopThePeriphery", "setPhase">>)
    <2> DEFINE S == On("stopTheMutator", On("stopThePeriphery", Setting(Rest(a))))
    <2>0. todo' = Then(a, <<"waitWhileNeedFinalize", "stopTheMutator", "stopThePeriphery", "setPhase">>)
      <3>1. \A x, y, z, u \in Label : <<x, y>> \o <<z, u>> = <<x, y, z, u>>
        BY FourCalls, TwoAndTwo
      <3>2. <<"waitWhileNeedFinalize", "stopTheMutator">> \o <<"stopThePeriphery", "setPhase">>
              = <<"waitWhileNeedFinalize", "stopTheMutator", "stopThePeriphery", "setPhase">>
        BY <1>4, <3>1
      <3> QED
        BY <1>10, <3>2
    <2>1. /\ todo'[a] \in On("waitWhileNeedFinalize", On("stopTheMutator", On("stopThePeriphery", On("setPhase", {T}))))
          /\ todo' \in [Actor -> Seq(Label)]
          /\ \A b \in Actor : b # a => todo'[b] = todo[b]
          /\ \A L : Has(todo'[a], L) <=> "waitWhileNeedFinalize" \in L \/ "stopTheMutator" \in L
                        \/ "stopThePeriphery" \in L \/ "setPhase" \in L \/ Has(T, L)
      BY <1>2, <2>0, StoppingCalls
    <2>2. \A L \in SUBSET SideLabels : Has(todo'[a], L) <=> Has(T, L)
      BY <2>1 DEF SideLabels, WaitLabels
    <2>3. todo'[a] \in On("waitWhileNeedFinalize", S) /\ ~At(a, "acquireAccess")' /\ ~At(a, "stopped")'
      BY <1>2, <2>1 DEF Setting, On, At
    <2>4. Halfway'
      BY <1>2, <1>3, <1>10 DEF Change, Suspended, phases, Halfway
    <2>5. CollectorIn'
      <3>1. todo'[Collector] \in On("waitWhileNeedFinalize", On("stopTheMutator",
                                     On("stopThePeriphery", Setting(On("poll", Empty)))))
        BY <1>10, <2>3 DEF Rest, Mutator, Collector
      <3>2. ("conn" \notin world /\ (believes => "stopped" \in world))'
        BY <1>6, <1>10 DEF Leads, Mutator, Collector
      <3> QED
        BY <2>4, <3>1, <3>2 DEF CollectorIn
    <2>6. OneDrives'
      BY <1>1, <1>10, <2>1, <2>5, StaysIn DEF In, Mutator, Collector
    <2> QED
      BY <1>7, <2>1, <2>2, <2>3, <2>6
  <1>11. CASE /\ ~(Suspended(cur) = Suspended(next)) /\ ~Suspended(cur) /\ a = Mutator
              /\ todo' = Then(a, <<"handleNeedFinalize">> \o <<"stopThePeriphery", "setPhase">>)
    <2>0. todo' = Then(a, <<"handleNeedFinalize", "stopThePeriphery", "setPhase">>)
      <3>1. \A x, y, z \in Label : <<x>> \o <<y, z>> = <<x, y, z>>
        BY FourCalls
      <3>2. <<"handleNeedFinalize">> \o <<"stopThePeriphery", "setPhase">>
              = <<"handleNeedFinalize", "stopThePeriphery", "setPhase">>
        BY <1>4, <3>1
      <3> QED
        BY <1>11, <3>2
    <2>1. /\ todo'[a] \in On("handleNeedFinalize", On("stopThePeriphery", On("setPhase", {T})))
          /\ todo' \in [Actor -> Seq(Label)]
          /\ \A b \in Actor : b # a => todo'[b] = todo[b]
          /\ \A L : Has(todo'[a], L) <=> "handleNeedFinalize" \in L
                        \/ "stopThePeriphery" \in L \/ "setPhase" \in L \/ Has(T, L)
      BY <1>2, <1>4, <2>0, ThenThree
    <2>2. \A L \in SUBSET SideLabels : Has(todo'[a], L) <=> Has(T, L)
      BY <2>1 DEF SideLabels, WaitLabels
    <2>3. todo'[a] \in On("handleNeedFinalize", On("stopThePeriphery", Setting(Rest(a))))
          /\ ~At(a, "acquireAccess")' /\ ~At(a, "stopped")'
      BY <1>2, <2>1 DEF Setting, On, At
    <2>4. Halfway'
      BY <1>2, <1>3, <1>11 DEF Change, Suspended, phases, Halfway
    <2>5. MutatorIn'
      <3>1. todo'[Mutator] \in Loop("handleNeedFinalize", On("stopThePeriphery", Setting(MutatorRest)))
        BY <1>11, <2>3 DEF Rest, Loop
      <3> QED
        BY <1>6, <1>11, <2>4, <3>1 DEF MutatorIn, Leads
    <2>6. OneDrives'
      BY <1>1, <1>11, <2>1, <2>5, StaysIn DEF In
    <2> QED
      BY <1>7, <2>1, <2>2, <2>3, <2>6
  <1>12. Suspended(cur) \in BOOLEAN /\ Suspended(next) \in BOOLEAN
    BY DEF Suspended
  <1> QED
    BY <1>8, <1>9, <1>10, <1>11, <1>12 DEF FinishChangingPhase, Actor, Mutator, Collector

\* The calls that are made in and outside collections.
LEMMA UnparkAllIn ==
  ASSUME IInv, NEW a \in Actor, UnparkAll(a), In(a), OtherOut(a)
  PROVE  IInv'
  <1> DEFINE T == Tail(todo[a])
             h == "handleNeedFinalize"
  <1>0. "unparkAll" \in InLabels /\ At(a, "unparkAll") /\ Leads(a)
    BY DEF InLabels, UnparkAll, Enter, In, Leads, MutatorIn, CollectorIn
  <1>1. todo[a] \in Seq(Label) /\ todo[a] # <<>> /\ Head(todo[a]) = "unparkAll"
    BY <1>0 DEF IInv, TypeOK, At
  <1>2. \A y, S, t : t \in On(y, S) <=> t \in Seq(Label) /\ t # <<>> /\ Head(t) = y /\ Tail(t) \in S
    BY DEF On
  <1>3. todo' = Then(a, <<>>) /\ UNCHANGED <<world, phases, tickets, shouldStop, ticket>>
    BY DEF UnparkAll, locals
  <1>4. /\ todo'[a] = T /\ todo' \in [Actor -> Seq(Label)]
        /\ \A b \in Actor : b # a => todo'[b] = todo[b]
        /\ \A L \in SUBSET SideLabels : Has(todo'[a], L) <=> Has(T, L)
    BY <1>1, <1>3, ThenNone
  <1>5. PhaseFacts' /\ TypeOK /\ Leads(a)'
    BY <1>0, <1>3 DEF IInv, PhaseFacts, phases, tickets, Leads
  <1>6. ASSUME OneDrives', ~At(a, "acquireAccess")', ~At(a, "stopped")' PROVE IInv'
    BY <1>0, <1>3, <1>4, <1>5, <1>6, QuietStep DEF TypeOK, phases
  <1>7. CASE /\ cur = "End" /\ next = "End" /\ ~scope /\ believes
             /\ \/ T \in Ending(Rest(a)) /\ "finalize" \notin world
                \/ T \in On("endPhase", Rest(a))
    <2>1. (cur = "End" /\ next = "End" /\ ~scope /\ believes)'
      BY <1>3, <1>7 DEF phases
    <2>2. InPhase(a, Rest(a))'
      BY <1>3, <1>4, <1>7, <2>1 DEF InPhase, Rest
    <2>3. OneDrives'
      BY <1>4, <1>5, <2>2, GoesOn
    <2>4. ~At(a, "acquireAccess")' /\ ~At(a, "stopped")'
      BY <1>4, <1>7 DEF Ending, On, At
    <2> QED
      BY <1>6, <2>3, <2>4
  <1>8. CASE a = Collector /\ T \in Setting(Rest(a)) /\ Resumes /\ ~believes
    <2>1. (Change(cur, next) /\ (believes <=> Suspended(next)))'
      BY <1>3, <1>8 DEF Resumes, Change, Suspended, phases
    <2>2. ("finalize" \in world => next = "NotRunning")'
      BY <1>3, <1>8 DEF Resumes, Change, Suspended, phases, IInv, PhaseFacts
    <2>3. InPhase(a, Rest(a))'
      BY <1>4, <1>8, <2>1, <2>2 DEF InPhase, Rest
    <2>4. OneDrives'
      BY <1>4, <1>5, <2>3, GoesOn
    <2>5. ~At(a, "acquireAccess")' /\ ~At(a, "stopped")'
      BY <1>4, <1>8 DEF Setting, On, At
    <2> QED
      BY <1>6, <2>4, <2>5
  <1>9. CASE /\ a = Mutator
             /\ \/ T \in On(h, On("stopThePeriphery", Setting(MutatorRest))) /\ Halfway
                \/ T \in On(h, Setting(MutatorRest)) /\ Resumes /\ ~believes
    <2>1. /\ Halfway => Halfway'
          /\ Resumes /\ ~believes => (Resumes /\ ~believes)'
      BY <1>3 DEF Halfway, Resumes, Change, Suspended, phases
    <2>2. \/ todo'[Mutator] \in Loop(h, On("stopThePeriphery", Setting(MutatorRest))) /\ Halfway'
          \/ todo'[Mutator] \in Loop(h, Setting(MutatorRest)) /\ (Resumes /\ ~believes)'
      BY <1>4, <1>9, <2>1 DEF Loop
    <2>3. MutatorIn'
      BY <1>5, <1>9, <2>2 DEF MutatorIn, Leads
    <2>4. OneDrives'
      BY <1>4, <1>9, <2>3, StaysIn DEF In
    <2>5. ~At(a, "acquireAccess")' /\ ~At(a, "stopped")'
      BY <1>4, <1>9 DEF On, At
    <2> QED
      BY <1>6, <2>4, <2>5
  <1>10. CASE a = Mutator
    BY <1>1, <1>2, <1>7, <1>9, <1>10 DEF In, MutatorIn, InPhase, Rest, Setting, Ending, Loop
  <1>11. CASE a = Collector
    BY <1>1, <1>2, <1>7, <1>8, <1>11 DEF In, CollectorIn, InPhase, Rest, Setting, Ending, Mutator, Collector
  <1> QED
    BY <1>10, <1>11 DEF Actor

\* The mutator finalizes as part of a change of phase.
LEMMA FinalizeIn ==
  ASSUME IInv, Finalize, MutatorIn, todo[Collector] \in CollectorOut
  PROVE  IInv'
  <1> DEFINE T == Tail(todo[Mutator])
             h == "handleNeedFinalize"
  <1>0. "finalize" \in InLabels /\ At(Mutator, "finalize") /\ Mutator \in Actor /\ In(Mutator) /\ OtherOut(Mutator)
    BY DEF InLabels, Finalize, Enter, Actor, In, OtherOut
  <1>1. todo[Mutator] \in Seq(Label) /\ todo[Mutator] # <<>> /\ Head(todo[Mutator]) = "finalize"
    BY <1>0 DEF IInv, TypeOK, At
  <1>2. \A y, S, t : t \in On(y, S) <=> t \in Seq(Label) /\ t # <<>> /\ Head(t) = y /\ Tail(t) \in S
    BY DEF On
  <1>3. todo' = Then(Mutator, <<>>) /\ UNCHANGED <<world, phases, tickets, shouldStop, ticket>>
    BY DEF Finalize, locals
  <1>4. /\ todo'[Mutator] = T /\ todo' \in [Actor -> Seq(Label)]
        /\ \A b \in Actor : b # Mutator => todo'[b] = todo[b]
        /\ \A L \in SUBSET SideLabels : Has(todo'[Mutator], L) <=> Has(T, L)
    BY <1>0, <1>1, <1>3, ThenNone
  <1>5. PhaseFacts' /\ TypeOK
    BY <1>3 DEF IInv, PhaseFacts, phases, tickets
  <1>6. \/ T \in On("unparkAll", On(h, On("stopThePeriphery", Setting(MutatorRest)))) /\ Halfway
        \/ T \in On("unparkAll", On(h, Setting(MutatorRest))) /\ Resumes /\ ~believes
    BY <1>1, <1>2 DEF MutatorIn, InPhase, Setting, Ending, Loop
  <1>7. \/ todo'[Mutator] \in Loop(h, On("stopThePeriphery", Setting(MutatorRest))) /\ Halfway'
        \/ todo'[Mutator] \in Loop(h, Setting(MutatorRest)) /\ (Resumes /\ ~believes)'
    <2>1. /\ Halfway => Halfway'
          /\ Resumes /\ ~believes => (Resumes /\ ~believes)'
      BY <1>3 DEF Halfway, Resumes, Change, Suspended, phases
    <2> QED
      BY <1>4, <1>6, <2>1 DEF Loop
  <1>8. MutatorIn'
    BY <1>3, <1>7 DEF MutatorIn, phases
  <1>9. OneDrives'
    BY <1>0, <1>4, <1>8, StaysIn DEF In
  <1>10. ~At(Mutator, "acquireAccess")' /\ ~At(Mutator, "stopped")'
    BY <1>4, <1>6 DEF On, At
  <1> QED
    BY <1>0, <1>3, <1>4, <1>5, <1>9, <1>10, QuietStep DEF TypeOK, phases

\* handleNeedFinalize() as part of a change of phase by the mutator.
LEMMA HandleNeedFinalizeIn ==
  ASSUME IInv, HandleNeedFinalize, MutatorIn, todo[Collector] \in CollectorOut
  PROVE  IInv'
  <1> DEFINE T == Tail(todo[Mutator])
             h == "handleNeedFinalize"
  <1>0. h \in InLabels /\ At(Mutator, h) /\ Mutator \in Actor /\ In(Mutator) /\ OtherOut(Mutator)
    BY DEF InLabels, HandleNeedFinalize, Enter, Actor, In, OtherOut
  <1>1. todo[Mutator] \in Seq(Label) /\ todo[Mutator] # <<>> /\ Head(todo[Mutator]) = h
    BY <1>0 DEF IInv, TypeOK, At
  <1>2. \A y, S, t : t \in On(y, S) <=> t \in Seq(Label) /\ t # <<>> /\ Head(t) = y /\ Tail(t) \in S
    BY DEF On
  <1>3. world' = world \ {"finalize"} /\ UNCHANGED <<phases, tickets, shouldStop, ticket>>
    BY DEF HandleNeedFinalize, locals
  <1>4. PhaseFacts' /\ "conn" \in world' /\ "finalize" \notin world'
    BY <1>3 DEF IInv, PhaseFacts, phases, tickets, MutatorIn
  <1>5. /\ world' \subseteq Bits /\ cur' \in PhaseName /\ next' \in PhaseName
        /\ believes' \in BOOLEAN /\ scope' \in BOOLEAN
        /\ requests' \in Nat /\ served' \in Nat /\ served <= served' /\ granted' = served' + requests'
        /\ UNCHANGED <<granted, ticket, shouldStop>>
    BY <1>3 DEF IInv, TypeOK, TicketFacts, phases, tickets
  <1>6. /\ "access" \in world' <=> "access" \in world
        /\ "conn" \in world' => "access" \in world'
        /\ "stopped" \in world' => "access" \notin world'
        /\ "waiting" \in world' => "waiting" \in world
    BY <1>3 DEF IInv, WorldFacts
  <1>7. \/ T \in On("stopThePeriphery", Setting(MutatorRest)) /\ Halfway
        \/ T \in Setting(MutatorRest) /\ Resumes /\ ~believes
    BY <1>1, <1>2 DEF MutatorIn, InPhase, Setting, Ending, Loop
  <1>8. /\ Halfway => Halfway'
        /\ Resumes /\ ~believes => (Resumes /\ ~believes)'
    BY <1>3 DEF Halfway, Resumes, Change, Suspended, phases
  <1>9. CASE todo' = Then(Mutator, <<>>)
    <2>1. /\ todo'[Mutator] = T /\ todo' \in [Actor -> Seq(Label)]
        /\ \A b \in Actor : b # Mutator => todo'[b] = todo[b]
        /\ \A L \in SUBSET SideLabels : Has(todo'[Mutator], L) <=> Has(T, L)
      BY <1>0, <1>1, <1>9, ThenNone
    <2>2. InPhase(Mutator, MutatorRest)'
      <3>1. Resumes /\ ~believes => (Change(cur, next) /\ (believes <=> Suspended(next)))'
        BY <1>8 DEF Resumes
      <3> QED
        BY <1>4, <1>7, <1>8, <2>1, <3>1 DEF InPhase, Mutator, Collector
    <2>3. MutatorIn'
      BY <1>4, <2>2 DEF MutatorIn
    <2>4. OneDrives'
      BY <1>0, <2>1, <2>3, StaysIn DEF In
    <2>5. ~At(Mutator, "acquireAccess")'
      BY <1>7, <2>1 DEF Setting, On, At
    <2> QED
      BY <1>0, <1>4, <1>5, <1>6, <2>1, <2>4, <2>5, PhaseStep
  <1>10. CASE todo' = Then(Mutator, <<"finalize", "unparkAll", h>>)
    <2>0. "finalize" \in Label /\ "unparkAll" \in Label /\ h \in Label
      BY DEF Label
    <2>1. /\ todo'[Mutator] \in On("finalize", On("unparkAll", On(h, {T}))) /\ todo' \in [Actor -> Seq(Label)]
          /\ \A b \in Actor : b # Mutator => todo'[b] = todo[b]
          /\ \A L : Has(todo'[Mutator], L) <=> "finalize" \in L \/ "unparkAll" \in L \/ h \in L \/ Has(T, L)
      BY <1>0, <1>1, <1>10, <2>0, ThenThree
    <2>2. \A L \in SUBSET SideLabels : Has(todo'[Mutator], L) <=> Has(T, L)
      BY <2>1 DEF SideLabels, WaitLabels
    <2>3. \/ todo'[Mutator] \in Loop(h, On("stopThePeriphery", Setting(MutatorRest))) /\ Halfway'
          \/ todo'[Mutator] \in Loop(h, Setting(MutatorRest)) /\ (Resumes /\ ~believes)'
      <3>1. ASSUME NEW X, T \in X PROVE todo'[Mutator] \in Loop(h, X)
        BY <2>1, <3>1 DEF Loop, On
      <3> QED
        BY <1>7, <1>8, <3>1
    <2>4. MutatorIn'
      BY <1>4, <2>3 DEF MutatorIn
    <2>5. OneDrives'
      BY <1>0, <2>1, <2>4, StaysIn DEF In
    <2>6. ~At(Mutator, "acquireAccess")'
      BY <2>1 DEF On, At
    <2> QED
      BY <1>0, <1>4, <1>5, <1>6, <2>1, <2>2, <2>5, <2>6, PhaseStep
  <1> QED
    BY <1>9, <1>10 DEF HandleNeedFinalize

-----------------------------------------------------------------------------
(* The collector thread. *)

\* A step of the collector thread outside collections.
LEMMA CollectorOutStep ==
  ASSUME IInv, todo[Collector] \in CollectorOut, todo'[Collector] \in CollectorOut,
         todo' \in [Actor -> Seq(Label)], todo'[Mutator] = todo[Mutator],
         UNCHANGED <<phases, tickets, shouldStop, ticket>>,
         world' \in {world, world \ {"waiting"}}, At(Collector, "stopped")' => shouldStop
  PROVE  IInv'
  <1>1. TypeOK'
    BY DEF IInv, TypeOK, phases, tickets
  <1>2. PhaseFacts'
    BY DEF IInv, PhaseFacts, phases, tickets
  <1>3. OneDrives'
    <2>1. ~CollectorIn
      BY DEF CollectorIn, CollectorOut, InPhase, Running, Setting, Ending, On, Empty
    <2>2. CASE todo[Mutator] \in MutatorOut /\ NobodyIn
      <3>1. NobodyIn'
        BY <2>2 DEF NobodyIn, phases, Halfway, Change, Suspended
      <3> QED
        BY <2>2, <3>1 DEF OneDrives
    <2>3. CASE MutatorIn
      <3>1. MutatorIn'
        BY <2>3 DEF MutatorIn, InPhase, phases, Halfway, Settled, Resumes, Change, Suspended, Mutator, Collector
      <3> QED
        BY <3>1 DEF OneDrives
    <2> QED
      BY <2>1, <2>2, <2>3 DEF IInv, OneDrives
  <1>4. WorldFacts' /\ TicketFacts'
    <2>1. \A L \in SUBSET SideLabels : Has(todo'[Mutator], L) <=> Has(todo[Mutator], L)
      OBVIOUS
    <2> QED
      BY <1>1, <2>1, SideKeeps DEF IInv, TypeOK, TicketFacts, WorldFacts, tickets
  <1>5. ClientFacts'
    BY DEF IInv, ClientFacts, At
  <1> QED
    BY <1>1, <1>2, <1>3, <1>4, <1>5 DEF IInv

\* The collector thread at a call, and what follows it outside collections.
LEMMA CollectorHead ==
  ASSUME IInv, NEW l, At(Collector, l)
  PROVE  /\ todo[Collector] \in Seq(Label) /\ todo[Collector] # <<>> /\ Head(todo[Collector]) = l
         /\ l \notin InLabels => todo[Collector] \in CollectorOut
         /\ todo[Collector] \in CollectorOut => Tail(todo[Collector]) \in Empty \cup On("poll", Empty)
         /\ todo[Collector] \in CollectorOut /\ l # "unparkAll" => Tail(todo[Collector]) = <<>>
         /\ todo[Collector] \in CollectorOut /\ l = "unparkAll" => Tail(todo[Collector]) \in On("poll", Empty)
  <1>1. todo[Collector] \in Seq(Label) /\ todo[Collector] # <<>> /\ Head(todo[Collector]) = l
    BY DEF IInv, TypeOK, At, Actor
  <1>2. l \notin InLabels => todo[Collector] \in CollectorOut
    BY <1>1, InHeads DEF IInv, OneDrives
  <1> QED
    BY <1>1, <1>2 DEF CollectorOut, On, Empty

\* ParkingLot::unparkAll() by the collector thread outside collections.
LEMMA UnparkAllCollectorOut ==
  ASSUME IInv, UnparkAll(Collector), todo[Collector] \in CollectorOut
  PROVE  IInv'
  <1> DEFINE T == Tail(todo[Collector])
  <1>0. Mutator \in Actor /\ Collector \in Actor /\ Mutator # Collector
    BY DEF Actor, Mutator, Collector
  <1>1. todo[Collector] # <<>> /\ T \in On("poll", Empty)
    BY CollectorHead DEF UnparkAll, Enter
  <1>2. todo' = Then(Collector, <<>>) /\ UNCHANGED <<world, phases, tickets, shouldStop, ticket>>
    BY DEF UnparkAll, locals
  <1>3. todo'[Collector] = T /\ todo' \in [Actor -> Seq(Label)] /\ todo'[Mutator] = todo[Mutator]
    BY <1>0, <1>1, <1>2, ThenNone
  <1>4. todo'[Collector] \in CollectorOut /\ ~At(Collector, "stopped")'
    BY <1>1, <1>3 DEF CollectorOut, On, At
  <1> QED
    BY <1>2, <1>3, <1>4, CollectorOutStep

\* The collector thread has been idle for too long.
LEMMA IdleTimeoutKeeps ==
  ASSUME IInv, IdleTimeout
  PROVE  IInv'
  <1> DEFINE T == Tail(todo[Collector])
  <1>0. Mutator \in Actor /\ Collector \in Actor /\ Mutator # Collector
    BY DEF Actor, Mutator, Collector
  <1>1. todo[Collector] \in CollectorOut /\ todo[Collector] # <<>> /\ T = <<>>
    BY CollectorHead DEF IdleTimeout, Enter, InLabels
  <1>2. /\ "none" \in Label /\ todo' = Then(Collector, <<"none">>)
        /\ UNCHANGED <<world, phases, tickets, shouldStop, ticket>>
    BY DEF IdleTimeout, locals, Label
  <1>3. /\ todo'[Collector] \in On("none", {T}) /\ todo' \in [Actor -> Seq(Label)] /\ todo'[Mutator] = todo[Mutator]
    BY <1>0, <1>1, <1>2, ThenOne
  <1>4. todo'[Collector] \in CollectorOut /\ ~At(Collector, "stopped")'
    BY <1>1, <1>3 DEF CollectorOut, On, At, Empty
  <1> QED
    BY <1>1, <1>2, <1>3, <1>4, CollectorOutStep

\* The collector thread is told to stop, goes to sleep, or starts or goes on
\* with a collection.
LEMMA PollKeeps ==
  ASSUME IInv, Poll
  PROVE  IInv'
  <1> DEFINE T == Tail(todo[Collector])
  <1>0. Mutator \in Actor /\ Collector \in Actor /\ Mutator # Collector
    BY DEF Actor, Mutator, Collector
  <1>1. todo[Collector] \in CollectorOut /\ todo[Collector] # <<>> /\ T = <<>>
    BY CollectorHead DEF Poll, Enter, InLabels
  <1>2. UNCHANGED <<phases, tickets, shouldStop, ticket>>
    BY DEF Poll, locals
  <1>3. "stopped" \in Label /\ "asleep" \in Label /\ "runCurrentPhase" \in Label /\ "poll" \in Label
    BY DEF Label
  <1>4. CASE shouldStop /\ world' = world \ {"waiting"} /\ todo' = Then(Collector, <<"stopped">>)
    <2>1. /\ todo'[Collector] \in On("stopped", {T}) /\ todo' \in [Actor -> Seq(Label)] /\ todo'[Mutator] = todo[Mutator]
      BY <1>0, <1>1, <1>3, <1>4, ThenOne
    <2>2. todo'[Collector] \in CollectorOut
      BY <1>1, <2>1 DEF CollectorOut, On, Empty
    <2> QED
      BY <1>1, <1>2, <1>4, <2>1, <2>2, CollectorOutStep
  <1>5. CASE UNCHANGED world /\ todo' = Then(Collector, <<"asleep">>)
    <2>1. /\ todo'[Collector] \in On("asleep", {T}) /\ todo' \in [Actor -> Seq(Label)] /\ todo'[Mutator] = todo[Mutator]
      BY <1>0, <1>1, <1>3, <1>5, ThenOne
    <2>2. todo'[Collector] \in CollectorOut /\ ~At(Collector, "stopped")'
      BY <1>1, <2>1 DEF CollectorOut, On, At, Empty
    <2> QED
      BY <1>1, <1>2, <1>5, <2>1, <2>2, CollectorOutStep
  <1>6. CASE /\ UNCHANGED world /\ "conn" \notin world
             /\ todo' = Then(Collector, <<"runCurrentPhase", "poll">>)
    <2>1. /\ todo'[Collector] \in On("runCurrentPhase", On("poll", {T})) /\ todo' \in [Actor -> Seq(Label)]
          /\ todo'[Mutator] = todo[Mutator]
      BY <1>0, <1>1, <1>3, <1>6, ThenTwo
    <2>2. todo'[Collector] \in On("runCurrentPhase", On("poll", Empty)) /\ ~At(Collector, "stopped")'
      BY <1>1, <2>1 DEF On, At, Empty
    <2>3. todo[Mutator] \in MutatorOut /\ NobodyIn
      <3>1. ~CollectorIn
        BY <1>1 DEF CollectorIn, CollectorOut, InPhase, Running, Setting, Ending, On, Empty
      <3>2. ~MutatorIn
        BY <1>6 DEF MutatorIn
      <3> QED
        BY <3>1, <3>2 DEF IInv, OneDrives
    <2>4. (Settled \/ Halfway)' /\ ~believes'
      BY <1>2, <2>3 DEF NobodyIn, Settled, Halfway, Change, phases, Suspended, IInv, TypeOK
    <2>5. InPhase(Collector, On("poll", Empty))'
      BY <2>2, <2>4 DEF InPhase
    <2>6. CollectorIn'
      BY <1>6, <2>4, <2>5 DEF CollectorIn
    <2>7. OneDrives'
      BY <2>1, <2>3, <2>6 DEF OneDrives
    <2>8. TypeOK' /\ PhaseFacts'
      BY <1>2, <1>6, <2>1 DEF IInv, TypeOK, PhaseFacts, phases, tickets
    <2>9. WorldFacts' /\ TicketFacts'
      <3>1. \A L \in SUBSET SideLabels : Has(todo'[Mutator], L) <=> Has(todo[Mutator], L)
        BY <2>1
      <3> QED
        BY <1>2, <1>6, <2>8, <3>1, SideKeeps DEF IInv, TypeOK, TicketFacts, WorldFacts, tickets
    <2>10. ClientFacts'
      BY <1>2, <1>6, <2>1, <2>2 DEF IInv, ClientFacts, At
    <2> QED
      BY <2>7, <2>8, <2>9, <2>10 DEF IInv
  <1> QED
    BY <1>4, <1>5, <1>6 DEF Poll, ShouldCollectInCollectorThread

\* Where the collector thread is when it stops or resumes the mutator.
LEMMA CollectorPosition ==
  ASSUME IInv, NEW x \in {"waitWhileNeedFinalize", "stopTheMutator", "resumeTheMutator"}, At(Collector, x)
  PROVE  /\ todo[Collector] # <<>> /\ CollectorIn /\ todo[Mutator] \in MutatorOut
         /\ "conn" \notin world /\ (believes => "stopped" \in world)
         /\ x = "waitWhileNeedFinalize" =>
              /\ Tail(todo[Collector]) \in On("stopTheMutator", On("stopThePeriphery", Setting(On("poll", Empty))))
              /\ Halfway
         /\ x = "stopTheMutator" =>
              /\ Tail(todo[Collector]) \in On("stopThePeriphery", Setting(On("poll", Empty)))
              /\ Halfway /\ "finalize" \notin world
         /\ x = "resumeTheMutator" =>
              Tail(todo[Collector]) \in Setting(On("poll", Empty)) /\ Resumes /\ ~believes /\ "stopped" \in world
  <1>0. Mutator \in Actor /\ Collector \in Actor /\ Mutator # Collector
    BY DEF Actor, Mutator, Collector
  <1>1. x \in OnlyIn
    BY DEF OnlyIn, InLabels
  <1>2. CollectorIn /\ todo[Mutator] \in MutatorOut
    BY <1>0, <1>1, Leading DEF In, OtherOut
  <1>3. todo[Collector] \in Seq(Label) /\ todo[Collector] # <<>> /\ Head(todo[Collector]) = x
    BY <1>0 DEF IInv, TypeOK, At
  <1>4. \A y, S, t : t \in On(y, S) <=> t \in Seq(Label) /\ t # <<>> /\ Head(t) = y /\ Tail(t) \in S
    BY DEF On
  <1> QED
    BY <1>2, <1>3, <1>4 DEF CollectorIn, InPhase, Setting, Ending

\* waitWhileNeedFinalize(): the mutator has finalized what ended before.
LEMMA WaitWhileNeedFinalizeKeeps ==
  ASSUME IInv, WaitWhileNeedFinalize
  PROVE  IInv'
  <1> DEFINE T == Tail(todo[Collector])
             x == "waitWhileNeedFinalize"
  <1>0. Mutator \in Actor /\ Collector \in Actor /\ Mutator # Collector /\ x \in InLabels /\ At(Collector, x)
    BY DEF Actor, Mutator, Collector, InLabels, WaitWhileNeedFinalize, Enter
  <1>1. UNCHANGED <<world, phases, tickets, shouldStop, ticket>>
    BY DEF WaitWhileNeedFinalize, locals
  <1>2. CASE UNCHANGED todo
    BY <1>1, <1>2, ParkedKeeps
  <1>3. CASE "finalize" \notin world /\ todo' = Then(Collector, <<>>)
    <2>1. /\ todo[Collector] # <<>> /\ CollectorIn /\ todo[Mutator] \in MutatorOut
          /\ "conn" \notin world /\ (believes => "stopped" \in world)
          /\ T \in On("stopTheMutator", On("stopThePeriphery", Setting(On("poll", Empty)))) /\ Halfway
      BY <1>0, CollectorPosition
    <2>2. /\ todo'[Collector] = T /\ todo' \in [Actor -> Seq(Label)]
          /\ \A b \in Actor : b # Collector => todo'[b] = todo[b]
          /\ \A L \in SUBSET SideLabels : Has(todo'[Collector], L) <=> Has(T, L)
      BY <1>0, <1>3, <2>1, ThenNone
    <2>3. Halfway'
      BY <1>1, <2>1 DEF Halfway, Change, Suspended, phases
    <2>4. CollectorIn'
      BY <1>1, <1>3, <2>1, <2>2, <2>3 DEF CollectorIn, phases
    <2>5. OneDrives'
      BY <1>0, <2>1, <2>2, <2>4 DEF OneDrives
    <2>6. ~At(Collector, "acquireAccess")' /\ ~At(Collector, "stopped")'
      BY <2>1, <2>2 DEF On, At
    <2>7. PhaseFacts' /\ TypeOK /\ In(Collector)
      BY <1>0, <1>1, <2>1 DEF IInv, PhaseFacts, phases, tickets, In
    <2> QED
      BY <1>0, <1>1, <2>2, <2>5, <2>6, <2>7, QuietStep DEF TypeOK, phases
  <1> QED
    BY <1>2, <1>3 DEF WaitWhileNeedFinalize

\* stopTheMutator() sets the stopped bit, or gives the mutator the conn.
LEMMA StopTheMutatorKeeps ==
  ASSUME IInv, StopTheMutator
  PROVE  IInv'
  <1> DEFINE T == Tail(todo[Collector])
             x == "stopTheMutator"
  <1>0. Mutator \in Actor /\ Collector \in Actor /\ Mutator # Collector /\ x \in InLabels /\ At(Collector, x)
    BY DEF Actor, Mutator, Collector, InLabels, StopTheMutator, Enter
  <1>1. UNCHANGED <<phases, tickets, shouldStop, ticket>>
    BY DEF StopTheMutator, locals
  <1>2. /\ todo[Collector] # <<>> /\ CollectorIn /\ todo[Mutator] \in MutatorOut
        /\ "conn" \notin world /\ (believes => "stopped" \in world)
        /\ T \in On("stopThePeriphery", Setting(On("poll", Empty))) /\ Halfway /\ "finalize" \notin world
    BY <1>0, CollectorPosition
  <1>3. Halfway' /\ In(Collector) /\ WorldFacts
    BY <1>0, <1>1, <1>2 DEF Halfway, Change, Suspended, phases, In, IInv
  <1>4. CASE /\ "access" \notin world /\ world' = world \cup {"stopped"}
             /\ todo' = Then(Collector, <<>>)
    <2>2. /\ todo'[Collector] = T /\ todo' \in [Actor -> Seq(Label)]
          /\ \A b \in Actor : b # Collector => todo'[b] = todo[b]
          /\ \A L \in SUBSET SideLabels : Has(todo'[Collector], L) <=> Has(T, L)
      BY <1>0, <1>2, <1>4, ThenNone
    <2>3. InPhase(Collector, On("poll", Empty))'
      BY <1>2, <1>3, <1>4, <2>2 DEF InPhase
    <2>4. CollectorIn'
      BY <1>2, <1>4, <2>3 DEF CollectorIn
    <2>5. OneDrives'
      BY <1>0, <1>2, <2>2, <2>4 DEF OneDrives
    <2>6. ~At(Collector, "stopped")'
      BY <1>2, <2>2 DEF On, At
    <2>7. PhaseFacts'
      BY <1>1, <1>2, <1>4 DEF IInv, PhaseFacts, phases, tickets
    <2>8. /\ world' \subseteq Bits /\ cur' \in PhaseName /\ next' \in PhaseName
          /\ believes' \in BOOLEAN /\ scope' \in BOOLEAN
          /\ requests' \in Nat /\ served' \in Nat /\ served <= served' /\ granted' = served' + requests'
          /\ UNCHANGED <<granted, ticket, shouldStop>>
      BY <1>1, <1>4 DEF IInv, TypeOK, TicketFacts, phases, tickets, Bits
    <2>9. /\ "access" \in world' <=> "access" \in world
          /\ "conn" \in world' => "access" \in world'
          /\ "stopped" \in world' => "access" \notin world'
          /\ "waiting" \in world' => "waiting" \in world
      BY <1>2, <1>4
    <2> QED
      BY <1>0, <1>3, <2>2, <2>5, <2>6, <2>7, <2>8, <2>9, PhaseStep
  <1>5. CASE /\ "access" \in world /\ world' = (world \cup {"conn"}) \ {"waiting"}
             /\ todo' = [todo EXCEPT ![Collector] = <<"unparkAll", "poll">>]
    <2>1. "unparkAll" \in Label /\ "poll" \in Label
      BY DEF Label
    <2>2. <<"unparkAll", "poll">> \in On("unparkAll", On("poll", Empty)) /\ <<"unparkAll", "poll">> \in Seq(Label)
      BY <2>1, CallIs
    <2>3. /\ todo'[Collector] \in On("unparkAll", On("poll", Empty)) /\ todo' \in [Actor -> Seq(Label)]
          /\ todo'[Mutator] = todo[Mutator]
      BY <1>0, <1>5, <2>2 DEF IInv, TypeOK
    <2>4. todo'[Collector] \in CollectorOut /\ ~At(Collector, "stopped")'
      BY <2>3 DEF CollectorOut, On, At
    <2>5. NobodyIn'
      BY <1>1, <1>2, <1>3, <1>5 DEF NobodyIn, Halfway, phases
    <2>6. OneDrives'
      BY <1>2, <2>3, <2>4, <2>5 DEF OneDrives
    <2>7. PhaseFacts'
      BY <1>1, <1>2, <1>5 DEF IInv, PhaseFacts, phases, tickets
    <2>8. TypeOK'
      BY <1>1, <1>5, <2>3 DEF IInv, TypeOK, phases, tickets, Bits
    <2>9. WorldFacts' /\ TicketFacts'
      <3>1. \A L \in SUBSET SideLabels : Has(todo'[Mutator], L) <=> Has(todo[Mutator], L)
        BY <2>3
      <3> QED
        BY <1>1, <1>3, <1>5, <2>8, <3>1, SideKeeps DEF IInv, TypeOK, TicketFacts, WorldFacts, tickets
    <2>10. ClientFacts'
      BY <1>1, <1>5, <2>3, <2>4 DEF IInv, ClientFacts, At
    <2> QED
      BY <2>6, <2>7, <2>8, <2>9, <2>10 DEF IInv
  <1>6. {"stopped", "access", "conn"} \cap world \in {{}, {"stopped"}} <=> "access" \notin world
    BY <1>2
  <1> QED
    BY <1>2, <1>4, <1>5, <1>6 DEF StopTheMutator

\* resumeTheMutator() clears the stopped bit.
LEMMA ResumeTheMutatorKeeps ==
  ASSUME IInv, ResumeTheMutator
  PROVE  IInv'
  <1> DEFINE T == Tail(todo[Collector])
             x == "resumeTheMutator"
  <1>0. Mutator \in Actor /\ Collector \in Actor /\ Mutator # Collector /\ x \in InLabels /\ At(Collector, x)
    BY DEF Actor, Mutator, Collector, InLabels, ResumeTheMutator, Enter
  <1>1. UNCHANGED <<phases, tickets, shouldStop, ticket>> /\ world' = world \ {"stopped"}
    BY DEF ResumeTheMutator, locals
  <1>2. /\ todo[Collector] # <<>> /\ CollectorIn /\ todo[Mutator] \in MutatorOut /\ "conn" \notin world
        /\ T \in Setting(On("poll", Empty)) /\ Resumes /\ ~believes /\ "stopped" \in world
    BY <1>0, CollectorPosition
  <1>3. todo' = Then(Collector, <<"unparkAll">>) /\ "unparkAll" \in Label
    BY <1>2 DEF ResumeTheMutator, Label
  <1>4. /\ todo'[Collector] \in On("unparkAll", {T}) /\ todo' \in [Actor -> Seq(Label)]
        /\ \A b \in Actor : b # Collector => todo'[b] = todo[b]
        /\ \A L : Has(todo'[Collector], L) <=> "unparkAll" \in L \/ Has(T, L)
    BY <1>0, <1>2, <1>3, ThenOne
  <1>5. \A L \in SUBSET SideLabels : Has(todo'[Collector], L) <=> Has(T, L)
    BY <1>4 DEF SideLabels, WaitLabels
  <1>6. todo'[Collector] \in On("unparkAll", Setting(On("poll", Empty))) /\ ~At(Collector, "stopped")'
    <2>1. ASSUME NEW X, T \in X PROVE todo'[Collector] \in On("unparkAll", X)
      BY <1>4, <2>1 DEF On
    <2> QED
      BY <1>2, <1>4, <2>1 DEF On, At
  <1>7. Resumes' /\ ~believes' /\ In(Collector)
    BY <1>0, <1>1, <1>2 DEF Resumes, Change, Suspended, phases, In
  <1>8. CollectorIn'
    BY <1>1, <1>2, <1>6, <1>7 DEF CollectorIn
  <1>9. OneDrives'
    BY <1>0, <1>2, <1>4, <1>8 DEF OneDrives
  <1>10. PhaseFacts'
    BY <1>1 DEF IInv, PhaseFacts, phases, tickets
  <1>11. /\ world' \subseteq Bits /\ cur' \in PhaseName /\ next' \in PhaseName
         /\ believes' \in BOOLEAN /\ scope' \in BOOLEAN
         /\ requests' \in Nat /\ served' \in Nat /\ served <= served' /\ granted' = served' + requests'
         /\ UNCHANGED <<granted, ticket, shouldStop>>
    BY <1>1 DEF IInv, TypeOK, TicketFacts, phases, tickets, Bits
  <1>12. /\ "access" \in world' <=> "access" \in world
         /\ "conn" \in world' => "access" \in world'
         /\ "stopped" \in world' => "access" \notin world'
         /\ "waiting" \in world' => "waiting" \in world
    BY <1>1, <1>2
  <1> QED
    BY <1>0, <1>4, <1>5, <1>6, <1>7, <1>9, <1>10, <1>11, <1>12, PhaseStep

-----------------------------------------------------------------------------
(* The invariant holds, and what it says. *)

\* The heap as it is made.
LEMMA InitIInv == Init => IInv
  <1> SUFFICES ASSUME Init PROVE IInv
    OBVIOUS
  <1>0. Mutator \in Actor /\ Collector \in Actor /\ Mutator # Collector /\ "none" \in Label
    BY DEF Actor, Mutator, Collector, Label
  <1>1. todo[Mutator] = <<>> /\ todo[Collector] = <<"none">> /\ todo \in [Actor -> Seq(Label)]
    BY <1>0 DEF Init
  <1>2. todo[Collector] \in On("none", Empty)
    <2>1. \A x \in Label : <<x>> \in On(x, Empty)
      BY CallIs
    <2> QED
      BY <1>0, <1>1, <2>1
  <1>3. todo[Collector] \in CollectorOut /\ todo[Mutator] \in MutatorOut
    BY <1>1, <1>2 DEF CollectorOut, MutatorOut, AfterStop, Empty
  <1>4. NobodyIn
    BY DEF Init, NobodyIn, Suspended
  <1>5. TypeOK
    BY <1>1 DEF Init, TypeOK, PhaseName
  <1>6. \A L : ~Doing(Mutator, L)
    BY <1>1 DEF Doing
  <1>7. ~At(Mutator, "acquireAccess") /\ ~At(Collector, "stopped")
    BY <1>1, <1>2 DEF At, On
  <1>8. PhaseFacts /\ WorldFacts /\ TicketFacts /\ ClientFacts
    BY <1>1, <1>6, <1>7 DEF Init, PhaseFacts, WorldFacts, TicketFacts, ClientFacts, Empty
  <1> QED
    BY <1>3, <1>4, <1>5, <1>8 DEF IInv, OneDrives

\* Every step keeps the invariant, when no request falls into the window.
LEMMA NextIInv ==
  ASSUME ~WindowRequests, IInv, [Next]_vars
  PROVE  IInv'
  <1>0. Mutator \in Actor /\ Collector \in Actor /\ Mutator # Collector /\ Actor = {Mutator, Collector}
    BY DEF Actor, Mutator, Collector
  <1>1. CASE UNCHANGED vars
    BY <1>1, ParkedKeeps DEF vars, phases, tickets
  <1>2. \/ todo[Mutator] \in MutatorOut
        \/ MutatorIn /\ todo[Collector] \in CollectorOut
    BY DEF IInv, OneDrives
  <1>3. \/ todo[Collector] \in CollectorOut
        \/ CollectorIn /\ todo[Mutator] \in MutatorOut
    BY DEF IInv, OneDrives
  <1>4. ASSUME NEW a \in Actor, UnparkAll(a) PROVE IInv'
    <2>1. CASE a = Mutator
      BY <1>0, <1>2, <1>4, <2>1, UnparkAllOut, UnparkAllIn DEF In, OtherOut
    <2>2. CASE a = Collector
      BY <1>0, <1>3, <1>4, <2>2, UnparkAllCollectorOut, UnparkAllIn DEF In, OtherOut
    <2> QED
      BY <1>0, <2>1, <2>2
  <1>5. ASSUME NEW a \in Actor, Phase(a) PROVE IInv'
    BY <1>4, <1>5, RunCurrentPhaseKeeps, SetNeedFinalizeKeeps, EndPhaseKeeps, RunPhaseKeeps,
       FinishChangingPhaseKeeps, SetPhaseKeeps, StopThePeripheryKeeps, ResumeThePeripheryKeeps DEF Phase
  <1>6. CASE CollectorStep
    BY <1>0, <1>5, <1>6, PollKeeps, WaitWhileNeedFinalizeKeeps, StopTheMutatorKeeps, ResumeTheMutatorKeeps
       DEF CollectorStep
  <1>7. CASE HandleNeedFinalize
    BY <1>2, <1>7, HandleNeedFinalizeOut, HandleNeedFinalizeIn
  <1>8. CASE Finalize
    BY <1>2, <1>8, FinalizeOut, FinalizeIn
  <1>9. CASE MutatorStep
    BY <1>0, <1>5, <1>7, <1>8, <1>9, HandleGCDidJITOut, StopIfNecessaryOut, StopIfNecessarySlowKeeps,
       CheckNotStoppedOut, WaitForCollectorKeeps, WaitLoadStep, CompareAndParkKeeps, ClearMutatorWaitingKeeps,
       RelinquishConnOut, FinishRelinquishingConnOut, AcquireAccessKeeps, ReleaseAccessKeeps,
       RequestCollectionKeeps, StopThreadKeeps, JoinKeeps, PreventedKeeps DEF MutatorStep
  <1>10. CASE Client
    BY <1>10, ClientKeepsInv
  <1>11. CASE IdleTimeout
    BY <1>11, IdleTimeoutKeeps
  <1>12. CASE Destroyed
    BY <1>1, <1>12 DEF Destroyed
  <1> QED
    BY <1>1, <1>6, <1>9, <1>10, <1>11, <1>12 DEF Next

\* For any number of tickets, the inductive invariant holds of every reachable
\* state: at most one of the mutator and the collector thread is in the phases
\* of a collection, and m_worldState, the phases and the tickets are what that
\* one's place in collectInMutatorThread() or collectInCollectorThread() allows.
\* ~WindowRequests is the hypothesis that no request comes between the end of a
\* collection by the collector thread and that thread's next poll: a request
\* there takes the conn from under the collector thread, whose next check of it
\* in runCurrentPhase() then fails (ConnChecked is violated).
THEOREM HeapInvariance ==
  ASSUME ~WindowRequests
  PROVE  Spec => []IInv
  <1>1. Init => IInv
    BY InitIInv
  <1>2. IInv /\ [Next]_vars => IInv'
    BY NextIInv
  <1> QED
    BY <1>1, <1>2, PTL DEF Spec

\* The invariant has every assertion hold.
LEMMA InvAsserts ==
  ASSUME IInv
  PROVE  AssertionsHold
  <1>0. Mutator \in Actor /\ Collector \in Actor /\ Mutator # Collector /\ Actor = {Mutator, Collector}
    BY DEF Actor, Mutator, Collector
  <1>1. ConnChecked
    <2>1. ASSUME NEW a \in Actor, NEW x \in {"runCurrentPhase", "changePhase", "endPhase", "runPhase"}, At(a, x)
          PROVE ConnOf(a)
      <3>1. x \in OnlyIn
        BY DEF OnlyIn, InLabels
      <3>2. Leads(a)
        BY <2>1, <3>1, Leading
      <3> QED
        BY <1>0, <3>2 DEF Leads, ConnOf
    <2> QED
      BY <2>1 DEF ConnChecked
  <1>2. \A a \in Actor :
          /\ At(a, "runPhase") /\ cur = "Begin" => requests # 0 /\ ~scope
          /\ At(a, "resumeThePeriphery") => believes
          /\ At(a, "stopThePeriphery") => ~believes /\ (a = Collector => "stopped" \in world)
    <2>1. /\ "runPhase" \in OnlyIn /\ "resumeThePeriphery" \in OnlyIn /\ "stopThePeriphery" \in OnlyIn
      BY DEF OnlyIn, InLabels
    <2>2. ASSUME NEW a \in Actor, At(a, "runPhase"), cur = "Begin" PROVE requests # 0 /\ ~scope
      <3>1. Settled
        BY <2>1, <2>2, Position
      <3> QED
        BY <2>2, <3>1 DEF Settled, IInv, PhaseFacts
    <2>3. ASSUME NEW a \in Actor, At(a, "resumeThePeriphery") PROVE believes
      BY <2>1, <2>3, Position
    <2>4. ASSUME NEW a \in Actor, At(a, "stopThePeriphery")
          PROVE ~believes /\ (a = Collector => "stopped" \in world)
      <3>1. Halfway /\ (a = Collector => "stopped" \in world)
        BY <2>1, <2>4, Position
      <3> QED
        BY <3>1 DEF Halfway
    <2> QED
      BY <2>2, <2>3, <2>4
  <1>3. At(Collector, "stopTheMutator") =>
          /\ "stopped" \in world => {"access", "waiting", "conn"} \cap world = {}
          /\ "conn" \in world => {"access", "stopped"} \cap world = {}
          /\ "access" \notin world => {"conn", "waiting"} \cap world = {}
    <2>1. At(Collector, "stopTheMutator") => "conn" \notin world
      BY CollectorPosition
    <2> QED
      BY <2>1 DEF IInv, WorldFacts
  <1>4. At(Collector, "resumeTheMutator") =>
          (("access" \in world) <=> ("stopped" \notin world)) /\ "conn" \notin world
    <2>1. At(Collector, "resumeTheMutator") => "conn" \notin world /\ "stopped" \in world
      BY CollectorPosition
    <2> QED
      BY <2>1 DEF IInv, WorldFacts
  <1>5. ((requests = 0) <=> (served = granted)) /\ served <= granted
    BY DEF IInv, TypeOK, TicketFacts
  <1>6. (\E l \in {"stopIfNecessarySlow", "stopped?", "waitMore", "waitDone", "handleNeedFinalize",
                   "handleGCDidJIT", "releaseAccess", "relinquishConn"} : At(Mutator, l))
          => "access" \in world /\ "stopped" \notin world
    BY Accessing
  <1>7. At(Mutator, "acquireAccess") => "access" \notin world
    BY DEF IInv, ClientFacts
  <1>8. ASSUME NEW x \in {"prevented", "stopThread"}, At(Mutator, x)
        PROVE  requests = 0 /\ served = granted
    <2>1. x \notin InLabels
      BY DEF InLabels
    <2>2. /\ todo[Mutator] \in MutatorOut /\ todo[Mutator] # <<>> /\ Head(todo[Mutator]) = x
          /\ \A L : Has(todo[Mutator], L) <=> x \in L \/ Has(Tail(todo[Mutator]), L)
      BY <1>8, <2>1, MutatorHead
    <2>3. Tail(todo[Mutator]) = <<>>
      BY <2>2, OutTails
    <2>4. /\ Has(todo[Mutator], {"prevented", "stopThread"})
          /\ ~Has(todo[Mutator], {"waitForCollector", "waitMore", "park"})
      BY <2>2, <2>3, HasNone
    <2>5. ticket = granted /\ served >= ticket
      BY <2>4 DEF IInv, TicketFacts, Doing, Has
    <2> QED
      BY <2>5 DEF IInv, TypeOK, TicketFacts
  <1>9. At(Mutator, "prevented") => ~scope
    BY <1>8 DEF IInv, PhaseFacts
  <1>10. At(Collector, "stopped") => \A l \in {"requestCollection", "stopThread"} : ~At(Mutator, l)
    BY DEF IInv, ClientFacts, On, At
  <1> QED
    BY <1>1, <1>2, <1>3, <1>4, <1>5, <1>6, <1>7, <1>8, <1>9, <1>10 DEF AssertionsHold

\* It has the mutator stopped while the collector thread believes so.
LEMMA InvStops ==
  ASSUME IInv
  PROVE  WorldStopped
  <1> SUFFICES ASSUME believes, "conn" \notin world
               PROVE  /\ "stopped" \in world /\ "access" \notin world
                      /\ ~Doing(Mutator, {"runCurrentPhase", "runPhase", "changePhase"})
    BY DEF WorldStopped
  <1>1. CollectorIn /\ todo[Mutator] \in MutatorOut
    BY DEF IInv, OneDrives, NobodyIn, MutatorIn
  <1>2. "stopped" \in world /\ "access" \notin world
    BY <1>1 DEF CollectorIn, IInv, WorldFacts
  <1>3. ~Has(todo[Mutator], PhaseLabels)
    BY <1>1, OutHasNoPhase
  <1> QED
    BY <1>2, <1>3 DEF Has, Doing, PhaseLabels

\* The finalizers are still to be announced only before the finalize bit is set.
LEMMA EndingHas ==
  ASSUME IInv, NEW a \in Actor, In(a), Has(todo[a], {"setNeedFinalize"})
  PROVE  believes /\ "finalize" \notin world /\ ~Has(todo[a], {"finalize"})
  <1> DEFINE L == {"setNeedFinalize"}
             R == Rest(a)
             h == "handleNeedFinalize"
             E == On("endPhase", R)
  <1>1. ASSUME NEW r \in R PROVE ~Has(r, {"setNeedFinalize"}) /\ ~Has(r, {"finalize"})
    <2>1. CASE a = Mutator
      <3>1. r \in MutatorRest
        BY <1>1, <2>1 DEF Rest
      <3>2. {"setNeedFinalize"} \cap ({"finalize", "unparkAll"} \cup PhaseLabels) = {"setNeedFinalize"}
            /\ {"finalize"} \cap ({"finalize", "unparkAll"} \cup PhaseLabels) = {"finalize"}
        BY DEF PhaseLabels
      <3> QED
        BY <3>1, <3>2, RestsHave
    <2>2. CASE a # Mutator
      <3>1. r \in On("poll", Empty)
        BY <1>1, <2>2 DEF Rest
      <3>2. Tail(r) \in Empty /\ \A M : Has(r, M) <=> "poll" \in M \/ Has(Tail(r), M)
        BY <3>1, OnFacts
      <3> QED
        BY <3>2, HasNone DEF Empty
    <2> QED
      BY <2>1, <2>2
  <1> HIDE DEF R
  <1> USE OnFacts
  <1>2. ASSUME NEW s \in Running(R) PROVE ~Has(s, L)
    BY <1>1, <1>2 DEF Running
  <1>3. ASSUME NEW s \in Setting(R) PROVE ~Has(s, L)
    BY <1>2, <1>3 DEF Setting
  <1>4. ASSUME NEW s, s \in On("stopThePeriphery", Setting(R)) \/ s \in On("changePhase", Running(R))
                        \/ s \in On("resumeTheMutator", Setting(R)) \/ s \in On("unparkAll", Setting(R))
                        \/ s \in On(h, Setting(R)) \/ s \in On("runCurrentPhase", R) \/ s \in On("runPhase", R)
        PROVE ~Has(s, L)
    BY <1>1, <1>2, <1>3, <1>4
  <1>5. ASSUME NEW s, s \in On("stopTheMutator", On("stopThePeriphery", Setting(R)))
                        \/ s \in On(h, On("stopThePeriphery", Setting(R)))
                        \/ s \in On("unparkAll", On(h, Setting(R)))
                        \/ s \in On("resumeThePeriphery", On(h, Setting(R)))
                        \/ s \in On("resumeThePeriphery", On("resumeTheMutator", Setting(R)))
        PROVE ~Has(s, L)
    BY <1>4, <1>5
  <1>6. ASSUME NEW s, s \in On("waitWhileNeedFinalize", On("stopTheMutator", On("stopThePeriphery", Setting(R))))
                        \/ s \in On("unparkAll", On(h, On("stopThePeriphery", Setting(R))))
                        \/ s \in On("finalize", On("unparkAll", On(h, Setting(R))))
        PROVE ~Has(s, L)
    BY <1>5, <1>6
  <1>7. ASSUME NEW s \in On("finalize", On("unparkAll", On(h, On("stopThePeriphery", Setting(R)))))
        PROVE ~Has(s, L)
    BY <1>6, <1>7
  <1>8. ASSUME NEW s \in E PROVE ~Has(s, L) /\ ~Has(s, {"finalize"})
    BY <1>1, <1>8
  <1>9. ASSUME NEW s \in On("unparkAll", E) PROVE ~Has(s, L) /\ ~Has(s, {"finalize"})
    BY <1>8, <1>9
  <1>10. ASSUME NEW s \in Ending(R) PROVE ~Has(s, {"finalize"})
    BY <1>9, <1>10 DEF Ending
  <1>11. ASSUME NEW s \in On("unparkAll", Ending(R)) PROVE ~Has(s, {"finalize"})
    BY <1>10, <1>11
  <1> DEFINE c == todo[a]
  <1>12. /\ cur = "End" /\ next = "End" /\ ~scope /\ believes /\ "finalize" \notin world
         /\ c \in On("unparkAll", Ending(R)) \/ c \in Ending(R)
    <2>1. CASE a = Mutator
      <3>1. \/ InPhase(a, R)
            \/ c \in Loop(h, On("stopThePeriphery", Setting(R)))
            \/ c \in On("resumeThePeriphery", On(h, Setting(R)))
            \/ c \in Loop(h, Setting(R))
        BY <2>1 DEF In, MutatorIn, Rest, R
      <3> QED
        BY <3>1, <1>3, <1>4, <1>5, <1>6, <1>7, <1>8, <1>9 DEF InPhase, Loop
    <2>2. CASE a # Mutator
      <3>1. \/ InPhase(a, R)
            \/ c \in On("waitWhileNeedFinalize", On("stopTheMutator", On("stopThePeriphery", Setting(R))))
            \/ c \in On("stopTheMutator", On("stopThePeriphery", Setting(R)))
            \/ c \in On("resumeThePeriphery", On("resumeTheMutator", Setting(R)))
            \/ c \in On("resumeTheMutator", Setting(R)) \/ c \in On("unparkAll", Setting(R))
        BY <2>2 DEF In, CollectorIn, Rest, R, Actor, Mutator, Collector
      <3> QED
        BY <3>1, <1>3, <1>4, <1>5, <1>6, <1>8, <1>9 DEF InPhase
    <2> QED
      BY <2>1, <2>2
  <1> QED
    BY <1>10, <1>11, <1>12

\* It has one collection at a time wait for its finalizers.
LEMMA InvFinalizes ==
  ASSUME IInv
  PROVE  FinalizationInTurn
  <1>0. Mutator \in Actor /\ Collector \in Actor /\ Mutator # Collector /\ Actor = {Mutator, Collector}
    BY DEF Actor, Mutator, Collector
  <1>1. ASSUME At(Mutator, "finalize") PROVE ~believes
    <2>1. "access" \in world /\ "stopped" \notin world
      BY <1>1, Accessing
    <2>2. CASE NobodyIn
      BY <2>2 DEF NobodyIn
    <2>3. CASE CollectorIn
      BY <2>1, <2>3 DEF CollectorIn
    <2>4. CASE MutatorIn
      <3>1. \A y, S, t : t \in On(y, S) <=> t \in Seq(Label) /\ t # <<>> /\ Head(t) = y /\ Tail(t) \in S
        BY DEF On
      <3>2. todo[Mutator] # <<>> /\ Head(todo[Mutator]) = "finalize"
        BY <1>1 DEF At
      <3>3. Halfway \/ ~believes
        BY <2>4, <3>1, <3>2 DEF MutatorIn, InPhase, Setting, Ending, Loop
      <3> QED
        BY <3>3 DEF Halfway
    <2> QED
      BY <2>2, <2>3, <2>4 DEF IInv, OneDrives
  <1>2. ASSUME NEW a \in Actor, Doing(a, {"setNeedFinalize"})
        PROVE  "finalize" \notin world /\ ~Doing(Mutator, {"finalize"})
    <2>1. Has(todo[a], {"setNeedFinalize"})
      BY <1>2 DEF Doing, Has
    <2>2. In(a) /\ OtherOut(a)
      <3>1. CASE a = Mutator
        <4>1. todo[Mutator] \notin MutatorOut
          BY <2>1, <3>1, OutHasNoPhase DEF Has, PhaseLabels
        <4> QED
          BY <3>1, <4>1 DEF IInv, OneDrives, In, OtherOut
      <3>2. CASE a = Collector
        <4>1. todo[Collector] \notin CollectorOut
          <5>1. ASSUME NEW x \in {"none", "asleep", "stopped", "poll"}, NEW s \in On(x, Empty)
                PROVE ~Has(s, {"setNeedFinalize"})
            <6>1. Tail(s) \in Empty /\ \A L : Has(s, L) <=> x \in L \/ Has(Tail(s), L)
              BY OnFacts
            <6> QED
              BY <5>1, <6>1, HasNone DEF Empty
          <5>2. ASSUME NEW s \in On("unparkAll", On("poll", Empty)) PROVE ~Has(s, {"setNeedFinalize"})
            BY <5>1, OnFacts
          <5> QED
            BY <2>1, <3>2, <5>1, <5>2 DEF CollectorOut
        <4> QED
          BY <1>0, <3>2, <4>1 DEF IInv, OneDrives, In, OtherOut
      <3> QED
        BY <1>0, <3>1, <3>2
    <2>3. believes /\ "finalize" \notin world /\ ~Has(todo[a], {"finalize"})
      BY <2>1, <2>2, EndingHas
    <2>4. CASE a = Mutator
      BY <2>3, <2>4 DEF Doing, Has
    <2>5. CASE a = Collector
      <3>1. CollectorIn
        BY <1>0, <2>2, <2>5 DEF In
      <3>2. "access" \notin world
        BY <2>3, <3>1 DEF CollectorIn, IInv, WorldFacts
      <3>3. todo[Mutator] \in Empty \cup On("acquireAccess", Empty)
                  \cup On("finishRelinquishingConn", Empty) \cup On("dead", Empty)
        BY <3>2 DEF IInv, ClientFacts
      <3>4. ASSUME NEW x \in {"acquireAccess", "finishRelinquishingConn", "dead"}, NEW s \in On(x, Empty)
            PROVE ~Has(s, {"finalize"})
        <4>1. Tail(s) \in Empty /\ \A L : Has(s, L) <=> x \in L \/ Has(Tail(s), L)
          BY OnFacts
        <4> QED
          BY <3>4, <4>1, HasNone DEF Empty
      <3>5. ~Has(todo[Mutator], {"finalize"})
        BY <3>3, <3>4, HasNone DEF Empty
      <3> QED
        BY <2>3, <3>5 DEF Doing, Has
    <2> QED
      BY <1>0, <2>4, <2>5
  <1> QED
    BY <1>1, <1>2 DEF FinalizationInTurn

\* Outside that window, every RELEASE_ASSERT of the heap on the conn,
\* m_worldState, the tickets, the phases and the collector thread holds wherever
\* it is reached, whatever the other thread did in between and however many
\* tickets there are.
THEOREM HeapWorldAsserts ==
  ASSUME ~WindowRequests
  PROVE  Spec => []AssertionsHold
  <1>1. IInv => AssertionsHold
    BY InvAsserts
  <1> QED
    BY <1>1, HeapInvariance, PTL

\* Outside that window, once stopThePeriphery() has the collector thread believe
\* that the world is stopped, the mutator is stopped and without access, and is
\* not running a phase of a collection itself.
THEOREM HeapStopsWorld ==
  ASSUME ~WindowRequests
  PROVE  Spec => []WorldStopped
  <1>1. IInv => WorldStopped
    BY InvStops
  <1> QED
    BY <1>1, HeapInvariance, PTL

\* Outside that window, finalizers never run in a stopped world, and no
\* collection sets needFinalizeBit before those of the last one have run.
THEOREM HeapFinalizesInTurn ==
  ASSUME ~WindowRequests
  PROVE  Spec => []FinalizationInTurn
  <1>1. IInv => FinalizationInTurn
    BY InvFinalizes
  <1> QED
    BY <1>1, HeapInvariance, PTL
=============================================================================
