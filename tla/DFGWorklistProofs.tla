------------------------- MODULE DFGWorklistProofs -------------------------
(***************************************************************************)
(* For any number of compiler threads, VMs and plans: plans are where      *)
(* their stage says, no plan waits beside an idle compiler, the assertions *)
(* of the worklist hold, and nobody waits for nothing.                     *)
(***************************************************************************)
EXTENDS DFGWorklist, FiniteSetTheorems, SequenceTheorems, WellFoundedInduction,
        NaturalsInduction, TLAPS

USE ThreadAssumption, WorklistAssumption

Entry == Plan \cup {Nobody}

\* A non-empty set of numbers has a least one.
LEMMA Least ==
  ASSUME NEW T \in SUBSET Nat, T # {}
  PROVE  \E n \in T : \A m \in T : n <= m
  <1> DEFINE Less == {ss \in Nat \X Nat : ss[1] < ss[2]}
  <1>1. IsWellFoundedOn(Less, Nat)
    BY NatLessThanWellFounded DEF OpToRel
  <1>2. \E n \in T : \A m \in T : ~(<<m, n>> \in Less)
    <2> HIDE DEF Less
    <2> QED
      BY <1>1, WFMin
  <1>3. PICK n \in T : \A m \in T : ~(<<m, n>> \in Less)
    BY <1>2
  <1>4. \A m \in T : <<m, n>> \in Nat \X Nat /\ <<m, n>>[1] = m /\ <<m, n>>[2] = n
    OBVIOUS
  <1>5. \A m \in T : ~(m < n)
    BY <1>3, <1>4
  <1> QED
    BY <1>5

\* moved[] is what its recursive definition says: such a function exists, up to
\* any length of the queue.
LEMMA MovedStep ==
  ASSUME NEW S, NEW q \in Seq(S), NEW D
  PROVE  /\ Moved(q, D)[0] = <<>>
         /\ \A i \in 1 .. Len(q) : Moved(q, D)[i] = IF q[i] \in D THEN Moved(q, D)[i - 1]
                                   ELSE Append(Moved(q, D)[i - 1], q[i])
  <1> DEFINE Solves(m, g) ==
               /\ g[0] = <<>>
               /\ \A i \in 1 .. m : g[i] = IF q[i] \in D THEN g[i - 1] ELSE Append(g[i - 1], q[i])
             Bad == {m \in 0 .. Len(q) : ~\E g \in [0 .. m -> Seq(S)] : Solves(m, g)}
             F(g) == [i \in 0 .. Len(q) |-> IF i = 0 THEN <<>>
                                          ELSE IF q[i] \in D THEN g[i - 1] ELSE Append(g[i - 1], q[i])]
  <1>0. Bad = {}
    <2> SUFFICES ASSUME Bad # {} PROVE FALSE
      OBVIOUS
    <2>0. Len(q) \in Nat
      OBVIOUS
    <2>a. Bad \in SUBSET Nat /\ Bad \subseteq 0 .. Len(q)
      BY <2>0
    <2>1. PICK k \in Bad : \A m \in Bad : k <= m
      <3> HIDE DEF Bad
      <3> QED
        BY <2>a, Least
    <2>2. k # 0
      <3> DEFINE g == [i \in 0 .. 0 |-> <<>>]
      <3>1. g \in [0 .. 0 -> Seq(S)] /\ Solves(0, g)
        OBVIOUS
      <3> QED
        BY <2>1, <3>1
    <2>3. k - 1 \in 0 .. Len(q) /\ k - 1 \notin Bad
      <3> HIDE DEF Bad
      <3> QED
        BY <2>0, <2>a, <2>1, <2>2
    <2>4. PICK g \in [0 .. k - 1 -> Seq(S)] : Solves(k - 1, g)
      BY <2>3
    <2> DEFINE last == IF q[k] \in D THEN g[k - 1] ELSE Append(g[k - 1], q[k])
               h == [i \in 0 .. k |-> IF i < k THEN g[i] ELSE last]
    <2>5. last \in Seq(S)
      <3>1. k \in 1 .. Len(q) /\ g[k - 1] \in Seq(S) /\ q[k] \in S
        BY <2>0, <2>1, <2>2
      <3> QED
        BY <3>1
    <2>6. h \in [0 .. k -> Seq(S)]
      BY <2>0, <2>1, <2>5
    <2>7. \A i \in 0 .. k - 1 : h[i] = g[i]
      BY <2>0, <2>1
    <2>8. h[k] = last
      BY <2>0, <2>1
    <2> HIDE DEF h
    <2>9. Solves(k, h)
      <3>1. h[0] = <<>>
        BY <2>0, <2>1, <2>2, <2>4, <2>7
      <3>2. ASSUME NEW i \in 1 .. k PROVE h[i] = IF q[i] \in D THEN h[i - 1] ELSE Append(h[i - 1], q[i])
        <4>1. i - 1 \in 0 .. k - 1
          BY <2>0, <2>1
        <4>2. CASE i = k
          BY <2>7, <2>8, <4>1, <4>2
        <4>3. CASE i # k
          <5>1. i \in 1 .. k - 1 /\ i \in 0 .. k - 1
            BY <2>0, <2>1, <4>3
          <5> QED
            BY <2>4, <2>7, <4>1, <5>1
        <4> QED
          BY <4>2, <4>3
      <3> QED
        BY <3>1, <3>2
    <2> QED
      BY <2>1, <2>6, <2>9
  <1>1. Len(q) \in Nat /\ Len(q) \in 0 .. Len(q)
    OBVIOUS
  <1>2. PICK g \in [0 .. Len(q) -> Seq(S)] : Solves(Len(q), g)
    BY <1>0, <1>1
  <1>3. g = F(g)
    <2>1. \A i \in 0 .. Len(q) : g[i] = F(g)[i]
      <3>1. F(g)[0] = <<>>
        BY <1>1
      <3>2. \A i \in 1 .. Len(q) : F(g)[i] = IF q[i] \in D THEN g[i - 1] ELSE Append(g[i - 1], q[i])
        BY <1>1
      <3>3. \A i \in 0 .. Len(q) : i = 0 \/ i \in 1 .. Len(q)
        BY <1>1
      <3> HIDE DEF F
      <3> QED
        BY <1>2, <3>1, <3>2, <3>3, Zenon
    <2>2. g = [i \in 0 .. Len(q) |-> g[i]]
      BY <1>2
    <2>3. F(g) = [i \in 0 .. Len(q) |-> F(g)[i]]
      OBVIOUS
    <2> HIDE DEF F
    <2> QED
      BY <2>1, <2>2, <2>3, Zenon
  <1>4. Moved(q, D) = CHOOSE h : h = F(h)
    BY Zenon DEF Moved
  <1>5. Moved(q, D) = F(Moved(q, D))
    <2> HIDE DEF F
    <2> QED
      BY <1>3, <1>4
  <1> HIDE DEF F
  <1>6. \A h : F(h)[0] = <<>> /\ \A i \in 1 .. Len(q) : F(h)[i] = IF q[i] \in D THEN h[i - 1] ELSE Append(h[i - 1], q[i])
    BY <1>1 DEF F
  <1> QED
    BY <1>5, <1>6

\* The new queue has the plans of the old one that are not in D, each of them
\* once.
LEMMA NewQueueFacts ==
  ASSUME NEW q \in Seq(Entry), NEW D \in SUBSET Plan, Once(q)
  PROVE  /\ NewQueue(q, D) \in Seq(Entry)
         /\ Len(NewQueue(q, D)) <= Len(q)
         /\ Elements(NewQueue(q, D)) = Elements(q) \ D
         /\ Once(NewQueue(q, D))
  <1> DEFINE r(i) == Moved(q, D)[i]
             Fine(i) == /\ r(i) \in Seq(Entry) /\ Len(r(i)) <= i
                        /\ Elements(r(i)) = {q[j] : j \in 1 .. i} \ D
                        /\ Once(r(i))
             Bad == {i \in 0 .. Len(q) : ~Fine(i)}
  <1>1. Len(q) \in Nat
    OBVIOUS
  <1>2. /\ r(0) = <<>>
        /\ \A i \in 1 .. Len(q) : r(i) = IF q[i] \in D THEN r(i - 1) ELSE Append(r(i - 1), q[i])
    BY MovedStep
  <1>3. Fine(0)
    <2>1. Len(<<>>) = 0 /\ <<>> \in Seq(Entry) /\ 1 .. 0 = {}
      OBVIOUS
    <2> QED
      BY <1>2, <2>1 DEF Elements, Once
  <1> HIDE DEF r
  <1>4. ASSUME NEW i \in 1 .. Len(q), Fine(i - 1) PROVE Fine(i)
    <2>1. q[i] \in Entry /\ i - 1 \in Nat
      BY <1>1
    <2>2. {q[j] : j \in 1 .. i} = {q[j] : j \in 1 .. i - 1} \cup {q[i]}
      BY <1>1
    <2>3. CASE q[i] \in D
      <3>1. r(i) = r(i - 1)
        BY <1>2, <2>3
      <3> QED
        BY <1>4, <2>1, <2>2, <2>3, <3>1
    <2>4. CASE q[i] \notin D
      <3> DEFINE m == r(i - 1)
      <3>1. r(i) = Append(m, q[i])
        BY <1>2, <2>4
      <3>2. m \in Seq(Entry) /\ Len(m) <= i - 1 /\ Elements(m) = {q[j] : j \in 1 .. i - 1} \ D /\ Once(m)
        BY <1>4
      <3> HIDE DEF m
      <3>3. /\ Append(m, q[i]) \in Seq(Entry) /\ Len(Append(m, q[i])) = Len(m) + 1
            /\ \A k \in 1 .. Len(m) : Append(m, q[i])[k] = m[k]
            /\ Append(m, q[i])[Len(m) + 1] = q[i] /\ Len(m) \in Nat
        BY <2>1, <3>2
      <3>4. Elements(Append(m, q[i])) = Elements(m) \cup {q[i]}
        BY <3>3 DEF Elements
      <3>5. \A k \in 1 .. Len(m) : m[k] = q[i] => q[i] = Nobody
        <4> SUFFICES ASSUME NEW k \in 1 .. Len(m), m[k] = q[i], q[i] # Nobody PROVE FALSE
          OBVIOUS
        <4>1. m[k] \in Elements(m)
          BY DEF Elements
        <4>2. PICK j \in 1 .. i - 1 : q[j] = m[k]
          BY <3>2, <4>1
        <4> QED
          BY <1>1, <4>2 DEF Once
      <3>6. Once(Append(m, q[i]))
        BY <3>2, <3>3, <3>5 DEF Once
      <3>7. Elements(Append(m, q[i])) = {q[j] : j \in 1 .. i} \ D
        BY <2>2, <2>4, <3>2, <3>4
      <3> QED
        BY <2>1, <3>1, <3>2, <3>3, <3>6, <3>7
    <2> QED
      BY <2>3, <2>4
  <1> HIDE DEF Fine
  <1>5. Bad = {}
    <2> SUFFICES ASSUME Bad # {} PROVE FALSE
      OBVIOUS
    <2>1. Bad \in SUBSET Nat
      BY <1>1
    <2>2. PICK k \in Bad : \A m \in Bad : k <= m
      BY <2>1, Least
    <2>3. k # 0
      BY <1>3, <2>2
    <2>4. k \in 1 .. Len(q) /\ k - 1 \in 0 .. Len(q) /\ k - 1 \notin Bad
      BY <1>1, <2>2, <2>3
    <2> QED
      BY <1>4, <2>2, <2>4
  <1>6. Fine(Len(q))
    BY <1>1, <1>5
  <1> QED
    BY <1>6 DEF Fine, r, NewQueue, Elements

\* A plan that joins the queue.
LEMMA AppendFacts ==
  ASSUME NEW q \in Seq(Entry), NEW p \in Plan, p \notin Elements(q), Once(q), NullsOf(q) = {}
  PROVE  /\ Append(q, p) \in Seq(Entry) /\ Len(Append(q, p)) = Len(q) + 1
         /\ Elements(Append(q, p)) = Elements(q) \cup {p}
         /\ Once(Append(q, p)) /\ NullsOf(Append(q, p)) = {}
  <1>1. /\ Append(q, p) \in Seq(Entry) /\ Len(Append(q, p)) = Len(q) + 1 /\ Len(q) \in Nat
        /\ \A k \in 1 .. Len(q) : Append(q, p)[k] = q[k]
        /\ Append(q, p)[Len(q) + 1] = p
    BY DEF Entry
  <1>2. Elements(Append(q, p)) = Elements(q) \cup {p}
    BY <1>1 DEF Elements
  <1>3. Once(Append(q, p))
    BY <1>1 DEF Elements, Once
  <1>4. NullsOf(Append(q, p)) = {}
    BY <1>1 DEF NullsOf
  <1> QED
    BY <1>1, <1>2, <1>3, <1>4

\* The first entry is taken off the queue.
LEMMA TailFacts ==
  ASSUME NEW q \in Seq(Entry), q # <<>>, Once(q), NullsLast(q)
  PROVE  /\ Head(q) \in Entry /\ Head(q) \in Elements(q)
         /\ Tail(q) \in Seq(Entry) /\ Len(q) \in Nat /\ Len(Tail(q)) = Len(q) - 1
         /\ Elements(Tail(q)) \ {Nobody} = (Elements(q) \ {Nobody}) \ {Head(q)}
         /\ Once(Tail(q)) /\ NullsLast(Tail(q))
         /\ Head(q) = Nobody => NullsOf(q) = 1 .. Len(q) /\ NullsOf(Tail(q)) = 1 .. Len(q) - 1
         /\ Head(q) # Nobody => Cardinality(NullsOf(Tail(q))) = Cardinality(NullsOf(q))
         /\ NullsOf(q) = {} => NullsOf(Tail(q)) = {}
  <1>1. Len(q) \in Nat /\ Len(q) > 0 /\ Head(q) = q[1] /\ Tail(q) \in Seq(Entry)
    OBVIOUS
  <1>2. Len(Tail(q)) = Len(q) - 1 /\ \A i \in 1 .. Len(q) - 1 : Tail(q)[i] = q[i + 1]
    OBVIOUS
  <1>3. Elements(Tail(q)) \ {Nobody} \subseteq (Elements(q) \ {Nobody}) \ {Head(q)}
    BY <1>1, <1>2 DEF Elements, Once
  <1>4. ASSUME NEW x \in (Elements(q) \ {Nobody}) \ {Head(q)} PROVE x \in Elements(Tail(q))
    <2>1. PICK i \in 1 .. Len(q) : x = q[i] /\ i # 1
      BY <1>1, <1>4 DEF Elements
    <2>2. i - 1 \in 1 .. Len(Tail(q)) /\ Tail(q)[i - 1] = x
      BY <1>1, <1>2, <2>1
    <2> QED
      BY <2>2 DEF Elements
  <1>5. Once(Tail(q))
    BY <1>1, <1>2 DEF Once
  <1>6. NullsLast(Tail(q))
    BY <1>1, <1>2 DEF NullsLast
  <1>7. Head(q) \in Elements(q) /\ Head(q) \in Entry
    BY <1>1 DEF Elements
  <1>8. ASSUME Head(q) = Nobody PROVE NullsOf(q) = 1 .. Len(q) /\ NullsOf(Tail(q)) = 1 .. Len(q) - 1
    <2>1. \A i \in 1 .. Len(q) : q[i] = Nobody
      BY <1>1, <1>8 DEF NullsLast
    <2> QED
      BY <1>1, <1>2, <2>1 DEF NullsOf
  <1>9. NullsOf(q) = {} => NullsOf(Tail(q)) = {}
    BY <1>1, <1>2 DEF NullsOf
  <1>10. ASSUME Head(q) # Nobody PROVE Cardinality(NullsOf(Tail(q))) = Cardinality(NullsOf(q))
    <2> DEFINE f == [i \in NullsOf(Tail(q)) |-> i + 1]
    <2>1. IsFiniteSet(NullsOf(Tail(q)))
      <3>1. IsFiniteSet(1 .. Len(q) - 1)
        BY <1>1, FS_Interval
      <3>2. NullsOf(Tail(q)) \subseteq 1 .. Len(q) - 1
        BY <1>2 DEF NullsOf
      <3> QED
        BY <3>1, <3>2, FS_Subset
    <2>2. f \in [NullsOf(Tail(q)) -> NullsOf(q)]
      BY <1>1, <1>2 DEF NullsOf
    <2>3. \A i, j \in NullsOf(Tail(q)) : f[i] = f[j] => i = j
      BY <1>1, <1>2 DEF NullsOf
    <2>4. \A j \in NullsOf(q) : \E i \in NullsOf(Tail(q)) : f[i] = j
      <3> SUFFICES ASSUME NEW j \in NullsOf(q) PROVE \E i \in NullsOf(Tail(q)) : f[i] = j
        OBVIOUS
      <3>1. j \in 1 .. Len(q) /\ q[j] = Nobody /\ j # 1
        BY <1>1, <1>10 DEF NullsOf
      <3>2. j - 1 \in NullsOf(Tail(q))
        BY <1>1, <1>2, <3>1 DEF NullsOf
      <3> QED
        BY <3>1, <3>2
    <2>5. f \in Bijection(NullsOf(Tail(q)), NullsOf(q))
      BY <2>2, <2>3, <2>4 DEF Bijection, Injection, Surjection, IsInjective
    <2>6. ExistsBijection(NullsOf(Tail(q)), NullsOf(q))
      BY <2>5 DEF ExistsBijection
    <2> QED
      BY <2>1, <2>6, FS_Bijection
  <1> QED
    BY <1>1, <1>2, <1>3, <1>4, <1>5, <1>6, <1>7, <1>8, <1>9, <1>10

\* The null plans that the destructor adds to a queue without any.
LEMMA NullsFacts ==
  ASSUME NEW q \in Seq(Entry), Once(q), NullsOf(q) = {}, NEW n \in Nat
  PROVE  LET r == q \o [i \in 1 .. n |-> Nobody] IN
         /\ r \in Seq(Entry) /\ Elements(r) \ {Nobody} = Elements(q) \ {Nobody}
         /\ Once(r) /\ NullsLast(r)
         /\ Cardinality(NullsOf(r)) = n
  <1> DEFINE z == [i \in 1 .. n |-> Nobody]
             r == q \o z
  <1>1. z \in Seq(Entry) /\ Len(z) = n /\ Len(q) \in Nat /\ \A i \in 1 .. n : z[i] = Nobody
    BY DEF Entry
  <1> HIDE DEF z
  <1>2. /\ r \in Seq(Entry) /\ Len(r) = Len(q) + n
        /\ \A i \in 1 .. Len(q) + n : r[i] = IF i <= Len(q) THEN q[i] ELSE z[i - Len(q)]
    BY <1>1, ConcatProperties
  <1> HIDE DEF r
  <1>3. \A i \in 1 .. Len(r) : r[i] = IF i <= Len(q) THEN q[i] ELSE Nobody
    <2> SUFFICES ASSUME NEW i \in 1 .. Len(r), i > Len(q) PROVE r[i] = Nobody
      BY <1>1, <1>2
    <2>1. i - Len(q) \in 1 .. n
      BY <1>1, <1>2
    <2> QED
      BY <1>1, <1>2, <2>1
  <1>4. \A i \in 1 .. Len(q) : q[i] # Nobody
    BY DEF NullsOf
  <1>5. Once(r) /\ NullsLast(r)
    <2>1. Once(r)
      BY <1>1, <1>2, <1>3 DEF Once
    <2>2. NullsLast(r)
      BY <1>1, <1>2, <1>3, <1>4 DEF NullsLast
    <2> QED
      BY <2>1, <2>2
  <1>6. Elements(r) \ {Nobody} = Elements(q) \ {Nobody}
    <2>1. ASSUME NEW x \in Elements(q) PROVE x \in Elements(r)
      BY <1>1, <1>2, <1>3, <2>1 DEF Elements
    <2>2. ASSUME NEW x \in Elements(r), x # Nobody PROVE x \in Elements(q)
      BY <1>1, <1>2, <1>3, <2>2 DEF Elements
    <2> QED
      BY <2>1, <2>2
  <1>7. NullsOf(r) = Len(q) + 1 .. Len(q) + n
    BY <1>1, <1>2, <1>3, <1>4 DEF NullsOf
  <1>8. Cardinality(Len(q) + 1 .. Len(q) + n) = n
    BY <1>1, FS_Interval
  <1> QED
    BY <1>2, <1>5, <1>6, <1>7, <1>8 DEF r, z

-----------------------------------------------------------------------------
(* The threads *)

\* First() is one of the threads it is asked to choose from.
LEMMA FirstChosen ==
  ASSUME NEW T \in SUBSET Thread, T # {}
  PROVE  First(T) \in T
  <1>1. \E t \in T : \A u \in T : t <= u
    BY Least
  <1> QED
    BY <1>1 DEF First

\* notifyOne() makes one thread ready that was not, if there is one.
LEMMA NotifyOneWakes ==
  ASSUME TypeOK, NotifyOne
  PROVE  /\ added' = added /\ isRunning' = isRunning
         /\ \/ Up = Thread /\ UNCHANGED autoVars
            \/ \E x \in Thread :
                  /\ x \notin Up
                  /\ isWaiting' = isWaiting \ (IF x \in hasUnderlying THEN {x} ELSE {})
                  /\ hasUnderlying' = hasUnderlying \cup {x}
                  /\ where' = [where EXCEPT ![x] = IF x \notin hasUnderlying THEN "poll"
                                                  ELSE IF @ = "asleep" THEN "awake" ELSE @]
  <1> USE DEF TypeOK, Up
  <1>1. CASE Waiting(added) # {}
    <2> DEFINE x == First(Waiting(added))
    <2>0. Waiting(added) \in SUBSET Thread
      BY DEF Waiting
    <2>1. x \in Waiting(added) /\ x \in Thread
      BY <1>1, <2>0, FirstChosen
    <2> HIDE DEF x
    <2>2. Notify({x}, {}, added)
      BY <1>1 DEF NotifyOne, x
    <2>3. x \in hasUnderlying /\ x \in isWaiting
      BY <2>1 DEF Waiting
    <2>4. where' = [where EXCEPT ![x] = IF x \notin hasUnderlying THEN "poll"
                                        ELSE IF @ = "asleep" THEN "awake" ELSE @]
      BY <2>1, <2>2, <2>3 DEF Notify
    <2>5. /\ added' = added /\ isRunning' = isRunning
          /\ isWaiting' = isWaiting \ {x} /\ hasUnderlying' = hasUnderlying \cup {x}
      BY <2>2, <2>3 DEF Notify
    <2> QED
      BY <2>1, <2>3, <2>4, <2>5
  <1>2. CASE Waiting(added) = {} /\ Down(added) # {}
    <2> DEFINE x == First(Down(added))
    <2>0. Down(added) \in SUBSET Thread
      BY DEF Down
    <2>1. x \in Down(added) /\ x \in Thread
      BY <1>2, <2>0, FirstChosen
    <2> HIDE DEF x
    <2>2. Notify({}, {x}, added)
      BY <1>2 DEF NotifyOne, x
    <2> QED
      BY <2>1, <2>2 DEF Down, Notify
  <1>3. CASE Waiting(added) = {} /\ Down(added) = {}
    BY <1>3 DEF NotifyOne, Waiting, Down, autoVars
  <1> QED
    BY <1>1, <1>2, <1>3

\* notifyAll() makes every thread ready.
LEMMA NotifyAllWakes ==
  ASSUME TypeOK, NotifyAll(added)
  PROVE  /\ added' = added /\ isRunning' = isRunning
         /\ isWaiting' = isWaiting \ hasUnderlying /\ hasUnderlying' = Thread
         /\ where' = [t \in Thread |-> IF t \notin hasUnderlying THEN "poll"
                                       ELSE IF t \in isWaiting /\ where[t] = "asleep" THEN "awake"
                                       ELSE where[t]]
  <1>1. \A t \in Thread : (t \in Waiting(added) <=> t \in hasUnderlying /\ t \in isWaiting)
                          /\ (t \in Down(added) <=> t \notin hasUnderlying)
    BY DEF TypeOK, Waiting, Down
  <1>2. isWaiting \ Waiting(added) = isWaiting \ hasUnderlying /\ hasUnderlying \cup Down(added) = Thread
    BY DEF TypeOK, Waiting, Down
  <1> QED
    BY <1>1, <1>2 DEF TypeOK, NotifyAll, Notify

\* A working thread is counted.
LEMMA SomeActive ==
  ASSUME TypeOK, ActiveCounted, NEW t \in Thread, where[t] = "work"
  PROVE  m_numberOfActiveThreads - 1 \in Nat
  <1>1. IsFiniteSet(Active) /\ t \in Active
    BY FS_Subset DEF Active
  <1>2. Cardinality(Active) # 0 /\ Cardinality(Active) \in Nat
    BY <1>1, FS_EmptySet, FS_CardinalityType
  <1> QED
    BY <1>2 DEF ActiveCounted

\* Every step keeps the types.
LEMMA NextTypeOK == IInv /\ [Next]_vars => TypeOK'
  <1> SUFFICES ASSUME IInv, [Next]_vars PROVE TypeOK'
    OBVIOUS
  <1> USE DEF IInv, TypeOK, autoVars, planVars, threadVars, gcVars, vmVars
  <1>1. ASSUME NEW t \in Thread, Poll(t), UNCHANGED <<didGetCancelled, gcVars, vmVars>>
        PROVE  TypeOK'
    <2>1. m_queue \in Seq(Entry) /\ Once(m_queue) /\ NullsLast(m_queue)
      BY DEF PlansInPlace, Shutdown, Entry
    <2>2. m_queue # <<>> => Head(m_queue) \in Entry /\ Tail(m_queue) \in Seq(Entry)
      BY <2>1, TailFacts
    <2>3. CASE m_queue = <<>>
      BY <1>1, <2>3 DEF Poll, PollWait
    <2>4. CASE m_queue # <<>> /\ Head(m_queue) = Nobody
      BY <1>1, <2>2, <2>4 DEF Poll, PollStop, Entry
    <2>5. CASE m_queue # <<>> /\ Head(m_queue) # Nobody
      <3>0. /\ PollWork(t) /\ m_queue' = Tail(m_queue)
            /\ m_plan' = [m_plan EXCEPT ![t] = Head(m_queue)]
            /\ step' = [step EXCEPT ![t] = "start"]
            /\ m_numberOfActiveThreads' = m_numberOfActiveThreads + 1
            /\ UNCHANGED <<m_plans, m_readyPlans, stage>>
        BY <1>1, <2>5 DEF Poll
      <3>1. Head(m_queue) \in Plan /\ Tail(m_queue) \in Seq(Plan \cup {Nobody})
        BY <2>2, <2>5 DEF Entry
      <3>2. m_plan' \in [Thread -> Plan \cup {Nobody}] /\ m_queue' \in Seq(Plan \cup {Nobody})
        BY <3>0, <3>1
      <3> QED
        BY <1>1, <3>0, <3>2 DEF PollWork
    <2> QED
      BY <2>3, <2>4, <2>5
  <1>2. ASSUME NEW t \in Thread, WorkStarts(t), UNCHANGED <<gcVars, vmVars>> PROVE TypeOK'
    BY <1>2 DEF WorkStarts
  <1>3. ASSUME NEW t \in Thread, SafepointBegin(t), UNCHANGED <<gcVars, vmVars>> PROVE TypeOK'
    BY <1>3 DEF SafepointBegin
  <1>4. ASSUME NEW t \in Thread, SafepointEnd(t), UNCHANGED <<gcVars, vmVars>> PROVE TypeOK'
    BY <1>4 DEF SafepointEnd
  <1>5. ASSUME NEW t \in Thread, WorkReturns(t), UNCHANGED <<gcVars, vmVars>> PROVE TypeOK'
    BY <1>5, SomeActive DEF WorkReturns, WorkContinue
  <1>6. ASSUME NEW t \in Thread, Relock(t), UNCHANGED <<planVars, threadVars, didGetCancelled, gcVars, vmVars>>
        PROVE  TypeOK'
    BY <1>6 DEF Relock
  <1>7. ASSUME NEW t \in Thread, TimeOut(t), UNCHANGED <<planVars, threadVars, didGetCancelled, gcVars, vmVars>>
        PROVE  TypeOK'
    BY <1>7 DEF TimeOut
  <1>8. ASSUME NEW t \in Thread, CompileEnds(t), UNCHANGED gcVars PROVE TypeOK'
    <2>1. m_plan[t] \in Plan
      BY <1>8 DEF CompileEnds, ThreadsInPlace
    <2> QED
      BY <1>8, <2>1 DEF CompileEnds, PlanCompiled
  <1>9. ASSUME NEW p \in Plan, Enqueue(p) PROVE TypeOK'
    <2>1. isWaiting' \in SUBSET Thread /\ hasUnderlying' \in SUBSET Thread
      BY <1>9, NotifyOneWakes DEF Enqueue
    <2>2. where' \in [Thread -> {"none", "poll", "work", "asleep", "awake", "timedOut"}]
      BY <1>9, NotifyOneWakes DEF Enqueue
    <2>3. added' = added /\ isRunning' = isRunning
      BY <1>9, NotifyOneWakes DEF Enqueue
    <2> QED
      BY <1>9, <2>1, <2>2, <2>3 DEF Enqueue
  <1>10. ASSUME NEW v \in VM, CompleteAllReadyPlans(v) PROVE TypeOK'
    BY <1>10 DEF CompleteAllReadyPlans, TakeReady
  <1>11. ASSUME NEW v \in VM, RemoveNonCompilingPlans(v) PROVE TypeOK'
    <2> DEFINE D == {p \in PlansOf(v) : stage[p] # "Compiling"}
    <2>1. D \in SUBSET Plan
      BY DEF PlansOf
    <2>2. NewQueue(m_queue, D) \in Seq(Entry)
      BY <2>1, NewQueueFacts DEF PlansInPlace, Entry
    <2>3. Cancel(D)
      BY <1>11 DEF RemoveNonCompilingPlans
    <2> HIDE DEF D
    <2> QED
      BY <1>11, <2>2, <2>3 DEF RemoveNonCompilingPlans, Cancel, Entry
  <1>12. ASSUME NEW v \in VM, StartWait(v) PROVE TypeOK'
    BY <1>12 DEF StartWait
  <1>13. ASSUME NEW v \in VM, CheckPlans(v) PROVE TypeOK'
    BY <1>13 DEF CheckPlans
  <1>14. ASSUME NEW v \in VM, WaitReturns(v) PROVE TypeOK'
    BY <1>14 DEF WaitReturns, TakeReady
  <1>15. ASSUME NEW v \in VM, StopWorld(v), UNCHANGED <<autoVars, planVars, threadVars, didGetCancelled, vmVars>>
        PROVE  TypeOK'
    BY <1>15 DEF StopWorld
  <1>16. ASSUME NEW v \in VM, SuspendAllThreads(v), UNCHANGED <<autoVars, planVars, threadVars, didGetCancelled, vmVars>>
        PROVE  TypeOK'
    BY <1>16 DEF SuspendAllThreads
  <1>17. ASSUME NEW v \in VM, TakeRight(v), UNCHANGED <<autoVars, planVars, threadVars, didGetCancelled, vmVars>>
        PROVE  TypeOK'
    BY <1>17 DEF TakeRight
  <1>18. ASSUME NEW v \in VM, ResumeAllThreads(v), UNCHANGED <<autoVars, planVars, threadVars, didGetCancelled, vmVars>>
        PROVE  TypeOK'
    BY <1>18 DEF ResumeAllThreads
  <1>19. ASSUME NEW v \in VM, RemoveDeadPlans(v) PROVE TypeOK'
    <2>1. PICK D \in SUBSET (PlansOf(v) \cap MayDie) : Cancel(D)
      BY <1>19 DEF RemoveDeadPlans
    <2>2. D \in SUBSET Plan
      BY DEF PlansOf
    <2>3. NewQueue(m_queue, D) \in Seq(Entry)
      BY <2>2, NewQueueFacts DEF PlansInPlace, Entry
    <2>4. didGetCancelled' \in SUBSET Thread
      BY <1>19 DEF RemoveDeadPlans
    <2> QED
      BY <1>19, <2>1, <2>3, <2>4 DEF RemoveDeadPlans, Cancel, Entry
  <1>20. CASE Destroy
    <2>1. Cardinality(added) \in Nat
      BY FS_CardinalityType
    <2>2. NullsOf(m_queue) = {}
      BY <1>20 DEF Destroy, NullsOf
    <2>3. m_queue' \in Seq(Entry)
      BY <1>20, <2>1, <2>2, NullsFacts DEF Destroy, PlansInPlace, Entry
    <2>4. where' \in [Thread -> {"none", "poll", "work", "asleep", "awake", "timedOut"}]
      BY <1>20, NotifyAllWakes DEF Destroy
    <2>5. isWaiting' \in SUBSET Thread /\ hasUnderlying' \in SUBSET Thread /\ UNCHANGED <<added, isRunning>>
      BY <1>20, NotifyAllWakes DEF Destroy
    <2> QED
      BY <1>20, <2>3, <2>4, <2>5 DEF Destroy, Entry
  <1>21. CASE UNCHANGED vars
    BY <1>21 DEF vars
  <1> QED
    BY <1>1, <1>2, <1>3, <1>4, <1>5, <1>6, <1>7, <1>8, <1>9, <1>10, <1>11, <1>12, <1>13,
       <1>14, <1>15, <1>16, <1>17, <1>18, <1>19, <1>20, <1>21
    DEF Next, ThreadStep, MutatorStep, GcStep

\* Every step leaves a thread where m_isWaiting and m_hasUnderlyingThread say.
LEMMA NextThreads == IInv /\ [Next]_vars => ThreadsInPlace'
  <1> SUFFICES ASSUME IInv, [Next]_vars PROVE ThreadsInPlace'
    OBVIOUS
  <1> USE DEF IInv, TypeOK, ThreadsInPlace, autoVars, planVars, threadVars, gcVars, vmVars
  <1>1. ASSUME NEW t \in Thread, Poll(t), UNCHANGED <<didGetCancelled, gcVars, vmVars>>
        PROVE  ThreadsInPlace'
    <2>3. CASE m_queue = <<>>
      BY <1>1, <2>3 DEF Poll, PollWait
    <2>4. CASE m_queue # <<>> /\ Head(m_queue) = Nobody
      BY <1>1, <2>4 DEF Poll, PollStop
    <2>5. CASE m_queue # <<>> /\ Head(m_queue) # Nobody
      <3>1. /\ PollWork(t) /\ m_plan' = [m_plan EXCEPT ![t] = Head(m_queue)]
            /\ step' = [step EXCEPT ![t] = "start"]
        BY <1>1, <2>5 DEF Poll
      <3> QED
        BY <2>5, <3>1 DEF PollWork
    <2> QED
      BY <2>3, <2>4, <2>5
  <1>2. ASSUME NEW t \in Thread, WorkStarts(t), UNCHANGED <<gcVars, vmVars>> PROVE ThreadsInPlace'
    BY <1>2 DEF WorkStarts
  <1>3. ASSUME NEW t \in Thread, SafepointBegin(t), UNCHANGED <<gcVars, vmVars>>
        PROVE  ThreadsInPlace'
    BY <1>3 DEF SafepointBegin
  <1>4. ASSUME NEW t \in Thread, SafepointEnd(t), UNCHANGED <<gcVars, vmVars>>
        PROVE  ThreadsInPlace'
    BY <1>4 DEF SafepointEnd
  <1>5. ASSUME NEW t \in Thread, WorkReturns(t), UNCHANGED <<gcVars, vmVars>> PROVE ThreadsInPlace'
    BY <1>5 DEF WorkReturns, WorkContinue
  <1>6. ASSUME NEW t \in Thread, Relock(t), UNCHANGED <<planVars, threadVars, didGetCancelled, gcVars, vmVars>>
        PROVE  ThreadsInPlace'
    BY <1>6 DEF Relock
  <1>7. ASSUME NEW t \in Thread, TimeOut(t), UNCHANGED <<planVars, threadVars, didGetCancelled, gcVars, vmVars>>
        PROVE  ThreadsInPlace'
    BY <1>7 DEF TimeOut
  <1>8. ASSUME NEW t \in Thread, CompileEnds(t), UNCHANGED gcVars PROVE ThreadsInPlace'
    BY <1>8 DEF CompileEnds, PlanCompiled
  <1>9. ASSUME NEW p \in Plan, Enqueue(p) PROVE ThreadsInPlace'
    <2>1. UNCHANGED <<m_plan, step>>
      BY <1>9 DEF Enqueue
    <2>2. NotifyOne
      BY <1>9 DEF Enqueue
    <2> QED
      BY <2>1, <2>2, NotifyOneWakes
  <1>10. ASSUME NEW v \in VM, CompleteAllReadyPlans(v) PROVE ThreadsInPlace'
    BY <1>10 DEF CompleteAllReadyPlans, TakeReady
  <1>11. ASSUME NEW v \in VM, RemoveNonCompilingPlans(v) PROVE ThreadsInPlace'
    BY <1>11 DEF RemoveNonCompilingPlans
  <1>12. ASSUME NEW v \in VM, StartWait(v) PROVE ThreadsInPlace'
    BY <1>12 DEF StartWait
  <1>13. ASSUME NEW v \in VM, CheckPlans(v) PROVE ThreadsInPlace'
    BY <1>13 DEF CheckPlans
  <1>14. ASSUME NEW v \in VM, WaitReturns(v) PROVE ThreadsInPlace'
    BY <1>14 DEF WaitReturns, TakeReady
  <1>15. ASSUME NEW v \in VM, StopWorld(v), UNCHANGED <<autoVars, planVars, threadVars, didGetCancelled, vmVars>>
        PROVE  ThreadsInPlace'
    BY <1>15 DEF StopWorld
  <1>16. ASSUME NEW v \in VM, SuspendAllThreads(v), UNCHANGED <<autoVars, planVars, threadVars, didGetCancelled, vmVars>>
        PROVE  ThreadsInPlace'
    BY <1>16 DEF SuspendAllThreads
  <1>17. ASSUME NEW v \in VM, TakeRight(v), UNCHANGED <<autoVars, planVars, threadVars, didGetCancelled, vmVars>>
        PROVE  ThreadsInPlace'
    BY <1>17 DEF TakeRight
  <1>18. ASSUME NEW v \in VM, ResumeAllThreads(v), UNCHANGED <<autoVars, planVars, threadVars, didGetCancelled, vmVars>>
        PROVE  ThreadsInPlace'
    BY <1>18 DEF ResumeAllThreads
  <1>19. ASSUME NEW v \in VM, RemoveDeadPlans(v) PROVE ThreadsInPlace'
    BY <1>19 DEF RemoveDeadPlans
  <1>20. CASE Destroy
    <2>1. UNCHANGED <<m_plan, step>> /\ NotifyAll(added)
      BY <1>20 DEF Destroy
    <2> QED
      BY <2>1, NotifyAllWakes
  <1>21. CASE UNCHANGED vars
    BY <1>21 DEF vars
  <1> QED
    BY <1>1, <1>2, <1>3, <1>4, <1>5, <1>6, <1>7, <1>8, <1>9, <1>10, <1>11, <1>12, <1>13,
       <1>14, <1>15, <1>16, <1>17, <1>18, <1>19, <1>20, <1>21
    DEF Next, ThreadStep, MutatorStep, GcStep

\* Nobody begins or ends work.
LEMMA CountUntouched ==
  ASSUME ActiveCounted, m_numberOfActiveThreads' = m_numberOfActiveThreads,
         \A t \in Thread : where'[t] = "work" <=> where[t] = "work"
  PROVE  ActiveCounted'
  <1>1. Active' = Active
    BY DEF Active
  <1> QED
    BY <1>1 DEF ActiveCounted

\* Every step keeps count of the working threads.
LEMMA NextCounted == IInv /\ [Next]_vars => ActiveCounted'
  <1> SUFFICES ASSUME IInv, [Next]_vars PROVE ActiveCounted'
    OBVIOUS
  <1> USE DEF IInv, TypeOK, autoVars, planVars, threadVars, gcVars, vmVars
  <1>1. ASSUME NEW t \in Thread, Poll(t), UNCHANGED <<didGetCancelled, gcVars, vmVars>>
        PROVE  ActiveCounted'
    <2>3. CASE m_queue = <<>>
      BY <1>1, <2>3, CountUntouched DEF Poll, PollWait
    <2>4. CASE m_queue # <<>> /\ Head(m_queue) = Nobody
      BY <1>1, <2>4, CountUntouched DEF Poll, PollStop
    <2>5. CASE m_queue # <<>> /\ Head(m_queue) # Nobody
      <3>1. PollWork(t) /\ m_numberOfActiveThreads' = m_numberOfActiveThreads + 1
        BY <1>1, <2>5 DEF Poll
      <3>2. Active' = Active \cup {t} /\ t \notin Active
        BY <3>1 DEF PollWork, Active
      <3>3. IsFiniteSet(Active)
        BY FS_Subset DEF Active
      <3>4. Cardinality(Active \cup {t}) = Cardinality(Active) + 1
        BY <3>2, <3>3, FS_AddElement
      <3> QED
        BY <3>1, <3>2, <3>4 DEF ActiveCounted
    <2> QED
      BY <2>3, <2>4, <2>5
  <1>2. ASSUME NEW t \in Thread, WorkStarts(t), UNCHANGED <<gcVars, vmVars>> PROVE ActiveCounted'
    BY <1>2, CountUntouched DEF WorkStarts
  <1>3. ASSUME NEW t \in Thread, SafepointBegin(t), UNCHANGED <<gcVars, vmVars>>
        PROVE  ActiveCounted'
    BY <1>3, CountUntouched DEF SafepointBegin
  <1>4. ASSUME NEW t \in Thread, SafepointEnd(t), UNCHANGED <<gcVars, vmVars>> PROVE ActiveCounted'
    BY <1>4, CountUntouched DEF SafepointEnd
  <1>5. ASSUME NEW t \in Thread, WorkReturns(t), UNCHANGED <<gcVars, vmVars>> PROVE ActiveCounted'
    <2>1. WorkContinue(t) /\ m_numberOfActiveThreads' = m_numberOfActiveThreads - 1
      BY <1>5 DEF WorkReturns
    <2>2. Active' = Active \ {t} /\ t \in Active
      BY <2>1 DEF WorkContinue, Active
    <2>3. IsFiniteSet(Active)
      BY FS_Subset DEF Active
    <2>4. Cardinality(Active \ {t}) = Cardinality(Active) - 1
      BY <2>2, <2>3, FS_RemoveElement
    <2> QED
      BY <2>1, <2>2, <2>4 DEF ActiveCounted
  <1>6. ASSUME NEW t \in Thread, Relock(t), UNCHANGED <<planVars, threadVars, didGetCancelled, gcVars, vmVars>>
        PROVE  ActiveCounted'
    BY <1>6, CountUntouched DEF Relock
  <1>7. ASSUME NEW t \in Thread, TimeOut(t), UNCHANGED <<planVars, threadVars, didGetCancelled, gcVars, vmVars>>
        PROVE  ActiveCounted'
    BY <1>7, CountUntouched DEF TimeOut
  <1>8. ASSUME NEW t \in Thread, CompileEnds(t), UNCHANGED gcVars PROVE ActiveCounted'
    BY <1>8, CountUntouched DEF CompileEnds
  <1>9. ASSUME NEW p \in Plan, Enqueue(p) PROVE ActiveCounted'
    <2>1. NotifyOne /\ m_numberOfActiveThreads' = m_numberOfActiveThreads
      BY <1>9 DEF Enqueue
    <2>2. \A t \in Thread : where'[t] = "work" <=> where[t] = "work"
      BY <2>1, NotifyOneWakes DEF ThreadsInPlace
    <2> QED
      BY <2>1, <2>2, CountUntouched
  <1>10. ASSUME NEW v \in VM, CompleteAllReadyPlans(v) PROVE ActiveCounted'
    BY <1>10, CountUntouched DEF CompleteAllReadyPlans
  <1>11. ASSUME NEW v \in VM, RemoveNonCompilingPlans(v) PROVE ActiveCounted'
    BY <1>11, CountUntouched DEF RemoveNonCompilingPlans
  <1>12. ASSUME NEW v \in VM, StartWait(v) PROVE ActiveCounted'
    BY <1>12, CountUntouched DEF StartWait
  <1>13. ASSUME NEW v \in VM, CheckPlans(v) PROVE ActiveCounted'
    BY <1>13, CountUntouched DEF CheckPlans
  <1>14. ASSUME NEW v \in VM, WaitReturns(v) PROVE ActiveCounted'
    BY <1>14, CountUntouched DEF WaitReturns
  <1>15. ASSUME NEW v \in VM, StopWorld(v), UNCHANGED <<autoVars, planVars, threadVars, didGetCancelled, vmVars>>
        PROVE  ActiveCounted'
    BY <1>15, CountUntouched DEF StopWorld
  <1>16. ASSUME NEW v \in VM, SuspendAllThreads(v), UNCHANGED <<autoVars, planVars, threadVars, didGetCancelled, vmVars>>
        PROVE  ActiveCounted'
    BY <1>16, CountUntouched DEF SuspendAllThreads
  <1>17. ASSUME NEW v \in VM, TakeRight(v), UNCHANGED <<autoVars, planVars, threadVars, didGetCancelled, vmVars>>
        PROVE  ActiveCounted'
    BY <1>17, CountUntouched DEF TakeRight
  <1>18. ASSUME NEW v \in VM, ResumeAllThreads(v), UNCHANGED <<autoVars, planVars, threadVars, didGetCancelled, vmVars>>
        PROVE  ActiveCounted'
    BY <1>18, CountUntouched DEF ResumeAllThreads
  <1>19. ASSUME NEW v \in VM, RemoveDeadPlans(v) PROVE ActiveCounted'
    BY <1>19, CountUntouched DEF RemoveDeadPlans
  <1>20. CASE Destroy
    <2>1. NotifyAll(added) /\ m_numberOfActiveThreads' = m_numberOfActiveThreads
      BY <1>20 DEF Destroy
    <2>2. \A t \in Thread : where'[t] = "work" <=> where[t] = "work"
      BY <2>1, NotifyAllWakes DEF ThreadsInPlace
    <2> QED
      BY <2>1, <2>2, CountUntouched
  <1>21. CASE UNCHANGED vars
    BY <1>21, CountUntouched DEF vars
  <1> QED
    BY <1>1, <1>2, <1>3, <1>4, <1>5, <1>6, <1>7, <1>8, <1>9, <1>10, <1>11, <1>12, <1>13,
       <1>14, <1>15, <1>16, <1>17, <1>18, <1>19, <1>20, <1>21
    DEF Next, ThreadStep, MutatorStep, GcStep

\* Every step keeps the collectors and the compilers apart.
LEMMA NextSuspension == IInv /\ [Next]_vars => Suspension'
  <1> SUFFICES ASSUME IInv, [Next]_vars PROVE Suspension'
    OBVIOUS
  <1> USE DEF IInv, TypeOK, Suspension, autoVars, planVars, threadVars, gcVars, vmVars
  <1>1. ASSUME NEW t \in Thread, Poll(t), UNCHANGED <<didGetCancelled, gcVars, vmVars>>
        PROVE  Suspension'
    <2>1. rights' = rights /\ gc' = gc /\ suspender' = suspender
      BY <1>1
    <2>2. \A u \in Thread : step'[u] = "compiling" => step[u] = "compiling"
      BY <1>1 DEF Poll
    <2> QED
      BY <2>1, <2>2
  <1>2. ASSUME NEW t \in Thread, WorkStarts(t), UNCHANGED <<gcVars, vmVars>> PROVE Suspension'
    BY <1>2 DEF WorkStarts
  <1>3. ASSUME NEW t \in Thread, SafepointBegin(t), UNCHANGED <<gcVars, vmVars>> PROVE Suspension'
    BY <1>3 DEF SafepointBegin
  <1>4. ASSUME NEW t \in Thread, SafepointEnd(t), UNCHANGED <<gcVars, vmVars>> PROVE Suspension'
    BY <1>4 DEF SafepointEnd
  <1>5. ASSUME NEW t \in Thread, WorkReturns(t), UNCHANGED <<gcVars, vmVars>> PROVE Suspension'
    BY <1>5 DEF WorkReturns
  <1>6. ASSUME NEW t \in Thread, Relock(t), UNCHANGED <<planVars, threadVars, didGetCancelled, gcVars, vmVars>>
        PROVE  Suspension'
    BY <1>6 DEF Relock
  <1>7. ASSUME NEW t \in Thread, TimeOut(t), UNCHANGED <<planVars, threadVars, didGetCancelled, gcVars, vmVars>>
        PROVE  Suspension'
    BY <1>7 DEF TimeOut
  <1>8. ASSUME NEW t \in Thread, CompileEnds(t), UNCHANGED gcVars PROVE Suspension'
    BY <1>8 DEF CompileEnds
  <1>9. ASSUME NEW p \in Plan, Enqueue(p) PROVE Suspension'
    BY <1>9 DEF Enqueue
  <1>10. ASSUME NEW v \in VM, CompleteAllReadyPlans(v) PROVE Suspension'
    BY <1>10 DEF CompleteAllReadyPlans
  <1>11. ASSUME NEW v \in VM, RemoveNonCompilingPlans(v) PROVE Suspension'
    BY <1>11 DEF RemoveNonCompilingPlans
  <1>12. ASSUME NEW v \in VM, StartWait(v) PROVE Suspension'
    BY <1>12 DEF StartWait
  <1>13. ASSUME NEW v \in VM, CheckPlans(v) PROVE Suspension'
    BY <1>13 DEF CheckPlans
  <1>14. ASSUME NEW v \in VM, WaitReturns(v) PROVE Suspension'
    BY <1>14 DEF WaitReturns
  <1>15. ASSUME NEW v \in VM, StopWorld(v), UNCHANGED <<autoVars, planVars, threadVars, didGetCancelled, vmVars>>
        PROVE  Suspension'
    BY <1>15 DEF StopWorld
  <1>16. ASSUME NEW v \in VM, SuspendAllThreads(v), UNCHANGED <<autoVars, planVars, threadVars, didGetCancelled, vmVars>>
        PROVE  Suspension'
    BY <1>16 DEF SuspendAllThreads
  <1>17. ASSUME NEW v \in VM, TakeRight(v), UNCHANGED <<autoVars, planVars, threadVars, didGetCancelled, vmVars>>
        PROVE  Suspension'
    BY <1>17 DEF TakeRight
  <1>18. ASSUME NEW v \in VM, ResumeAllThreads(v), UNCHANGED <<autoVars, planVars, threadVars, didGetCancelled, vmVars>>
        PROVE  Suspension'
    BY <1>18 DEF ResumeAllThreads
  <1>19. ASSUME NEW v \in VM, RemoveDeadPlans(v) PROVE Suspension'
    BY <1>19 DEF RemoveDeadPlans
  <1>20. CASE Destroy
    BY <1>20 DEF Destroy
  <1>21. CASE UNCHANGED vars
    BY <1>21 DEF vars
  <1> QED
    BY <1>1, <1>2, <1>3, <1>4, <1>5, <1>6, <1>7, <1>8, <1>9, <1>10, <1>11, <1>12, <1>13,
       <1>14, <1>15, <1>16, <1>17, <1>18, <1>19, <1>20, <1>21
    DEF Next, ThreadStep, MutatorStep, GcStep

-----------------------------------------------------------------------------
(* The plans *)

\* A step that leaves the plans and the threads' progress with them alone.
LEMMA PlansUntouched ==
  ASSUME PlansInPlace, Queued' = Queued, Once(m_queue'),
         UNCHANGED <<m_plans, m_readyPlans, stage, m_plan, step, didGetCancelled>>
  PROVE  PlansInPlace'
  BY DEF PlansInPlace, QueuedPlans, TakenPlans, ReadyPlans, AllPlans, Having

\* A step of thread t with its plan: the queue stays, and so do the others.
LEMMA TakePlan ==
  ASSUME TypeOK, PlansInPlace, NEW t \in Thread, m_queue # <<>>, Head(m_queue) # Nobody,
         NullsLast(m_queue), ~t \in Having, t \notin didGetCancelled,
         m_queue' = Tail(m_queue), m_plan' = [m_plan EXCEPT ![t] = Head(m_queue)],
         step' = [step EXCEPT ![t] = "start"],
         UNCHANGED <<m_plans, m_readyPlans, stage, didGetCancelled>>
  PROVE  PlansInPlace'
  <1> DEFINE p == Head(m_queue)
  <1>1. m_queue \in Seq(Entry) /\ Once(m_queue)
    BY DEF TypeOK, PlansInPlace, Entry
  <1>2. p \in Queued /\ Queued' = Queued \ {p} /\ Once(m_queue')
    BY <1>1, TailFacts DEF Queued
  <1> HIDE DEF p
  <1>3. p \in m_plans /\ p \in Plan /\ stage[p] = "Preparing" /\ \A u \in Having : m_plan[u] # p
    BY <1>2 DEF PlansInPlace, QueuedPlans, TypeOK
  <1>4. /\ \A u \in Thread : /\ m_plan'[u] = IF u = t THEN p ELSE m_plan[u]
                            /\ step'[u] = IF u = t THEN "start" ELSE step[u]
        /\ Having \subseteq Thread /\ Having' = Having \cup {t}
    BY DEF TypeOK, Having, p
  <1>5. QueuedPlans'
    BY <1>2, <1>4 DEF PlansInPlace, QueuedPlans
  <1>6. TakenPlans'
    <2>1. \A u \in Having' :
             /\ stage[m_plan'[u]] = "Cancelled" <=> m_plan'[u] \notin m_plans
             /\ step'[u] = "start" => stage[m_plan'[u]] \in {"Preparing", "Cancelled"}
             /\ step'[u] = "compiling" => stage[m_plan'[u]] = "Compiling"
             /\ step'[u] = "safepoint" =>
                   stage[m_plan'[u]] = IF u \in didGetCancelled THEN "Cancelled" ELSE "Compiling"
      BY <1>3, <1>4 DEF PlansInPlace, TakenPlans
    <2>2. \A u, w \in Having' : m_plan'[u] = m_plan'[w] => u = w
      <3>1. \A u, w \in Having : m_plan[u] = m_plan[w] => u = w
        BY DEF PlansInPlace, TakenPlans
      <3>2. \A u \in Having : m_plan'[u] = m_plan[u] /\ m_plan'[u] # p
        BY <1>3, <1>4
      <3> QED
        BY <1>4, <3>1, <3>2
    <2>3. \A u \in didGetCancelled : step'[u] = "safepoint"
      BY <1>4 DEF PlansInPlace, TakenPlans, TypeOK
    <2> QED
      BY <2>1, <2>2, <2>3 DEF TakenPlans
  <1>7. ReadyPlans'
    BY DEF PlansInPlace, ReadyPlans
  <1>8. AllPlans'
    <2> SUFFICES ASSUME NEW r \in Plan, r \in m_plans
                 PROVE  \/ r \in Queued' \/ r \in m_readyPlans
                        \/ \E u \in Having' : m_plan'[u] = r
      BY DEF PlansInPlace, AllPlans
    <2>1. CASE r = p
      BY <1>4, <2>1
    <2>2. CASE r # p /\ r \in Queued
      BY <1>2, <2>2
    <2>3. CASE r \notin Queued
      BY <1>4, <2>3 DEF PlansInPlace, AllPlans
    <2> QED
      BY <2>1, <2>2, <2>3
  <1> QED
    BY <1>2, <1>5, <1>6, <1>7, <1>8 DEF PlansInPlace

\* Who has a plan has one of Plan.
LEMMA HasPlan ==
  ASSUME TypeOK, ThreadsInPlace, NEW t \in Having
  PROVE  m_plan[t] \in Plan
  BY DEF TypeOK, ThreadsInPlace, Having

\* work() begins with its plan, or finds it cancelled.
LEMMA WorkStartsKeepsPlans ==
  ASSUME TypeOK, ThreadsInPlace, PlansInPlace, NEW t \in Thread, WorkStarts(t)
  PROVE  PlansInPlace'
  <1> DEFINE p == m_plan[t]
  <1>1. /\ step[t] = "start" /\ t \in Having /\ p \in Plan
        /\ UNCHANGED <<m_plans, m_queue, m_readyPlans, m_plan, didGetCancelled>>
    BY HasPlan DEF WorkStarts, Having
  <1>2. \A u \in Having : m_plan[u] \in Plan
    BY HasPlan
  <1>3. \A u \in Having : m_plan[u] = p => u = t
    BY <1>1 DEF PlansInPlace, TakenPlans
  <1>4. t \notin didGetCancelled
    BY <1>1 DEF PlansInPlace, TakenPlans
  <1>5. Queued' = Queued /\ Once(m_queue') /\ p \notin Queued
    BY <1>1 DEF PlansInPlace, QueuedPlans, Queued
  <1>6. CASE stage[p] = "Cancelled"
    <2>1. /\ stage' = stage /\ \A u \in Thread : step'[u] = IF u = t THEN "leaving" ELSE step[u]
          /\ Having \subseteq Thread /\ Having' = Having \ {t}
      BY <1>6 DEF WorkStarts, TypeOK, Having
    <2>2. p \notin m_plans
      BY <1>1, <1>6 DEF PlansInPlace, TakenPlans
    <2>3. QueuedPlans' /\ ReadyPlans'
      BY <1>1, <1>5, <2>1 DEF PlansInPlace, QueuedPlans, ReadyPlans
    <2>4. TakenPlans'
      BY <1>1, <1>4, <2>1 DEF PlansInPlace, TakenPlans, TypeOK
    <2>5. AllPlans'
      BY <1>1, <1>5, <2>1, <2>2 DEF PlansInPlace, AllPlans
    <2> QED
      BY <1>5, <2>3, <2>4, <2>5 DEF PlansInPlace
  <1>7. CASE stage[p] # "Cancelled"
    <2>1. /\ \A r \in Plan : stage'[r] = IF r = p THEN "Compiling" ELSE stage[r]
          /\ \A u \in Thread : step'[u] = IF u = t THEN "compiling" ELSE step[u]
          /\ Having \subseteq Thread /\ Having' = Having
      BY <1>1, <1>7 DEF WorkStarts, TypeOK, Having
    <2>2. p \in m_plans /\ stage[p] = "Preparing"
      BY <1>1, <1>7 DEF PlansInPlace, TakenPlans
    <2>3. QueuedPlans'
      BY <1>1, <1>5, <2>1 DEF PlansInPlace, QueuedPlans, TypeOK
    <2>4. ReadyPlans'
      BY <1>1, <2>1, <2>2 DEF PlansInPlace, ReadyPlans, TypeOK
    <2>5. TakenPlans'
      BY <1>1, <1>2, <1>3, <1>4, <2>1, <2>2 DEF PlansInPlace, TakenPlans, TypeOK
    <2>6. AllPlans'
      BY <1>1, <1>5, <2>1, <2>2 DEF PlansInPlace, AllPlans
    <2> QED
      BY <1>5, <2>3, <2>4, <2>5, <2>6 DEF PlansInPlace
  <1> QED
    BY <1>6, <1>7

\* A safepoint begins.
LEMMA SafepointBeginKeepsPlans ==
  ASSUME TypeOK, PlansInPlace, NEW t \in Thread, SafepointBegin(t)
  PROVE  PlansInPlace'
  <1>1. /\ step[t] = "compiling" /\ didGetCancelled' = didGetCancelled \ {t}
        /\ UNCHANGED <<m_plans, m_queue, m_readyPlans, m_plan, stage>>
    BY DEF SafepointBegin, planVars
  <1>2. /\ \A u \in Thread : step'[u] = IF u = t THEN "safepoint" ELSE step[u]
        /\ Having \subseteq Thread /\ Having' = Having
    BY <1>1 DEF SafepointBegin, TypeOK, Having
  <1>3. Queued' = Queued /\ Once(m_queue')
    BY <1>1 DEF PlansInPlace, Queued
  <1>4. QueuedPlans' /\ ReadyPlans' /\ AllPlans'
    BY <1>1, <1>2, <1>3 DEF PlansInPlace, QueuedPlans, ReadyPlans, AllPlans
  <1>5. TakenPlans'
    BY <1>1, <1>2 DEF PlansInPlace, TakenPlans, TypeOK
  <1> QED
    BY <1>3, <1>4, <1>5 DEF PlansInPlace

\* A safepoint ends; whoever was cancelled in it leaves.
LEMMA SafepointEndKeepsPlans ==
  ASSUME TypeOK, PlansInPlace, NEW t \in Thread, SafepointEnd(t)
  PROVE  PlansInPlace'
  <1>1. /\ step[t] = "safepoint" /\ t \in Having /\ didGetCancelled' = didGetCancelled \ {t}
        /\ UNCHANGED <<m_plans, m_queue, m_readyPlans, m_plan, stage>>
    BY DEF SafepointEnd, planVars, Having
  <1>2. Queued' = Queued /\ Once(m_queue')
    BY <1>1 DEF PlansInPlace, Queued
  <1>3. CASE t \in didGetCancelled
    <2>1. /\ \A u \in Thread : step'[u] = IF u = t THEN "leaving" ELSE step[u]
          /\ Having \subseteq Thread /\ Having' = Having \ {t}
      BY <1>3 DEF SafepointEnd, TypeOK, Having
    <2>2. m_plan[t] \notin m_plans
      BY <1>1, <1>3 DEF PlansInPlace, TakenPlans
    <2>3. QueuedPlans' /\ ReadyPlans'
      BY <1>1, <1>2, <2>1 DEF PlansInPlace, QueuedPlans, ReadyPlans
    <2>4. TakenPlans'
      BY <1>1, <2>1 DEF PlansInPlace, TakenPlans, TypeOK
    <2>5. AllPlans'
      BY <1>1, <1>2, <2>1, <2>2 DEF PlansInPlace, AllPlans
    <2> QED
      BY <1>2, <2>3, <2>4, <2>5 DEF PlansInPlace
  <1>4. CASE t \notin didGetCancelled
    <2>1. /\ \A u \in Thread : step'[u] = IF u = t THEN "compiling" ELSE step[u]
          /\ Having \subseteq Thread /\ Having' = Having
      BY <1>1, <1>4 DEF SafepointEnd, TypeOK, Having
    <2>2. QueuedPlans' /\ ReadyPlans' /\ AllPlans'
      BY <1>1, <1>2, <2>1 DEF PlansInPlace, QueuedPlans, ReadyPlans, AllPlans
    <2>3. TakenPlans'
      BY <1>1, <1>4, <2>1 DEF PlansInPlace, TakenPlans, TypeOK
    <2> QED
      BY <1>2, <2>2, <2>3 DEF PlansInPlace
  <1> QED
    BY <1>3, <1>4

\* A plan has been compiled.
LEMMA CompileEndsKeepsPlans ==
  ASSUME TypeOK, ThreadsInPlace, PlansInPlace, NEW t \in Thread, CompileEnds(t)
  PROVE  PlansInPlace'
  <1> DEFINE p == m_plan[t]
  <1>1. /\ step[t] = "compiling" /\ t \in Having /\ p \in Plan
        /\ m_readyPlans' = m_readyPlans \cup {p}
        /\ UNCHANGED <<m_plans, m_queue, m_plan, didGetCancelled>>
    BY HasPlan DEF CompileEnds, Having
  <1>2. \A u \in Having : m_plan[u] \in Plan
    BY HasPlan
  <1>3. \A u \in Having : m_plan[u] = p => u = t
    BY <1>1 DEF PlansInPlace, TakenPlans
  <1>4. t \notin didGetCancelled /\ p \in m_plans
    BY <1>1 DEF PlansInPlace, TakenPlans
  <1>5. Queued' = Queued /\ Once(m_queue') /\ p \notin Queued
    BY <1>1 DEF PlansInPlace, QueuedPlans, Queued
  <1>6. /\ \A r \in Plan : stage'[r] = IF r = p THEN "Ready" ELSE stage[r]
        /\ \A u \in Thread : step'[u] = IF u = t THEN "leaving" ELSE step[u]
        /\ Having \subseteq Thread /\ Having' = Having \ {t}
    BY <1>1 DEF CompileEnds, TypeOK, Having
  <1>7. QueuedPlans'
    BY <1>1, <1>5, <1>6 DEF PlansInPlace, QueuedPlans, TypeOK
  <1>8. ReadyPlans'
    BY <1>1, <1>4, <1>6 DEF PlansInPlace, ReadyPlans, TypeOK
  <1>9. TakenPlans'
    BY <1>1, <1>2, <1>3, <1>4, <1>6 DEF PlansInPlace, TakenPlans, TypeOK
  <1>10. AllPlans'
    BY <1>1, <1>4, <1>5, <1>6 DEF PlansInPlace, AllPlans
  <1> QED
    BY <1>5, <1>7, <1>8, <1>9, <1>10 DEF PlansInPlace

\* A new plan joins the worklist: nobody has it yet.
LEMMA EnqueueKeepsPlans ==
  ASSUME IInv, NEW p \in Plan, Enqueue(p)
  PROVE  PlansInPlace' /\ Len(m_queue') = Len(m_queue) + 1 /\ NullsOf(m_queue) = {} /\ NullsOf(m_queue') = {}
  <1> USE DEF IInv
  <1>1. /\ Runs(VmOf(p)) /\ stage[p] = "Fresh" /\ m_plans' = m_plans \cup {p}
        /\ m_queue' = Append(m_queue, p) /\ stage' = [stage EXCEPT ![p] = "Preparing"]
        /\ UNCHANGED <<m_readyPlans, m_plan, step, didGetCancelled>>
    BY DEF Enqueue, threadVars
  <1>2. NullsOf(m_queue) = {}
    BY <1>1 DEF Shutdown, Ended, Runs
  <1>3. p \notin m_plans /\ p \notin Queued /\ p # Nobody
    BY <1>1 DEF PlansInPlace, AllPlans, QueuedPlans
  <1>4. \A t \in Having : t \in Thread /\ m_plan[t] \in Plan /\ m_plan[t] # p
    <2> SUFFICES ASSUME NEW t \in Having PROVE t \in Thread /\ m_plan[t] \in Plan /\ m_plan[t] # p
      OBVIOUS
    <2>1. step[t] \in {"start", "compiling", "safepoint"} /\ t \in Thread
      BY DEF Having
    <2>2. stage[m_plan[t]] # "Fresh"
      BY <2>1 DEF PlansInPlace, TakenPlans
    <2> QED
      BY <1>1, <2>1, <2>2, HasPlan
  <1>5. m_queue \in Seq(Entry) /\ p \notin Elements(m_queue) /\ Once(m_queue)
    BY <1>3 DEF TypeOK, Entry, Queued, PlansInPlace
  <1>6. /\ Len(m_queue') = Len(m_queue) + 1 /\ Queued' = Queued \cup {p}
        /\ Once(m_queue') /\ NullsOf(m_queue') = {}
    BY <1>1, <1>2, <1>3, <1>5, AppendFacts DEF Queued
  <1>7. /\ \A r \in Plan : stage'[r] = IF r = p THEN "Preparing" ELSE stage[r]
        /\ Having' = Having
    BY <1>1 DEF TypeOK, Having
  <1>8. QueuedPlans'
    BY <1>1, <1>4, <1>6, <1>7 DEF PlansInPlace, QueuedPlans, TypeOK
  <1>9. ReadyPlans'
    BY <1>1, <1>3, <1>7 DEF PlansInPlace, ReadyPlans, TypeOK
  <1>10. TakenPlans'
    BY <1>1, <1>4, <1>7 DEF PlansInPlace, TakenPlans
  <1>11. AllPlans'
    BY <1>1, <1>6, <1>7 DEF PlansInPlace, AllPlans
  <1> QED
    BY <1>2, <1>6, <1>8, <1>9, <1>10, <1>11 DEF PlansInPlace

\* The mutator takes its ready plans: nobody compiles those.
LEMMA TakeReadyKeepsPlans ==
  ASSUME TypeOK, ThreadsInPlace, PlansInPlace, NEW v \in VM, TakeReady(v),
         UNCHANGED <<m_plan, step, didGetCancelled>>
  PROVE  PlansInPlace'
  <1> DEFINE mine == {p \in m_readyPlans : VmOf(p) = v /\ stage[p] = "Ready"}
  <1>1. /\ m_readyPlans' = m_readyPlans \ mine /\ m_plans' = m_plans \ mine /\ m_queue' = m_queue
        /\ \A p \in Plan : stage'[p] = IF p \in mine THEN "Finalized" ELSE stage[p]
        /\ \A p \in mine : stage[p] = "Ready" /\ p \in m_readyPlans
    BY DEF TakeReady
  <1> HIDE DEF mine
  <1>2. \A t \in Having : m_plan[t] \in Plan /\ m_plan[t] \notin mine
    <2> SUFFICES ASSUME NEW t \in Having PROVE m_plan[t] \in Plan /\ m_plan[t] \notin mine
      OBVIOUS
    <2>1. step[t] \in {"start", "compiling", "safepoint"}
      BY DEF Having
    <2>2. stage[m_plan[t]] # "Ready"
      BY <2>1 DEF PlansInPlace, TakenPlans
    <2> QED
      BY <1>1, <2>2, HasPlan
  <1>3. \A p \in Queued : p \notin mine
    BY <1>1 DEF PlansInPlace, QueuedPlans
  <1>4. Queued' = Queued /\ Once(m_queue') /\ Having' = Having
    BY <1>1 DEF PlansInPlace, Queued, Having
  <1>5. QueuedPlans'
    BY <1>1, <1>3, <1>4 DEF PlansInPlace, QueuedPlans, TypeOK
  <1>6. ReadyPlans'
    BY <1>1 DEF PlansInPlace, ReadyPlans, TypeOK
  <1>7. TakenPlans'
    BY <1>1, <1>2, <1>4 DEF PlansInPlace, TakenPlans
  <1>8. AllPlans'
    BY <1>1, <1>4 DEF PlansInPlace, AllPlans, ReadyPlans
  <1> QED
    BY <1>4, <1>5, <1>6, <1>7, <1>8 DEF PlansInPlace

\* Plans that nobody compiles at the moment are cancelled, and the safepoints
\* that have one are told.
LEMMA CancelKeepsPlans ==
  ASSUME TypeOK, ThreadsInPlace, PlansInPlace, NEW D \in SUBSET m_plans, Cancel(D),
         \A t \in Having : m_plan[t] \in D => step[t] # "compiling",
         didGetCancelled' = didGetCancelled \cup {t \in Thread : step[t] = "safepoint" /\ m_plan[t] \in D},
         UNCHANGED <<m_plan, step>>
  PROVE  PlansInPlace'
  <1>1. /\ m_plans' = m_plans \ D /\ m_readyPlans' = m_readyPlans \ D
        /\ m_queue' = NewQueue(m_queue, D)
        /\ \A p \in Plan : stage'[p] = IF p \in D THEN "Cancelled" ELSE stage[p]
    BY DEF Cancel
  <1>2. m_queue \in Seq(Entry) /\ Once(m_queue) /\ D \in SUBSET Plan
    BY DEF TypeOK, PlansInPlace, Entry
  <1>3. Queued' = Queued \ D /\ Once(m_queue')
    BY <1>1, <1>2, NewQueueFacts DEF Queued
  <1>4. \A t \in Having : m_plan[t] \in Plan /\ t \in Thread /\ step[t] \in {"start", "compiling", "safepoint"}
    BY HasPlan DEF Having
  <1>5. Having' = Having
    BY DEF Having
  <1>6. QueuedPlans'
    BY <1>1, <1>3, <1>5 DEF PlansInPlace, QueuedPlans, TypeOK
  <1>7. ReadyPlans'
    BY <1>1 DEF PlansInPlace, ReadyPlans, TypeOK
  <1>8. TakenPlans'
    <2>1. ASSUME NEW t \in Having PROVE
             /\ stage'[m_plan[t]] = "Cancelled" <=> m_plan[t] \notin m_plans'
             /\ step[t] = "start" => stage'[m_plan[t]] \in {"Preparing", "Cancelled"}
             /\ step[t] = "compiling" => stage'[m_plan[t]] = "Compiling"
             /\ step[t] = "safepoint" =>
                   stage'[m_plan[t]] = IF t \in didGetCancelled' THEN "Cancelled" ELSE "Compiling"
      <3>1. CASE m_plan[t] \in D
        BY <1>1, <1>2, <1>4, <3>1
      <3>2. CASE m_plan[t] \notin D
        BY <1>1, <1>4, <3>2 DEF PlansInPlace, TakenPlans
      <3> QED
        BY <3>1, <3>2
    <2>2. \A t, u \in Having : m_plan[t] = m_plan[u] => t = u
      BY DEF PlansInPlace, TakenPlans
    <2>3. \A t \in didGetCancelled' : step[t] = "safepoint"
      BY DEF PlansInPlace, TakenPlans
    <2> QED
      BY <1>5, <2>1, <2>2, <2>3 DEF TakenPlans
  <1>9. AllPlans'
    BY <1>1, <1>3, <1>5 DEF PlansInPlace, AllPlans
  <1> QED
    BY <1>3, <1>6, <1>7, <1>8, <1>9 DEF PlansInPlace

\* removeNonCompilingPlansForVM(): no safepoint has one of its plans.
LEMMA RemoveNonCompilingKeepsPlans ==
  ASSUME TypeOK, ThreadsInPlace, PlansInPlace, NEW v \in VM, RemoveNonCompilingPlans(v)
  PROVE  PlansInPlace'
  <1> DEFINE D == {p \in PlansOf(v) : stage[p] # "Compiling"}
  <1>1. /\ D \in SUBSET m_plans /\ Cancel(D) /\ UNCHANGED <<m_plan, step, didGetCancelled>>
        /\ \A p \in D : stage[p] # "Compiling"
    BY DEF RemoveNonCompilingPlans, threadVars, PlansOf
  <1> HIDE DEF D
  <1>2. \A t \in Having : m_plan[t] \in D => step[t] = "start"
    <2> SUFFICES ASSUME NEW t \in Having, m_plan[t] \in D PROVE step[t] = "start"
      OBVIOUS
    <2>1. stage[m_plan[t]] # "Compiling" /\ stage[m_plan[t]] # "Cancelled"
      BY <1>1 DEF PlansInPlace, TakenPlans
    <2>2. step[t] \in {"start", "compiling", "safepoint"}
      BY DEF Having
    <2> QED
      BY <2>1, <2>2 DEF PlansInPlace, TakenPlans
  <1>3. {t \in Thread : step[t] = "safepoint" /\ m_plan[t] \in D} = {}
    BY <1>2 DEF Having
  <1>4. didGetCancelled' = didGetCancelled \cup {t \in Thread : step[t] = "safepoint" /\ m_plan[t] \in D}
    BY <1>1, <1>3
  <1> QED
    BY <1>1, <1>2, <1>4, CancelKeepsPlans

\* removeDeadPlans(): the collector has every rightToRun, nobody compiles.
LEMMA RemoveDeadKeepsPlans ==
  ASSUME TypeOK, ThreadsInPlace, Suspension, PlansInPlace, NEW v \in VM, RemoveDeadPlans(v)
  PROVE  PlansInPlace'
  <1>1. PICK D \in SUBSET (PlansOf(v) \cap MayDie) :
           /\ Cancel(D)
           /\ didGetCancelled' = didGetCancelled \cup {t \in Thread : step[t] = "safepoint" /\ m_plan[t] \in D}
    BY DEF RemoveDeadPlans
  <1>2. D \in SUBSET m_plans /\ UNCHANGED <<m_plan, step>>
    BY DEF RemoveDeadPlans, threadVars, PlansOf
  <1>3. \A t \in Having : step[t] # "compiling"
    BY DEF RemoveDeadPlans, Suspension, Having
  <1> QED
    BY <1>1, <1>2, <1>3, CancelKeepsPlans

\* The queue stays as it is.
LEMMA SameQueue ==
  ASSUME PlansInPlace, m_queue' = m_queue
  PROVE  Queued' = Queued /\ Once(m_queue')
  BY DEF PlansInPlace, Queued

\* Every step leaves the plans where their stages say.
LEMMA NextPlans == IInv /\ [Next]_vars => PlansInPlace'
  <1> SUFFICES ASSUME IInv, [Next]_vars PROVE PlansInPlace'
    OBVIOUS
  <1> USE DEF IInv, autoVars, planVars, threadVars, gcVars, vmVars
  <1>1. ASSUME NEW t \in Thread, Poll(t), UNCHANGED <<didGetCancelled, gcVars, vmVars>>
        PROVE  PlansInPlace'
    <2>1. m_queue \in Seq(Entry) /\ Once(m_queue) /\ NullsLast(m_queue)
      BY DEF TypeOK, PlansInPlace, Shutdown, Entry
    <2>2. CASE m_queue = <<>>
      BY <1>1, <2>2, SameQueue, PlansUntouched DEF Poll
    <2>3. CASE m_queue # <<>> /\ Head(m_queue) = Nobody
      <3>1. m_queue' = Tail(m_queue) /\ UNCHANGED <<m_plans, m_readyPlans, stage, m_plan, step>>
        BY <1>1, <2>3 DEF Poll
      <3>2. Queued' = Queued /\ Once(m_queue')
        BY <2>1, <2>3, <3>1, TailFacts DEF Queued
      <3> QED
        BY <1>1, <3>1, <3>2, PlansUntouched
    <2>4. CASE m_queue # <<>> /\ Head(m_queue) # Nobody
      <3>1. /\ m_queue' = Tail(m_queue) /\ m_plan' = [m_plan EXCEPT ![t] = Head(m_queue)]
            /\ step' = [step EXCEPT ![t] = "start"] /\ UNCHANGED <<m_plans, m_readyPlans, stage>>
            /\ where[t] = "poll"
        BY <1>1, <2>4 DEF Poll, PollWork
      <3>2. step[t] = "idle"
        BY <3>1 DEF ThreadsInPlace
      <3>3. t \notin Having /\ t \notin didGetCancelled
        BY <3>2 DEF Having, PlansInPlace, TakenPlans
      <3> QED
        BY <1>1, <2>1, <2>4, <3>1, <3>3, TakePlan
    <2> QED
      BY <2>2, <2>3, <2>4
  <1>2. ASSUME NEW t \in Thread, WorkStarts(t), UNCHANGED <<gcVars, vmVars>> PROVE PlansInPlace'
    BY <1>2, WorkStartsKeepsPlans
  <1>3. ASSUME NEW t \in Thread, SafepointBegin(t), UNCHANGED <<gcVars, vmVars>>
        PROVE  PlansInPlace'
    BY <1>3, SafepointBeginKeepsPlans
  <1>4. ASSUME NEW t \in Thread, SafepointEnd(t), UNCHANGED <<gcVars, vmVars>> PROVE PlansInPlace'
    BY <1>4, SafepointEndKeepsPlans
  <1>5. ASSUME NEW t \in Thread, WorkReturns(t), UNCHANGED <<gcVars, vmVars>> PROVE PlansInPlace'
    <2>1. /\ step[t] = "leaving" /\ UNCHANGED <<m_plans, m_queue, m_readyPlans, stage, didGetCancelled>>
          /\ step' = [step EXCEPT ![t] = "idle"] /\ m_plan' = [m_plan EXCEPT ![t] = Nobody]
      BY <1>5 DEF WorkReturns
    <2>2. /\ t \notin Having /\ Having' = Having
          /\ \A u \in Thread : u # t => m_plan'[u] = m_plan[u] /\ step'[u] = step[u]
      BY <2>1 DEF TypeOK, Having
    <2>3. \A u \in Having : u \in Thread /\ m_plan'[u] = m_plan[u] /\ step'[u] = step[u]
      BY <2>2 DEF Having
    <2>4. QueuedPlans' /\ ReadyPlans' /\ AllPlans' /\ Once(m_queue')
      BY <2>1, <2>2, <2>3, SameQueue DEF PlansInPlace, QueuedPlans, ReadyPlans, AllPlans
    <2>5. TakenPlans'
      BY <2>1, <2>2, <2>3 DEF PlansInPlace, TakenPlans, TypeOK
    <2> QED
      BY <2>4, <2>5 DEF PlansInPlace
  <1>6. ASSUME NEW t \in Thread, Relock(t), UNCHANGED <<planVars, threadVars, didGetCancelled, gcVars, vmVars>>
        PROVE  PlansInPlace'
    BY <1>6, SameQueue, PlansUntouched
  <1>7. ASSUME NEW t \in Thread, TimeOut(t), UNCHANGED <<planVars, threadVars, didGetCancelled, gcVars, vmVars>>
        PROVE  PlansInPlace'
    BY <1>7, SameQueue, PlansUntouched
  <1>8. ASSUME NEW t \in Thread, CompileEnds(t), UNCHANGED gcVars PROVE PlansInPlace'
    BY <1>8, CompileEndsKeepsPlans
  <1>9. ASSUME NEW p \in Plan, Enqueue(p) PROVE PlansInPlace'
    BY <1>9, EnqueueKeepsPlans DEF IInv
  <1>10. ASSUME NEW v \in VM, CompleteAllReadyPlans(v) PROVE PlansInPlace'
    BY <1>10, TakeReadyKeepsPlans DEF CompleteAllReadyPlans
  <1>11. ASSUME NEW v \in VM, RemoveNonCompilingPlans(v) PROVE PlansInPlace'
    BY <1>11, RemoveNonCompilingKeepsPlans
  <1>12. ASSUME NEW v \in VM, StartWait(v) PROVE PlansInPlace'
    BY <1>12, SameQueue, PlansUntouched DEF StartWait
  <1>13. ASSUME NEW v \in VM, CheckPlans(v) PROVE PlansInPlace'
    BY <1>13, SameQueue, PlansUntouched DEF CheckPlans
  <1>14. ASSUME NEW v \in VM, WaitReturns(v) PROVE PlansInPlace'
    BY <1>14, TakeReadyKeepsPlans DEF WaitReturns
  <1>15. ASSUME NEW v \in VM, StopWorld(v), UNCHANGED <<autoVars, planVars, threadVars, didGetCancelled, vmVars>>
        PROVE  PlansInPlace'
    BY <1>15, SameQueue, PlansUntouched
  <1>16. ASSUME NEW v \in VM, SuspendAllThreads(v), UNCHANGED <<autoVars, planVars, threadVars, didGetCancelled, vmVars>>
        PROVE  PlansInPlace'
    BY <1>16, SameQueue, PlansUntouched
  <1>17. ASSUME NEW v \in VM, TakeRight(v), UNCHANGED <<autoVars, planVars, threadVars, didGetCancelled, vmVars>>
        PROVE  PlansInPlace'
    BY <1>17, SameQueue, PlansUntouched
  <1>18. ASSUME NEW v \in VM, ResumeAllThreads(v), UNCHANGED <<autoVars, planVars, threadVars, didGetCancelled, vmVars>>
        PROVE  PlansInPlace'
    BY <1>18, SameQueue, PlansUntouched
  <1>19. ASSUME NEW v \in VM, RemoveDeadPlans(v) PROVE PlansInPlace'
    BY <1>19, RemoveDeadKeepsPlans
  <1>20. CASE Destroy
    <2>1. m_queue \in Seq(Entry) /\ Once(m_queue) /\ Cardinality(added) \in Nat
      BY FS_CardinalityType DEF TypeOK, PlansInPlace, Entry
    <2>2. /\ m_queue' = m_queue \o [i \in 1 .. Cardinality(added) |-> Nobody] /\ NullsOf(m_queue) = {}
          /\ UNCHANGED <<m_plans, m_readyPlans, stage, m_plan, step, didGetCancelled>>
      BY <1>20 DEF Destroy, NullsOf
    <2>3. Queued' = Queued /\ Once(m_queue')
      BY <2>1, <2>2, NullsFacts DEF Queued
    <2> QED
      BY <2>2, <2>3, PlansUntouched
  <1>21. CASE UNCHANGED vars
    BY <1>21, SameQueue, PlansUntouched DEF vars
  <1> QED
    BY <1>1, <1>2, <1>3, <1>4, <1>5, <1>6, <1>7, <1>8, <1>9, <1>10, <1>11, <1>12, <1>13,
       <1>14, <1>15, <1>16, <1>17, <1>18, <1>19, <1>20, <1>21
    DEF Next, ThreadStep, MutatorStep, GcStep

-----------------------------------------------------------------------------
(* The destructor, the waits, and the plans nobody may forget *)

\* A step that leaves the queue, and the threads that run, alone.
LEMMA ShutdownUntouched ==
  ASSUME Shutdown, m_queue' = m_queue, isRunning' = isRunning,
         hasUnderlying' \subseteq hasUnderlying, Ended => Up \subseteq Up',
         \A v \in VM : mutator[v] = "gone" => mutator'[v] = "gone",
         \A v \in VM : mutator'[v] = "gone" => gc'[v] = "idle"
  PROVE  Shutdown'
  <1>1. Ended' <=> Ended
    BY DEF Ended
  <1>2. /\ (hasUnderlying \subseteq isRunning)'
        /\ (\A v \in VM : mutator[v] = "gone" => gc[v] = "idle")' /\ NullsLast(m_queue')
    BY DEF Shutdown
  <1>3. Ended' => /\ \A v \in VM : mutator'[v] = "gone"
                  /\ isRunning' \subseteq Up'
                  /\ Cardinality(NullsOf(m_queue')) = Cardinality(isRunning')
    BY <1>1 DEF Shutdown
  <1> QED
    BY <1>2, <1>3 DEF Shutdown

\* While a VM lives the destructor has not begun.
LEMMA NotEnded ==
  ASSUME Shutdown, NEW v \in VM, mutator[v] # "gone"
  PROVE  NullsOf(m_queue) = {} /\ isRunning = Thread
  BY DEF Shutdown, Ended

\* Cancelling plans leaves no null plan where there was none, and no longer queue.
LEMMA CancelShortens ==
  ASSUME TypeOK, PlansInPlace, NEW D \in SUBSET m_plans, Cancel(D), NullsOf(m_queue) = {}
  PROVE  Len(m_queue') <= Len(m_queue) /\ NullsOf(m_queue') = {} /\ NullsLast(m_queue')
  <1>1. m_queue \in Seq(Entry) /\ Once(m_queue) /\ D \in SUBSET Plan
    BY DEF TypeOK, PlansInPlace, Entry
  <1>2. /\ Len(m_queue') <= Len(m_queue)
        /\ Elements(m_queue') = Elements(m_queue) \ D
    BY <1>1, NewQueueFacts DEF Cancel
  <1>3. Nobody \notin Elements(m_queue')
    BY <1>2 DEF Elements, NullsOf
  <1>4. \A i \in 1 .. Len(m_queue') : m_queue'[i] # Nobody
    BY <1>3 DEF Elements
  <1> QED
    BY <1>2, <1>4 DEF NullsOf, NullsLast

\* A step of a living VM that leaves the threads alone.
LEMMA ShutdownFarOff ==
  ASSUME Shutdown, isRunning = Thread, NullsOf(m_queue') = {}, NullsLast(m_queue'),
         UNCHANGED <<isRunning, hasUnderlying, mutator, gc>>
  PROVE  Shutdown'
  <1>1. ~Ended'
    BY DEF Ended
  <1> QED
    BY <1>1 DEF Shutdown

\* A thread that looks at the queue is up, and runs.
LEMMA PollerUp ==
  ASSUME TypeOK, ThreadsInPlace, Shutdown, NEW t \in Thread, where[t] = "poll"
  PROVE  t \in Up /\ t \in isRunning /\ t \notin isWaiting /\ t \in hasUnderlying
  BY DEF TypeOK, ThreadsInPlace, Shutdown, Up

\* What a thread that finds a null plan leaves behind.
LEMMA StopFacts ==
  ASSUME TypeOK, ThreadsInPlace, PlansInPlace, Shutdown, NEW t \in Thread,
         m_queue # <<>>, Head(m_queue) = Nobody, PollStop(t), m_queue' = Tail(m_queue)
  PROVE  /\ Ended /\ Len(m_queue) \in Nat /\ Len(m_queue') = Len(m_queue) - 1
         /\ Cardinality(isRunning') = Len(m_queue') /\ Cardinality(NullsOf(m_queue')) = Len(m_queue')
         /\ NullsLast(m_queue') /\ Up' = Up \ {t} /\ isRunning' \subseteq Up'
  <1>1. m_queue \in Seq(Entry) /\ Once(m_queue) /\ NullsLast(m_queue)
    BY DEF TypeOK, PlansInPlace, Shutdown, Entry
  <1>2. /\ Len(m_queue) \in Nat /\ Len(m_queue') = Len(m_queue) - 1 /\ NullsLast(m_queue')
        /\ NullsOf(m_queue) = 1 .. Len(m_queue) /\ NullsOf(m_queue') = 1 .. Len(m_queue) - 1
        /\ Len(m_queue) > 0
    BY <1>1, TailFacts
  <1>3. /\ Cardinality(NullsOf(m_queue)) = Len(m_queue)
        /\ Cardinality(NullsOf(m_queue')) = Len(m_queue) - 1
    <2>1. \A n \in Nat : Cardinality(1 .. n) = n
      BY FS_Interval
    <2>2. Len(m_queue) - 1 \in Nat
      BY <1>2
    <2> QED
      BY <1>2, <2>1, <2>2
  <1>4. 1 \in NullsOf(m_queue)
    BY <1>2
  <1>5. Ended /\ Cardinality(isRunning) = Len(m_queue) /\ isRunning \subseteq Up
    BY <1>3, <1>4 DEF Ended, Shutdown
  <1>6. where[t] = "poll" /\ isRunning' = isRunning \ {t} /\ hasUnderlying' = hasUnderlying \ {t} /\ isWaiting' = isWaiting
    BY DEF PollStop
  <1>7. t \in isRunning
    BY <1>6, PollerUp
  <1>8. IsFiniteSet(isRunning)
    BY FS_Subset DEF TypeOK
  <1>9. Cardinality(isRunning') = Cardinality(isRunning) - 1
    BY <1>6, <1>7, <1>8, FS_RemoveElement
  <1>10. Up' = Up \ {t} /\ isRunning' \subseteq Up'
    BY <1>5, <1>6 DEF Up
  <1> QED
    BY <1>2, <1>3, <1>5, <1>9, <1>10

\* Every step keeps the null plans in step with the threads that run.
LEMMA NextShutdown == IInv /\ [Next]_vars => Shutdown'
  <1> SUFFICES ASSUME IInv, [Next]_vars PROVE Shutdown'
    OBVIOUS
  <1> USE DEF IInv, autoVars, planVars, threadVars, gcVars, vmVars
  <1>1. ASSUME NEW t \in Thread, Poll(t), UNCHANGED <<didGetCancelled, gcVars, vmVars>>
        PROVE  Shutdown'
    <2>1. m_queue \in Seq(Entry) /\ Once(m_queue) /\ NullsLast(m_queue)
      BY DEF TypeOK, PlansInPlace, Shutdown, Entry
    <2>2. CASE m_queue = <<>>
      <3>1. where[t] = "poll" /\ UNCHANGED <<m_queue, isRunning, hasUnderlying, mutator, gc>>
        BY <1>1, <2>2 DEF Poll, PollWait
      <3>2. t \in isRunning /\ IsFiniteSet(isRunning)
        BY <3>1, PollerUp, FS_Subset DEF TypeOK
      <3>3. Cardinality(isRunning) # 0
        BY <3>2, FS_EmptySet
      <3>4. NullsOf(m_queue) = {} /\ Cardinality({}) = 0
        BY <2>2, FS_EmptySet DEF NullsOf
      <3>5. ~Ended
        BY <3>3, <3>4 DEF Shutdown
      <3> QED
        BY <3>1, <3>5, ShutdownUntouched DEF Shutdown
    <2>3. CASE m_queue # <<>> /\ Head(m_queue) = Nobody
      <3>1. PollStop(t) /\ m_queue' = Tail(m_queue) /\ UNCHANGED <<mutator, gc>>
        BY <1>1, <2>3 DEF Poll
      <3>2. hasUnderlying' \subseteq isRunning'
        BY <3>1 DEF PollStop, Shutdown
      <3>3. /\ Ended /\ NullsLast(m_queue') /\ isRunning' \subseteq Up'
            /\ Cardinality(NullsOf(m_queue')) = Cardinality(isRunning')
        BY <2>3, <3>1, StopFacts
      <3> QED
        BY <3>1, <3>2, <3>3 DEF Shutdown
    <2>4. CASE m_queue # <<>> /\ Head(m_queue) # Nobody
      <3>1. m_queue' = Tail(m_queue) /\ UNCHANGED <<isRunning, hasUnderlying, isWaiting, mutator, gc>>
        BY <1>1, <2>4 DEF Poll, PollWork
      <3>2. NullsLast(m_queue') /\ Cardinality(NullsOf(m_queue')) = Cardinality(NullsOf(m_queue))
        BY <2>1, <2>4, <3>1, TailFacts
      <3>3. Ended' => Ended
        BY <2>1, <2>4, <3>1, TailFacts DEF Ended
      <3>4. Up' = Up
        BY <3>1 DEF Up
      <3> QED
        BY <3>1, <3>2, <3>3, <3>4 DEF Shutdown
    <2> QED
      BY <2>2, <2>3, <2>4
  <1>2. ASSUME NEW t \in Thread, WorkStarts(t), UNCHANGED <<gcVars, vmVars>> PROVE Shutdown'
    BY <1>2, ShutdownUntouched DEF Shutdown, Up, WorkStarts
  <1>3. ASSUME NEW t \in Thread, SafepointBegin(t), UNCHANGED <<gcVars, vmVars>> PROVE Shutdown'
    BY <1>3, ShutdownUntouched DEF Shutdown, Up, SafepointBegin
  <1>4. ASSUME NEW t \in Thread, SafepointEnd(t), UNCHANGED <<gcVars, vmVars>> PROVE Shutdown'
    BY <1>4, ShutdownUntouched DEF Shutdown, Up, SafepointEnd
  <1>5. ASSUME NEW t \in Thread, WorkReturns(t), UNCHANGED <<gcVars, vmVars>> PROVE Shutdown'
    BY <1>5, ShutdownUntouched DEF Shutdown, Up, WorkReturns, WorkContinue
  <1>6. ASSUME NEW t \in Thread, Relock(t), UNCHANGED <<planVars, threadVars, didGetCancelled, gcVars, vmVars>>
        PROVE  Shutdown'
    <2>1. t \in hasUnderlying
      BY <1>6 DEF Relock, TypeOK, ThreadsInPlace
    <2>2. Ended => Up \subseteq Up'
      BY <1>6, <2>1 DEF Relock, Shutdown, Up
    <2> QED
      BY <1>6, <2>2, ShutdownUntouched DEF Relock, Shutdown
  <1>7. ASSUME NEW t \in Thread, TimeOut(t), UNCHANGED <<planVars, threadVars, didGetCancelled, gcVars, vmVars>>
        PROVE  Shutdown'
    BY <1>7, ShutdownUntouched DEF Shutdown, Up, TimeOut
  <1>8. ASSUME NEW t \in Thread, CompileEnds(t), UNCHANGED gcVars PROVE Shutdown'
    <2>1. UNCHANGED <<m_queue, isRunning, hasUnderlying, isWaiting, gc>>
      BY <1>8 DEF CompileEnds
    <2>2. \A v \in VM : mutator'[v] = "gone" <=> mutator[v] = "gone"
      BY <1>8 DEF CompileEnds, PlanCompiled
    <2> QED
      BY <2>1, <2>2, ShutdownUntouched DEF Shutdown, Up
  <1>9. ASSUME NEW p \in Plan, Enqueue(p) PROVE Shutdown'
    <2>1. NullsOf(m_queue) = {} /\ NullsOf(m_queue') = {}
      BY <1>9, EnqueueKeepsPlans
    <2>2. /\ mutator[VmOf(p)] # "gone" /\ UNCHANGED <<mutator, gc>> /\ isRunning' = isRunning
          /\ hasUnderlying' \in SUBSET Thread
      BY <1>9, NotifyOneWakes DEF Enqueue, Runs, TypeOK
    <2>3. isRunning = Thread
      BY <2>2, NotEnded
    <2>4. NullsLast(m_queue')
      BY <2>1 DEF NullsOf, NullsLast
    <2>5. ~Ended'
      BY <2>1, <2>2, <2>3 DEF Ended
    <2> QED
      BY <2>2, <2>3, <2>4, <2>5 DEF Shutdown
  <1>10. ASSUME NEW v \in VM, CompleteAllReadyPlans(v) PROVE Shutdown'
    BY <1>10, ShutdownUntouched DEF Shutdown, Up, CompleteAllReadyPlans, TakeReady
  <1>11. ASSUME NEW v \in VM, RemoveNonCompilingPlans(v) PROVE Shutdown'
    <2> DEFINE D == {p \in PlansOf(v) : stage[p] # "Compiling"}
    <2>1. /\ D \in SUBSET m_plans /\ Cancel(D) /\ mutator[v] = "running"
          /\ UNCHANGED <<isRunning, hasUnderlying, mutator, gc>>
      BY <1>11 DEF RemoveNonCompilingPlans, PlansOf, Runs
    <2> HIDE DEF D
    <2>2. NullsOf(m_queue) = {} /\ isRunning = Thread
      BY <2>1, NotEnded
    <2> QED
      BY <2>1, <2>2, CancelShortens, ShutdownFarOff
  <1>12. ASSUME NEW v \in VM, StartWait(v) PROVE Shutdown'
    <2>1. \A w \in VM : mutator'[w] = "gone" <=> mutator[w] = "gone"
      BY <1>12 DEF StartWait, Runs, TypeOK
    <2> QED
      BY <1>12, <2>1, ShutdownUntouched DEF StartWait, Shutdown, Up
  <1>13. ASSUME NEW v \in VM, CheckPlans(v) PROVE Shutdown'
    <2>1. \A w \in VM : mutator'[w] = "gone" <=> mutator[w] = "gone"
      BY <1>13 DEF CheckPlans, Runs, TypeOK
    <2> QED
      BY <1>13, <2>1, ShutdownUntouched DEF CheckPlans, Shutdown, Up
  <1>14. ASSUME NEW v \in VM, WaitReturns(v) PROVE Shutdown'
    <2>1. /\ mutator[v] = "returning" /\ gc[v] = "idle"
          /\ mutator' = [mutator EXCEPT ![v] = IF v \in dying THEN "gone" ELSE "running"]
          /\ UNCHANGED <<m_queue, isRunning, hasUnderlying, isWaiting, gc>>
      BY <1>14 DEF WaitReturns, TakeReady
    <2>2. \A w \in VM : /\ mutator[w] = "gone" => mutator'[w] = "gone"
                        /\ mutator'[w] = "gone" => gc[w] = "idle"
      BY <2>1 DEF TypeOK, Shutdown
    <2> QED
      BY <2>1, <2>2, ShutdownUntouched DEF Up
  <1>15. ASSUME NEW v \in VM, StopWorld(v), UNCHANGED <<autoVars, planVars, threadVars, didGetCancelled, vmVars>>
        PROVE  Shutdown'
    <2>1. \A w \in VM : mutator'[w] = "gone" => gc'[w] = "idle"
      BY <1>15 DEF StopWorld, Shutdown, TypeOK
    <2> QED
      BY <1>15, <2>1, ShutdownUntouched DEF Up
  <1>16. ASSUME NEW v \in VM, SuspendAllThreads(v), UNCHANGED <<autoVars, planVars, threadVars, didGetCancelled, vmVars>>
        PROVE  Shutdown'
    <2>1. \A w \in VM : mutator'[w] = "gone" => gc'[w] = "idle"
      BY <1>16 DEF SuspendAllThreads, Shutdown, TypeOK
    <2> QED
      BY <1>16, <2>1, ShutdownUntouched DEF Up
  <1>17. ASSUME NEW v \in VM, TakeRight(v), UNCHANGED <<autoVars, planVars, threadVars, didGetCancelled, vmVars>>
        PROVE  Shutdown'
    <2>1. \A w \in VM : mutator'[w] = "gone" => gc'[w] = "idle"
      BY <1>17 DEF TakeRight, Shutdown, TypeOK
    <2> QED
      BY <1>17, <2>1, ShutdownUntouched DEF Up
  <1>18. ASSUME NEW v \in VM, ResumeAllThreads(v), UNCHANGED <<autoVars, planVars, threadVars, didGetCancelled, vmVars>>
        PROVE  Shutdown'
    <2>1. \A w \in VM : mutator'[w] = "gone" => gc'[w] = "idle"
      BY <1>18 DEF ResumeAllThreads, Shutdown, TypeOK
    <2> QED
      BY <1>18, <2>1, ShutdownUntouched DEF Up
  <1>19. ASSUME NEW v \in VM, RemoveDeadPlans(v) PROVE Shutdown'
    <2>1. PICK D \in SUBSET (PlansOf(v) \cap MayDie) : Cancel(D)
      BY <1>19 DEF RemoveDeadPlans
    <2>2. /\ D \in SUBSET m_plans /\ gc[v] = "believes"
          /\ UNCHANGED <<isRunning, hasUnderlying, mutator, gc>>
      BY <1>19 DEF RemoveDeadPlans, PlansOf
    <2>3. NullsOf(m_queue) = {} /\ isRunning = Thread
      BY <2>2, NotEnded DEF Shutdown
    <2> QED
      BY <2>1, <2>2, <2>3, CancelShortens, ShutdownFarOff
  <1>20. CASE Destroy
    <2>1. m_queue \in Seq(Entry) /\ Once(m_queue) /\ Cardinality(added) \in Nat
      BY FS_CardinalityType DEF TypeOK, PlansInPlace, Entry
    <2>2. /\ m_queue' = m_queue \o [i \in 1 .. Cardinality(added) |-> Nobody] /\ NullsOf(m_queue) = {}
          /\ \A v \in VM : mutator[v] = "gone"
          /\ isRunning = added /\ UNCHANGED <<mutator, gc>> /\ NotifyAll(added)
      BY <1>20 DEF Destroy, NullsOf
    <2>3. NullsLast(m_queue') /\ Cardinality(NullsOf(m_queue')) = Cardinality(added)
      BY <2>1, <2>2, NullsFacts
    <2>4. isRunning' = Thread /\ hasUnderlying' = Thread /\ isWaiting' = isWaiting \ hasUnderlying
      BY <2>2, NotifyAllWakes DEF TypeOK
    <2>5. isWaiting \ hasUnderlying = {}
      BY DEF TypeOK, ThreadsInPlace
    <2>6. isRunning' \subseteq Up'
      BY <2>4, <2>5 DEF Up
    <2> QED
      BY <2>2, <2>3, <2>4, <2>6 DEF Shutdown, TypeOK
  <1>21. CASE UNCHANGED vars
    BY <1>21, ShutdownUntouched DEF Shutdown, Up, vars
  <1> QED
    BY <1>1, <1>2, <1>3, <1>4, <1>5, <1>6, <1>7, <1>8, <1>9, <1>10, <1>11, <1>12, <1>13,
       <1>14, <1>15, <1>16, <1>17, <1>18, <1>19, <1>20, <1>21
    DEF Next, ThreadStep, MutatorStep, GcStep

\* The threads that look at the queue can be counted, and so can the queue.
LEMMA Countable ==
  ASSUME TypeOK
  PROVE  IsFiniteSet(Looking) /\ Cardinality(Looking) \in Nat /\ Len(m_queue) \in Nat
  <1>1. IsFiniteSet(Looking)
    BY FS_Subset DEF TypeOK, Up, Looking
  <1> QED
    BY <1>1, FS_CardinalityType DEF TypeOK

\* A step that takes no thread down, gives none work and makes the queue no
\* longer.
LEMMA NobodyForgets ==
  ASSUME TypeOK, NoPlanForgotten, Len(m_queue') \in Nat, Len(m_queue') <= Len(m_queue),
         UNCHANGED <<hasUnderlying, isWaiting, isRunning, where>>
  PROVE  NoPlanForgotten'
  <1>1. Looking' = Looking /\ Up' = Up
    BY DEF Looking, Up, Active
  <1> QED
    BY <1>1, Countable DEF NoPlanForgotten

\* No step leaves a plan waiting beside a sleeping compiler.
LEMMA NextForgotten == IInv /\ [Next]_vars => NoPlanForgotten'
  <1> SUFFICES ASSUME IInv, [Next]_vars PROVE NoPlanForgotten'
    OBVIOUS
  <1> USE DEF IInv, autoVars, planVars, threadVars, gcVars, vmVars
  <1>1. ASSUME NEW t \in Thread, Poll(t), UNCHANGED <<didGetCancelled, gcVars, vmVars>>
        PROVE  NoPlanForgotten'
    <2>1. m_queue \in Seq(Entry) /\ Once(m_queue) /\ NullsLast(m_queue)
      BY DEF TypeOK, PlansInPlace, Shutdown, Entry
    <2>2. CASE m_queue = <<>>
      <3>1. Len(m_queue') = 0 /\ Looking' \subseteq Thread
        BY <1>1, <2>2 DEF Poll, PollWait, Up, Looking, TypeOK
      <3>2. Cardinality(Looking') \in Nat
        BY <3>1, FS_Subset, FS_CardinalityType
      <3> QED
        BY <3>1, <3>2 DEF NoPlanForgotten
    <2>3. CASE m_queue # <<>> /\ Head(m_queue) = Nobody
      <3>1. PollStop(t) /\ m_queue' = Tail(m_queue)
        BY <1>1, <2>3 DEF Poll
      <3>2. isRunning' \subseteq Up'
        BY <2>3, <3>1, StopFacts
      <3> QED
        BY <3>2 DEF NoPlanForgotten
    <2>4. CASE m_queue # <<>> /\ Head(m_queue) # Nobody
      <3>1. /\ m_queue' = Tail(m_queue) /\ UNCHANGED <<hasUnderlying, isWaiting, isRunning>>
            /\ where[t] = "poll" /\ where' = [where EXCEPT ![t] = "work"]
        BY <1>1, <2>4 DEF Poll, PollWork
      <3>2. Len(m_queue') = Len(m_queue) - 1 /\ Len(m_queue') \in Nat /\ Len(m_queue) \in Nat
        BY <2>1, <2>4, <3>1, TailFacts
      <3>3. t \in Looking /\ Looking' = Looking \ {t} /\ Up' = Up
        BY <3>1, PollerUp DEF Looking, Active, Up, TypeOK
      <3>4. Cardinality(Looking') = Cardinality(Looking) - 1
        BY <3>3, Countable, FS_RemoveElement
      <3> QED
        BY <3>1, <3>2, <3>3, <3>4, Countable DEF NoPlanForgotten
    <2> QED
      BY <2>2, <2>3, <2>4
  <1>2. ASSUME NEW t \in Thread, WorkStarts(t), UNCHANGED <<gcVars, vmVars>> PROVE NoPlanForgotten'
    BY <1>2, Countable, NobodyForgets DEF WorkStarts
  <1>3. ASSUME NEW t \in Thread, SafepointBegin(t), UNCHANGED <<gcVars, vmVars>>
        PROVE  NoPlanForgotten'
    BY <1>3, Countable, NobodyForgets DEF SafepointBegin
  <1>4. ASSUME NEW t \in Thread, SafepointEnd(t), UNCHANGED <<gcVars, vmVars>>
        PROVE  NoPlanForgotten'
    BY <1>4, Countable, NobodyForgets DEF SafepointEnd
  <1>5. ASSUME NEW t \in Thread, WorkReturns(t), UNCHANGED <<gcVars, vmVars>>
        PROVE  NoPlanForgotten'
    <2>1. /\ UNCHANGED <<m_queue, hasUnderlying, isWaiting, isRunning>>
          /\ where' = [where EXCEPT ![t] = "poll"]
      BY <1>5 DEF WorkReturns, WorkContinue
    <2>2. Looking \subseteq Looking' /\ Looking' \subseteq Thread /\ Up' = Up
      BY <2>1 DEF Looking, Active, Up, TypeOK
    <2>3. IsFiniteSet(Looking') /\ Cardinality(Looking') \in Nat
      BY <2>2, FS_Subset, FS_CardinalityType
    <2>4. Cardinality(Looking) <= Cardinality(Looking')
      BY <2>2, <2>3, FS_Subset
    <2> QED
      BY <2>1, <2>2, <2>3, <2>4, Countable DEF NoPlanForgotten
  <1>6. ASSUME NEW t \in Thread, Relock(t), UNCHANGED <<planVars, threadVars, didGetCancelled, gcVars, vmVars>>
        PROVE  NoPlanForgotten'
    <2>1. t \in hasUnderlying
      BY <1>6 DEF Relock, TypeOK, ThreadsInPlace
    <2>2. Up' = Up /\ Active' = Active /\ UNCHANGED <<m_queue, isRunning>>
      BY <1>6, <2>1 DEF Relock, Up, Active, TypeOK
    <2> QED
      BY <2>2 DEF NoPlanForgotten, Looking
  <1>7. ASSUME NEW t \in Thread, TimeOut(t), UNCHANGED <<planVars, threadVars, didGetCancelled, gcVars, vmVars>>
        PROVE  NoPlanForgotten'
    <2>1. Up' = Up /\ Active' = Active /\ UNCHANGED <<m_queue, isRunning>>
      BY <1>7 DEF TimeOut, Up, Active, TypeOK
    <2> QED
      BY <2>1 DEF NoPlanForgotten, Looking
  <1>8. ASSUME NEW t \in Thread, CompileEnds(t), UNCHANGED gcVars PROVE NoPlanForgotten'
    BY <1>8, Countable, NobodyForgets DEF CompileEnds, PlanCompiled
  <1>9. ASSUME NEW p \in Plan, Enqueue(p) PROVE NoPlanForgotten'
    <2>1. Len(m_queue') = Len(m_queue) + 1
      BY <1>9, EnqueueKeepsPlans
    <2>2. NotifyOne
      BY <1>9 DEF Enqueue
    <2>3. CASE Up = Thread /\ UNCHANGED autoVars
      BY <2>3 DEF NoPlanForgotten, Up, TypeOK
    <2>4. CASE ~(Up = Thread /\ UNCHANGED autoVars)
      <3>1. PICK x \in Thread :
               /\ x \notin Up
               /\ isWaiting' = isWaiting \ (IF x \in hasUnderlying THEN {x} ELSE {})
               /\ hasUnderlying' = hasUnderlying \cup {x}
               /\ where' = [where EXCEPT ![x] = IF x \notin hasUnderlying THEN "poll"
                                               ELSE IF @ = "asleep" THEN "awake" ELSE @]
        BY <2>2, <2>4, NotifyOneWakes
      <3>2. (x \notin hasUnderlying => x \notin isWaiting) /\ where[x] # "work"
        BY <3>1 DEF TypeOK, ThreadsInPlace, Up
      <3>3. Up' = Up \cup {x}
        BY <3>1, <3>2 DEF Up
      <3>4. Active' = Active
        <4>1. \A u \in Thread : where'[u] = "work" <=> where[u] = "work"
          BY <3>1, <3>2 DEF TypeOK
        <4> QED
          BY <4>1 DEF Active
      <3>5. Looking' = Looking \cup {x} /\ x \notin Looking
        BY <3>1, <3>2, <3>3, <3>4 DEF Looking, Active
      <3>6. Cardinality(Looking') = Cardinality(Looking) + 1
        BY <3>5, Countable, FS_AddElement
      <3>7. VmOf(p) \in VM /\ mutator[VmOf(p)] # "gone"
        BY <1>9 DEF Enqueue, Runs
      <3>8. isRunning = Thread
        BY <3>7, NotEnded
      <3>9. ~(isRunning \subseteq Up)
        BY <3>1, <3>8
      <3> QED
        BY <2>1, <3>6, <3>9, Countable DEF NoPlanForgotten
    <2> QED
      BY <2>3, <2>4
  <1>10. ASSUME NEW v \in VM, CompleteAllReadyPlans(v) PROVE NoPlanForgotten'
    BY <1>10, Countable, NobodyForgets DEF CompleteAllReadyPlans, TakeReady
  <1>11. ASSUME NEW v \in VM, RemoveNonCompilingPlans(v) PROVE NoPlanForgotten'
    <2> DEFINE D == {p \in PlansOf(v) : stage[p] # "Compiling"}
    <2>1. /\ D \in SUBSET m_plans /\ Cancel(D) /\ mutator[v] = "running"
          /\ UNCHANGED <<hasUnderlying, isWaiting, isRunning, where>>
      BY <1>11 DEF RemoveNonCompilingPlans, PlansOf, Runs
    <2> HIDE DEF D
    <2>2. NullsOf(m_queue) = {}
      BY <2>1, NotEnded
    <2>3. Len(m_queue') <= Len(m_queue)
      BY <2>1, <2>2, CancelShortens
    <2>4. Len(m_queue') \in Nat
      BY NextTypeOK DEF TypeOK
    <2> QED
      BY <2>1, <2>3, <2>4, Countable, NobodyForgets
  <1>12. ASSUME NEW v \in VM, StartWait(v) PROVE NoPlanForgotten'
    BY <1>12, Countable, NobodyForgets DEF StartWait
  <1>13. ASSUME NEW v \in VM, CheckPlans(v) PROVE NoPlanForgotten'
    BY <1>13, Countable, NobodyForgets DEF CheckPlans
  <1>14. ASSUME NEW v \in VM, WaitReturns(v) PROVE NoPlanForgotten'
    BY <1>14, Countable, NobodyForgets DEF WaitReturns, TakeReady
  <1>15. ASSUME NEW v \in VM, StopWorld(v), UNCHANGED <<autoVars, planVars, threadVars, didGetCancelled, vmVars>>
        PROVE  NoPlanForgotten'
    BY <1>15, Countable, NobodyForgets
  <1>16. ASSUME NEW v \in VM, SuspendAllThreads(v), UNCHANGED <<autoVars, planVars, threadVars, didGetCancelled, vmVars>>
        PROVE  NoPlanForgotten'
    BY <1>16, Countable, NobodyForgets
  <1>17. ASSUME NEW v \in VM, TakeRight(v), UNCHANGED <<autoVars, planVars, threadVars, didGetCancelled, vmVars>>
        PROVE  NoPlanForgotten'
    BY <1>17, Countable, NobodyForgets
  <1>18. ASSUME NEW v \in VM, ResumeAllThreads(v), UNCHANGED <<autoVars, planVars, threadVars, didGetCancelled, vmVars>>
        PROVE  NoPlanForgotten'
    BY <1>18, Countable, NobodyForgets
  <1>19. ASSUME NEW v \in VM, RemoveDeadPlans(v) PROVE NoPlanForgotten'
    <2>1. PICK D \in SUBSET (PlansOf(v) \cap MayDie) : Cancel(D)
      BY <1>19 DEF RemoveDeadPlans
    <2>2. D \in SUBSET m_plans /\ gc[v] = "believes" /\ UNCHANGED <<hasUnderlying, isWaiting, isRunning, where>>
      BY <1>19 DEF RemoveDeadPlans, PlansOf
    <2>3. NullsOf(m_queue) = {}
      BY <2>2, NotEnded DEF Shutdown
    <2>4. Len(m_queue') <= Len(m_queue) /\ Len(m_queue') \in Nat
      BY <2>1, <2>2, <2>3, CancelShortens, NextTypeOK DEF TypeOK
    <2> QED
      BY <2>2, <2>4, Countable, NobodyForgets
  <1>20. CASE Destroy
    <2>1. NotifyAll(added) /\ isWaiting \ hasUnderlying = {}
      BY <1>20 DEF Destroy, TypeOK, ThreadsInPlace
    <2>2. hasUnderlying' = Thread /\ isWaiting' = {} /\ isRunning' = isRunning
      BY <2>1, NotifyAllWakes
    <2> QED
      BY <2>2 DEF NoPlanForgotten, Up, TypeOK
  <1>21. CASE UNCHANGED vars
    BY <1>21, Countable, NobodyForgets DEF vars
  <1> QED
    BY <1>1, <1>2, <1>3, <1>4, <1>5, <1>6, <1>7, <1>8, <1>9, <1>10, <1>11, <1>12, <1>13,
       <1>14, <1>15, <1>16, <1>17, <1>18, <1>19, <1>20, <1>21
    DEF Next, ThreadStep, MutatorStep, GcStep

-----------------------------------------------------------------------------
(* The waits *)

\* What WaitsEnd says of a step.
WaitsStep ==
    \A v \in VM :
        Unserved(v)' =>
           \/ Unserved(v)
           \/ /\ gc[v] = "believes"
              /\ \E p \in PlansOf(v) : stage[p] # "Ready" /\ stage'[p] = "Cancelled"

\* A step that sends nobody to sleep and leaves the plans of those who sleep
\* unfinished.
LEMMA WaitersUntouched ==
  ASSUME \A v \in VM : mutator'[v] = "waiting" =>
            /\ mutator[v] = "waiting"
            /\ \A p \in m_plans : VmOf(p) = v /\ stage[p] # "Ready"
                                   => p \in m_plans' /\ stage'[p] # "Ready"
  PROVE  WaitsStep
  BY DEF WaitsStep, Unserved, PlansOf

\* Every step leaves a waiting mutator something to wait for, or wakes it, but
\* for a collection that cancels its last plan.
LEMMA NextWaiters == IInv /\ [Next]_vars => WaitsStep
  <1> SUFFICES ASSUME IInv, [Next]_vars PROVE WaitsStep
    OBVIOUS
  <1> USE DEF IInv, autoVars, planVars, threadVars, gcVars, vmVars
  <1>1. ASSUME NEW t \in Thread, Poll(t), UNCHANGED <<didGetCancelled, gcVars, vmVars>>
        PROVE  WaitsStep
    BY <1>1, WaitersUntouched DEF Poll
  <1>2. ASSUME NEW t \in Thread, WorkStarts(t), UNCHANGED <<gcVars, vmVars>>
        PROVE  WaitsStep
    <2>1. /\ UNCHANGED <<m_plans, mutator>>
          /\ \A p \in Plan : \/ stage'[p] = stage[p]
                             \/ stage[p] # "Cancelled" /\ stage'[p] = "Compiling"
      <3>1. CASE stage[m_plan[t]] = "Cancelled"
        BY <1>2, <3>1 DEF WorkStarts
      <3>2. CASE stage[m_plan[t]] # "Cancelled"
        <4>1. stage' = [stage EXCEPT ![m_plan[t]] = "Compiling"] /\ UNCHANGED <<m_plans, mutator>>
          BY <1>2, <3>2 DEF WorkStarts
        <4> QED
          BY <3>2, <4>1 DEF TypeOK
      <3> QED
        BY <3>1, <3>2
    <2> QED
      BY <2>1, WaitersUntouched DEF TypeOK
  <1>3. ASSUME NEW t \in Thread, SafepointBegin(t), UNCHANGED <<gcVars, vmVars>>
        PROVE  WaitsStep
    BY <1>3, WaitersUntouched DEF SafepointBegin
  <1>4. ASSUME NEW t \in Thread, SafepointEnd(t), UNCHANGED <<gcVars, vmVars>>
        PROVE  WaitsStep
    BY <1>4, WaitersUntouched DEF SafepointEnd
  <1>5. ASSUME NEW t \in Thread, WorkReturns(t), UNCHANGED <<gcVars, vmVars>>
        PROVE  WaitsStep
    BY <1>5, WaitersUntouched DEF WorkReturns
  <1>6. ASSUME NEW t \in Thread, Relock(t), UNCHANGED <<planVars, threadVars, didGetCancelled, gcVars, vmVars>>
        PROVE  WaitsStep
    BY <1>6, WaitersUntouched
  <1>7. ASSUME NEW t \in Thread, TimeOut(t), UNCHANGED <<planVars, threadVars, didGetCancelled, gcVars, vmVars>>
        PROVE  WaitsStep
    BY <1>7, WaitersUntouched
  <1>8. ASSUME NEW t \in Thread, CompileEnds(t), UNCHANGED gcVars PROVE WaitsStep
    <2>1. \A v \in VM : mutator'[v] # "waiting"
      BY <1>8 DEF CompileEnds, PlanCompiled
    <2> QED
      BY <2>1 DEF WaitsStep, Unserved
  <1>9. ASSUME NEW p \in Plan, Enqueue(p) PROVE WaitsStep
    <2>1. /\ stage[p] = "Fresh" /\ stage' = [stage EXCEPT ![p] = "Preparing"]
          /\ m_plans' = m_plans \cup {p} /\ mutator' = mutator
      BY <1>9 DEF Enqueue
    <2>2. \A r \in Plan : stage'[r] = IF r = p THEN "Preparing" ELSE stage[r]
      BY <2>1 DEF TypeOK
    <2> QED
      BY <2>1, <2>2, WaitersUntouched DEF TypeOK
  <1>10. ASSUME NEW v \in VM, CompleteAllReadyPlans(v) PROVE WaitsStep
    <2>1. \A w \in VM : mutator'[w] = "waiting" => mutator[w] = "waiting"
      BY <1>10 DEF CompleteAllReadyPlans, TypeOK
    <2> QED
      BY <1>10, <2>1, WaitersUntouched DEF CompleteAllReadyPlans, TakeReady, TypeOK
  <1>11. ASSUME NEW v \in VM, RemoveNonCompilingPlans(v) PROVE WaitsStep
    <2> DEFINE D == {p \in PlansOf(v) : stage[p] # "Compiling"}
    <2>1. /\ Cancel(D) /\ mutator[v] # "waiting" /\ mutator' = mutator
          /\ \A p \in D : p \in m_plans /\ VmOf(p) = v
      BY <1>11 DEF RemoveNonCompilingPlans, PlansOf, Runs
    <2> HIDE DEF D
    <2>2. /\ m_plans' = m_plans \ D
          /\ \A p \in Plan : stage'[p] = IF p \in D THEN "Cancelled" ELSE stage[p]
      BY <2>1 DEF Cancel
    <2> QED
      BY <2>1, <2>2, WaitersUntouched DEF TypeOK
  <1>12. ASSUME NEW v \in VM, StartWait(v) PROVE WaitsStep
    <2>1. \A w \in VM : mutator'[w] = "waiting" => mutator[w] = "waiting"
      BY <1>12 DEF StartWait, TypeOK
    <2> QED
      BY <1>12, <2>1, WaitersUntouched DEF StartWait
  <1>13. ASSUME NEW v \in VM, CheckPlans(v) PROVE WaitsStep
    <2>1. /\ UNCHANGED <<m_plans, stage>>
          /\ \A w \in VM : mutator'[w] = "waiting" =>
                \/ mutator[w] = "waiting"
                \/ w = v /\ \E p \in PlansOf(v) : stage[p] # "Ready"
      <3>1. CASE \A p \in PlansOf(v) : stage[p] = "Ready"
        <4>1. mutator' = [mutator EXCEPT ![v] = "returning"] /\ UNCHANGED <<m_plans, stage>>
          BY <1>13, <3>1 DEF CheckPlans
        <4> QED
          BY <4>1 DEF TypeOK
      <3>2. CASE \E p \in PlansOf(v) : stage[p] # "Ready"
        <4>1. mutator' = [mutator EXCEPT ![v] = "waiting"] /\ UNCHANGED <<m_plans, stage>>
          BY <1>13, <3>2 DEF CheckPlans
        <4> QED
          BY <3>2, <4>1 DEF TypeOK
      <3> QED
        BY <3>1, <3>2
    <2> QED
      BY <2>1 DEF WaitsStep, Unserved, PlansOf
  <1>14. ASSUME NEW v \in VM, WaitReturns(v) PROVE WaitsStep
    <2>1. \A w \in VM : mutator'[w] = "waiting" => mutator[w] = "waiting"
      BY <1>14 DEF WaitReturns, TypeOK
    <2> QED
      BY <1>14, <2>1, WaitersUntouched DEF WaitReturns, TakeReady, TypeOK
  <1>15. ASSUME NEW v \in VM, StopWorld(v), UNCHANGED <<autoVars, planVars, threadVars, didGetCancelled, vmVars>>
        PROVE  WaitsStep
    BY <1>15, WaitersUntouched
  <1>16. ASSUME NEW v \in VM, SuspendAllThreads(v), UNCHANGED <<autoVars, planVars, threadVars, didGetCancelled, vmVars>>
        PROVE  WaitsStep
    BY <1>16, WaitersUntouched
  <1>17. ASSUME NEW v \in VM, TakeRight(v), UNCHANGED <<autoVars, planVars, threadVars, didGetCancelled, vmVars>>
        PROVE  WaitsStep
    BY <1>17, WaitersUntouched
  <1>18. ASSUME NEW v \in VM, ResumeAllThreads(v), UNCHANGED <<autoVars, planVars, threadVars, didGetCancelled, vmVars>>
        PROVE  WaitsStep
    BY <1>18, WaitersUntouched
  <1>19. ASSUME NEW v \in VM, RemoveDeadPlans(v) PROVE WaitsStep
    <2>1. PICK D \in SUBSET (PlansOf(v) \cap MayDie) : Cancel(D)
      BY <1>19 DEF RemoveDeadPlans
    <2>2. /\ m_plans' = m_plans \ D /\ mutator' = mutator
          /\ \A p \in Plan : stage'[p] = IF p \in D THEN "Cancelled" ELSE stage[p]
      BY <1>19, <2>1 DEF RemoveDeadPlans, Cancel
    <2>3. gc[v] = "believes" /\ D \subseteq PlansOf(v)
      BY <1>19 DEF RemoveDeadPlans
    <2>4. ASSUME NEW w \in VM, mutator[w] = "waiting", \A p \in PlansOf(w)' : stage'[p] = "Ready",
                 NEW p \in PlansOf(w), stage[p] # "Ready"
          PROVE  w = v /\ stage'[p] = "Cancelled"
      <3>1. p \in Plan /\ p \in m_plans /\ VmOf(p) = w
        BY DEF PlansOf, TypeOK
      <3>2. p \in D
        BY <2>2, <2>4, <3>1 DEF PlansOf
      <3> QED
        BY <2>2, <2>3, <3>1, <3>2 DEF PlansOf
    <2> QED
      BY <2>2, <2>3, <2>4 DEF WaitsStep, Unserved
  <1>20. CASE Destroy
    BY <1>20, WaitersUntouched DEF Destroy
  <1>21. CASE UNCHANGED vars
    BY <1>21, WaitersUntouched DEF vars
  <1> QED
    BY <1>1, <1>2, <1>3, <1>4, <1>5, <1>6, <1>7, <1>8, <1>9, <1>10, <1>11, <1>12, <1>13,
       <1>14, <1>15, <1>16, <1>17, <1>18, <1>19, <1>20, <1>21
    DEF Next, ThreadStep, MutatorStep, GcStep

-----------------------------------------------------------------------------
(* The invariant holds, and what follows from it *)

\* No plan, no thread and no collection.
LEMMA InitIInv == Init => IInv
  <1> SUFFICES ASSUME Init PROVE IInv
    OBVIOUS
  <1> USE DEF Init, AutoInit
  <1>1. TypeOK
    BY DEF TypeOK
  <1>2. ThreadsInPlace
    BY DEF ThreadsInPlace
  <1>3. Active = {}
    BY DEF Active
  <1>4. ActiveCounted
    BY <1>3, FS_EmptySet DEF ActiveCounted
  <1>5. Suspension
    BY DEF Suspension
  <1>6. Queued = {} /\ Having = {} /\ Up = {} /\ Len(m_queue) = 0
    BY DEF Queued, Elements, Having, Up
  <1>7. PlansInPlace
    BY <1>6 DEF PlansInPlace, Once, QueuedPlans, TakenPlans, ReadyPlans, AllPlans
  <1>8. Shutdown
    BY <1>6 DEF Shutdown, NullsLast, Ended, NullsOf
  <1>9. NoPlanForgotten
    <2>1. Looking = {}
      BY <1>6 DEF Looking
    <2> QED
      BY <1>6, <2>1, FS_EmptySet DEF NoPlanForgotten
  <1> QED
    BY <1>1, <1>2, <1>4, <1>5, <1>7, <1>8, <1>9 DEF IInv

\* Every step keeps the invariant.
LEMMA NextIInv == IInv /\ [Next]_vars => IInv'
  BY NextTypeOK, NextThreads, NextCounted, NextSuspension, NextPlans, NextShutdown,
     NextForgotten DEF IInv

\* The inductive invariant.
LEMMA SpecIInv == Spec => []IInv
  BY InitIInv, NextIInv, PTL DEF Spec

\* A set with no two elements.
LEMMA AtMostOne ==
  ASSUME NEW S, \A x, y \in S : x = y
  PROVE  Cardinality(S) = IF S = {} THEN 0 ELSE 1
  <1>1. CASE S = {}
    BY <1>1, FS_EmptySet
  <1>2. CASE S # {}
    <2>1. PICK x \in S : TRUE
      BY <1>2
    <2>2. S = {x}
      BY <2>1
    <2> QED
      BY <1>2, <2>2, FS_Singleton
  <1> QED
    BY <1>1, <1>2

\* The invariant places every plan.
LEMMA PlansPlaced == IInv => PlansAccounted
  <1>0. IInv => (NullsOf(m_queue) # {} \/ isRunning # added
                   => Cardinality(NullsOf(m_queue)) = Cardinality(isRunning))
    BY DEF IInv, Shutdown, Ended, TypeOK
  <1> SUFFICES ASSUME IInv, NEW p \in Plan
               PROVE  LET queued == {i \in DOMAIN m_queue : m_queue[i] = p}
                          at(S) == {t \in Thread : m_plan[t] = p /\ step[t] \in S} IN
                      /\ Cardinality(queued) + Cardinality(at({"start", "compiling", "safepoint"}))
                           + (IF p \in m_readyPlans THEN 1 ELSE 0)
                         = IF p \in m_plans THEN 1
                           ELSE IF stage[p] = "Cancelled" THEN Cardinality(at({"start", "safepoint"})) ELSE 0
                      /\ p \in m_plans =>
                           stage[p] = IF queued \cup at({"start"}) # {} THEN "Preparing"
                                      ELSE IF p \in m_readyPlans THEN "Ready" ELSE "Compiling"
    BY <1>0 DEF PlansAccounted
  <1> DEFINE queued == {i \in DOMAIN m_queue : m_queue[i] = p}
             held == {t \in Thread : m_plan[t] = p /\ step[t] \in {"start", "compiling", "safepoint"}}
             stopped == {t \in Thread : m_plan[t] = p /\ step[t] \in {"start", "safepoint"}}
             begun == {t \in Thread : m_plan[t] = p /\ step[t] \in {"start"}}
  <1> USE DEF IInv, PlansInPlace
  <1>1. DOMAIN m_queue = 1 .. Len(m_queue) /\ p # Nobody
    BY DEF TypeOK
  <1>2. queued # {} <=> p \in Queued
    BY <1>1 DEF Queued, Elements
  <1>3. \A i, j \in queued : i = j
    BY <1>1 DEF Once
  <1>4. \A t \in held : t \in Having /\ m_plan[t] = p
    BY DEF Having
  <1>5. \A t \in Having : m_plan[t] = p => t \in held
    BY DEF Having
  <1>6. \A t, u \in held : t = u
    BY <1>4 DEF TakenPlans
  <1>7. /\ Cardinality(queued) = IF p \in Queued THEN 1 ELSE 0
        /\ Cardinality(held) = IF held = {} THEN 0 ELSE 1
    <2> HIDE DEF queued, held
    <2> QED
      BY <1>2, <1>3, <1>6, AtMostOne
  <1>8. \A t \in held : /\ stage[p] = "Cancelled" <=> p \notin m_plans
                        /\ step[t] = "start" => stage[p] \in {"Preparing", "Cancelled"}
                        /\ step[t] = "compiling" => stage[p] = "Compiling"
                        /\ step[t] = "safepoint" => stage[p] \in {"Compiling", "Cancelled"}
    BY <1>4 DEF TakenPlans
  <1>9. \A t \in held : step[t] \in {"start", "compiling", "safepoint"}
    OBVIOUS
  <1>10. /\ p \in Queued => p \in m_plans /\ stage[p] = "Preparing" /\ held = {}
         /\ p \in m_readyPlans => p \in m_plans /\ stage[p] = "Ready"
    BY <1>4 DEF QueuedPlans, ReadyPlans
  <1>11. stage[p] = "Cancelled" => stopped = held
    BY <1>8
  <1>12. p \in m_plans => p \in Queued \/ p \in m_readyPlans \/ held # {}
    BY <1>5 DEF AllPlans
  <1>13. begun \subseteq held /\ \A t \in begun : step[t] = "start"
    OBVIOUS
  <1>14. \A t \in held : step[t] = "start" => t \in begun
    OBVIOUS
  <1> HIDE DEF queued, held, stopped, begun
  <1>15. p \in m_readyPlans => held = {}
    BY <1>8, <1>9, <1>10
  <1>16. CASE p \in m_plans
    <2>1. Cardinality(queued) + Cardinality(held) + (IF p \in m_readyPlans THEN 1 ELSE 0) = 1
      BY <1>7, <1>10, <1>12, <1>15, <1>16
    <2>2. stage[p] = IF queued \cup begun # {} THEN "Preparing"
                     ELSE IF p \in m_readyPlans THEN "Ready" ELSE "Compiling"
      <3>1. CASE queued # {}
        BY <1>2, <1>10, <3>1
      <3>2. CASE queued = {} /\ begun # {}
        BY <1>8, <1>13, <1>16, <3>2
      <3>3. CASE queued = {} /\ begun = {} /\ p \in m_readyPlans
        BY <1>10, <3>3
      <3>4. CASE queued = {} /\ begun = {} /\ p \notin m_readyPlans
        <4>1. PICK t \in held : TRUE
          BY <1>2, <1>12, <1>16, <3>4
        <4>2. stage[p] = "Compiling"
          BY <1>8, <1>9, <1>14, <1>16, <3>4
        <4> QED
          BY <3>4, <4>2
      <3> QED
        BY <3>1, <3>2, <3>3, <3>4
    <2> QED
      BY <1>16, <2>1, <2>2 DEF queued, held, begun
  <1>17. CASE p \notin m_plans
    <2>1. p \notin Queued /\ p \notin m_readyPlans
      BY <1>10, <1>17
    <2>2. Cardinality(queued) = 0 /\ Cardinality(held) = IF stage[p] = "Cancelled" THEN Cardinality(stopped) ELSE 0
      BY <1>7, <1>8, <1>11, <1>17, <2>1
    <2>3. Cardinality(held) \in Nat
      BY <1>7
    <2> QED
      BY <1>17, <2>1, <2>2, <2>3 DEF queued, held, stopped
  <1> QED
    BY <1>16, <1>17

\* The invariant implies the assertions.
LEMMA AssertionsFollow == IInv => AssertionsHold
  <1> SUFFICES ASSUME IInv PROVE AssertionsHold
    OBVIOUS
  <1> USE DEF IInv
  <1>1. \A t \in Thread : (m_plan[t] # Nobody) = (where[t] = "work")
    BY DEF ThreadsInPlace
  <1>2. ASSUME NEW t \in Thread, step[t] = "compiling"
        PROVE  stage[m_plan[t]] = "Compiling" /\ gc[VmOf(m_plan[t])] # "believes"
    <2>1. t \in Having /\ t \notin rights
      BY <1>2 DEF Having, Suspension
    <2>2. stage[m_plan[t]] = "Compiling" /\ VmOf(m_plan[t]) \in VM
      BY <1>2, <2>1, HasPlan DEF PlansInPlace, TakenPlans
    <2> QED
      BY <2>1, <2>2 DEF Suspension
  <1>3. m_numberOfActiveThreads = Cardinality({t \in Thread : where[t] = "work"})
    BY DEF ActiveCounted, Active
  <1>4. \A i \in DOMAIN m_queue : m_queue[i] # Nobody => stage[m_queue[i]] = "Preparing"
    BY DEF TypeOK, PlansInPlace, QueuedPlans, Queued, Elements
  <1>5. StartAsserts \/ \A v \in VM : mutator[v] = "gone"
    BY DEF StartAsserts, Down, TypeOK, Shutdown, Ended
  <1> QED
    BY <1>1, <1>2, <1>3, <1>4, <1>5 DEF AssertionsHold

\* For every plan in the queue a compiler thread that has no other plan is up,
\* as far as there are threads: neither the ten-second timeout of
\* AutomaticThread nor a notification spent on a thread that finds the queue
\* empty leaves a plan beside a sleeping compiler.
THEOREM WorklistForgetsNoPlan == Spec => []NoPlanForgotten
  BY SpecIInv, PTL DEF IInv

\* However enqueueing, compiling, safepoints, cancellation and finalization
\* interleave, every plan of m_plans is in exactly one place and has the stage
\* of that place, and nothing cancelled is queued or ready; the destructor has a
\* null plan for each thread that it joins.
THEOREM WorklistAccounts == Spec => []PlansAccounted
  BY SpecIInv, PlansPlaced, PTL

\* The RELEASE_ASSERTs of the worklist hold: no collector that believes the
\* world stopped meets a thread that compiles for its VM, and a compilation
\* cancelled at a safepoint notices.
THEOREM WorklistAsserts == Spec => []AssertionsHold
  BY SpecIInv, AssertionsFollow, PTL

\* A mutator asleep in waitUntilAllPlansForVMAreReady() has a plan to wait for:
\* no step takes the last one without waking it, but for its own collector's
\* removeDeadPlans().
THEOREM WorklistWaitsEnd == Spec => WaitsEnd
  <1>1. IInv /\ [Next]_vars => [WaitsStep]_vars
    BY NextWaiters
  <1> QED
    BY SpecIInv, <1>1, PTL DEF Spec, WaitsEnd, WaitsStep

=============================================================================
