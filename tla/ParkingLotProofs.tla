------------------------- MODULE ParkingLotProofs -------------------------
(***************************************************************************)
(* For any number of threads and addresses, any hash function, any         *)
(* allocator of buckets, any load and growth factors and whatever unparks  *)
(* are called: ParkingLot forgets nobody, its assertions hold, tokens and  *)
(* mayHaveMoreThreads are truthful, nobody is stuck, and the hashtable     *)
(* with its rehashing implements ParkingQueues, one queue per address.     *)
(*                                                                         *)
(* All rests on IInv, which every action preserves in two lemmas: Tables   *)
(* and Places.  Tables: the spines, the locks and what a thread knows of   *)
(* them.  Places: where each thread with an address is; these lemmas also  *)
(* say which step of ParkingQueues the action is.                          *)
(***************************************************************************)
EXTENDS ParkingLot, FiniteSetTheorems, SequenceTheorems, WellFoundedInduction,
        NaturalsInduction, TLAPS

-----------------------------------------------------------------------------
(* Sequences *)

\* A non-empty set of numbers has a least one.
LEMMA Least ==
  ASSUME NEW T \in SUBSET Nat, T # {}
  PROVE  \E n \in T : \A m \in T : n <= m
  <1> DEFINE Less == {ss \in Nat \X Nat : ss[1] < ss[2]}
  <1>1. IsWellFoundedOn(Less, Nat)
    BY NatLessThanWellFounded DEF OpToRel
  <1>2. \E n \in T : \A m \in T : ~(<<m, n>> \in Less)
    <2> HIDE DEF Less
    <2> QED
      BY <1>1, WFMin
  <1>3. PICK n \in T : \A m \in T : ~(<<m, n>> \in Less)
    BY <1>2
  <1>4. \A m \in T : <<m, n>> \in Nat \X Nat /\ <<m, n>>[1] = m /\ <<m, n>>[2] = n
    OBVIOUS
  <1>5. \A m \in T : ~(m < n)
    BY <1>3, <1>4
  <1> QED
    BY <1>5

\* A set of numbers with 0 and with the successor of each of its members has
\* all of them.
LEMMA UpTo ==
  ASSUME NEW n \in Nat, NEW Good, 0 \in Good, \A i \in 0 .. n - 1 : i \in Good => i + 1 \in Good
  PROVE  \A i \in 0 .. n : i \in Good
  <1> SUFFICES ASSUME NEW x \in 0 .. n, x \notin Good PROVE FALSE
    OBVIOUS
  <1> DEFINE Bad == {i \in 0 .. n : i \notin Good}
  <1>1. Bad \in SUBSET Nat /\ Bad # {}
    OBVIOUS
  <1>2. PICK k \in Bad : \A m \in Bad : k <= m
    <2> HIDE DEF Bad
    <2> QED
      BY <1>1, Least
  <1>3. k \in 1 .. n /\ k \notin Good
    BY <1>2
  <1>4. k - 1 \in 0 .. n - 1 /\ k - 1 \notin Bad
    BY <1>2, <1>3
  <1>5. k - 1 \in Good
    BY <1>4
  <1> QED
    BY <1>3, <1>4, <1>5

\* Induction over sequences: a set with the empty sequence, closed under
\* Append, has every sequence.
LEMMA AllSequences ==
  ASSUME NEW T, NEW Good, <<>> \in Good,
         \A s \in Seq(T) : s \in Good => \A x \in T : Append(s, x) \in Good
  PROVE  \A s \in Seq(T) : s \in Good
  <1> SUFFICES ASSUME NEW s \in Seq(T) PROVE s \in Good
    OBVIOUS
  <1> DEFINE G == {i \in 0 .. Len(s) : SubSeq(s, 1, i) \in Good}
  <1>0. Len(s) \in Nat /\ 0 \in 0 .. Len(s) /\ Len(s) \in 0 .. Len(s)
    OBVIOUS
  <1>1. 0 \in G
    <2>1. SubSeq(s, 1, 0) = <<>>
      OBVIOUS
    <2> QED
      BY <1>0, <2>1
  <1>2. ASSUME NEW i \in 0 .. Len(s) - 1, i \in G PROVE i + 1 \in G
    <2>1. i + 1 \in 1 .. Len(s) /\ s[i + 1] \in T
      BY <1>0
    <2>2. SubSeq(s, 1, i + 1) = Append(SubSeq(s, 1, i), s[i + 1]) /\ SubSeq(s, 1, i) \in Seq(T)
      BY <1>0, <2>1
    <2>3. SubSeq(s, 1, i) \in Good
      BY <1>2
    <2>4. Append(SubSeq(s, 1, i), s[i + 1]) \in Good
      BY <2>1, <2>2, <2>3
    <2>5. i + 1 \in 0 .. Len(s)
      BY <1>0
    <2> QED
      BY <2>2, <2>4, <2>5
  <1>3. Len(s) \in G
    <2> HIDE DEF G
    <2>1. \A i \in 0 .. Len(s) - 1 : i \in G => i + 1 \in G
      BY <1>2
    <2>2. \A i \in 0 .. Len(s) : i \in G
      BY <1>0, <1>1, <2>1, UpTo
    <2> QED
      BY <1>0, <2>2
  <1>4. SubSeq(s, 1, Len(s)) = s
    OBVIOUS
  <1> QED
    BY <1>3, <1>4

\* Only() of every prefix of q.
OnlyPrefixes(T, q, S) ==
    {g \in [0 .. Len(q) -> Seq(T)] :
        /\ g[0] = <<>>
        /\ \A i \in 1 .. Len(q) :
              g[i] = IF q[i] \in S THEN Append(g[i - 1], q[i]) ELSE g[i - 1]}

\* The recursive definition of Only() has a solution.
LEMMA OnlyStep ==
  ASSUME NEW T, NEW q \in Seq(T), NEW S
  PROVE  \E g \in OnlyPrefixes(T, q, S) : Only(q, S) = g[Len(q)]
  <1> DEFINE Solves(m, g) ==
               /\ g[0] = <<>>
               /\ \A i \in 1 .. m : g[i] = IF q[i] \in S THEN Append(g[i - 1], q[i]) ELSE g[i - 1]
             Good == {m \in 0 .. Len(q) : \E g \in [0 .. m -> Seq(T)] : Solves(m, g)}
             F(g) == [i \in 0 .. Len(q) |-> IF i = 0 THEN <<>>
                                            ELSE IF q[i] \in S THEN Append(g[i - 1], q[i]) ELSE g[i - 1]]
  <1>0. Len(q) \in Nat /\ 0 \in 0 .. Len(q) /\ Len(q) \in 0 .. Len(q)
    OBVIOUS
  <1>1. 0 \in Good
    <2> DEFINE g == [i \in 0 .. 0 |-> <<>>]
    <2>1. g \in [0 .. 0 -> Seq(T)] /\ Solves(0, g)
      OBVIOUS
    <2> QED
      BY <1>0, <2>1
  <1>2. ASSUME NEW k \in 0 .. Len(q) - 1, k \in Good PROVE k + 1 \in Good
    <2>1. PICK g \in [0 .. k -> Seq(T)] : Solves(k, g)
      BY <1>2
    <2> DEFINE last == IF q[k + 1] \in S THEN Append(g[k], q[k + 1]) ELSE g[k]
               h == [i \in 0 .. k + 1 |-> IF i < k + 1 THEN g[i] ELSE last]
    <2>2. last \in Seq(T)
      <3>1. k + 1 \in 1 .. Len(q) /\ g[k] \in Seq(T) /\ q[k + 1] \in T
        BY <1>0
      <3> QED
        BY <3>1
    <2>3. h \in [0 .. k + 1 -> Seq(T)]
      BY <1>0, <2>2
    <2>4. \A i \in 0 .. k : h[i] = g[i]
      BY <1>0
    <2>5. h[k + 1] = last
      BY <1>0
    <2> HIDE DEF h
    <2>6. Solves(k + 1, h)
      <3>1. h[0] = <<>>
        BY <1>0, <2>1, <2>4
      <3>2. ASSUME NEW i \in 1 .. k + 1 PROVE h[i] = IF q[i] \in S THEN Append(h[i - 1], q[i]) ELSE h[i - 1]
        <4>1. i - 1 \in 0 .. k
          BY <1>0
        <4>2. CASE i = k + 1
          BY <2>4, <2>5, <4>1, <4>2
        <4>3. CASE i # k + 1
          <5>1. i \in 1 .. k /\ i \in 0 .. k
            BY <1>0, <4>3
          <5> QED
            BY <2>1, <2>4, <4>1, <5>1
        <4> QED
          BY <4>2, <4>3
      <3> QED
        BY <3>1, <3>2
    <2>7. k + 1 \in 0 .. Len(q)
      BY <1>0
    <2> QED
      BY <2>3, <2>6, <2>7
  <1>3. Len(q) \in Good
    <2> HIDE DEF Good
    <2>1. \A i \in 0 .. Len(q) - 1 : i \in Good => i + 1 \in Good
      BY <1>2
    <2>2. \A i \in 0 .. Len(q) : i \in Good
      BY <1>0, <1>1, <2>1, UpTo
    <2> QED
      BY <1>0, <2>2
  <1>4. PICK g \in [0 .. Len(q) -> Seq(T)] : Solves(Len(q), g)
    BY <1>3
  <1>5. g = F(g)
    <2>1. \A i \in 0 .. Len(q) : g[i] = F(g)[i]
      <3>1. F(g)[0] = <<>>
        BY <1>0
      <3>2. \A i \in 1 .. Len(q) : F(g)[i] = IF q[i] \in S THEN Append(g[i - 1], q[i]) ELSE g[i - 1]
        BY <1>0
      <3>3. \A i \in 0 .. Len(q) : i = 0 \/ i \in 1 .. Len(q)
        BY <1>0
      <3> HIDE DEF F
      <3> QED
        BY <1>4, <3>1, <3>2, <3>3, Zenon
    <2>2. g = [i \in 0 .. Len(q) |-> g[i]]
      BY <1>4
    <2>3. F(g) = [i \in 0 .. Len(q) |-> F(g)[i]]
      OBVIOUS
    <2> HIDE DEF F
    <2> QED
      BY <2>1, <2>2, <2>3, Zenon
  <1> DEFINE only == CHOOSE h : h = F(h)
  <1>6. Only(q, S) = only[Len(q)]
    BY Zenon DEF Only
  <1>7. only = F(only)
    <2> HIDE DEF F
    <2> QED
      BY <1>5
  <1> HIDE DEF F, only
  <1>8. \A h : F(h)[0] = <<>> /\ \A i \in 1 .. Len(q) : F(h)[i] = IF q[i] \in S THEN Append(h[i - 1], q[i]) ELSE h[i - 1]
    BY <1>0 DEF F
  <1>9. Solves(Len(q), only)
    BY <1>7, <1>8
  <1>10. \A i \in 0 .. Len(q) : only[i] \in Seq(T)
    <2> DEFINE Fine == {i \in 0 .. Len(q) : only[i] \in Seq(T)}
    <2>1. 0 \in Fine
      <3>1. only[0] \in Seq(T)
        BY <1>9
      <3> QED
        BY <1>0, <3>1
    <2>2. ASSUME NEW i \in 0 .. Len(q) - 1, i \in Fine PROVE i + 1 \in Fine
      <3>0. only[i] \in Seq(T)
        BY <2>2
      <3>1. i + 1 \in 1 .. Len(q) /\ q[i + 1] \in T /\ (i + 1) - 1 = i /\ i + 1 \in 0 .. Len(q)
        BY <1>0
      <3>2. only[i + 1] = IF q[i + 1] \in S THEN Append(only[i], q[i + 1]) ELSE only[i]
        BY <1>9, <3>1
      <3>3. only[i + 1] \in Seq(T)
        BY <3>0, <3>1, <3>2
      <3> QED
        BY <3>1, <3>3
    <2> HIDE DEF Fine
    <2>3. \A i \in 0 .. Len(q) - 1 : i \in Fine => i + 1 \in Fine
      BY <2>2
    <2>4. \A i \in 0 .. Len(q) : i \in Fine
      BY <1>0, <2>1, <2>3, UpTo
    <2> QED
      BY <2>4 DEF Fine
  <1>11. only = [i \in 0 .. Len(q) |-> only[i]]
    BY <1>7 DEF F
  <1>12. only \in [0 .. Len(q) -> Seq(T)]
    BY <1>10, <1>11
  <1> QED
    BY <1>6, <1>9, <1>12 DEF OnlyPrefixes

\* Only() of the empty sequence.
LEMMA OnlyEmpty ==
  ASSUME NEW S
  PROVE  Only(<<>>, S) = <<>>
  <1>1. <<>> \in Seq({}) /\ Len(<<>>) = 0
    OBVIOUS
  <1>2. PICK g \in OnlyPrefixes({}, <<>>, S) : Only(<<>>, S) = g[Len(<<>>)]
    BY <1>1, OnlyStep
  <1> QED
    BY <1>1, <1>2 DEF OnlyPrefixes

\* Only() keeps the type.
LEMMA OnlyType ==
  ASSUME NEW T, NEW q \in Seq(T), NEW S
  PROVE  Only(q, S) \in Seq(T)
  <1>1. Len(q) \in 0 .. Len(q)
    OBVIOUS
  <1>2. PICK g \in OnlyPrefixes(T, q, S) : Only(q, S) = g[Len(q)]
    BY OnlyStep
  <1> QED
    BY <1>1, <1>2 DEF OnlyPrefixes

\* Only() of one more element.
LEMMA OnlyOne ==
  ASSUME NEW T, NEW q \in Seq(T), NEW x \in T, NEW S
  PROVE  /\ x \in S => Only(Append(q, x), S) = Append(Only(q, S), x)
         /\ x \notin S => Only(Append(q, x), S) = Only(q, S)
  <1> DEFINE r == Append(q, x)
             n == Len(q)
  <1>1. r \in Seq(T) /\ Len(r) = n + 1 /\ n \in Nat /\ 0 \in 0 .. n /\ n \in 0 .. n /\ r[n + 1] = x /\ \A i \in 1 .. n : r[i] = q[i]
    OBVIOUS
  <1> HIDE DEF r, n
  <1>2. PICK g \in [0 .. n -> Seq(T)] :
          /\ g[0] = <<>>
          /\ \A i \in 1 .. n : g[i] = IF q[i] \in S THEN Append(g[i - 1], q[i]) ELSE g[i - 1]
          /\ Only(q, S) = g[n]
    <2>1. PICK g \in OnlyPrefixes(T, q, S) : Only(q, S) = g[Len(q)]
      BY OnlyStep
    <2> QED
      BY <2>1 DEF OnlyPrefixes, n
  <1>3. PICK h \in [0 .. n + 1 -> Seq(T)] :
          /\ h[0] = <<>>
          /\ \A i \in 1 .. n + 1 : h[i] = IF r[i] \in S THEN Append(h[i - 1], r[i]) ELSE h[i - 1]
          /\ Only(r, S) = h[n + 1]
    <2>1. PICK h \in OnlyPrefixes(T, r, S) : Only(r, S) = h[Len(r)]
      BY <1>1, OnlyStep
    <2> QED
      BY <1>1, <2>1 DEF OnlyPrefixes
  <1> DEFINE Same == {i \in 0 .. n : h[i] = g[i]}
  <1>4. 0 \in Same
    BY <1>1, <1>2, <1>3
  <1>5. ASSUME NEW i \in 0 .. n - 1, i \in Same PROVE i + 1 \in Same
    <2>1. i + 1 \in 1 .. n /\ i + 1 \in 1 .. n + 1 /\ i + 1 \in 0 .. n /\ (i + 1) - 1 = i
      BY <1>1
    <2>2. /\ g[i + 1] = IF q[i + 1] \in S THEN Append(g[i], q[i + 1]) ELSE g[i]
          /\ h[i + 1] = IF r[i + 1] \in S THEN Append(h[i], r[i + 1]) ELSE h[i]
      BY <1>2, <1>3, <2>1
    <2>3. r[i + 1] = q[i + 1]
      BY <1>1, <2>1
    <2> QED
      BY <1>5, <2>1, <2>2, <2>3
  <1> HIDE DEF Same
  <1>6. n \in Same
    <2>1. \A i \in 0 .. n - 1 : i \in Same => i + 1 \in Same
      BY <1>5
    <2>2. \A i \in 0 .. n : i \in Same
      BY <1>1, <1>4, <2>1, UpTo
    <2> QED
      BY <1>1, <2>2
  <1>7. n + 1 \in 1 .. n + 1 /\ (n + 1) - 1 = n
    BY <1>1
  <1>8. h[n + 1] = IF r[n + 1] \in S THEN Append(h[n], r[n + 1]) ELSE h[n]
    BY <1>3, <1>7
  <1>9. h[n] = g[n]
    BY <1>6 DEF Same
  <1> QED
    BY <1>1, <1>2, <1>3, <1>8, <1>9 DEF r

\* The members of a sequence, and of one with one more.
LEMMA Members ==
  ASSUME NEW T
  PROVE  /\ ToSet(<<>>) = {}
         /\ IsInjective(<<>>)
         /\ \A q \in Seq(T) : \A x : x \in ToSet(q) <=> \E i \in 1 .. Len(q) : q[i] = x
         /\ \A q \in Seq(T), x \in T : ToSet(Append(q, x)) = ToSet(q) \cup {x}
         /\ \A q \in Seq(T), x \in T :
               IsInjective(Append(q, x)) <=> IsInjective(q) /\ x \notin ToSet(q)
         /\ \A q, r \in Seq(T) : ToSet(q \o r) = ToSet(q) \cup ToSet(r)
  <1>1. ToSet(<<>>) = {} /\ IsInjective(<<>>)
    BY DEF ToSet, IsInjective
  <1>2. ASSUME NEW q \in Seq(T), NEW x PROVE x \in ToSet(q) <=> \E i \in 1 .. Len(q) : q[i] = x
    BY DEF ToSet
  <1>3. ASSUME NEW q \in Seq(T), NEW x \in T
        PROVE  /\ ToSet(Append(q, x)) = ToSet(q) \cup {x}
               /\ IsInjective(Append(q, x)) <=> IsInjective(q) /\ x \notin ToSet(q)
    <2> DEFINE r == Append(q, x)
               n == Len(q)
    <2>1. n \in Nat /\ DOMAIN r = 1 .. n + 1 /\ DOMAIN q = 1 .. n /\ r[n + 1] = x
      OBVIOUS
    <2>2. \A i \in 1 .. n : r[i] = q[i]
      OBVIOUS
    <2> HIDE DEF r, n
    <2>3. \A i \in 1 .. n + 1 : i \in 1 .. n \/ i = n + 1
      BY <2>1
    <2>4. \A i \in 1 .. n : i \in 1 .. n + 1 /\ i # n + 1
      BY <2>1
    <2>5. n + 1 \in 1 .. n + 1
      BY <2>1
    <2>6. ToSet(r) = ToSet(q) \cup {x}
      BY <2>1, <2>2, <2>3, <2>4, <2>5 DEF ToSet
    <2>7. ASSUME IsInjective(r) PROVE IsInjective(q) /\ x \notin ToSet(q)
      BY <2>1, <2>2, <2>4, <2>5, <2>7 DEF ToSet, IsInjective
    <2>8. ASSUME IsInjective(q), x \notin ToSet(q) PROVE IsInjective(r)
      BY <2>1, <2>2, <2>3, <2>8 DEF ToSet, IsInjective
    <2> QED
      BY <2>6, <2>7, <2>8 DEF r
  <1>4. ASSUME NEW q \in Seq(T), NEW r \in Seq(T) PROVE ToSet(q \o r) = ToSet(q) \cup ToSet(r)
    <2> DEFINE c == q \o r
    <2>1. /\ Len(q) \in Nat /\ Len(r) \in Nat
          /\ DOMAIN c = 1 .. Len(q) + Len(r) /\ DOMAIN q = 1 .. Len(q) /\ DOMAIN r = 1 .. Len(r)
      OBVIOUS
    <2>2. \A i \in 1 .. Len(q) : i \in DOMAIN c /\ c[i] = q[i]
      OBVIOUS
    <2>3. \A i \in 1 .. Len(r) : i + Len(q) \in DOMAIN c /\ c[i + Len(q)] = r[i]
      OBVIOUS
    <2>4. \A i \in DOMAIN c : \/ i \in 1 .. Len(q) /\ c[i] = q[i]
                              \/ i - Len(q) \in 1 .. Len(r) /\ c[i] = r[i - Len(q)]
      OBVIOUS
    <2> HIDE DEF c
    <2>5. ToSet(c) \subseteq ToSet(q) \cup ToSet(r)
      BY <2>1, <2>4 DEF ToSet
    <2>6. ToSet(q) \subseteq ToSet(c)
      BY <2>1, <2>2 DEF ToSet
    <2>7. ToSet(r) \subseteq ToSet(c)
      BY <2>1, <2>3 DEF ToSet
    <2> QED
      BY <2>5, <2>6, <2>7 DEF c
  <1> QED
    BY <1>1, <1>2, <1>3, <1>4

\* What Only() keeps.
LEMMA OnlyMembers ==
  ASSUME NEW T, NEW S
  PROVE  \A q \in Seq(T) : /\ ToSet(Only(q, S)) = ToSet(q) \cap S
                           /\ IsInjective(q) => IsInjective(Only(q, S))
  <1> DEFINE Good == {q \in Seq(T) : /\ ToSet(Only(q, S)) = ToSet(q) \cap S
                                     /\ IsInjective(q) => IsInjective(Only(q, S))}
  <1>1. <<>> \in Good
    BY OnlyEmpty, Members
  <1>2. ASSUME NEW q \in Seq(T), q \in Good, NEW x \in T PROVE Append(q, x) \in Good
    <2>1. (x \in S => Only(Append(q, x), S) = Append(Only(q, S), x)) /\ (x \notin S => Only(Append(q, x), S) = Only(q, S))
      BY OnlyOne
    <2>2. Only(q, S) \in Seq(T) /\ Append(q, x) \in Seq(T)
      BY OnlyType
    <2>3. /\ ToSet(Append(q, x)) = ToSet(q) \cup {x}
          /\ IsInjective(Append(q, x)) <=> IsInjective(q) /\ x \notin ToSet(q)
      BY Members
    <2>4. /\ ToSet(Append(Only(q, S), x)) = ToSet(Only(q, S)) \cup {x}
          /\ IsInjective(Append(Only(q, S), x)) <=> IsInjective(Only(q, S)) /\ x \notin ToSet(Only(q, S))
      BY Members, <2>2
    <2>5. ToSet(Only(q, S)) = ToSet(q) \cap S /\ (IsInjective(q) => IsInjective(Only(q, S)))
      BY <1>2
    <2>6. ToSet(Only(Append(q, x), S)) = ToSet(Append(q, x)) \cap S
      BY <2>1, <2>3, <2>4, <2>5
    <2>7. IsInjective(Append(q, x)) => IsInjective(Only(Append(q, x), S))
      BY <2>1, <2>3, <2>4, <2>5
    <2> QED
      BY <2>2, <2>6, <2>7
  <1> HIDE DEF Good
  <1>3. \A q \in Seq(T) : q \in Good
    BY <1>1, <1>2, AllSequences
  <1> QED
    BY <1>3 DEF Good

\* Only the members of q matter.
LEMMA OnlySame ==
  ASSUME NEW T, NEW S, NEW R
  PROVE  \A q \in Seq(T) : ToSet(q) \cap S = ToSet(q) \cap R => Only(q, S) = Only(q, R)
  <1> DEFINE Good == {q \in Seq(T) : ToSet(q) \cap S = ToSet(q) \cap R => Only(q, S) = Only(q, R)}
  <1>1. <<>> \in Good
    BY OnlyEmpty, Members
  <1>2. ASSUME NEW q \in Seq(T), q \in Good, NEW x \in T PROVE Append(q, x) \in Good
    <2>1. /\ (x \in S => Only(Append(q, x), S) = Append(Only(q, S), x)) /\ (x \notin S => Only(Append(q, x), S) = Only(q, S))
          /\ (x \in R => Only(Append(q, x), R) = Append(Only(q, R), x)) /\ (x \notin R => Only(Append(q, x), R) = Only(q, R))
      BY OnlyOne
    <2>2. ToSet(Append(q, x)) = ToSet(q) \cup {x}
      BY Members
    <2>3. ToSet(q) \cap S = ToSet(q) \cap R => Only(q, S) = Only(q, R)
      BY <1>2
    <2>4. Append(q, x) \in Seq(T)
      OBVIOUS
    <2>5. ASSUME ToSet(Append(q, x)) \cap S = ToSet(Append(q, x)) \cap R
          PROVE  Only(Append(q, x), S) = Only(Append(q, x), R)
      <3>1. ToSet(q) \cap S = ToSet(q) \cap R /\ (x \in S <=> x \in R)
        BY <2>2, <2>5
      <3> QED
        BY <2>1, <2>3, <3>1
    <2> QED
      BY <2>4, <2>5
  <1> HIDE DEF Good
  <1>3. \A q \in Seq(T) : q \in Good
    BY <1>1, <1>2, AllSequences
  <1> QED
    BY <1>3 DEF Good

\* Only() keeps everything, or nothing.
LEMMA OnlyAllOrNone ==
  ASSUME NEW T, NEW S
  PROVE  \A q \in Seq(T) : /\ ToSet(q) \subseteq S => Only(q, S) = q
                           /\ ToSet(q) \cap S = {} => Only(q, S) = <<>>
  <1> DEFINE Good == {q \in Seq(T) : /\ ToSet(q) \subseteq S => Only(q, S) = q
                                     /\ ToSet(q) \cap S = {} => Only(q, S) = <<>>}
  <1>1. <<>> \in Good
    BY OnlyEmpty, Members
  <1>2. ASSUME NEW q \in Seq(T), q \in Good, NEW x \in T PROVE Append(q, x) \in Good
    <2>1. (x \in S => Only(Append(q, x), S) = Append(Only(q, S), x)) /\ (x \notin S => Only(Append(q, x), S) = Only(q, S))
      BY OnlyOne
    <2>2. ToSet(Append(q, x)) = ToSet(q) \cup {x}
      BY Members
    <2>3. /\ ToSet(q) \subseteq S => Only(q, S) = q
          /\ ToSet(q) \cap S = {} => Only(q, S) = <<>>
      BY <1>2
    <2>4. Append(q, x) \in Seq(T)
      OBVIOUS
    <2>5. ToSet(Append(q, x)) \subseteq S => Only(Append(q, x), S) = Append(q, x)
      BY <2>1, <2>2, <2>3
    <2>6. ToSet(Append(q, x)) \cap S = {} => Only(Append(q, x), S) = <<>>
      BY <2>1, <2>2, <2>3
    <2> QED
      BY <2>4, <2>5, <2>6
  <1> HIDE DEF Good
  <1>3. \A q \in Seq(T) : q \in Good
    BY <1>1, <1>2, AllSequences
  <1> QED
    BY <1>3 DEF Good

\* Only() of Only().
LEMMA OnlyTwice ==
  ASSUME NEW T, NEW S, NEW R
  PROVE  \A q \in Seq(T) : Only(Only(q, S), R) = Only(q, S \cap R)
  <1> DEFINE Good == {q \in Seq(T) : Only(Only(q, S), R) = Only(q, S \cap R)}
  <1>1. <<>> \in Good
    <2>1. Only(<<>>, S) = <<>> /\ Only(<<>>, R) = <<>> /\ Only(<<>>, S \cap R) = <<>>
      BY OnlyEmpty
    <2> QED
      BY <2>1
  <1>2. ASSUME NEW q \in Seq(T), q \in Good, NEW x \in T PROVE Append(q, x) \in Good
    <2>1. (x \in S => Only(Append(q, x), S) = Append(Only(q, S), x)) /\ (x \notin S => Only(Append(q, x), S) = Only(q, S))
      BY OnlyOne
    <2>2. (x \in S \cap R => Only(Append(q, x), S \cap R) = Append(Only(q, S \cap R), x)) /\ (x \notin S \cap R => Only(Append(q, x), S \cap R) = Only(q, S \cap R))
      BY OnlyOne
    <2>3. Only(q, S) \in Seq(T) /\ Append(q, x) \in Seq(T)
      BY OnlyType
    <2>4. (x \in R => Only(Append(Only(q, S), x), R) = Append(Only(Only(q, S), R), x)) /\ (x \notin R => Only(Append(Only(q, S), x), R) = Only(Only(q, S), R))
      BY OnlyOne, <2>3
    <2>5. Only(Only(q, S), R) = Only(q, S \cap R)
      BY <1>2
    <2>6. Only(Only(Append(q, x), S), R) = Only(Append(q, x), S \cap R)
      BY <2>1, <2>2, <2>4, <2>5
    <2> QED
      BY <2>3, <2>6
  <1> HIDE DEF Good
  <1>3. \A q \in Seq(T) : q \in Good
    BY <1>1, <1>2, AllSequences
  <1> QED
    BY <1>3 DEF Good

\* Only() of a concatenation.
LEMMA OnlyConcat ==
  ASSUME NEW T, NEW p \in Seq(T), NEW r \in Seq(T), NEW S
  PROVE  Only(p \o r, S) = Only(p, S) \o Only(r, S)
  <1> DEFINE Good == {q \in Seq(T) : Only(p \o q, S) = Only(p, S) \o Only(q, S)}
  <1>0. Only(p, S) \in Seq(T)
    BY OnlyType
  <1>1. <<>> \in Good
    <2>1. p \o <<>> = p /\ Only(p, S) \o <<>> = Only(p, S)
      BY <1>0
    <2>2. Only(<<>>, S) = <<>>
      BY OnlyEmpty
    <2>3. <<>> \in Seq(T)
      OBVIOUS
    <2>4. Only(p \o <<>>, S) = Only(p, S) \o Only(<<>>, S)
      BY <2>1, <2>2, Zenon
    <2> QED
      BY <2>3, <2>4, Zenon
  <1>2. ASSUME NEW q \in Seq(T), q \in Good, NEW x \in T PROVE Append(q, x) \in Good
    <2>1. (x \in S => Only(Append(q, x), S) = Append(Only(q, S), x)) /\ (x \notin S => Only(Append(q, x), S) = Only(q, S))
      BY OnlyOne
    <2>2. Only(q, S) \in Seq(T) /\ Append(q, x) \in Seq(T) /\ p \o q \in Seq(T)
      BY OnlyType
    <2>3. (x \in S => Only(Append(p \o q, x), S) = Append(Only(p \o q, S), x)) /\ (x \notin S => Only(Append(p \o q, x), S) = Only(p \o q, S))
      BY OnlyOne, <2>2
    <2>4. p \o Append(q, x) = Append(p \o q, x)
      OBVIOUS
    <2>5. Only(p, S) \o Append(Only(q, S), x) = Append(Only(p, S) \o Only(q, S), x)
      BY <1>0, <2>2
    <2>6. Only(p \o q, S) = Only(p, S) \o Only(q, S)
      BY <1>2
    <2>7. Only(p \o Append(q, x), S) = Only(p, S) \o Only(Append(q, x), S)
      BY <2>1, <2>3, <2>4, <2>5, <2>6
    <2> QED
      BY <2>2, <2>7
  <1> HIDE DEF Good
  <1>3. \A q \in Seq(T) : q \in Good
    BY <1>1, <1>2, AllSequences
  <1> QED
    BY <1>3 DEF Good


\* The concatenations of the first sequences of ss.
Joins(T, ss) ==
    {g \in [1 .. Len(ss) -> Seq(T)] :
        g[1] = ss[1] /\ \A i \in 2 .. Len(ss) : g[i] = g[i - 1] \o ss[i]}

\* The recursive definition of FlattenSeq() has a solution.
LEMMA FlattenStep ==
  ASSUME NEW T, NEW ss \in Seq(Seq(T)), Len(ss) # 0
  PROVE  \E g \in Joins(T, ss) : FlattenSeq(ss) = g[Len(ss)]
  <1> DEFINE n == Len(ss)
             Solves(m, g) == g[1] = ss[1] /\ \A i \in 2 .. m : g[i] = g[i - 1] \o ss[i]
             Good == {m \in 0 .. n - 1 : \E g \in [1 .. m + 1 -> Seq(T)] : Solves(m + 1, g)}
             F(g) == [i \in 1 .. Len(ss) |-> IF i = 1 THEN ss[i] ELSE g[i - 1] \o ss[i]]
  <1>0. n \in Nat /\ 0 \in 0 .. n - 1 /\ n - 1 \in 0 .. n - 1 /\ n - 1 \in Nat /\ n = Len(ss)
    OBVIOUS
  <1>a. \A i \in 1 .. n : ss[i] \in Seq(T)
    OBVIOUS
  <1> HIDE DEF n
  <1>1. 0 \in Good
    <2> DEFINE g == [i \in 1 .. 1 |-> ss[1]]
    <2>1. 1 \in 1 .. n /\ 0 + 1 = 1
      BY <1>0
    <2>2. g \in [1 .. 1 -> Seq(T)] /\ Solves(1, g)
      BY <1>a, <2>1
    <2> QED
      BY <1>0, <2>1, <2>2
  <1>2. ASSUME NEW k \in 0 .. (n - 1) - 1, k \in Good PROVE k + 1 \in Good
    <2>1. PICK g \in [1 .. k + 1 -> Seq(T)] : Solves(k + 1, g)
      BY <1>2
    <2> DEFINE m == k + 2
               last == g[k + 1] \o ss[m]
               h == [i \in 1 .. m |-> IF i < m THEN g[i] ELSE last]
    <2>m. m \in 2 .. n /\ m - 1 = k + 1 /\ k + 1 \in 1 .. k + 1 /\ (k + 1) + 1 = m /\ k \in Nat
      BY <1>0
    <2> HIDE DEF m
    <2>2. last \in Seq(T)
      <3>1. m \in 1 .. n /\ g[k + 1] \in Seq(T)
        BY <1>0, <2>m
      <3> QED
        BY <3>1, <1>a
    <2> HIDE DEF last
    <2>3. h \in [1 .. m -> Seq(T)]
      BY <2>m, <2>2
    <2>4. \A i \in 1 .. k + 1 : h[i] = g[i]
      BY <2>m
    <2>5. h[m] = last
      BY <2>m
    <2> HIDE DEF h
    <2>6. Solves(m, h)
      <3>1. h[1] = ss[1]
        BY <2>1, <2>4, <2>m
      <3>2. ASSUME NEW i \in 2 .. m PROVE h[i] = h[i - 1] \o ss[i]
        <4>1. i - 1 \in 1 .. k + 1
          BY <2>m
        <4>2. CASE i = m
          BY <2>4, <2>5, <2>m, <4>1, <4>2 DEF last
        <4>3. CASE i # m
          <5>1. i \in 2 .. k + 1 /\ i \in 1 .. k + 1
            BY <2>m, <4>3
          <5> QED
            BY <2>1, <2>4, <4>1, <5>1
        <4> QED
          BY <4>2, <4>3
      <3> QED
        BY <3>1, <3>2
    <2>7. k + 1 \in 0 .. n - 1
      BY <1>0
    <2> QED
      BY <2>3, <2>6, <2>7, <2>m
  <1>3. n - 1 \in Good
    <2> HIDE DEF Good
    <2>1. \A i \in 0 .. (n - 1) - 1 : i \in Good => i + 1 \in Good
      BY <1>2
    <2>2. \A i \in 0 .. n - 1 : i \in Good
      BY <1>0, <1>1, <2>1, UpTo
    <2> QED
      BY <1>0, <2>2
  <1>4. PICK g \in [1 .. n -> Seq(T)] : Solves(n, g)
    <2>1. (n - 1) + 1 = n
      BY <1>0
    <2> QED
      BY <1>3, <2>1
  <1>5. g = F(g)
    <2>1. \A i \in 1 .. Len(ss) : g[i] = F(g)[i]
      <3>1. \A i \in 1 .. Len(ss) : i = 1 \/ i \in 2 .. n
        BY <1>0
      <3>2. \A i \in 2 .. n : i # 1 /\ i \in 1 .. Len(ss)
        BY <1>0
      <3> QED
        BY <1>4, <3>1, <3>2
    <2>2. g = [i \in 1 .. Len(ss) |-> g[i]]
      BY <1>0, <1>4
    <2>3. F(g) = [i \in 1 .. Len(ss) |-> F(g)[i]]
      OBVIOUS
    <2> HIDE DEF F
    <2> QED
      BY <2>1, <2>2, <2>3, Zenon
  <1> DEFINE flatten == CHOOSE h : h = F(h)
  <1>6. FlattenSeq(ss) = flatten[Len(ss)]
    BY Zenon DEF FlattenSeq
  <1>7. flatten = F(flatten)
    <2> HIDE DEF F
    <2> QED
      BY <1>5
  <1> HIDE DEF F, flatten
  <1>8. \A h : F(h)[1] = ss[1] /\ \A i \in 2 .. n : F(h)[i] = h[i - 1] \o ss[i]
    <2>1. 1 \in 1 .. Len(ss) /\ \A i \in 2 .. n : i # 1 /\ i \in 1 .. Len(ss)
      BY <1>0
    <2> QED
      BY <2>1 DEF F
  <1>9. Solves(n, flatten)
    BY <1>7, <1>8
  <1>10. \A i \in 1 .. n : flatten[i] \in Seq(T)
    <2> DEFINE Fine == {i \in 0 .. n - 1 : flatten[i + 1] \in Seq(T)}
    <2>1. 0 \in Fine
      <3>1. 0 + 1 = 1 /\ 1 \in 1 .. n
        BY <1>0
      <3>2. flatten[0 + 1] \in Seq(T)
        BY <1>9, <1>a, <3>1
      <3> QED
        BY <1>0, <3>2
    <2>2. ASSUME NEW i \in 0 .. (n - 1) - 1, i \in Fine PROVE i + 1 \in Fine
      <3>0. flatten[i + 1] \in Seq(T)
        BY <2>2
      <3>1. (i + 1) + 1 \in 2 .. n /\ (i + 1) + 1 \in 1 .. n /\ ((i + 1) + 1) - 1 = i + 1 /\ i + 1 \in 0 .. n - 1
        BY <1>0
      <3>2. flatten[(i + 1) + 1] = flatten[i + 1] \o ss[(i + 1) + 1]
        BY <1>9, <3>1
      <3>3. flatten[(i + 1) + 1] \in Seq(T)
        BY <3>0, <3>1, <3>2, <1>a
      <3> QED
        BY <3>1, <3>3
    <2> HIDE DEF Fine
    <2>3. \A i \in 0 .. (n - 1) - 1 : i \in Fine => i + 1 \in Fine
      BY <2>2
    <2>4. \A i \in 0 .. n - 1 : i \in Fine
      BY <1>0, <2>1, <2>3, UpTo
    <2>5. ASSUME NEW i \in 1 .. n PROVE flatten[i] \in Seq(T)
      <3>1. i - 1 \in 0 .. n - 1 /\ (i - 1) + 1 = i
        BY <1>0
      <3>2. i - 1 \in Fine
        BY <2>4, <3>1
      <3> QED
        BY <3>1, <3>2 DEF Fine
    <2> QED
      BY <2>5
  <1>11. flatten = [i \in 1 .. Len(ss) |-> flatten[i]]
    BY <1>7 DEF F
  <1>12. flatten \in [1 .. Len(ss) -> Seq(T)]
    BY <1>0, <1>10, <1>11
  <1> QED
    BY <1>0, <1>6, <1>9, <1>12 DEF Joins

\* The concatenation of two sequences of different things.
LEMMA ConcatInjective ==
  ASSUME NEW T, NEW q \in Seq(T), NEW r \in Seq(T), IsInjective(q), IsInjective(r),
         ToSet(q) \cap ToSet(r) = {}
  PROVE  IsInjective(q \o r)
  <1> DEFINE c == q \o r
             m == Len(q)
             n == Len(r)
  <1>1. m \in Nat /\ n \in Nat /\ DOMAIN c = 1 .. m + n /\ DOMAIN q = 1 .. m /\ DOMAIN r = 1 .. n
    OBVIOUS
  <1>2. \A i \in DOMAIN c : \/ i \in 1 .. m /\ c[i] = q[i]
                            \/ i - m \in 1 .. n /\ c[i] = r[i - m]
    OBVIOUS
  <1>3. SUFFICES ASSUME NEW i \in DOMAIN c, NEW j \in DOMAIN c, c[i] = c[j] PROVE i = j
    BY DEF IsInjective
  <1>4. \A x \in 1 .. m : q[x] \in ToSet(q)
    BY <1>1 DEF ToSet
  <1>5. \A x \in 1 .. n : r[x] \in ToSet(r)
    BY <1>1 DEF ToSet
  <1> HIDE DEF c, m, n
  <1>6. CASE i \in 1 .. m /\ c[i] = q[i] /\ j \in 1 .. m /\ c[j] = q[j]
    BY <1>1, <1>3, <1>6 DEF IsInjective
  <1>7. CASE i - m \in 1 .. n /\ c[i] = r[i - m] /\ j - m \in 1 .. n /\ c[j] = r[j - m]
    <2>1. i - m = j - m
      BY <1>1, <1>3, <1>7 DEF IsInjective
    <2> QED
      BY <1>1, <2>1
  <1>8. CASE i \in 1 .. m /\ c[i] = q[i] /\ j - m \in 1 .. n /\ c[j] = r[j - m]
    BY <1>3, <1>4, <1>5, <1>8
  <1>9. CASE j \in 1 .. m /\ c[j] = q[j] /\ i - m \in 1 .. n /\ c[i] = r[i - m]
    BY <1>3, <1>4, <1>5, <1>9
  <1> QED
    BY <1>2, <1>6, <1>7, <1>8, <1>9

\* No member is in two of the sequences of ss, or twice in one.
Apart(ss) == /\ \A i \in 1 .. Len(ss) : IsInjective(ss[i])
             /\ \A i, j \in 1 .. Len(ss) : i # j => ToSet(ss[i]) \cap ToSet(ss[j]) = {}

\* Only the sequence at k has members of A.
OnlyAt(ss, k, A) == \A i \in 1 .. Len(ss) : i # k => ToSet(ss[i]) \cap A = {}

\* Emptying queues one after the other yields everybody once, and the threads of
\* a set that only one of the queues has in the order of that queue.
LEMMA Flattened ==
  ASSUME NEW T, NEW ss \in Seq(Seq(T)), Len(ss) # 0, Apart(ss),
         NEW A, NEW k \in 1 .. Len(ss), OnlyAt(ss, k, A)
  PROVE  /\ FlattenSeq(ss) \in Seq(T)
         /\ \A x : x \in ToSet(FlattenSeq(ss)) <=> \E i \in 1 .. Len(ss) : x \in ToSet(ss[i])
         /\ IsInjective(FlattenSeq(ss))
         /\ Only(FlattenSeq(ss), A) = Only(ss[k], A)
  <1> DEFINE n == Len(ss)
  <1>0. n \in Nat /\ n # 0 /\ n = Len(ss)
    OBVIOUS
  <1>a. \A i \in 1 .. n : ss[i] \in Seq(T)
    OBVIOUS
  <1> HIDE DEF n
  <1>b. ASSUME NEW p \in Seq(T), NEW q \in Seq(T)
        PROVE  Only(p \o q, A) = Only(p, A) \o Only(q, A)
    BY ONLY OnlyConcat
  <1>1. PICK g \in Joins(T, ss) : FlattenSeq(ss) = g[n]
    BY <1>0, FlattenStep
  <1>2. /\ g \in [1 .. n -> Seq(T)]
        /\ g[1] = ss[1]
        /\ \A i \in 2 .. n : g[i] = g[i - 1] \o ss[i]
    BY <1>0, <1>1 DEF Joins
  <1> DEFINE Good == {m \in 0 .. n - 1 :
                /\ \A x : x \in ToSet(g[m + 1]) <=> \E i \in 1 .. m + 1 : x \in ToSet(ss[i])
                /\ IsInjective(g[m + 1])
                /\ Only(g[m + 1], A) = IF k <= m + 1 THEN Only(ss[k], A) ELSE <<>>}
  <1>3. 0 \in Good
    <2>1. 0 + 1 = 1 /\ 1 \in 1 .. n /\ 0 \in 0 .. n - 1 /\ \A i \in 1 .. 1 : i = 1
      BY <1>0
    <2>2. \A x : x \in ToSet(g[1]) <=> \E i \in 1 .. 1 : x \in ToSet(ss[i])
      BY <1>2
    <2>3. IsInjective(g[1])
      BY <1>2, <1>0, <2>1 DEF Apart
    <2>4. Only(g[1], A) = IF k <= 1 THEN Only(ss[k], A) ELSE <<>>
      <3>1. CASE k = 1
        BY <1>2, <3>1
      <3>2. CASE k # 1
        <4>1. ToSet(ss[1]) \cap A = {} /\ ss[1] \in Seq(T) /\ ~(k <= 1)
          BY <1>0, <1>a, <2>1, <3>2 DEF OnlyAt
        <4>2. Only(ss[1], A) = <<>>
          BY <4>1, OnlyAllOrNone
        <4> QED
          BY <1>2, <4>1, <4>2
      <3> QED
        BY <3>1, <3>2
    <2> QED
      BY <2>1, <2>2, <2>3, <2>4
  <1>4. ASSUME NEW m \in 0 .. (n - 1) - 1, m \in Good PROVE m + 1 \in Good
    <2> DEFINE l == m + 1
    <2>0. l \in 1 .. n - 1 /\ l \in 1 .. n /\ l + 1 \in 2 .. n /\ l + 1 \in 1 .. n /\ (l + 1) - 1 = l
          /\ l \in 0 .. n - 1
      BY <1>0
    <2>i. \A i \in 1 .. l : i \in 1 .. n /\ i # l + 1 /\ i \in 1 .. l + 1
      BY <1>0, <2>0
    <2>j. \A i \in 1 .. l + 1 : i \in 1 .. l \/ i = l + 1
      BY <2>0
    <2>1. /\ \A x : x \in ToSet(g[l]) <=> \E i \in 1 .. l : x \in ToSet(ss[i])
          /\ IsInjective(g[l])
          /\ Only(g[l], A) = IF k <= l THEN Only(ss[k], A) ELSE <<>>
      BY <1>4
    <2> HIDE DEF l
    <2>2. g[l + 1] = g[l] \o ss[l + 1] /\ g[l] \in Seq(T) /\ ss[l + 1] \in Seq(T)
      BY <1>2, <1>a, <2>0
    <2>3. ToSet(g[l + 1]) = ToSet(g[l]) \cup ToSet(ss[l + 1])
      BY <2>2, Members
    <2>4. \A x : x \in ToSet(g[l + 1]) <=> \E i \in 1 .. l + 1 : x \in ToSet(ss[i])
      BY <2>1, <2>3, <2>i, <2>j, <2>0
    <2>5. ToSet(g[l]) \cap ToSet(ss[l + 1]) = {}
      BY <1>0, <2>0, <2>1, <2>i DEF Apart
    <2>6. IsInjective(g[l + 1])
      <3>1. IsInjective(ss[l + 1])
        BY <1>0, <2>0 DEF Apart
      <3> QED
        BY <2>1, <2>2, <2>5, <3>1, ConcatInjective
    <2>7. Only(g[l + 1], A) = Only(g[l], A) \o Only(ss[l + 1], A)
      BY <1>b, <2>2, Zenon
    <2>8. Only(g[l + 1], A) = IF k <= l + 1 THEN Only(ss[k], A) ELSE <<>>
      <3>0. Only(g[l], A) \in Seq(T) /\ Only(ss[l + 1], A) \in Seq(T)
        BY <2>2, OnlyType
      <3>1. CASE k = l + 1
        <4>1. ~(k <= l) /\ k <= l + 1
          BY <2>0, <3>1
        <4> QED
          BY <2>1, <2>7, <3>0, <3>1, <4>1
      <3>2. CASE k # l + 1
        <4>1. ToSet(ss[l + 1]) \cap A = {}
          BY <1>0, <2>0, <3>2 DEF OnlyAt
        <4>2. Only(ss[l + 1], A) = <<>>
          BY <2>2, <4>1, OnlyAllOrNone
        <4>3. Only(g[l + 1], A) = Only(g[l], A)
          BY <2>7, <3>0, <4>2
        <4>4. k <= l <=> k <= l + 1
          BY <2>0, <3>2
        <4> QED
          BY <2>1, <4>3, <4>4
      <3> QED
        BY <3>1, <3>2
    <2> QED
      BY <2>0, <2>4, <2>6, <2>8 DEF l
  <1>5. n - 1 \in Good
    <2> HIDE DEF Good
    <2>1. \A i \in 0 .. (n - 1) - 1 : i \in Good => i + 1 \in Good
      BY <1>4
    <2>3. n - 1 \in Nat /\ n - 1 \in 0 .. n - 1
      BY <1>0
    <2>2. \A i \in 0 .. n - 1 : i \in Good
      BY <2>3, <1>3, <2>1, UpTo
    <2> QED
      BY <2>3, <2>2
  <1>6. (n - 1) + 1 = n /\ n \in 1 .. n /\ k <= n
    BY <1>0
  <1>7. /\ \A x : x \in ToSet(g[n]) <=> \E i \in 1 .. n : x \in ToSet(ss[i])
        /\ IsInjective(g[n])
        /\ Only(g[n], A) = IF k <= n THEN Only(ss[k], A) ELSE <<>>
    BY <1>5, <1>6
  <1> QED
    BY <1>0, <1>1, <1>2, <1>6, <1>7

-----------------------------------------------------------------------------
(* Spines *)

\* A spine has a slot for every address.
LEMMA SpineFacts ==
  ASSUME NEW s \in Spines
  PROVE  /\ Cardinality(DOMAIN s) \in Nat \ {0}
         /\ DOMAIN s = 0 .. Cardinality(DOMAIN s) - 1
         /\ IsFiniteSet(DOMAIN s)
         /\ \A i \in DOMAIN s : s[i] \in Bucket \cup {Nil}
         /\ \A a \in Address : Index(a, Cardinality(DOMAIN s)) \in DOMAIN s
  <1>1. PICK n \in Nat \ {0} : s \in [0 .. n - 1 -> Bucket \cup {Nil}]
    BY DEF Spines
  <1>2. 0 \in Int /\ n - 1 \in Int /\ ~(0 > n - 1) /\ (n - 1) - 0 + 1 = n
    OBVIOUS
  <1>3. IsFiniteSet(0 .. n - 1) /\ Cardinality(0 .. n - 1) = n
    BY <1>2, FS_Interval
  <1>4. DOMAIN s = 0 .. n - 1
    BY <1>1
  <1>5. ASSUME NEW a \in Address PROVE Index(a, n) \in DOMAIN s
    <2>1. Hash[a] \in Nat
      BY HashAssumption
    <2>2. Hash[a] % n \in 0 .. n - 1
      BY <2>1
    <2> QED
      BY <1>4, <2>2 DEF Index
  <1> QED
    BY <1>1, <1>3, <1>4, <1>5

\* What is in a spine.
LEMMA InSpineFacts ==
  ASSUME NEW s \in Spines
  PROVE  /\ InSpine(s) \in SUBSET Bucket
         /\ \A b : b \in InSpine(s) <=> b # Nil /\ \E i \in DOMAIN s : s[i] = b
         /\ Full(s) => IsFiniteSet(InSpine(s)) /\ InSpine(s) # {}
  <1>1. InSpine(s) \in SUBSET Bucket
    BY SpineFacts DEF InSpine
  <1>2. \A b : b \in InSpine(s) <=> b # Nil /\ \E i \in DOMAIN s : s[i] = b
    BY DEF InSpine
  <1>3. ASSUME Full(s) PROVE IsFiniteSet(InSpine(s)) /\ InSpine(s) # {}
    <2>1. PICK n \in Nat \ {0} : s \in [0 .. n - 1 -> Bucket \cup {Nil}]
      BY DEF Spines
    <2>2. \A i \in DOMAIN s : s[i] \in InSpine(s)
      BY <1>2, <1>3 DEF Full
    <2>3. s \in [DOMAIN s -> InSpine(s)]
      BY <2>1, <2>2
    <2>4. s \in Surjection(DOMAIN s, InSpine(s))
      BY <1>2, <2>3 DEF Surjection
    <2>5. IsFiniteSet(InSpine(s))
      BY <2>4, SpineFacts, FS_Surjection
    <2>6. 0 \in DOMAIN s
      BY <2>1
    <2> QED
      BY <2>2, <2>5, <2>6
  <1> QED
    BY <1>1, <1>2, <1>3

\* Slots that have a bucket keep it.
Grown(old, new) ==
    /\ Len(old) <= Len(new)
    /\ \A g \in 1 .. Len(old) :
          /\ DOMAIN new[g] = DOMAIN old[g]
          /\ \A i \in DOMAIN old[g] : old[g][i] # Nil => new[g][i] = old[g][i]

\* Filling slots of the current spine.
LEMMA FilledFacts ==
  ASSUME NEW tables \in Seq(Spines), tables # <<>>, OneToOne(Spine(tables)),
         NEW I \in SUBSET DOMAIN Spine(tables), NEW full \in Filled(tables, I)
  PROVE  /\ full \in Seq(Spines)
         /\ Len(full) = Len(tables)
         /\ Grown(tables, full)
         /\ OneToOne(Spine(full))
         /\ DOMAIN Spine(full) = DOMAIN Spine(tables)
         /\ \A i \in I : Spine(full)[i] # Nil
         /\ \A i \in DOMAIN Spine(tables) :
               \/ Spine(full)[i] = Spine(tables)[i]
               \/ Spine(tables)[i] = Nil /\ Spine(full)[i] \notin InSpine(Spine(tables))
  <1> DEFINE n == Len(tables)
             spine == Spine(tables)
             empty == {i \in I : spine[i] = Nil}
             New == {f \in [empty -> Bucket] : \A i \in empty :
                        f[i] \in Malloc[Allocated(tables) \cup {f[j] : j \in {j \in empty : j > i}}]}
             With(f) == [i \in DOMAIN spine |-> IF i \in empty THEN f[i] ELSE spine[i]]
  <1>0. n \in Nat \ {0} /\ n \in 1 .. n /\ DOMAIN tables = 1 .. n /\ spine = tables[n] /\ spine \in Spines
    BY DEF Spine
  <1>1. PICK f \in New : full = [tables EXCEPT ![n] = With(f)]
    BY DEF Filled
  <1> HIDE DEF New
  <1>2. /\ f \in [empty -> Bucket]
        /\ \A i \in empty : f[i] \in Malloc[Allocated(tables) \cup {f[j] : j \in {j \in empty : j > i}}]
    BY DEF New
  <1>3. PICK m \in Nat \ {0} : spine \in [0 .. m - 1 -> Bucket \cup {Nil}]
    BY <1>0 DEF Spines
  <1>4. With(f) \in [0 .. m - 1 -> Bucket \cup {Nil}]
    <2>1. empty \subseteq DOMAIN spine /\ DOMAIN spine = 0 .. m - 1
      BY <1>3
    <2>2. \A i \in empty : f[i] \in Bucket
      BY <1>2
    <2> HIDE DEF empty
    <2> QED
      BY <1>3, <2>1, <2>2
  <1>5. With(f) \in Spines
    BY <1>3, <1>4 DEF Spines
  <1> DEFINE w == With(f)
  <1>6. /\ DOMAIN w = DOMAIN spine
        /\ \A i \in DOMAIN spine : i \in empty => w[i] = f[i]
        /\ \A i \in DOMAIN spine : i \notin empty => w[i] = spine[i]
    <2> HIDE DEF empty, spine
    <2> QED
      OBVIOUS
  <1>7. w \in Spines
    BY <1>5
  <1>8. full = [tables EXCEPT ![n] = w]
    BY <1>1
  <1> HIDE DEF w, With
  <1>9. full \in Seq(Spines) /\ Len(full) = n /\ full[n] = w /\ \A g \in 1 .. n : g # n => full[g] = tables[g]
    <2>1. tables \in [1 .. n -> Spines]
      BY <1>0
    <2> HIDE DEF n
    <2>2. full \in [1 .. n -> Spines] /\ full[n] = w /\ \A g \in 1 .. n : g # n => full[g] = tables[g]
      BY <1>0, <1>7, <1>8, <2>1
    <2>3. full \in Seq(Spines) /\ Len(full) = n
      BY <1>0, <2>2
    <2> QED
      BY <2>2, <2>3
  <1>10. Spine(full) = w
    BY <1>9 DEF Spine
  <1>11. Allocated(tables) \in SUBSET Bucket /\ InSpine(spine) \subseteq Allocated(tables)
    <2>1. \A g \in DOMAIN tables : tables[g] \in Spines
      BY <1>0
    <2>2. \A g \in DOMAIN tables : InSpine(tables[g]) \in SUBSET Bucket
      BY <2>1, InSpineFacts
    <2> QED
      BY <1>0, <2>2 DEF Allocated
  <1>12. ASSUME NEW i \in empty
         PROVE  /\ f[i] \in Bucket /\ f[i] # Nil
                /\ f[i] \notin InSpine(spine)
                /\ \A j \in empty : j > i => f[i] # f[j]
    <2> DEFINE Higher == {f[j] : j \in {j \in empty : j > i}}
               A == Allocated(tables) \cup Higher
    <2>1. f[i] \in Bucket /\ Higher \in SUBSET Bucket
      BY <1>2
    <2>2. f[i] \in Malloc[A]
      BY <1>2
    <2>3. A \in SUBSET Bucket
      BY <1>11, <2>1
    <2>4. f[i] \notin A
      <3> HIDE DEF A
      <3> QED
        BY <2>2, <2>3, MallocAssumption
    <2>5. Nil \notin Bucket
      BY NilAssumption
    <2> QED
      BY <1>11, <2>1, <2>4, <2>5
  <1>13. empty \subseteq I /\ empty \subseteq DOMAIN spine /\ \A i \in empty : spine[i] = Nil
    OBVIOUS
  <1>14. \A i \in I : i \in DOMAIN spine /\ (i \notin empty => spine[i] # Nil)
    OBVIOUS
  <1> HIDE DEF empty, spine
  <1>15. \A i \in DOMAIN spine : w[i] = spine[i] \/ (spine[i] = Nil /\ w[i] \notin InSpine(spine))
    <2> TAKE i \in DOMAIN spine
    <2>1. CASE i \in empty
      BY <1>6, <1>12, <1>13, <2>1
    <2>2. CASE i \notin empty
      BY <1>6, <2>2
    <2> QED
      BY <2>1, <2>2
  <1>16. \A i \in I : w[i] # Nil
    BY <1>6, <1>12, <1>14
  <1>17. Grown(tables, full)
    <2>1. ASSUME NEW g \in 1 .. n
          PROVE  /\ DOMAIN full[g] = DOMAIN tables[g]
                 /\ \A i \in DOMAIN tables[g] : tables[g][i] # Nil => full[g][i] = tables[g][i]
      <3>1. CASE g # n
        BY <1>9, <3>1
      <3>2. CASE g = n
        BY <1>0, <1>6, <1>9, <1>15, <3>2
      <3> QED
        BY <3>1, <3>2
    <2>3. n = Len(tables)
      BY DEF n
    <2> HIDE DEF n
    <2>4. Len(full) = n /\ n \in Nat
      BY <1>0, <1>9
    <2>5. n <= n
      BY <2>4
    <2>2. Len(tables) <= Len(full)
      BY <2>3, <2>4, <2>5, Zenon
    <2> QED
      BY <2>1, <2>2, <2>3, Zenon DEF Grown
  <1>18. OneToOne(w)
    <2> SUFFICES ASSUME NEW i \in DOMAIN spine, NEW j \in DOMAIN spine, w[i] = w[j], i # j
                 PROVE  w[i] = Nil
      BY <1>6 DEF OneToOne
    <2>0. \A x \in DOMAIN spine : x \in Nat
      BY <1>3
    <2>1. CASE i \notin empty /\ j \notin empty
      BY <1>6, <2>1 DEF OneToOne, spine
    <2>2. CASE i \in empty /\ j \in empty
      <3>1. i > j \/ j > i
        BY <2>0
      <3> QED
        BY <1>6, <1>12, <2>2, <3>1
    <2>3. CASE i \in empty /\ j \notin empty
      <3>1. spine[j] # Nil => spine[j] \in InSpine(spine)
        BY <1>0, InSpineFacts
      <3> QED
        BY <1>6, <1>12, <2>3, <3>1
    <2>4. CASE i \notin empty /\ j \in empty
      <3>1. spine[i] # Nil => spine[i] \in InSpine(spine)
        BY <1>0, InSpineFacts
      <3> QED
        BY <1>6, <1>12, <2>4, <3>1
    <2> QED
      BY <2>1, <2>2, <2>3, <2>4
  <1> QED
    BY <1>6, <1>9, <1>10, <1>15, <1>16, <1>17, <1>18 DEF spine

\* Min() is what its name says.
LEMMA MinFacts ==
  ASSUME NEW S \in SUBSET Nat, S # {}
  PROVE  Min(S) \in S /\ \A x \in S : Min(S) <= x
  <1>1. \E x \in S : \A y \in S : x <= y
    BY Least
  <1> QED
    BY <1>1 DEF Min

\* What a rehash makes of the buckets it has: a spine in which no bucket serves
\* two slots, with a bucket for every thread.
LEMMA NewSpinesFacts ==
  ASSUME NEW old \in SUBSET Bucket, NEW threadDatas \in Seq(Thread), NEW size \in Nat \ {0},
         hashtables \in Seq(Spines), \A u \in ToSet(threadDatas) : address[u] \in Address,
         NEW spine \in NewSpines(old, threadDatas, size)
  PROVE  /\ spine \in Spines /\ DOMAIN spine = 0 .. size - 1
         /\ OneToOne(spine)
         /\ \A u \in ToSet(threadDatas) : /\ Index(address[u], size) \in DOMAIN spine
                                          /\ spine[Index(address[u], size)] \in Bucket
  <1> DEFINE n == Len(threadDatas)
             order == [k \in 1 .. n + size |->
                         IF k <= n THEN Index(address[threadDatas[k]], size) ELSE k - n - 1]
             turn == [i \in 0 .. size - 1 |-> Min({k \in DOMAIN order : order[k] = i})]
             Given(f, i) == {f[j] : j \in {j \in 0 .. size - 1 : turn[j] < turn[i]}}
             Left(f, i) == old \ Given(f, i)
             Fresh(f, i) == Malloc[Allocated(hashtables) \cup (Given(f, i) \ {Nil})]
  <1>1. /\ spine \in [0 .. size - 1 -> Bucket \cup {Nil}]
        /\ \A i \in 0 .. size - 1 :
              spine[i] \in IF Left(spine, i) # {} THEN {b \in Left(spine, i) : \A c \in Left(spine, i) : c <= b}
                           ELSE IF turn[i] <= n THEN Fresh(spine, i) ELSE {Nil}
    BY DEF NewSpines
  <1>0. n \in Nat /\ DOMAIN order = 1 .. n + size
    OBVIOUS
  <1>2. ASSUME NEW i \in 0 .. size - 1
        PROVE  /\ turn[i] \in 1 .. n + size /\ order[turn[i]] = i
               /\ \A k \in 1 .. n + size : order[k] = i => turn[i] <= k
    <2> DEFINE P == {k \in DOMAIN order : order[k] = i}
    <2>1. turn[i] = Min(P)
      OBVIOUS
    <2>2. n + i + 1 \in 1 .. n + size /\ ~(n + i + 1 <= n) /\ (n + i + 1) - n - 1 = i
      BY <1>0
    <2>3. order[n + i + 1] = i
      BY <2>2
    <2>4. P \in SUBSET Nat /\ n + i + 1 \in P
      BY <1>0, <2>2, <2>3
    <2> HIDE DEF turn
    <2>5. Min(P) \in P /\ \A x \in P : Min(P) <= x
      <3> HIDE DEF P
      <3> QED
        BY <2>4, MinFacts
    <2> HIDE DEF order
    <2> QED
      BY <1>0, <2>1, <2>5
  <1>3. ASSUME NEW k \in 1 .. n
        PROVE  /\ Index(address[threadDatas[k]], size) \in 0 .. size - 1
               /\ k \in 1 .. n + size
               /\ order[k] = Index(address[threadDatas[k]], size)
    <2>1. threadDatas[k] \in ToSet(threadDatas)
      BY DEF ToSet
    <2>2. address[threadDatas[k]] \in Address
      BY <2>1
    <2>3. Hash[address[threadDatas[k]]] \in Nat
      BY <2>2, HashAssumption
    <2>4. Hash[address[threadDatas[k]]] % size \in 0 .. size - 1
      BY <2>3
    <2>5. k \in 1 .. n + size /\ k <= n
      BY <1>0
    <2>6. order[k] = Index(address[threadDatas[k]], size)
      BY <2>5
    <2> QED
      BY <2>4, <2>5, <2>6 DEF Index
  <1> HIDE DEF order, turn
  <1>4. Allocated(hashtables) \in SUBSET Bucket
    <2>1. \A g \in DOMAIN hashtables : hashtables[g] \in Spines
      OBVIOUS
    <2>2. \A g \in DOMAIN hashtables : InSpine(hashtables[g]) \in SUBSET Bucket
      BY <2>1, InSpineFacts
    <2> QED
      BY <2>2 DEF Allocated
  <1>5. ASSUME NEW i \in 0 .. size - 1
        PROVE  /\ spine[i] # Nil => spine[i] \notin Given(spine, i)
               /\ turn[i] <= n => spine[i] \in Bucket
    <2>0. /\ Given(spine, i) \ {Nil} \in SUBSET Bucket
          /\ spine[i] \in Bucket \cup {Nil}
      BY <1>1
    <2>1. CASE Left(spine, i) # {}
      <3>1. spine[i] \in Left(spine, i)
        BY <1>1, <2>1
      <3> QED
        BY <3>1
    <2>2. CASE Left(spine, i) = {} /\ turn[i] <= n
      <3> DEFINE A == Allocated(hashtables) \cup (Given(spine, i) \ {Nil})
      <3>1. spine[i] \in Malloc[A]
        BY <1>1, <2>2
      <3>2. A \in SUBSET Bucket
        BY <1>4, <2>0
      <3>4. A \subseteq A /\ Given(spine, i) \ {Nil} \subseteq A
        OBVIOUS
      <3> HIDE DEF A
      <3>3. spine[i] \in Bucket /\ spine[i] \notin A
        BY <3>1, <3>2, MallocAssumption
      <3> QED
        BY <3>3, <3>4
    <2>3. CASE Left(spine, i) = {} /\ ~(turn[i] <= n)
      BY <1>1, <2>3
    <2> QED
      BY <2>1, <2>2, <2>3
  <1>6. OneToOne(spine)
    <2> SUFFICES ASSUME NEW i \in 0 .. size - 1, NEW j \in 0 .. size - 1, spine[i] = spine[j], i # j
                 PROVE  spine[i] = Nil
      BY <1>1 DEF OneToOne
    <2>1. turn[i] \in Nat /\ turn[j] \in Nat /\ turn[i] # turn[j]
      <3>1. turn[i] # turn[j]
        BY <1>2
      <3> QED
        BY <1>0, <1>2, <3>1
    <2>2. turn[i] < turn[j] \/ turn[j] < turn[i]
      BY <2>1
    <2>3. CASE turn[i] < turn[j]
      BY <1>5, <2>3
    <2>4. CASE turn[j] < turn[i]
      BY <1>5, <2>4
    <2> QED
      BY <2>2, <2>3, <2>4
  <1>7. spine \in Spines /\ DOMAIN spine = 0 .. size - 1
    BY <1>1 DEF Spines
  <1>8. ASSUME NEW u \in ToSet(threadDatas)
        PROVE  /\ Index(address[u], size) \in DOMAIN spine
               /\ spine[Index(address[u], size)] \in Bucket
    <2>1. PICK k \in 1 .. n : u = threadDatas[k]
      BY DEF ToSet
    <2> DEFINE i == Index(address[u], size)
    <2>2. i \in 0 .. size - 1 /\ k \in 1 .. n + size /\ order[k] = i
      BY <1>3, <2>1
    <2> HIDE DEF i
    <2>3. turn[i] <= k /\ turn[i] \in 1 .. n + size
      BY <1>2, <2>2
    <2>4. turn[i] <= n
      BY <1>0, <2>1, <2>3
    <2>5. spine[i] \in Bucket
      BY <1>5, <2>2, <2>4
    <2> QED
      BY <1>7, <2>2, <2>5 DEF i
  <1> QED
    BY <1>6, <1>7, <1>8

-----------------------------------------------------------------------------
(* The tables *)

\* What ensureHashtable() guarantees.
LEMMA EnsuredFacts ==
  ASSUME TypeOK, TablesOK
  PROVE  /\ Ensured \in Seq(Spines) /\ Ensured # <<>>
         /\ Len(Ensured) \in Nat \ {0}
         /\ OneToOne(Spine(Ensured))
         /\ hashtables # <<>> => Ensured = hashtables
         /\ hashtables = <<>> => \A i \in DOMAIN Spine(Ensured) : Spine(Ensured)[i] = Nil
         /\ Spine(Ensured) \in Spines
         /\ \A a \in Address : Slot(Ensured, a) \in DOMAIN Spine(Ensured)
  <1> DEFINE e == EmptySpine(maxLoadFactor)
  <1>1. e \in Spines /\ DOMAIN e = 0 .. maxLoadFactor - 1 /\ \A i \in DOMAIN e : e[i] = Nil
    <2>1. maxLoadFactor \in Nat \ {0}
      BY FactorAssumption
    <2>2. e \in [0 .. maxLoadFactor - 1 -> Bucket \cup {Nil}]
      BY DEF EmptySpine
    <2>3. \A i \in DOMAIN e : e[i] = Nil
      BY DEF EmptySpine
    <2> HIDE DEF e
    <2> QED
      BY <2>1, <2>2, <2>3 DEF Spines
  <1>2. CASE hashtables = <<>>
    <2>1. Ensured = <<e>>
      BY <1>2 DEF Ensured
    <2> HIDE DEF e
    <2>2. Ensured \in Seq(Spines) /\ Ensured # <<>> /\ Len(Ensured) = 1 /\ Ensured[1] = e
      BY <1>1, <2>1
    <2>3. Spine(Ensured) = e
      BY <2>2 DEF Spine
    <2>4. OneToOne(e)
      BY <1>1 DEF OneToOne
    <2>5. \A a \in Address : Slot(Ensured, a) \in DOMAIN e
      BY <1>1, <2>3, SpineFacts DEF Slot
    <2> QED
      BY <1>1, <1>2, <2>2, <2>3, <2>4, <2>5
  <1>3. CASE hashtables # <<>>
    <2>1. Ensured = hashtables
      BY <1>3 DEF Ensured
    <2>2. hashtables \in Seq(Spines) /\ OneToOne(Spine(hashtables))
      BY <1>3 DEF TypeOK, TablesOK
    <2>3. Len(hashtables) \in Nat \ {0} /\ hashtables[Len(hashtables)] \in Spines
      BY <1>3, <2>2
    <2>4. Spine(hashtables) \in Spines
      BY <2>3 DEF Spine
    <2>5. \A a \in Address : Slot(hashtables, a) \in DOMAIN Spine(hashtables)
      BY <2>4, SpineFacts DEF Slot
    <2> QED
      BY <1>3, <2>1, <2>2, <2>3, <2>4, <2>5
  <1> QED
    BY <1>2, <1>3

\* An address keeps its bucket; a slot gets one that no address had.
HomesKept ==
    /\ \A a \in Address : HomeOf(a) # Nil => HomeOf(a)' = HomeOf(a)
    /\ \A a, c \in Address : HomeOf(a) = Nil /\ HomeOf(c) # Nil => HomeOf(a)' # HomeOf(c)

\* Filling slots keeps what is there.
LEMMA Filling ==
  ASSUME TypeOK, TablesOK, NEW I \in SUBSET DOMAIN Spine(Ensured), hashtables' \in Filled(Ensured, I)
  PROVE  /\ hashtables' \in Seq(Spines) /\ hashtables' # <<>>
         /\ Len(hashtables') = Len(Ensured)
         /\ Grown(hashtables, hashtables')
         /\ OneToOne(Spine(hashtables'))
         /\ DOMAIN Spine(hashtables') = DOMAIN Spine(Ensured)
         /\ \A i \in I : Spine(hashtables')[i] # Nil
         /\ hashtables # <<>> => Len(hashtables') = Len(hashtables)
         /\ HomesKept
  <1> DEFINE e == Ensured
             full == hashtables'
  <1>1. /\ e \in Seq(Spines) /\ e # <<>> /\ Len(e) \in Nat \ {0} /\ OneToOne(Spine(e))
        /\ hashtables # <<>> => e = hashtables
        /\ hashtables = <<>> => \A i \in DOMAIN Spine(e) : Spine(e)[i] = Nil
        /\ Spine(e) \in Spines
        /\ \A a \in Address : Slot(e, a) \in DOMAIN Spine(e)
    BY EnsuredFacts
  <1>2. I \in SUBSET DOMAIN Spine(e) /\ full \in Filled(e, I)
    OBVIOUS
  <1> HIDE DEF e, full
  <1>3. /\ full \in Seq(Spines) /\ Len(full) = Len(e) /\ Grown(e, full) /\ OneToOne(Spine(full))
        /\ DOMAIN Spine(full) = DOMAIN Spine(e)
        /\ \A i \in I : Spine(full)[i] # Nil
        /\ \A i \in DOMAIN Spine(e) :
               \/ Spine(full)[i] = Spine(e)[i]
               \/ Spine(e)[i] = Nil /\ Spine(full)[i] \notin InSpine(Spine(e))
    BY <1>1, <1>2, FilledFacts
  <1>4. full # <<>>
    BY <1>1, <1>3
  <1>5. Grown(hashtables, full)
    <2>1. CASE hashtables # <<>>
      BY <1>1, <1>3, <2>1
    <2>2. CASE hashtables = <<>>
      <3>1. Len(hashtables) = 0
        BY <2>2
      <3>2. Len(hashtables) <= Len(full) /\ 1 .. Len(hashtables) = {}
        BY <1>1, <1>3, <3>1
      <3> QED
        BY <3>2 DEF Grown
    <2> QED
      BY <2>1, <2>2
  <1>6. \A a \in Address : Slot(full, a) = Slot(e, a) /\ Slot(e, a) \in DOMAIN Spine(e)
    BY <1>1, <1>3 DEF Slot
  <1>7. /\ \A a \in Address : HomeOf(a)' = Spine(full)[Slot(e, a)]
        /\ \A a \in Address : HomeOf(a) = Spine(e)[Slot(e, a)]
    <2>1. \A a \in Address : HomeOf(a)' = Spine(full)[Slot(full, a)]
      BY <1>4 DEF HomeOf, full, Slot, Spine
    <2>2. CASE hashtables # <<>>
      BY <1>1, <1>6, <2>1, <2>2 DEF HomeOf
    <2>3. CASE hashtables = <<>>
      BY <1>1, <1>6, <2>1, <2>3 DEF HomeOf
    <2> QED
      BY <2>2, <2>3
  <1>8. \A i \in DOMAIN Spine(e) : Spine(e)[i] # Nil => Spine(e)[i] \in InSpine(Spine(e))
    BY <1>1, InSpineFacts
  <1>9. HomesKept
    <2>1. ASSUME NEW a \in Address, HomeOf(a) # Nil PROVE HomeOf(a)' = HomeOf(a)
      BY <1>3, <1>6, <1>7, <2>1
    <2>2. ASSUME NEW a \in Address, NEW c \in Address, HomeOf(a) = Nil, HomeOf(c) # Nil
          PROVE  HomeOf(a)' # HomeOf(c)
      <3>1. HomeOf(c) \in InSpine(Spine(e))
        BY <1>6, <1>7, <1>8, <2>2
      <3>2. HomeOf(a)' = HomeOf(a) \/ HomeOf(a)' \notin InSpine(Spine(e))
        BY <1>3, <1>6, <1>7
      <3> QED
        BY <2>2, <3>1, <3>2
    <2> QED
      BY <2>1, <2>2 DEF HomesKept
  <1>10. hashtables # <<>> => Len(full) = Len(hashtables)
    BY <1>1, <1>3
  <1> QED
    BY <1>3, <1>4, <1>5, <1>9, <1>10 DEF e, full

\* What a thread that is not t keeps during a step of t.
OthersKeep(t) ==
    \A u \in Thread \ {t} :
       /\ arg'[u] = arg[u] /\ currentNumThreads'[u] = currentNumThreads[u]
       /\ myTable'[u] = myTable[u] /\ myBucket'[u] = myBucket[u] /\ buckets'[u] = buckets[u]
       /\ call'[u] = call[u]
       /\ pc'[u] = pc[u] \/ (pc[u] = "asleep" /\ pc'[u] = "park")
                         \/ (pc[u] = "asleepFinish" /\ pc'[u] = "finish")

\* What a thread knows of the spines stays true when they grow.
LEMMA TableOKKept ==
  ASSUME TypeOK, TypeOK', TablesOK, Grown(hashtables, hashtables'), NEW t \in Thread, OthersKeep(t),
         NEW u \in Thread \ {t}
  PROVE  TableOK(u)'
  <1>0. TableOK(u)
    BY DEF TablesOK
  <1>1. /\ arg'[u] = arg[u] /\ currentNumThreads'[u] = currentNumThreads[u]
        /\ myTable'[u] = myTable[u] /\ myBucket'[u] = myBucket[u] /\ buckets'[u] = buckets[u]
        /\ call'[u] = call[u]
        /\ pc'[u] = pc[u] \/ (pc[u] = "asleep" /\ pc'[u] = "park")
                          \/ (pc[u] = "asleepFinish" /\ pc'[u] = "finish")
    BY DEF OthersKeep
  <1>2. /\ pc'[u] \in ParkPC \cup {"unpark", "dequeue"} => pc[u] \in ParkPC \cup {"unpark", "dequeue"}
        /\ pc'[u] \in SizingPC \cup RehashPC => pc[u] \in SizingPC \cup RehashPC
        /\ pc'[u] \in {"unpark", "dequeue"} \cup WakePC => pc[u] \in {"unpark", "dequeue"} \cup WakePC
        /\ pc'[u] \in BucketPC => pc[u] \in BucketPC
        /\ pc'[u] \in RehashPC => pc[u] \in RehashPC
    BY <1>1 DEF ParkPC, SizingPC, RehashPC, WakePC, BucketPC
  <1>3. ASSUME NEW g \in 1 .. hashtable
        PROVE  /\ g \in 1 .. hashtable'
               /\ Cardinality(DOMAIN hashtables'[g]) = Size(g)
               /\ \A i \in DOMAIN hashtables[g] : hashtables[g][i] # Nil => hashtables'[g][i] = hashtables[g][i]
               /\ Full(hashtables[g]) => Full(hashtables'[g]) /\ InSpine(hashtables'[g]) = InSpine(hashtables[g])
    <2>1. /\ DOMAIN hashtables'[g] = DOMAIN hashtables[g]
          /\ \A i \in DOMAIN hashtables[g] : hashtables[g][i] # Nil => hashtables'[g][i] = hashtables[g][i]
      BY DEF Grown, hashtable
    <2>2. Len(hashtables) \in Nat /\ Len(hashtables') \in Nat
      BY DEF TypeOK
    <2>3. g \in 1 .. hashtable'
      BY <2>2 DEF Grown, hashtable
    <2>4. Cardinality(DOMAIN hashtables'[g]) = Size(g)
      BY <2>1 DEF Size
    <2>5. ASSUME Full(hashtables[g]) PROVE Full(hashtables'[g]) /\ InSpine(hashtables'[g]) = InSpine(hashtables[g])
      BY <2>1, <2>5 DEF Full, InSpine
    <2> QED
      BY <2>1, <2>3, <2>4, <2>5
  <1>4. ASSUME pc'[u] \in BucketPC
        PROVE  /\ myTable'[u] \in 1 .. hashtable'
               /\ myBucket'[u] = hashtables'[myTable'[u]][Index(arg'[u], Cardinality(DOMAIN hashtables'[myTable'[u]]))]
               /\ myBucket'[u] # Nil
    <2>1. PICK g \in 1 .. hashtable : g = myTable[u]
      BY <1>0, <1>2, <1>4 DEF TableOK
    <2>2. PICK i : i = Index(arg[u], Size(g))
      OBVIOUS
    <2>3. myBucket[u] = hashtables[g][i] /\ myBucket[u] # Nil
      BY <1>0, <1>2, <1>4, <2>1, <2>2 DEF TableOK
    <2>4. arg[u] \in Address
      BY <1>0, <1>2, <1>4 DEF TableOK, BucketPC, ParkPC
    <2>5. hashtables[g] \in Spines
      BY DEF TypeOK, hashtable
    <2>6. i \in DOMAIN hashtables[g]
      BY <2>2, <2>4, <2>5, SpineFacts DEF Size
    <2>7. hashtables'[g][i] = hashtables[g][i] /\ g \in 1 .. hashtable' /\ Cardinality(DOMAIN hashtables'[g]) = Size(g)
      BY <1>3, <2>3, <2>6
    <2>8. myTable'[u] = g /\ arg'[u] = arg[u] /\ myBucket'[u] = myBucket[u]
      BY <1>1, <2>1
    <2> QED
      BY <2>2, <2>3, <2>7, <2>8
  <1>5. ASSUME pc'[u] \in RehashPC
        PROVE  /\ myTable'[u] \in 1 .. hashtable'
               /\ buckets'[u] = InSpine(hashtables'[myTable'[u]])
               /\ Full(hashtables'[myTable'[u]])
    <2>1. /\ myTable[u] \in 1 .. hashtable
          /\ buckets[u] = InSpine(hashtables[myTable[u]])
          /\ Full(hashtables[myTable[u]])
      BY <1>0, <1>2, <1>5 DEF TableOK
    <2> QED
      BY <1>1, <1>3, <2>1
  <1>6. /\ pc'[u] \in ParkPC \cup {"unpark", "dequeue"} => arg'[u] \in Address
        /\ pc'[u] \in SizingPC \cup RehashPC => currentNumThreads'[u] # 0
        /\ pc'[u] \in {"unpark", "dequeue"} \cup WakePC => call'[u] \in AllCalls
    BY <1>0, <1>1, <1>2 DEF TableOK
  <1> QED
    BY <1>4, <1>5, <1>6 DEF TableOK, Size

\* Everybody who is on a queue, in the order in which a rehash meets them.
LEMMA Gathered ==
  ASSUME IInv, NEW t \in Thread, pc[t] = "rehash", NEW old \in Sorted(buckets[t]),
         NEW threadDatas, threadDatas = FlattenSeq([i \in DOMAIN old |-> queue[old[i]]])
  PROVE  /\ threadDatas \in Seq(Thread)
         /\ IsInjective(threadDatas)
         /\ \A u : u \in ToSet(threadDatas) <=> \E b \in Bucket : u \in QueuedAt(b)
         /\ \A a \in Address : HomeOf(a) # Nil =>
               Only(threadDatas, OnAddress(a)) = Only(queue[HomeOf(a)], OnAddress(a))
  <1> DEFINE n == Cardinality(buckets[t])
             ss == [i \in DOMAIN old |-> queue[old[i]]]
  <1>0. TypeOK /\ TablesOK /\ LocksOK /\ PlacesOK
    BY DEF IInv
  <1>1. /\ myTable[t] \in 1 .. hashtable /\ Full(hashtables[myTable[t]])
        /\ buckets[t] = InSpine(hashtables[myTable[t]]) /\ myTable[t] = hashtable
    BY <1>0 DEF TablesOK, TableOK, LocksOK, LockOK, RehashPC
  <1>2. hashtables # <<>> /\ Spine(hashtables) \in Spines /\ Full(Spine(hashtables))
        /\ buckets[t] = InSpine(Spine(hashtables))
    BY <1>0, <1>1 DEF TypeOK, hashtable, Spine
  <1>3. IsFiniteSet(buckets[t]) /\ buckets[t] # {} /\ buckets[t] \in SUBSET Bucket
    BY <1>2, InSpineFacts
  <1>4. n \in Nat \ {0}
    BY <1>3, FS_CardinalityType, FS_EmptySet
  <1>5. /\ old \in [1 .. n -> buckets[t]] /\ ToSet(old) = buckets[t]
        /\ \A i, j \in DOMAIN old : i < j => old[i] < old[j]
    BY DEF Sorted
  <1> HIDE DEF n
  <1>6. \A i, j \in 1 .. n : i # j => old[i] # old[j]
    <2> TAKE i, j \in 1 .. n
    <2>1. old[i] \in Nat /\ old[j] \in Nat /\ i \in Nat /\ j \in Nat
      <3>1. old[i] \in buckets[t] /\ old[j] \in buckets[t]
        BY <1>5
      <3>2. old[i] \in Nat /\ old[j] \in Nat
        BY <1>3, <3>1, BucketAssumption
      <3> QED
        BY <1>4, <3>2
    <2>2. i # j => i < j \/ j < i
      BY <2>1
    <2>3. DOMAIN old = 1 .. n
      BY <1>5
    <2> QED
      BY <1>5, <2>1, <2>2, <2>3
  <1>7. ss \in [1 .. n -> Seq(Thread)] /\ \A i \in 1 .. n : ss[i] = queue[old[i]] /\ old[i] \in Bucket
    BY <1>0, <1>3, <1>5 DEF TypeOK
  <1>8. ss \in Seq(Seq(Thread)) /\ Len(ss) = n
    BY <1>4, <1>7
  <1>9. threadDatas = FlattenSeq(ss)
    OBVIOUS
  <1> HIDE DEF ss
  <1>10. \A b \in Bucket : IsInjective(queue[b]) /\ \A u \in QueuedAt(b) : address[u] # Nil /\ HomeOf(address[u]) = b
    BY <1>0 DEF PlacesOK, QueueOK
  <1>11. Apart(ss)
    <2>1. \A i \in 1 .. n : IsInjective(ss[i])
      BY <1>7, <1>10
    <2>2. ASSUME NEW i \in 1 .. n, NEW j \in 1 .. n, i # j PROVE ToSet(ss[i]) \cap ToSet(ss[j]) = {}
      <3>1. old[i] # old[j] /\ old[i] \in Bucket /\ old[j] \in Bucket
        BY <1>6, <1>7, <2>2
      <3>2. \A u \in ToSet(ss[i]) : HomeOf(address[u]) = old[i]
        BY <1>7, <1>10, <3>1 DEF QueuedAt
      <3>3. \A u \in ToSet(ss[j]) : HomeOf(address[u]) = old[j]
        BY <1>7, <1>10, <3>1 DEF QueuedAt
      <3> QED
        BY <3>1, <3>2, <3>3
    <2> QED
      BY <1>8, <2>1, <2>2 DEF Apart
  <1>12. ASSUME NEW b \in Bucket, QueuedAt(b) # {} PROVE b \in buckets[t]
    <2>1. PICK u \in QueuedAt(b) : address[u] # Nil /\ HomeOf(address[u]) = b
      BY <1>10, <1>12
    <2>2. u \in Thread
      BY <1>0 DEF QueuedAt, ToSet, TypeOK
    <2>3. address[u] \in Address
      BY <1>0, <2>1, <2>2 DEF TypeOK
    <2>4. HomeOf(address[u]) = Spine(hashtables)[Slot(hashtables, address[u])]
      BY <1>2 DEF HomeOf
    <2>5. Slot(hashtables, address[u]) \in DOMAIN Spine(hashtables)
      BY <1>2, <2>3, SpineFacts DEF Slot
    <2>6. b # Nil
      BY NilAssumption
    <2> QED
      BY <1>2, <2>1, <2>4, <2>5, <2>6, InSpineFacts
  <1>13. \A b \in buckets[t] : \E i \in 1 .. n : old[i] = b
    BY <1>5 DEF ToSet
  <1>14. 1 \in 1 .. n
    BY <1>4
  <1>15. /\ threadDatas \in Seq(Thread)
         /\ IsInjective(threadDatas)
         /\ \A u : u \in ToSet(threadDatas) <=> \E i \in 1 .. n : u \in ToSet(ss[i])
    <2>1. OnlyAt(ss, 1, {})
      BY DEF OnlyAt
    <2> QED
      BY <1>4, <1>8, <1>9, <1>11, <1>14, <2>1, Flattened
  <1>16. \A u : u \in ToSet(threadDatas) <=> \E b \in Bucket : u \in QueuedAt(b)
    <2>1. ASSUME NEW u, u \in ToSet(threadDatas) PROVE \E b \in Bucket : u \in QueuedAt(b)
      BY <1>7, <1>15, <2>1 DEF QueuedAt
    <2>2. ASSUME NEW u, NEW b \in Bucket, u \in QueuedAt(b) PROVE u \in ToSet(threadDatas)
      <3>1. PICK i \in 1 .. n : old[i] = b
        BY <1>12, <1>13, <2>2
      <3> QED
        BY <1>7, <1>15, <2>2, <3>1 DEF QueuedAt
    <2> QED
      BY <2>1, <2>2
  <1>17. ASSUME NEW a \in Address, HomeOf(a) # Nil
         PROVE  Only(threadDatas, OnAddress(a)) = Only(queue[HomeOf(a)], OnAddress(a))
    <2>1. HomeOf(a) \in buckets[t]
      <3>1. HomeOf(a) = Spine(hashtables)[Slot(hashtables, a)]
        BY <1>2 DEF HomeOf
      <3>2. Slot(hashtables, a) \in DOMAIN Spine(hashtables)
        BY <1>2, SpineFacts DEF Slot
      <3> QED
        BY <1>2, <1>17, <3>1, <3>2, InSpineFacts
    <2>2. PICK k \in 1 .. n : old[k] = HomeOf(a)
      BY <1>13, <2>1
    <2>3. OnlyAt(ss, k, OnAddress(a))
      <3>1. ASSUME NEW i \in 1 .. n, i # k, NEW u \in ToSet(ss[i]) PROVE u \notin OnAddress(a)
        <4>1. u \in QueuedAt(old[i]) /\ old[i] \in Bucket /\ old[i] # old[k]
          BY <1>6, <1>7, <3>1 DEF QueuedAt
        <4>2. HomeOf(address[u]) = old[i]
          BY <1>10, <4>1
        <4>3. address[u] # a
          BY <2>2, <4>1, <4>2
        <4> QED
          BY <4>3 DEF OnAddress
      <3> QED
        BY <1>8, <3>1 DEF OnlyAt
    <2>4. Only(FlattenSeq(ss), OnAddress(a)) = Only(ss[k], OnAddress(a))
      BY <1>4, <1>8, <1>11, <2>3, Flattened
    <2> QED
      BY <1>7, <1>9, <2>2, <2>4
  <1> QED
    BY <1>15, <1>16, <1>17

\* What a rehash does: everybody on a queue is put where the new spine says,
\* those of an address in the order they were in.
LEMMA RehashFacts ==
  ASSUME IInv, NEW t \in Thread, Rehash(t)
  PROVE  /\ hashtables' \in Seq(Spines) /\ hashtables' # <<>>
         /\ Len(hashtables') = Len(hashtables) + 1
         /\ Grown(hashtables, hashtables')
         /\ OneToOne(Spine(hashtables'))
         /\ queue' \in [Bucket -> Seq(Thread)]
         /\ \A b \in Bucket : IsInjective(queue'[b])
         /\ \A b \in Bucket : \A u :
               u \in ToSet(queue'[b]) <=> /\ \E c \in Bucket : u \in QueuedAt(c)
                                          /\ HomeOf(address[u])' = b
         /\ \A a \in Address :
               /\ HomeOf(a)' # Nil /\ HomeOf(a) # Nil =>
                     Only(queue'[HomeOf(a)'], OnAddress(a)) = Only(queue[HomeOf(a)], OnAddress(a))
               /\ HomeOf(a)' = Nil \/ HomeOf(a) = Nil =>
                     \A u \in OnAddress(a) : \A b \in Bucket : u \notin QueuedAt(b)
  <1>0. TypeOK /\ TablesOK /\ LocksOK /\ PlacesOK
    BY DEF IInv
  <1>1. pc[t] = "rehash" /\ UNCHANGED address
    BY DEF Rehash, threadVars
  <1>a. PICK size \in {currentNumThreads[t] * growthFactor * maxLoadFactor},
              old \in Sorted(buckets[t]) :
        \E threadDatas \in {FlattenSeq([i \in DOMAIN old |-> queue[old[i]]])} :
        \E spine \in NewSpines(buckets[t], threadDatas, size) :
          /\ hashtables' = Append(hashtables, spine)
          /\ queue' = [b \in Bucket |->
                IF b \in buckets[t] \cup InSpine(spine)
                THEN Only(threadDatas, {u \in ToSet(threadDatas) : spine[Index(address[u], size)] = b})
                ELSE queue[b]]
    BY Zenon DEF Rehash
  <1>b. PICK threadDatas \in {FlattenSeq([i \in DOMAIN old |-> queue[old[i]]])} :
        \E spine \in NewSpines(buckets[t], threadDatas, size) :
          /\ hashtables' = Append(hashtables, spine)
          /\ queue' = [b \in Bucket |->
                IF b \in buckets[t] \cup InSpine(spine)
                THEN Only(threadDatas, {u \in ToSet(threadDatas) : spine[Index(address[u], size)] = b})
                ELSE queue[b]]
    BY <1>a, Zenon
  <1>c. PICK spine \in NewSpines(buckets[t], threadDatas, size) :
          /\ hashtables' = Append(hashtables, spine)
          /\ queue' = [b \in Bucket |->
                IF b \in buckets[t] \cup InSpine(spine)
                THEN Only(threadDatas, {u \in ToSet(threadDatas) : spine[Index(address[u], size)] = b})
                ELSE queue[b]]
    BY <1>b, Zenon
  <1>2. /\ size = currentNumThreads[t] * growthFactor * maxLoadFactor
        /\ threadDatas = FlattenSeq([i \in DOMAIN old |-> queue[old[i]]])
        /\ spine \in NewSpines(buckets[t], threadDatas, size)
        /\ hashtables' = Append(hashtables, spine)
        /\ queue' = [b \in Bucket |->
                IF b \in buckets[t] \cup InSpine(spine)
                THEN Only(threadDatas, {u \in ToSet(threadDatas) : spine[Index(address[u], size)] = b})
                ELSE queue[b]]
    BY <1>a, <1>b, <1>c, Zenon
  <1>3. size \in Nat \ {0}
    <2>1. currentNumThreads[t] \in Nat \ {0}
      BY <1>0, <1>1 DEF TypeOK, TablesOK, TableOK, RehashPC
    <2>2. maxLoadFactor \in Nat \ {0} /\ growthFactor \in Nat \ {0}
      BY FactorAssumption
    <2>3. \A x, y \in Nat \ {0} : x * y \in Nat \ {0}
      OBVIOUS
    <2> QED
      BY <1>2, <2>1, <2>2, <2>3
  <1>4. /\ threadDatas \in Seq(Thread)
        /\ IsInjective(threadDatas)
        /\ \A u : u \in ToSet(threadDatas) <=> \E b \in Bucket : u \in QueuedAt(b)
        /\ \A a \in Address : HomeOf(a) # Nil =>
              Only(threadDatas, OnAddress(a)) = Only(queue[HomeOf(a)], OnAddress(a))
    BY <1>1, <1>2, Gathered
  <1>5. \A b \in Bucket : \A u \in QueuedAt(b) : u \in Thread /\ address[u] \in Address /\ HomeOf(address[u]) = b
    <2> TAKE b \in Bucket
    <2> TAKE u \in QueuedAt(b)
    <2>1. address[u] # Nil /\ HomeOf(address[u]) = b
      BY <1>0 DEF PlacesOK, QueueOK
    <2>2. u \in Thread
      BY <1>0 DEF QueuedAt, ToSet, TypeOK
    <2> QED
      BY <1>0, <2>1, <2>2 DEF TypeOK
  <1>6. \A u \in ToSet(threadDatas) : u \in Thread /\ address[u] \in Address
    BY <1>4, <1>5
  <1>7. buckets[t] \in SUBSET Bucket /\ hashtables \in Seq(Spines) /\ queue \in [Bucket -> Seq(Thread)]
    BY <1>0 DEF TypeOK
  <1>8. /\ spine \in Spines /\ DOMAIN spine = 0 .. size - 1 /\ OneToOne(spine)
        /\ \A u \in ToSet(threadDatas) : /\ Index(address[u], size) \in DOMAIN spine
                                         /\ spine[Index(address[u], size)] \in Bucket
    BY <1>2, <1>3, <1>4, <1>6, <1>7, NewSpinesFacts
  <1>9. /\ hashtables' \in Seq(Spines) /\ hashtables' # <<>>
        /\ Len(hashtables') = Len(hashtables) + 1
        /\ hashtables'[Len(hashtables) + 1] = spine
        /\ \A g \in 1 .. Len(hashtables) : hashtables'[g] = hashtables[g]
        /\ Len(hashtables) \in Nat
    BY <1>2, <1>7, <1>8
  <1>10. Spine(hashtables') = spine
    BY <1>9 DEF Spine
  <1>11. Grown(hashtables, hashtables')
    BY <1>9 DEF Grown
  <1>12. Cardinality(DOMAIN spine) = size
    <2>1. 0 \in Int /\ size - 1 \in Int /\ ~(0 > size - 1) /\ (size - 1) - 0 + 1 = size
      BY <1>3
    <2> QED
      BY <1>8, <2>1, FS_Interval
  <1>13. \A a \in Address : HomeOf(a)' = spine[Index(a, size)]
    BY <1>9, <1>10, <1>12 DEF HomeOf, Slot, Spine
  <1> DEFINE Moved(b) == {u \in ToSet(threadDatas) : spine[Index(address[u], size)] = b}
  <1>14. ASSUME NEW b \in Bucket
         PROVE  IF b \in buckets[t] \cup InSpine(spine) THEN queue'[b] = Only(threadDatas, Moved(b))
                ELSE queue'[b] = queue[b]
    BY <1>2
  <1> HIDE DEF Moved
  <1>15. \A b \in Bucket : queue'[b] \in Seq(Thread) /\ IsInjective(queue'[b])
    <2> TAKE b \in Bucket
    <2>1. Only(threadDatas, Moved(b)) \in Seq(Thread) /\ IsInjective(Only(threadDatas, Moved(b)))
      BY <1>4, OnlyType, OnlyMembers
    <2>2. queue[b] \in Seq(Thread) /\ IsInjective(queue[b])
      BY <1>0, <1>7 DEF PlacesOK, QueueOK
    <2> QED
      BY <1>14, <2>1, <2>2
  <1>16. queue' \in [Bucket -> Seq(Thread)]
    <2>1. queue' = [b \in Bucket |-> queue'[b]]
      BY <1>2
    <2> QED
      BY <1>15, <2>1
  <1>17. \A u \in ToSet(threadDatas) : HomeOf(address[u])' = spine[Index(address[u], size)]
    BY <1>1, <1>6, <1>13
  <1>18. ASSUME NEW b \in Bucket, b \notin buckets[t] \cup InSpine(spine)
         PROVE  QueuedAt(b) = {} /\ Moved(b) = {}
    <2>1. QueuedAt(b) = {}
      <3> SUFFICES ASSUME NEW u \in QueuedAt(b) PROVE FALSE
        OBVIOUS
      <3>1. /\ myTable[t] \in 1 .. hashtable
            /\ buckets[t] = InSpine(hashtables[myTable[t]]) /\ myTable[t] = hashtable
        BY <1>0, <1>1 DEF TablesOK, TableOK, LocksOK, LockOK, RehashPC
      <3>2. hashtables # <<>> /\ Spine(hashtables) \in Spines /\ buckets[t] = InSpine(Spine(hashtables))
        BY <1>0, <3>1 DEF TypeOK, hashtable, Spine
      <3>3. address[u] \in Address /\ HomeOf(address[u]) = b
        BY <1>5
      <3>4. b = Spine(hashtables)[Slot(hashtables, address[u])]
        BY <3>2, <3>3 DEF HomeOf
      <3>5. Slot(hashtables, address[u]) \in DOMAIN Spine(hashtables)
        BY <3>2, <3>3, SpineFacts DEF Slot
      <3>6. b # Nil
        BY NilAssumption
      <3> QED
        BY <1>18, <3>2, <3>4, <3>5, <3>6, InSpineFacts
    <2>2. Moved(b) = {}
      <3> SUFFICES ASSUME NEW u \in Moved(b) PROVE FALSE
        OBVIOUS
      <3>1. u \in ToSet(threadDatas) /\ spine[Index(address[u], size)] = b
        BY DEF Moved
      <3>2. b # Nil
        BY NilAssumption
      <3> QED
        BY <1>8, <1>18, <3>1, <3>2, InSpineFacts
    <2> QED
      BY <2>1, <2>2
  <1>19. \A b \in Bucket : ToSet(queue'[b]) = Moved(b)
    <2> TAKE b \in Bucket
    <2>1. CASE b \in buckets[t] \cup InSpine(spine)
      <3>1. ToSet(Only(threadDatas, Moved(b))) = ToSet(threadDatas) \cap Moved(b)
        BY <1>4, OnlyMembers
      <3>2. Moved(b) \subseteq ToSet(threadDatas)
        BY DEF Moved
      <3> QED
        BY <1>14, <2>1, <3>1, <3>2
    <2>2. CASE b \notin buckets[t] \cup InSpine(spine)
      BY <1>14, <1>18, <2>2 DEF QueuedAt
    <2> QED
      BY <2>1, <2>2
  <1>20. ASSUME NEW b \in Bucket, NEW u
         PROVE  u \in ToSet(queue'[b]) <=> /\ \E c \in Bucket : u \in QueuedAt(c)
                                           /\ HomeOf(address[u])' = b
    BY <1>4, <1>17, <1>19 DEF Moved
  <1>21. ASSUME NEW a \in Address, HomeOf(a)' # Nil, HomeOf(a) # Nil
         PROVE  Only(queue'[HomeOf(a)'], OnAddress(a)) = Only(queue[HomeOf(a)], OnAddress(a))
    <2>1. PICK b : b = HomeOf(a)'
      OBVIOUS
    <2>2. Index(a, size) \in DOMAIN spine
      BY <1>8, <1>12, SpineFacts
    <2>3. b = spine[Index(a, size)] /\ b # Nil
      BY <1>13, <1>21, <2>1
    <2>4. b \in InSpine(spine) /\ b \in Bucket
      BY <1>8, <2>2, <2>3, InSpineFacts
    <2>5. queue'[b] = Only(threadDatas, Moved(b))
      BY <1>14, <2>4
    <2>6. Only(Only(threadDatas, Moved(b)), OnAddress(a)) = Only(threadDatas, Moved(b) \cap OnAddress(a))
      BY <1>4, OnlyTwice
    <2>7. ToSet(threadDatas) \cap (Moved(b) \cap OnAddress(a)) = ToSet(threadDatas) \cap OnAddress(a)
      BY <2>3 DEF Moved, OnAddress
    <2>8. Only(threadDatas, Moved(b) \cap OnAddress(a)) = Only(threadDatas, OnAddress(a))
      BY <1>4, <2>7, OnlySame
    <2> QED
      BY <1>4, <1>21, <2>1, <2>5, <2>6, <2>8
  <1>22. ASSUME NEW a \in Address, HomeOf(a)' = Nil \/ HomeOf(a) = Nil,
                NEW u \in OnAddress(a), NEW b \in Bucket, u \in QueuedAt(b)
         PROVE  FALSE
    <2>1. address[u] = a /\ HomeOf(a) = b
      BY <1>5, <1>22 DEF OnAddress
    <2>2. u \in ToSet(threadDatas)
      BY <1>4, <1>22
    <2>3. HomeOf(a)' \in Bucket
      BY <1>8, <1>13, <2>1, <2>2
    <2> QED
      BY <1>22, <2>1, <2>3, NilAssumption
  <1> QED
    BY <1>9, <1>10, <1>11, <1>8, <1>15, <1>16, <1>20, <1>21, <1>22

\* Spines that stay as they are have grown.
LEMMA GrownSame ==
  ASSUME TypeOK, hashtables' = hashtables
  PROVE  Grown(hashtables, hashtables')
  <1>1. Len(hashtables) \in Nat
    BY DEF TypeOK
  <1> QED
    BY <1>1 DEF Grown

\* Nobody's locks are touched by a step outside lockHashtable() ... unlockHashtable().
LEMMA LocksKept ==
  ASSUME IInv, TypeOK', NEW t \in Thread, OthersKeep(t), lock' = lock,
         pc[t] \notin RehashPC, pc'[t] \notin RehashPC,
         Grown(hashtables, hashtables'), hashtables # <<>> => Len(hashtables') = Len(hashtables)
  PROVE  LocksOK'
  <1>0. TypeOK /\ TablesOK /\ LocksOK
    BY DEF IInv
  <1>1. ASSUME NEW u \in Thread, pc[u] \in RehashPC
        PROVE  u # t /\ pc'[u] = pc[u] /\ buckets'[u] = buckets[u] /\ myTable'[u] = myTable[u]
               /\ currentNumThreads'[u] = currentNumThreads[u]
    BY <1>1 DEF OthersKeep, RehashPC
  <1>2. ASSUME NEW u \in Thread, pc'[u] \in RehashPC PROVE pc[u] \in RehashPC /\ u # t
    BY <1>2 DEF OthersKeep, RehashPC
  <1>3. \A b \in Bucket : lock'[b] # Nil => pc'[lock'[b]] \in RehashPC /\ b \in buckets'[lock'[b]]
    <2> SUFFICES ASSUME NEW b \in Bucket, lock'[b] # Nil
                 PROVE  pc'[lock'[b]] \in RehashPC /\ b \in buckets'[lock'[b]]
      OBVIOUS
    <2>1. PICK u \in Thread : u = lock[b] /\ lock'[b] = u
      BY <1>0 DEF TypeOK
    <2>2. pc[u] \in RehashPC /\ b \in buckets[u]
      BY <1>0, <2>1 DEF LocksOK
    <2> QED
      BY <1>1, <2>1, <2>2
  <1>4. ASSUME NEW u \in Thread PROVE LockOK(u)'
    <2>1. CASE pc'[u] \notin RehashPC
      BY <2>1 DEF LockOK, RehashPC
    <2>2. CASE pc'[u] \in RehashPC
      <3>1. pc[u] \in RehashPC
        BY <1>2, <2>2
      <3>2. /\ pc'[u] = pc[u] /\ buckets'[u] = buckets[u] /\ myTable'[u] = myTable[u]
            /\ currentNumThreads'[u] = currentNumThreads[u]
        BY <1>1, <3>1
      <3>3. LockOK(u)
        BY <1>0 DEF LocksOK
      <3>4. myTable[u] \in 1 .. hashtable
        BY <1>0, <3>1 DEF TablesOK, TableOK
      <3>5. hashtables # <<>> /\ Len(hashtables) \in Nat /\ hashtable \in 1 .. Len(hashtables)
        BY <1>0, <3>4 DEF TypeOK, hashtable
      <3>6. hashtable' = hashtable /\ DOMAIN hashtables'[hashtable] = DOMAIN hashtables[hashtable]
        BY <3>5 DEF hashtable, Grown
      <3>7. LargeEnough(hashtable, currentNumThreads[u])' = LargeEnough(hashtable, currentNumThreads[u])
        BY <3>2, <3>6 DEF LargeEnough, Size
      <3> QED
        BY <3>2, <3>3, <3>6, <3>7 DEF LockOK
    <2> QED
      BY <2>1, <2>2
  <1>5. \E n \in Nat : \A b \in Bucket : lock'[b] # Nil => b < n
    BY <1>0 DEF LocksOK
  <1> QED
    BY <1>3, <1>4, <1>5 DEF LocksOK

\* A step that touches neither spines nor locks.
LEMMA TablesQuiet ==
  ASSUME IInv, TypeOK', NEW t \in Thread, OthersKeep(t), TableOK(t)',
         hashtables' = hashtables, lock' = lock, pc[t] \notin RehashPC, pc'[t] \notin RehashPC
  PROVE  TablesOK' /\ LocksOK'
  <1>0. TypeOK /\ TablesOK /\ LocksOK
    BY DEF IInv
  <1>1. Grown(hashtables, hashtables')
    BY <1>0, GrownSame
  <1>2. LocksOK'
    BY <1>1, LocksKept
  <1>3. \A u \in Thread : TableOK(u)'
    BY <1>0, <1>1, TableOKKept
  <1> QED
    BY <1>0, <1>2, <1>3 DEF TablesOK, OneToOne, Spine

\* A step that fills slots of the current spine.
LEMMA TablesFilled ==
  ASSUME IInv, TypeOK', NEW t \in Thread, OthersKeep(t), TableOK(t)',
         NEW I \in SUBSET DOMAIN Spine(Ensured), hashtables' \in Filled(Ensured, I),
         lock' = lock, pc[t] \notin RehashPC
  PROVE  TablesOK' /\ (pc'[t] \notin RehashPC => LocksOK')
  <1>0. TypeOK /\ TablesOK /\ LocksOK
    BY DEF IInv
  <1>1. /\ Grown(hashtables, hashtables') /\ OneToOne(Spine(hashtables'))
        /\ hashtables # <<>> => Len(hashtables') = Len(hashtables)
    BY <1>0, Filling
  <1>2. pc'[t] \notin RehashPC => LocksOK'
    BY <1>1, LocksKept
  <1>3. \A u \in Thread : TableOK(u)'
    BY <1>0, <1>1, TableOKKept
  <1> QED
    BY <1>1, <1>2, <1>3 DEF TablesOK, OneToOne, Spine

\* ensureHashtable() alone fills nothing.
LEMMA EnsuredFilled ==
  ASSUME TypeOK, TablesOK
  PROVE  Ensured \in Filled(Ensured, {})
  <1> DEFINE e == Ensured
             n == Len(e)
             spine == Spine(e)
             empty == {i \in {} : spine[i] = Nil}
             New == {f \in [empty -> Bucket] : \A i \in empty :
                        f[i] \in Malloc[Allocated(e) \cup {f[j] : j \in {j \in empty : j > i}}]}
             With(f) == [i \in DOMAIN spine |-> IF i \in empty THEN f[i] ELSE spine[i]]
             f0 == [i \in {} |-> Nil]
  <1>1. e \in Seq(Spines) /\ n \in Nat \ {0} /\ spine \in Spines /\ spine = e[n]
    BY EnsuredFacts DEF Spine
  <1>2. empty = {}
    OBVIOUS
  <1>3. f0 \in New
    <2> HIDE DEF empty
    <2>1. f0 \in [empty -> Bucket]
      BY <1>2
    <2> QED
      BY <1>2, <2>1
  <1>4. With(f0) = spine
    <2> HIDE DEF empty
    <2>1. spine = [i \in DOMAIN spine |-> spine[i]]
      <3> HIDE DEF spine
      <3> QED
        BY <1>1 DEF Spines
    <2> QED
      BY <1>2, <2>1
  <1>5. [e EXCEPT ![n] = spine] = e
    <2> HIDE DEF e, n, spine
    <2>1. n \in DOMAIN e /\ e = [i \in DOMAIN e |-> e[i]]
      <3>1. TRUE
        OBVIOUS
      <3> QED
        BY <1>1 DEF n
    <2> QED
      BY <1>1, <2>1
  <1>6. Filled(e, {}) = {[e EXCEPT ![n] = With(f)] : f \in New}
    BY DEF Filled
  <1> HIDE DEF New, With, e, n, spine
  <1>7. e = [e EXCEPT ![n] = With(f0)]
    BY <1>4, <1>5
  <1>8. e \in {[e EXCEPT ![n] = With(f)] : f \in New}
    BY <1>3, <1>7
  <1> QED
    BY <1>6, <1>8 DEF e

-----------------------------------------------------------------------------
(* The tables and the locks, one action at a time *)

\* The types of what a call leaves behind.
LocalsOK == /\ pc \in [Thread -> AllPC]
            /\ arg \in [Thread -> Address \cup {Nil}]
            /\ currentNumThreads \in [Thread -> Nat]
            /\ myTable \in [Thread -> Nat]
            /\ myBucket \in [Thread -> Bucket \cup {Nil}]
            /\ buckets \in [Thread -> SUBSET Bucket]
            /\ call \in [Thread -> AllCalls \cup {NoCall}]
            /\ targets \in [Thread -> Seq(Thread)]
            /\ didDequeue \in [Thread -> BOOLEAN]

\* A return keeps the types.
LEMMA ReturnTypes ==
  ASSUME TypeOK, NEW t \in Thread, Return(t)
  PROVE  LocalsOK'
  BY DEF TypeOK, LocalsOK, Return, Goto, AllPC

\* A thread gets its data.
LEMMA TablesCreate ==
  ASSUME IInv, NEW t \in Thread, CreateThreadData(t)
  PROVE  TypeOK' /\ TablesOK' /\ LocksOK'
  <1>0. TypeOK /\ TablesOK /\ LocksOK /\ PlacesOK /\ TableOK(t)
    BY DEF IInv, TablesOK
  <1> USE DEF CreateThreadData, Goto, locals, tableVars, threadVars
  <1>c. IsFiniteSet(alive') /\ numThreads' = Cardinality(alive') /\ numThreads' \in Nat \ {0}
    BY <1>0, FS_AddElement, FS_CardinalityType DEF TypeOK
  <1>1. TypeOK'
    BY <1>0, <1>c DEF TypeOK, AllPC, ParkPC, SizingPC, RehashPC, WakePC, BucketPC, ParkedPC
  <1>2. OthersKeep(t) /\ hashtables' = hashtables /\ lock' = lock
    BY <1>0, <1>c DEF TypeOK, OthersKeep
  <1>3. pc[t] \notin RehashPC /\ pc'[t] \notin RehashPC
    BY <1>0, <1>c DEF TypeOK, RehashPC
  <1>4. TableOK(t)'
    BY <1>0, <1>2, <1>c DEF TypeOK, TableOK, hashtable, Size, ParkPC, SizingPC, RehashPC, WakePC, BucketPC, ParkedPC
  <1> QED
    BY <1>1, <1>2, <1>3, <1>4, TablesQuiet

\* A thread is gone.
LEMMA TablesDestroy ==
  ASSUME IInv, NEW t \in Thread, DestroyThreadData(t)
  PROVE  TypeOK' /\ TablesOK' /\ LocksOK'
  <1>0. TypeOK /\ TablesOK /\ LocksOK /\ PlacesOK /\ TableOK(t)
    BY DEF IInv, TablesOK
  <1> USE DEF DestroyThreadData, Goto, locals, tableVars, threadVars
  <1>c. IsFiniteSet(alive') /\ numThreads' = Cardinality(alive')
    BY <1>0, FS_RemoveElement DEF TypeOK
  <1>1. TypeOK'
    BY <1>0, <1>c DEF TypeOK, AllPC, ParkPC, SizingPC, RehashPC, WakePC, BucketPC, ParkedPC
  <1>2. OthersKeep(t) /\ hashtables' = hashtables /\ lock' = lock
    BY <1>0, <1>c DEF TypeOK, OthersKeep
  <1>3. pc[t] \notin RehashPC /\ pc'[t] \notin RehashPC
    BY <1>0, <1>c DEF TypeOK, RehashPC
  <1>4. TableOK(t)'
    BY <1>0, <1>2, <1>c DEF TypeOK, TableOK, hashtable, Size, ParkPC, SizingPC, RehashPC, WakePC, BucketPC, ParkedPC
  <1> QED
    BY <1>1, <1>2, <1>3, <1>4, TablesQuiet

\* The fast check of the size.
LEMMA TablesSizeCheck ==
  ASSUME IInv, NEW t \in Thread, FastSizeCheck(t)
  PROVE  TypeOK' /\ TablesOK' /\ LocksOK'
  <1>0. TypeOK /\ TablesOK /\ LocksOK /\ PlacesOK /\ TableOK(t)
    BY DEF IInv, TablesOK
  <1> USE DEF FastSizeCheck, Return, Goto, locals, tableVars, threadVars
  <1>c. LocalsOK'
    <2>1. CASE Return(t)
      BY <1>0, <2>1, ReturnTypes
    <2>2. CASE Goto(t, "lockHashtable") /\ UNCHANGED locals
      BY <1>0, <2>2 DEF TypeOK, LocalsOK, AllPC, ParkPC, SizingPC, RehashPC, WakePC, BucketPC, ParkedPC
    <2> QED
      BY <2>1, <2>2 DEF FastSizeCheck
  <1>1. TypeOK'
    BY <1>0, <1>c DEF TypeOK, AllPC, ParkPC, SizingPC, RehashPC, WakePC, BucketPC, ParkedPC, LocalsOK
  <1>2. OthersKeep(t) /\ hashtables' = hashtables /\ lock' = lock
    BY <1>0, <1>c DEF TypeOK, OthersKeep
  <1>3. pc[t] \notin RehashPC /\ pc'[t] \notin RehashPC
    BY <1>0, <1>c DEF TypeOK, RehashPC
  <1>4. TableOK(t)'
    BY <1>0, <1>2, <1>c DEF TypeOK, TableOK, hashtable, Size, ParkPC, SizingPC, RehashPC, WakePC, BucketPC, ParkedPC
  <1> QED
    BY <1>1, <1>2, <1>3, <1>4, TablesQuiet

\* A call of parkConditionally().
LEMMA TablesParkConditionally ==
  ASSUME IInv, NEW t \in Thread, NEW a \in Address, ParkConditionally(t, a)
  PROVE  TypeOK' /\ TablesOK' /\ LocksOK'
  <1>0. TypeOK /\ TablesOK /\ LocksOK /\ PlacesOK /\ TableOK(t)
    BY DEF IInv, TablesOK
  <1> USE DEF ParkConditionally, Goto, locals, tableVars, threadVars
  <1>1. TypeOK'
    BY <1>0 DEF TypeOK, AllPC, ParkPC, SizingPC, RehashPC, WakePC, BucketPC, ParkedPC
  <1>2. OthersKeep(t) /\ hashtables' = hashtables /\ lock' = lock
    BY <1>0 DEF TypeOK, OthersKeep
  <1>3. pc[t] \notin RehashPC /\ pc'[t] \notin RehashPC
    BY <1>0 DEF TypeOK, RehashPC
  <1>4. TableOK(t)'
    BY <1>0, <1>2 DEF TypeOK, TableOK, hashtable, Size, ParkPC, SizingPC, RehashPC, WakePC, BucketPC, ParkedPC
  <1> QED
    BY <1>1, <1>2, <1>3, <1>4, TablesQuiet

\* The hashtable was rehashed under the thread.
LEMMA TablesRetryEnqueue ==
  ASSUME IInv, NEW t \in Thread, Retry(t, "enqueue", "locate")
  PROVE  TypeOK' /\ TablesOK' /\ LocksOK'
  <1>0. TypeOK /\ TablesOK /\ LocksOK /\ PlacesOK /\ TableOK(t)
    BY DEF IInv, TablesOK
  <1> USE DEF Retry, Goto, locals, tableVars, threadVars
  <1>1. TypeOK'
    BY <1>0 DEF TypeOK, AllPC, ParkPC, SizingPC, RehashPC, WakePC, BucketPC, ParkedPC
  <1>2. OthersKeep(t) /\ hashtables' = hashtables /\ lock' = lock
    BY <1>0 DEF TypeOK, OthersKeep
  <1>3. pc[t] \notin RehashPC /\ pc'[t] \notin RehashPC
    BY <1>0 DEF TypeOK, RehashPC
  <1>4. TableOK(t)'
    BY <1>0, <1>2 DEF TypeOK, TableOK, hashtable, Size, ParkPC, SizingPC, RehashPC, WakePC, BucketPC, ParkedPC
  <1> QED
    BY <1>1, <1>2, <1>3, <1>4, TablesQuiet

\* The hashtable was rehashed under the thread.
LEMMA TablesRetryRemove ==
  ASSUME IInv, NEW t \in Thread, Retry(t, "removeSelf", "timedOut")
  PROVE  TypeOK' /\ TablesOK' /\ LocksOK'
  <1>0. TypeOK /\ TablesOK /\ LocksOK /\ PlacesOK /\ TableOK(t)
    BY DEF IInv, TablesOK
  <1> USE DEF Retry, Goto, locals, tableVars, threadVars
  <1>1. TypeOK'
    BY <1>0 DEF TypeOK, AllPC, ParkPC, SizingPC, RehashPC, WakePC, BucketPC, ParkedPC
  <1>2. OthersKeep(t) /\ hashtables' = hashtables /\ lock' = lock
    BY <1>0 DEF TypeOK, OthersKeep
  <1>3. pc[t] \notin RehashPC /\ pc'[t] \notin RehashPC
    BY <1>0 DEF TypeOK, RehashPC
  <1>4. TableOK(t)'
    BY <1>0, <1>2 DEF TypeOK, TableOK, hashtable, Size, ParkPC, SizingPC, RehashPC, WakePC, BucketPC, ParkedPC
  <1> QED
    BY <1>1, <1>2, <1>3, <1>4, TablesQuiet

\* The hashtable was rehashed under the thread.
LEMMA TablesRetryDequeue ==
  ASSUME IInv, NEW t \in Thread, Retry(t, "dequeue", "unpark")
  PROVE  TypeOK' /\ TablesOK' /\ LocksOK'
  <1>0. TypeOK /\ TablesOK /\ LocksOK /\ PlacesOK /\ TableOK(t)
    BY DEF IInv, TablesOK
  <1> USE DEF Retry, Goto, locals, tableVars, threadVars
  <1>1. TypeOK'
    BY <1>0 DEF TypeOK, AllPC, ParkPC, SizingPC, RehashPC, WakePC, BucketPC, ParkedPC
  <1>2. OthersKeep(t) /\ hashtables' = hashtables /\ lock' = lock
    BY <1>0 DEF TypeOK, OthersKeep
  <1>3. pc[t] \notin RehashPC /\ pc'[t] \notin RehashPC
    BY <1>0 DEF TypeOK, RehashPC
  <1>4. TableOK(t)'
    BY <1>0, <1>2 DEF TypeOK, TableOK, hashtable, Size, ParkPC, SizingPC, RehashPC, WakePC, BucketPC, ParkedPC
  <1> QED
    BY <1>1, <1>2, <1>3, <1>4, TablesQuiet

\* A thread is put on a queue.
LEMMA TablesEnqueue ==
  ASSUME IInv, NEW t \in Thread, Enqueue(t)
  PROVE  TypeOK' /\ TablesOK' /\ LocksOK'
  <1>0. TypeOK /\ TablesOK /\ LocksOK /\ PlacesOK /\ TableOK(t)
    BY DEF IInv, TablesOK
  <1> USE DEF Enqueue, Goto, locals, tableVars, threadVars
  <1>c. arg[t] \in Address /\ myBucket[t] \in Bucket
    BY <1>0 DEF TableOK, TypeOK, ParkPC, BucketPC
  <1>1. TypeOK'
    BY <1>0, <1>c DEF TypeOK, AllPC, ParkPC, SizingPC, RehashPC, WakePC, BucketPC, ParkedPC
  <1>2. OthersKeep(t) /\ hashtables' = hashtables /\ lock' = lock
    BY <1>0, <1>c DEF TypeOK, OthersKeep
  <1>3. pc[t] \notin RehashPC /\ pc'[t] \notin RehashPC
    BY <1>0, <1>c DEF TypeOK, RehashPC
  <1>4. TableOK(t)'
    BY <1>0, <1>2, <1>c DEF TypeOK, TableOK, hashtable, Size, ParkPC, SizingPC, RehashPC, WakePC, BucketPC, ParkedPC
  <1> QED
    BY <1>1, <1>2, <1>3, <1>4, TablesQuiet

\* The validation said no.
LEMMA TablesRefuse ==
  ASSUME IInv, NEW t \in Thread, Refuse(t)
  PROVE  TypeOK' /\ TablesOK' /\ LocksOK'
  <1>0. TypeOK /\ TablesOK /\ LocksOK /\ PlacesOK /\ TableOK(t)
    BY DEF IInv, TablesOK
  <1> USE DEF Refuse, Return, Goto, locals, tableVars, threadVars
  <1>1. TypeOK'
    BY <1>0 DEF TypeOK, AllPC, ParkPC, SizingPC, RehashPC, WakePC, BucketPC, ParkedPC
  <1>2. OthersKeep(t) /\ hashtables' = hashtables /\ lock' = lock
    BY <1>0 DEF TypeOK, OthersKeep
  <1>3. pc[t] \notin RehashPC /\ pc'[t] \notin RehashPC
    BY <1>0 DEF TypeOK, RehashPC
  <1>4. TableOK(t)'
    BY <1>0, <1>2 DEF TypeOK, TableOK, hashtable, Size, ParkPC, SizingPC, RehashPC, WakePC, BucketPC, ParkedPC
  <1> QED
    BY <1>1, <1>2, <1>3, <1>4, TablesQuiet

\* A parked thread looks at its address.
LEMMA TablesPark ==
  ASSUME IInv, NEW t \in Thread, Park(t)
  PROVE  TypeOK' /\ TablesOK' /\ LocksOK'
  <1>0. TypeOK /\ TablesOK /\ LocksOK /\ PlacesOK /\ TableOK(t)
    BY DEF IInv, TablesOK
  <1> USE DEF Park, Return, Goto, locals, tableVars, threadVars
  <1>c. LocalsOK'
    <2>1. CASE Return(t)
      BY <1>0, <2>1, ReturnTypes
    <2>2. CASE Goto(t, "asleep") /\ UNCHANGED <<token, locals>>
      BY <1>0, <2>2 DEF TypeOK, LocalsOK, AllPC, ParkPC, SizingPC, RehashPC, WakePC, BucketPC, ParkedPC
    <2> QED
      BY <2>1, <2>2 DEF Park
  <1>1. TypeOK'
    BY <1>0, <1>c DEF TypeOK, AllPC, ParkPC, SizingPC, RehashPC, WakePC, BucketPC, ParkedPC, LocalsOK
  <1>2. OthersKeep(t) /\ hashtables' = hashtables /\ lock' = lock
    BY <1>0, <1>c DEF TypeOK, OthersKeep
  <1>3. pc[t] \notin RehashPC /\ pc'[t] \notin RehashPC
    BY <1>0, <1>c DEF TypeOK, RehashPC
  <1>4. TableOK(t)'
    BY <1>0, <1>2, <1>c DEF TypeOK, TableOK, hashtable, Size, ParkPC, SizingPC, RehashPC, WakePC, BucketPC, ParkedPC
  <1> QED
    BY <1>1, <1>2, <1>3, <1>4, TablesQuiet

\* The timeout is reached.
LEMMA TablesTimeOut ==
  ASSUME IInv, NEW t \in Thread, TimeOut(t)
  PROVE  TypeOK' /\ TablesOK' /\ LocksOK'
  <1>0. TypeOK /\ TablesOK /\ LocksOK /\ PlacesOK /\ TableOK(t)
    BY DEF IInv, TablesOK
  <1> USE DEF TimeOut, Goto, locals, tableVars, threadVars
  <1>1. TypeOK'
    BY <1>0 DEF TypeOK, AllPC, ParkPC, SizingPC, RehashPC, WakePC, BucketPC, ParkedPC
  <1>2. OthersKeep(t) /\ hashtables' = hashtables /\ lock' = lock
    BY <1>0 DEF TypeOK, OthersKeep
  <1>3. pc[t] \notin RehashPC /\ pc'[t] \notin RehashPC
    BY <1>0 DEF TypeOK, RehashPC
  <1>4. TableOK(t)'
    BY <1>0, <1>2 DEF TypeOK, TableOK, hashtable, Size, ParkPC, SizingPC, RehashPC, WakePC, BucketPC, ParkedPC
  <1> QED
    BY <1>1, <1>2, <1>3, <1>4, TablesQuiet

\* A wait returns without a signal.
LEMMA TablesStopWaiting ==
  ASSUME IInv, NEW t \in Thread, StopWaiting(t)
  PROVE  TypeOK' /\ TablesOK' /\ LocksOK'
  <1>0. TypeOK /\ TablesOK /\ LocksOK /\ PlacesOK /\ TableOK(t)
    BY DEF IInv, TablesOK
  <1> USE DEF StopWaiting, Awoken, Goto, locals, tableVars, threadVars
  <1>1. TypeOK'
    BY <1>0 DEF TypeOK, AllPC, ParkPC, SizingPC, RehashPC, WakePC, BucketPC, ParkedPC
  <1>2. OthersKeep(t) /\ hashtables' = hashtables /\ lock' = lock
    BY <1>0 DEF TypeOK, OthersKeep
  <1>3. pc[t] \notin RehashPC /\ pc'[t] \notin RehashPC
    BY <1>0 DEF TypeOK, RehashPC
  <1>4. TableOK(t)'
    BY <1>0, <1>2 DEF TypeOK, TableOK, hashtable, Size, ParkPC, SizingPC, RehashPC, WakePC, BucketPC, ParkedPC
  <1> QED
    BY <1>1, <1>2, <1>3, <1>4, TablesQuiet

\* A thread takes itself off its queue.
LEMMA TablesRemoveSelf ==
  ASSUME IInv, NEW t \in Thread, RemoveSelf(t)
  PROVE  TypeOK' /\ TablesOK' /\ LocksOK'
  <1>0. TypeOK /\ TablesOK /\ LocksOK /\ PlacesOK /\ TableOK(t)
    BY DEF IInv, TablesOK
  <1> USE DEF RemoveSelf, Goto, locals, tableVars, threadVars
  <1>c. /\ myBucket[t] \in Bucket /\ Only(queue[myBucket[t]], Thread \ {t}) \in Seq(Thread)
        /\ Contains(queue[myBucket[t]], t) \in BOOLEAN
    <2>1. myBucket[t] \in Bucket
      BY <1>0 DEF TableOK, TypeOK, ParkPC, BucketPC
    <2>2. queue[myBucket[t]] \in Seq(Thread)
      BY <1>0, <2>1 DEF TypeOK
    <2> QED
      BY <2>1, <2>2, OnlyType DEF Contains
  <1>1. TypeOK'
    BY <1>0, <1>c DEF TypeOK, AllPC, ParkPC, SizingPC, RehashPC, WakePC, BucketPC, ParkedPC
  <1>2. OthersKeep(t) /\ hashtables' = hashtables /\ lock' = lock
    BY <1>0, <1>c DEF TypeOK, OthersKeep
  <1>3. pc[t] \notin RehashPC /\ pc'[t] \notin RehashPC
    BY <1>0, <1>c DEF TypeOK, RehashPC
  <1>4. TableOK(t)'
    BY <1>0, <1>2, <1>c DEF TypeOK, TableOK, hashtable, Size, ParkPC, SizingPC, RehashPC, WakePC, BucketPC, ParkedPC
  <1> QED
    BY <1>1, <1>2, <1>3, <1>4, TablesQuiet

\* The end of a park that timed out.
LEMMA TablesFinish ==
  ASSUME IInv, NEW t \in Thread, Finish(t)
  PROVE  TypeOK' /\ TablesOK' /\ LocksOK'
  <1>0. TypeOK /\ TablesOK /\ LocksOK /\ PlacesOK /\ TableOK(t)
    BY DEF IInv, TablesOK
  <1> USE DEF Finish, Return, Goto, locals, tableVars, threadVars
  <1>c. LocalsOK'
    <2>1. CASE Return(t)
      BY <1>0, <2>1, ReturnTypes
    <2>2. CASE Goto(t, "asleepFinish") /\ UNCHANGED <<threadVars, locals>>
      BY <1>0, <2>2 DEF TypeOK, LocalsOK, AllPC, ParkPC, SizingPC, RehashPC, WakePC, BucketPC, ParkedPC
    <2> QED
      BY <2>1, <2>2 DEF Finish
  <1>1. TypeOK'
    BY <1>0, <1>c DEF TypeOK, AllPC, ParkPC, SizingPC, RehashPC, WakePC, BucketPC, ParkedPC, LocalsOK
  <1>2. OthersKeep(t) /\ hashtables' = hashtables /\ lock' = lock
    BY <1>0, <1>c DEF TypeOK, OthersKeep
  <1>3. pc[t] \notin RehashPC /\ pc'[t] \notin RehashPC
    BY <1>0, <1>c DEF TypeOK, RehashPC
  <1>4. TableOK(t)'
    BY <1>0, <1>2, <1>c DEF TypeOK, TableOK, hashtable, Size, ParkPC, SizingPC, RehashPC, WakePC, BucketPC, ParkedPC
  <1> QED
    BY <1>1, <1>2, <1>3, <1>4, TablesQuiet

\* A call of an unpark.
LEMMA TablesUnpark ==
  ASSUME IInv, NEW t \in Thread, NEW a \in Address, NEW c \in Calls[a], Unpark(t, a, c)
  PROVE  TypeOK' /\ TablesOK' /\ LocksOK'
  <1>0. TypeOK /\ TablesOK /\ LocksOK /\ PlacesOK /\ TableOK(t)
    BY DEF IInv, TablesOK
  <1> USE DEF Unpark, Goto, locals, tableVars, threadVars
  <1>c. c \in AllCalls
    BY CallsAssumption
  <1>1. TypeOK'
    BY <1>0, <1>c DEF TypeOK, AllPC, ParkPC, SizingPC, RehashPC, WakePC, BucketPC, ParkedPC
  <1>2. OthersKeep(t) /\ hashtables' = hashtables /\ lock' = lock
    BY <1>0, <1>c DEF TypeOK, OthersKeep
  <1>3. pc[t] \notin RehashPC /\ pc'[t] \notin RehashPC
    BY <1>0, <1>c DEF TypeOK, RehashPC
  <1>4. TableOK(t)'
    BY <1>0, <1>2, <1>c DEF TypeOK, TableOK, hashtable, Size, ParkPC, SizingPC, RehashPC, WakePC, BucketPC, ParkedPC
  <1> QED
    BY <1>1, <1>2, <1>3, <1>4, TablesQuiet


\* A bucket is found or made for the address of a call.
LEMMA TablesLocate ==
  ASSUME IInv, NEW t \in Thread, NEW next \in BucketPC, Locate(t, next), arg[t] \in Address,
         pc[t] \notin RehashPC, next = "dequeue" => call[t] \in AllCalls
  PROVE  /\ TypeOK' /\ TablesOK' /\ LocksOK'
         /\ HomesKept
  <1>0. TypeOK /\ TablesOK /\ LocksOK /\ PlacesOK /\ TableOK(t)
    BY DEF IInv, TablesOK
  <1> DEFINE slot == Slot(Ensured, arg[t])
  <1>1. PICK tables \in Filled(Ensured, {slot}) :
           /\ hashtables' = tables
           /\ myTable' = [myTable EXCEPT ![t] = Len(tables)]
           /\ myBucket' = [myBucket EXCEPT ![t] = Spine(tables)[Slot(tables, arg[t])]]
           /\ Goto(t, next)
           /\ UNCHANGED <<lock, numThreads, alive, queue, threadVars, arg, currentNumThreads,
                          buckets, call, targets, didDequeue>>
    BY DEF Locate
  <1>2. {slot} \in SUBSET DOMAIN Spine(Ensured) /\ Len(Ensured) \in Nat \ {0}
    BY <1>0, EnsuredFacts
  <1>3. hashtables' \in Filled(Ensured, {slot})
    BY <1>1
  <1>4. /\ hashtables' \in Seq(Spines) /\ hashtables' # <<>>
        /\ Len(hashtables') = Len(Ensured)
        /\ DOMAIN Spine(hashtables') = DOMAIN Spine(Ensured)
        /\ \A i \in {slot} : Spine(hashtables')[i] # Nil
        /\ HomesKept
    BY <1>0, <1>2, <1>3, Filling
  <1>5. Slot(tables, arg[t]) = slot
    BY <1>1, <1>4 DEF Slot
  <1>6. Spine(tables) \in Spines
    BY <1>1, <1>2, <1>4 DEF Spine
  <1>7. Spine(tables)[slot] \in Bucket
    <2>1. slot \in DOMAIN Spine(tables)
      BY <1>1, <1>2, <1>4
    <2>2. Spine(tables)[slot] # Nil
      BY <1>1, <1>4
    <2> QED
      BY <1>6, <2>1, <2>2, SpineFacts
  <1>8. myTable'[t] = Len(hashtables') /\ myBucket'[t] = Spine(tables)[slot]
        /\ pc'[t] = next /\ arg'[t] = arg[t] /\ call'[t] = call[t]
    BY <1>0, <1>1, <1>5 DEF TypeOK, Goto
  <1> HIDE DEF slot
  <1>9. TypeOK'
    BY <1>0, <1>1, <1>2, <1>4, <1>5, <1>7 DEF TypeOK, Goto, threadVars, AllPC, BucketPC, ParkPC
  <1>10. OthersKeep(t) /\ lock' = lock
    BY <1>0, <1>1 DEF TypeOK, OthersKeep, Goto
  <1>11. TableOK(t)'
    <2>1. Len(hashtables') \in 1 .. Len(hashtables')
      BY <1>2, <1>4
    <2>2. myBucket'[t] = hashtables'[myTable'[t]][Index(arg'[t], Cardinality(DOMAIN hashtables'[myTable'[t]]))]
      BY <1>1, <1>5, <1>8 DEF Spine, Slot
    <2>3. myBucket'[t] # Nil
      BY <1>7, <1>8, NilAssumption
    <2> QED
      BY <1>8, <2>1, <2>2, <2>3 DEF TableOK, hashtable, Size, BucketPC, ParkPC, SizingPC, RehashPC, WakePC
  <1>12. pc'[t] \notin RehashPC
    BY <1>8 DEF BucketPC, RehashPC
  <1> QED
    BY <1>2, <1>3, <1>4, <1>9, <1>10, <1>11, <1>12, TablesFilled

\* The tables where parkConditionallyImpl() looks for its bucket.
LEMMA TablesLocateBucket ==
  ASSUME IInv, NEW t \in Thread, LocateBucket(t)
  PROVE  TypeOK' /\ TablesOK' /\ LocksOK' /\ HomesKept
  <1>0. TableOK(t) /\ pc[t] = "locate" /\ Locate(t, "enqueue")
    BY DEF IInv, TablesOK, LocateBucket
  <1>1. arg[t] \in Address /\ pc[t] \notin RehashPC /\ "enqueue" \in BucketPC
    BY <1>0 DEF TableOK, ParkPC, RehashPC, BucketPC
  <1> QED
    BY <1>0, <1>1, TablesLocate

\* Homes are kept where the spines are.
LEMMA HomesSame ==
  ASSUME hashtables' = hashtables
  PROVE  HomesKept
  BY DEF HomesKept, HomeOf, Slot, Spine

\* The tables where a thread looks for its own bucket.
LEMMA TablesLocateSelf ==
  ASSUME IInv, NEW t \in Thread, LocateSelf(t)
  PROVE  TypeOK' /\ TablesOK' /\ LocksOK' /\ HomesKept
  <1>0. TypeOK /\ TablesOK /\ LocksOK /\ PlacesOK /\ TableOK(t) /\ pc[t] = "timedOut"
    BY DEF IInv, TablesOK, LocateSelf
  <1>1. arg[t] \in Address /\ pc[t] \notin RehashPC /\ "removeSelf" \in BucketPC
    BY <1>0 DEF TableOK, ParkPC, RehashPC, BucketPC
  <1>2. CASE Locate(t, "removeSelf")
    BY <1>0, <1>1, <1>2, TablesLocate
  <1>3. CASE Goto(t, "finish") /\ UNCHANGED <<tableVars, queue, threadVars, locals>>
    <2> USE <1>3 DEF Goto, locals, tableVars, threadVars
    <2>1. TypeOK'
      BY <1>0 DEF TypeOK, AllPC, ParkPC
    <2>2. OthersKeep(t) /\ hashtables' = hashtables /\ lock' = lock
      BY <1>0 DEF TypeOK, OthersKeep
    <2>3. pc'[t] \notin RehashPC
      BY <1>0 DEF TypeOK, RehashPC
    <2>4. TableOK(t)'
      BY <1>0 DEF TypeOK, TableOK, hashtable, Size, ParkPC, SizingPC, RehashPC, WakePC, BucketPC
    <2> QED
      BY <1>1, <2>1, <2>2, <2>3, <2>4, TablesQuiet, HomesSame
  <1> QED
    BY <1>2, <1>3 DEF LocateSelf

\* The tables where an unpark looks for its bucket.
LEMMA TablesLocateTargets ==
  ASSUME IInv, NEW t \in Thread, LocateTargets(t)
  PROVE  TypeOK' /\ TablesOK' /\ LocksOK' /\ HomesKept
  <1>0. TypeOK /\ TablesOK /\ LocksOK /\ PlacesOK /\ TableOK(t) /\ pc[t] = "unpark"
    BY DEF IInv, TablesOK, LocateTargets
  <1>1. arg[t] \in Address /\ pc[t] \notin RehashPC /\ "dequeue" \in BucketPC /\ call[t] \in AllCalls
    BY <1>0 DEF TableOK, ParkPC, RehashPC, BucketPC
  <1>2. CASE Locate(t, "dequeue")
    BY <1>0, <1>1, <1>2, TablesLocate
  <1>3. CASE hashtables' = Ensured /\ Return(t) /\ UNCHANGED <<lock, numThreads, alive, queue, threadVars>>
    <2>0. {} \in SUBSET DOMAIN Spine(Ensured) /\ hashtables' \in Filled(Ensured, {})
      BY <1>0, <1>3, EnsuredFilled
    <2>1. hashtables' \in Seq(Spines) /\ HomesKept
      BY <1>0, <2>0, Filling
    <2>2. LocalsOK'
      BY <1>0, <1>3, ReturnTypes
    <2> USE <1>3 DEF Goto, Return, threadVars
    <2>3. TypeOK'
      BY <1>0, <2>1, <2>2 DEF TypeOK, LocalsOK
    <2>4. OthersKeep(t) /\ lock' = lock
      BY <1>0 DEF TypeOK, OthersKeep
    <2>5. pc'[t] \notin RehashPC
      BY <1>0 DEF TypeOK, RehashPC
    <2>6. TableOK(t)'
      BY <1>0 DEF TypeOK, TableOK, ParkPC, SizingPC, RehashPC, WakePC, BucketPC
    <2> QED
      BY <1>1, <2>0, <2>1, <2>3, <2>4, <2>5, <2>6, TablesFilled
  <1> QED
    BY <1>2, <1>3 DEF LocateTargets

\* lockHashtable() fills the current spine and collects its buckets.
LEMMA TablesCollect ==
  ASSUME IInv, NEW t \in Thread, CollectBuckets(t)
  PROVE  TypeOK' /\ TablesOK' /\ LocksOK' /\ HomesKept
  <1>0. TypeOK /\ TablesOK /\ LocksOK /\ PlacesOK /\ TableOK(t) /\ pc[t] = "lockHashtable"
    BY DEF IInv, TablesOK, CollectBuckets
  <1> DEFINE all == DOMAIN Spine(Ensured)
  <1>1. PICK full \in Filled(Ensured, all) :
           /\ hashtables' = full
           /\ myTable' = [myTable EXCEPT ![t] = Len(full)]
           /\ buckets' = [buckets EXCEPT ![t] = InSpine(Spine(full))]
    BY DEF CollectBuckets
  <1>2. all \in SUBSET DOMAIN Spine(Ensured) /\ hashtables' \in Filled(Ensured, all)
    BY <1>1
  <1>3. /\ hashtables' \in Seq(Spines) /\ hashtables' # <<>>
        /\ Grown(hashtables, hashtables')
        /\ DOMAIN Spine(hashtables') = all
        /\ \A i \in all : Spine(hashtables')[i] # Nil
        /\ hashtables # <<>> => Len(hashtables') = Len(hashtables)
        /\ HomesKept
    BY <1>0, <1>2, Filling
  <1>4. Len(full) \in Nat \ {0} /\ Spine(full) \in Spines /\ Full(Spine(full)) /\ full = hashtables'
    BY <1>1, <1>3 DEF Spine, Full
  <1>5. /\ InSpine(Spine(full)) \in SUBSET Bucket
        /\ InSpine(Spine(full)) # {}
    BY <1>4, InSpineFacts
  <1> HIDE DEF all
  <1>6. TypeOK'
    BY <1>0, <1>1, <1>3, <1>4, <1>5 DEF TypeOK, CollectBuckets, Goto, threadVars, AllPC, RehashPC
  <1>7. OthersKeep(t) /\ lock' = lock
    BY <1>0, <1>1 DEF TypeOK, OthersKeep, Goto, CollectBuckets
  <1>8. /\ pc'[t] = "lockBuckets" /\ myTable'[t] = Len(hashtables') /\ currentNumThreads'[t] = currentNumThreads[t]
        /\ buckets'[t] = InSpine(hashtables'[Len(hashtables')])
    BY <1>0, <1>1 DEF TypeOK, CollectBuckets, Goto, Spine
  <1>9. TableOK(t)'
    <2>1. currentNumThreads[t] # 0
      BY <1>0 DEF TableOK, SizingPC
    <2>2. Len(hashtables') \in 1 .. Len(hashtables')
      BY <1>4
    <2>3. Full(hashtables'[Len(hashtables')])
      BY <1>4 DEF Spine
    <2> QED
      BY <1>8, <2>1, <2>2, <2>3 DEF TableOK, hashtable, BucketPC, ParkPC, SizingPC, RehashPC, WakePC
  <1>10. pc[t] \notin RehashPC
    BY <1>0 DEF RehashPC
  <1>11. TablesOK'
    BY <1>2, <1>6, <1>7, <1>9, <1>10, TablesFilled
  <1>12. \A b \in Bucket : lock[b] # t
    BY <1>0, <1>10, NilAssumption DEF LocksOK
  <1>13. LocksOK'
    <2>1. ASSUME NEW b \in Bucket, lock'[b] # Nil
          PROVE  pc'[lock'[b]] \in RehashPC /\ b \in buckets'[lock'[b]]
      <3>1. PICK u \in Thread : u = lock[b] /\ lock'[b] = u /\ u # t
        BY <1>0, <1>7, <1>12, <2>1 DEF TypeOK
      <3>2. pc[u] \in RehashPC /\ b \in buckets[u]
        BY <1>0, <1>7, <2>1, <3>1 DEF LocksOK
      <3>3. pc'[u] = pc[u] /\ buckets'[u] = buckets[u]
        BY <1>7, <3>1, <3>2 DEF OthersKeep, RehashPC
      <3> QED
        BY <3>1, <3>2, <3>3
    <2>2. ASSUME NEW u \in Thread PROVE LockOK(u)'
      <3>1. CASE u = t
        BY <1>5, <1>7, <1>8, <1>12, <3>1, <1>4 DEF LockOK, RehashPC, Spine
      <3>2. CASE u # t /\ pc'[u] \notin RehashPC
        BY <3>2 DEF LockOK, RehashPC
      <3>3. CASE u # t /\ pc'[u] \in RehashPC
        <4>1. pc[u] = pc'[u] /\ buckets'[u] = buckets[u] /\ myTable'[u] = myTable[u]
              /\ currentNumThreads'[u] = currentNumThreads[u]
          BY <1>7, <3>3 DEF OthersKeep, RehashPC
        <4>2. LockOK(u)
          BY <1>0 DEF LocksOK
        <4>3. myTable[u] \in 1 .. hashtable
          BY <1>0, <3>3, <4>1 DEF TablesOK, TableOK
        <4>4. hashtables # <<>> /\ Len(hashtables) \in Nat /\ hashtable \in 1 .. Len(hashtables)
          BY <1>0, <4>3 DEF TypeOK, hashtable
        <4>5. hashtable' = hashtable /\ DOMAIN hashtables'[hashtable] = DOMAIN hashtables[hashtable]
          BY <1>3, <4>4 DEF hashtable, Grown
        <4>6. LargeEnough(hashtable, currentNumThreads[u])' = LargeEnough(hashtable, currentNumThreads[u])
          BY <4>1, <4>5 DEF LargeEnough, Size
        <4> QED
          BY <1>7, <4>1, <4>2, <4>5, <4>6 DEF LockOK
      <3> QED
        BY <3>1, <3>2, <3>3
    <2>3. \E n \in Nat : \A b \in Bucket : lock'[b] # Nil => b < n
      BY <1>0, <1>7 DEF LocksOK
    <2> QED
      BY <2>1, <2>2, <2>3 DEF LocksOK
  <1> QED
    BY <1>3, <1>6, <1>11, <1>13

\* A step of lockHashtable() ... unlockHashtable() that leaves the tables alone.
LEMMA TablesRehasher ==
  ASSUME IInv, TypeOK', NEW t \in Thread, OthersKeep(t), TableOK(t)', hashtables' = hashtables
  PROVE  TablesOK'
  <1>0. TypeOK /\ TablesOK
    BY DEF IInv
  <1>1. Grown(hashtables, hashtables')
    BY <1>0, GrownSame
  <1>2. \A u \in Thread : TableOK(u)'
    BY <1>0, <1>1, TableOKKept
  <1> QED
    BY <1>0, <1>2 DEF TablesOK, OneToOne, Spine

\* Another thread's locks, while t takes or gives back its own.
LEMMA OtherLocks ==
  ASSUME IInv, NEW t \in Thread, OthersKeep(t), hashtables' = hashtables,
         \A b \in Bucket : lock'[b] = lock[b] \/ (lock[b] \in {Nil, t} /\ lock'[b] \in {Nil, t}),
         NEW u \in Thread \ {t}
  PROVE  LockOK(u)'
  <1>0. LockOK(u) /\ TypeOK /\ TableOK(u)
    BY DEF IInv, LocksOK, TablesOK
  <1>1. CASE pc'[u] \notin RehashPC
    BY <1>1 DEF LockOK, RehashPC
  <1>2. CASE pc'[u] \in RehashPC
    <2>1. pc[u] = pc'[u] /\ buckets'[u] = buckets[u] /\ myTable'[u] = myTable[u]
          /\ currentNumThreads'[u] = currentNumThreads[u]
      BY <1>2 DEF OthersKeep, RehashPC
    <2>2. \A b \in Bucket : lock'[b] = u <=> lock[b] = u
      BY NilAssumption
    <2>3. buckets[u] \in SUBSET Bucket
      BY <1>0 DEF TypeOK
    <2>4. hashtable' = hashtable
          /\ LargeEnough(hashtable, currentNumThreads[u])' = LargeEnough(hashtable, currentNumThreads[u])
      BY <2>1 DEF LargeEnough, Size, hashtable
    <2> QED
      BY <1>0, <2>1, <2>2, <2>3, <2>4 DEF LockOK
  <1> QED
    BY <1>1, <1>2

\* The next bucket is locked.
LEMMA TablesLockNext ==
  ASSUME IInv, NEW t \in Thread, LockNextBucket(t)
  PROVE  TypeOK' /\ TablesOK' /\ LocksOK'
  <1>0. TypeOK /\ TablesOK /\ LocksOK /\ PlacesOK /\ TableOK(t) /\ LockOK(t) /\ pc[t] = "lockBuckets"
    BY DEF IInv, TablesOK, LocksOK, LockNextBucket
  <1> DEFINE S == buckets[t] \ Locked(t)
             b == Min(S)
  <1>1. S \in SUBSET Nat /\ S # {} /\ S \subseteq Bucket
    <2>1. buckets[t] \in SUBSET Bucket
      BY <1>0 DEF TypeOK
    <2>2. \E c \in buckets[t] : lock[c] # t
      BY <1>0 DEF LockOK
    <2> QED
      BY <2>1, <2>2, BucketAssumption DEF Locked
  <1>2. b \in S /\ \A c \in S : b <= c
    BY <1>1, MinFacts
  <1>3. /\ lock[b] = Nil /\ lock' = [lock EXCEPT ![b] = t]
        /\ Goto(t, IF buckets[t] = Locked(t)' THEN "checkHashtable" ELSE "lockBuckets")
        /\ UNCHANGED <<hashtables, numThreads, alive, queue, threadVars, locals>>
    BY DEF LockNextBucket
  <1> HIDE DEF b
  <1>4. TypeOK'
    BY <1>0, <1>1, <1>2, <1>3 DEF TypeOK, Goto, threadVars, locals, AllPC, RehashPC
  <1>5. OthersKeep(t) /\ hashtables' = hashtables
    BY <1>0, <1>3 DEF TypeOK, OthersKeep, Goto, locals
  <1>6. /\ pc'[t] = (IF buckets[t] = Locked(t)' THEN "checkHashtable" ELSE "lockBuckets")
        /\ myTable'[t] = myTable[t] /\ buckets'[t] = buckets[t] /\ currentNumThreads'[t] = currentNumThreads[t]
    BY <1>0, <1>3 DEF TypeOK, Goto, locals
  <1>7. TableOK(t)'
    BY <1>0, <1>5, <1>6 DEF TableOK, hashtable, Size, BucketPC, ParkPC, SizingPC, RehashPC, WakePC
  <1>8. TablesOK'
    BY <1>4, <1>5, <1>7, TablesRehasher
  <1>9. b \in Bucket /\ lock'[b] = t /\ \A c \in Bucket : c # b => lock'[c] = lock[c]
    BY <1>0, <1>1, <1>2, <1>3 DEF TypeOK
  <1>10. pc'[t] \in RehashPC
    BY <1>6 DEF RehashPC
  <1>11. ASSUME NEW c \in Bucket, lock'[c] # Nil
         PROVE  pc'[lock'[c]] \in RehashPC /\ c \in buckets'[lock'[c]]
    <2>1. CASE c = b
      BY <1>2, <1>6, <1>9, <1>10, <2>1
    <2>2. CASE lock'[c] = t /\ c # b
      BY <1>0, <1>6, <1>9, <1>10, <1>11, <2>2 DEF LocksOK
    <2>3. CASE lock'[c] # t /\ c # b
      <3>1. PICK u \in Thread : u = lock[c] /\ lock'[c] = u /\ u # t
        BY <1>0, <1>9, <1>11, <2>3 DEF TypeOK
      <3>2. pc[u] \in RehashPC /\ c \in buckets[u]
        BY <1>0, <1>9, <1>11, <2>3, <3>1 DEF LocksOK
      <3>3. pc'[u] = pc[u] /\ buckets'[u] = buckets[u]
        BY <1>5, <3>1, <3>2 DEF OthersKeep, RehashPC
      <3> QED
        BY <3>1, <3>2, <3>3
    <2> QED
      BY <2>1, <2>2, <2>3
  <1>12. LockOK(t)'
    <2>0. buckets[t] \in SUBSET Bucket /\ \A x \in Bucket : x \in Nat
      BY <1>0, BucketAssumption DEF TypeOK
    <2>1. \A c \in Bucket : c \in Locked(t)' <=> lock'[c] = t
      BY DEF Locked
    <2>2. Locked(t)' \subseteq buckets[t]
      BY <1>6, <1>11, NilAssumption DEF Locked
    <2>3. CASE buckets[t] = Locked(t)'
      BY <1>6, <2>0, <2>1, <2>3 DEF LockOK, RehashPC
    <2>4. CASE buckets[t] # Locked(t)'
      <3>1. \E c \in buckets[t] : lock'[c] # t
        BY <2>0, <2>1, <2>2, <2>4
      <3>2. ASSUME NEW c \in buckets[t], NEW d \in buckets[t], lock'[c] = t, lock'[d] # t PROVE c < d
        <4>1. d # b /\ lock[d] # t /\ c \in Bucket /\ d \in Bucket /\ d \in S
          BY <1>9, <2>0, <3>2 DEF Locked
        <4>2. CASE c = b
          BY <1>2, <2>0, <4>1, <4>2
        <4>3. CASE c # b
          BY <1>0, <1>9, <3>2, <4>1, <4>3 DEF LockOK
        <4> QED
          BY <4>2, <4>3
      <3> QED
        BY <1>6, <2>4, <3>1, <3>2 DEF LockOK, RehashPC
    <2> QED
      BY <2>3, <2>4
  <1>13. \A u \in Thread : LockOK(u)'
    BY <1>3, <1>5, <1>9, <1>12, OtherLocks
  <1>14. \E n \in Nat : \A c \in Bucket : lock'[c] # Nil => c < n
    <2>1. PICK n \in Nat : \A c \in Bucket : lock[c] # Nil => c < n
      BY <1>0 DEF LocksOK
    <2>2. b \in Nat
      BY <1>1, <1>2
    <2>3. PICK m \in Nat : n <= m /\ b < m
      <3>1. n + b + 1 \in Nat /\ n <= n + b + 1 /\ b < n + b + 1
        BY <2>2
      <3> QED
        BY <3>1
    <2>4. ASSUME NEW c \in Bucket, lock'[c] # Nil PROVE c < m
      <3>1. c \in Nat
        BY BucketAssumption
      <3>2. c = b \/ c < n
        BY <1>9, <2>1, <2>4
      <3> QED
        BY <2>2, <2>3, <3>1, <3>2
    <2> QED
      BY <2>4
  <1> QED
    BY <1>4, <1>8, <1>11, <1>13, <1>14 DEF LocksOK

\* The thread that has locked everything looks at what it locked.
LEMMA TablesCheck ==
  ASSUME IInv, NEW t \in Thread, CheckHashtable(t)
  PROVE  TypeOK' /\ TablesOK' /\ LocksOK'
  <1>0. TypeOK /\ TablesOK /\ LocksOK /\ PlacesOK /\ TableOK(t) /\ LockOK(t) /\ pc[t] = "checkHashtable"
    BY DEF IInv, TablesOK, LocksOK, CheckHashtable
  <1> USE DEF CheckHashtable, Goto, locals, tableVars, threadVars
  <1>1. TypeOK'
    BY <1>0 DEF TypeOK, AllPC, RehashPC
  <1>2. OthersKeep(t) /\ hashtables' = hashtables /\ lock' = lock
    BY <1>0 DEF TypeOK, OthersKeep
  <1>3. /\ pc'[t] \in {"unlockAndRetry", "unlockHashtable", "rehash"}
        /\ pc'[t] = "rehash" => myTable[t] = hashtable /\ ~LargeEnough(hashtable, currentNumThreads[t])
        /\ myTable'[t] = myTable[t] /\ buckets'[t] = buckets[t] /\ currentNumThreads'[t] = currentNumThreads[t]
        /\ hashtable' = hashtable
    <2>1. pc'[t] = (IF myTable[t] # hashtable THEN "unlockAndRetry"
                    ELSE IF LargeEnough(hashtable, currentNumThreads[t]) THEN "unlockHashtable"
                    ELSE "rehash")
      BY <1>0 DEF TypeOK
    <2> QED
      BY <2>1 DEF hashtable
  <1>4. TableOK(t)'
    BY <1>0, <1>2, <1>3 DEF TableOK, hashtable, Size, BucketPC, ParkPC, SizingPC, RehashPC, WakePC
  <1>5. TablesOK'
    BY <1>1, <1>2, <1>4, TablesRehasher
  <1>6. LockOK(t)'
    <2>1. LargeEnough(hashtable, currentNumThreads[t])' = LargeEnough(hashtable, currentNumThreads[t])
      BY <1>2, <1>3 DEF LargeEnough, Size, hashtable
    <2>2. \A b \in buckets[t] : lock[b] = t
      BY <1>0 DEF LockOK, RehashPC
    <2> QED
      BY <1>2, <1>3, <2>1, <2>2 DEF LockOK, RehashPC
  <1>7. \A u \in Thread : LockOK(u)'
    BY <1>2, <1>6, OtherLocks
  <1>8. ASSUME NEW b \in Bucket, lock'[b] # Nil
        PROVE  pc'[lock'[b]] \in RehashPC /\ b \in buckets'[lock'[b]]
    <2>1. PICK u \in Thread : u = lock[b] /\ lock'[b] = u
      BY <1>0, <1>2, <1>8 DEF TypeOK
    <2>2. pc[u] \in RehashPC /\ b \in buckets[u]
      BY <1>0, <1>2, <1>8, <2>1 DEF LocksOK
    <2>3. pc'[u] \in RehashPC /\ buckets'[u] = buckets[u]
      BY <1>2, <1>3, <2>2 DEF OthersKeep, RehashPC
    <2> QED
      BY <2>1, <2>2, <2>3
  <1>9. \E n \in Nat : \A b \in Bucket : lock'[b] # Nil => b < n
    BY <1>0, <1>2 DEF LocksOK
  <1> QED
    BY <1>1, <1>5, <1>7, <1>8, <1>9 DEF LocksOK

\* The locks once t has given back all of its own.
LEMMA LocksGivenBack ==
  ASSUME IInv, NEW t \in Thread, OthersKeep(t), hashtables' = hashtables, UnlockBuckets(t),
         pc'[t] \notin RehashPC
  PROVE  LocksOK'
  <1>0. TypeOK /\ LocksOK
    BY DEF IInv
  <1>1. \A b \in Bucket : lock'[b] = IF lock[b] = t THEN Nil ELSE lock[b]
    BY DEF UnlockBuckets
  <1>2. ASSUME NEW b \in Bucket, lock'[b] # Nil
        PROVE  pc'[lock'[b]] \in RehashPC /\ b \in buckets'[lock'[b]]
    <2>1. PICK u \in Thread : u = lock[b] /\ lock'[b] = u /\ u # t
      BY <1>0, <1>1, <1>2 DEF TypeOK
    <2>2. pc[u] \in RehashPC /\ b \in buckets[u]
      BY <1>0, <1>1, <1>2, <2>1 DEF LocksOK
    <2>3. pc'[u] = pc[u] /\ buckets'[u] = buckets[u]
      BY <2>1, <2>2 DEF OthersKeep, RehashPC
    <2> QED
      BY <2>1, <2>2, <2>3
  <1>3. \A u \in Thread : LockOK(u)'
    <2>1. LockOK(t)'
      BY DEF LockOK, RehashPC
    <2>2. \A b \in Bucket : lock'[b] = lock[b] \/ (lock[b] \in {Nil, t} /\ lock'[b] \in {Nil, t})
      BY <1>1
    <2> QED
      BY <2>1, <2>2, OtherLocks
  <1>4. \E n \in Nat : \A b \in Bucket : lock'[b] # Nil => b < n
    BY <1>0, <1>1 DEF LocksOK
  <1> QED
    BY <1>2, <1>3, <1>4 DEF LocksOK

\* The type of the locks once t has given back its own.
LEMMA UnlockType ==
  ASSUME TypeOK, NEW t \in Thread, UnlockBuckets(t)
  PROVE  lock' \in [Bucket -> Thread \cup {Nil}]
  BY DEF TypeOK, UnlockBuckets

\* Somebody else rehashed: unlock and start over.
LEMMA TablesUnlockRetry ==
  ASSUME IInv, NEW t \in Thread, UnlockAndRetry(t)
  PROVE  TypeOK' /\ TablesOK' /\ LocksOK'
  <1>0. TypeOK /\ TablesOK /\ LocksOK /\ PlacesOK /\ TableOK(t) /\ pc[t] = "unlockAndRetry"
    BY DEF IInv, TablesOK, UnlockAndRetry
  <1>1. lock' \in [Bucket -> Thread \cup {Nil}] /\ UnlockBuckets(t)
    BY <1>0, UnlockType DEF UnlockAndRetry
  <1> USE DEF UnlockAndRetry, Goto, locals, tableVars, threadVars
  <1>2. TypeOK'
    BY <1>0, <1>1 DEF TypeOK, AllPC, SizingPC
  <1>3. OthersKeep(t) /\ hashtables' = hashtables /\ pc'[t] = "lockHashtable"
    BY <1>0 DEF TypeOK, OthersKeep
  <1>4. TableOK(t)'
    BY <1>0, <1>3 DEF TableOK, BucketPC, ParkPC, SizingPC, RehashPC, WakePC
  <1>5. pc'[t] \notin RehashPC
    BY <1>3 DEF RehashPC
  <1> QED
    BY <1>1, <1>2, <1>3, <1>4, <1>5, TablesRehasher, LocksGivenBack

\* The end of ensureHashtableSize().
LEMMA TablesUnlock ==
  ASSUME IInv, NEW t \in Thread, UnlockHashtable(t)
  PROVE  TypeOK' /\ TablesOK' /\ LocksOK'
  <1>0. TypeOK /\ TablesOK /\ LocksOK /\ PlacesOK /\ TableOK(t) /\ pc[t] = "unlockHashtable"
    BY DEF IInv, TablesOK, UnlockHashtable
  <1>1. lock' \in [Bucket -> Thread \cup {Nil}] /\ UnlockBuckets(t)
    BY <1>0, UnlockType DEF UnlockHashtable
  <1>2. LocalsOK'
    BY <1>0, ReturnTypes DEF UnlockHashtable
  <1> USE DEF UnlockHashtable, Return, Goto, locals, tableVars, threadVars
  <1>3. TypeOK'
    BY <1>0, <1>1, <1>2 DEF TypeOK, LocalsOK
  <1>4. OthersKeep(t) /\ hashtables' = hashtables /\ pc'[t] = "idle"
    BY <1>0 DEF TypeOK, OthersKeep
  <1>5. TableOK(t)'
    BY <1>0, <1>4 DEF TableOK, BucketPC, ParkPC, SizingPC, RehashPC, WakePC
  <1>6. pc'[t] \notin RehashPC
    BY <1>4 DEF RehashPC
  <1> QED
    BY <1>1, <1>3, <1>4, <1>5, <1>6, TablesRehasher, LocksGivenBack

\* A rehash: nobody else can be about to install a table.
LEMMA TablesRehash ==
  ASSUME IInv, NEW t \in Thread, Rehash(t)
  PROVE  TypeOK' /\ TablesOK' /\ LocksOK'
  <1>0. TypeOK /\ TablesOK /\ LocksOK /\ PlacesOK /\ TableOK(t) /\ LockOK(t) /\ pc[t] = "rehash"
    BY DEF IInv, TablesOK, LocksOK, Rehash
  <1>1. Goto(t, "unlockHashtable") /\ UNCHANGED <<lock, numThreads, alive, threadVars, locals>>
    BY DEF Rehash
  <1>2. /\ hashtables' \in Seq(Spines) /\ hashtables' # <<>>
        /\ Len(hashtables') = Len(hashtables) + 1
        /\ Grown(hashtables, hashtables')
        /\ OneToOne(Spine(hashtables'))
        /\ queue' \in [Bucket -> Seq(Thread)]
    BY RehashFacts
  <1>3. TypeOK'
    BY <1>0, <1>1, <1>2 DEF TypeOK, Goto, locals, threadVars, AllPC, RehashPC
  <1>4. OthersKeep(t) /\ lock' = lock
    BY <1>0, <1>1 DEF TypeOK, OthersKeep, Goto, locals
  <1>5. /\ pc'[t] = "unlockHashtable" /\ buckets'[t] = buckets[t] /\ myTable'[t] = myTable[t]
        /\ currentNumThreads'[t] = currentNumThreads[t]
    BY <1>0, <1>1 DEF TypeOK, Goto, locals
  <1>6. myTable[t] = hashtable /\ hashtable \in 1 .. Len(hashtables)
        /\ buckets[t] = InSpine(hashtables[hashtable]) /\ Full(hashtables[hashtable])
        /\ currentNumThreads[t] # 0 /\ Len(hashtables) \in Nat
    BY <1>0 DEF LockOK, TableOK, RehashPC, hashtable, TypeOK
  <1>7. DOMAIN hashtables'[hashtable] = DOMAIN hashtables[hashtable]
        /\ \A i \in DOMAIN hashtables[hashtable] : hashtables'[hashtable][i] = hashtables[hashtable][i]
    BY <1>2, <1>6 DEF Grown, Full
  <1>8. InSpine(hashtables'[hashtable]) = buckets[t] /\ Full(hashtables'[hashtable])
        /\ hashtable \in 1 .. Len(hashtables')
    BY <1>2, <1>6, <1>7 DEF Full, InSpine
  <1>9. TableOK(t)'
    BY <1>5, <1>6, <1>8 DEF TableOK, hashtable, BucketPC, ParkPC, SizingPC, RehashPC, WakePC
  <1>10. TablesOK'
    <2>1. \A u \in Thread : TableOK(u)'
      BY <1>0, <1>2, <1>3, <1>4, <1>9, TableOKKept
    <2> QED
      BY <1>2, <2>1 DEF TablesOK, OneToOne, Spine
  <1>11. PICK b \in buckets[t] : lock[b] = t
    <2>1. hashtables[hashtable] \in Spines
      BY <1>0, <1>6 DEF TypeOK
    <2>2. buckets[t] # {}
      BY <1>6, <2>1, InSpineFacts
    <2> QED
      BY <1>0, <2>2 DEF LockOK, RehashPC
  <1>12. ASSUME NEW u \in Thread, u # t PROVE pc[u] # "rehash"
    <2> SUFFICES ASSUME pc[u] = "rehash" PROVE FALSE
      OBVIOUS
    <2>1. LockOK(u) /\ TableOK(u)
      BY <1>0 DEF LocksOK, TablesOK
    <2>2. buckets[u] = buckets[t]
      BY <1>6, <2>1 DEF LockOK, TableOK, RehashPC
    <2>3. lock[b] = u
      BY <2>1, <2>2 DEF LockOK, RehashPC
    <2> QED
      BY <1>11, <1>12, <2>3
  <1>13. ASSUME NEW u \in Thread PROVE LockOK(u)'
    <2>1. CASE u = t
      BY <1>0, <1>4, <1>5, <2>1 DEF LockOK, RehashPC
    <2>2. CASE u # t /\ pc'[u] \notin RehashPC
      BY <2>2 DEF LockOK, RehashPC
    <2>3. CASE u # t /\ pc'[u] \in RehashPC
      <3>1. pc[u] = pc'[u] /\ buckets'[u] = buckets[u]
        BY <1>4, <2>3 DEF OthersKeep, RehashPC
      <3>2. LockOK(u)
        BY <1>0 DEF LocksOK
      <3> QED
        BY <1>4, <1>12, <2>3, <3>1, <3>2 DEF LockOK
    <2> QED
      BY <2>1, <2>2, <2>3
  <1>14. ASSUME NEW c \in Bucket, lock'[c] # Nil
         PROVE  pc'[lock'[c]] \in RehashPC /\ c \in buckets'[lock'[c]]
    <2>1. PICK u \in Thread : u = lock[c] /\ lock'[c] = u
      BY <1>0, <1>4, <1>14 DEF TypeOK
    <2>2. pc[u] \in RehashPC /\ c \in buckets[u]
      BY <1>0, <1>4, <1>14, <2>1 DEF LocksOK
    <2>3. pc'[u] \in RehashPC /\ buckets'[u] = buckets[u]
      BY <1>4, <1>5, <2>2 DEF OthersKeep, RehashPC
    <2> QED
      BY <2>1, <2>2, <2>3
  <1>15. \E n \in Nat : \A c \in Bucket : lock'[c] # Nil => c < n
    BY <1>0, <1>4 DEF LocksOK
  <1> QED
    BY <1>3, <1>10, <1>13, <1>14, <1>15 DEF LocksOK

-----------------------------------------------------------------------------
(* What an unparker takes *)

\* The beginning of a sequence.
LEMMA PrefixFacts ==
  ASSUME NEW T, NEW q \in Seq(T), NEW k \in 0 .. Len(q)
  PROVE  /\ SubSeq(q, 1, k) \in Seq(T)
         /\ Len(SubSeq(q, 1, k)) = k
         /\ \A i \in 1 .. k : SubSeq(q, 1, k)[i] = q[i]
         /\ ToSet(SubSeq(q, 1, k)) \subseteq ToSet(q)
         /\ IsInjective(q) => IsInjective(SubSeq(q, 1, k))
         /\ SubSeq(q, 1, k) = <<>> <=> k = 0
  <1> DEFINE p == SubSeq(q, 1, k)
  <1>0. Len(q) \in Nat /\ k \in Nat /\ k <= Len(q)
    OBVIOUS
  <1>1. p = [i \in 1 .. k |-> q[i]]
    BY <1>0
  <1>2. p \in Seq(T) /\ Len(p) = k /\ \A i \in 1 .. k : p[i] = q[i]
    BY <1>0, <1>1
  <1> HIDE DEF p
  <1>3. ToSet(p) \subseteq ToSet(q)
    BY <1>0, <1>2 DEF ToSet
  <1>4. IsInjective(q) => IsInjective(p)
    BY <1>0, <1>2 DEF IsInjective
  <1>5. p = <<>> <=> k = 0
    BY <1>0, <1>2, EmptySeq
  <1> QED
    BY <1>2, <1>3, <1>4, <1>5 DEF p

\* The threads that an unpark finds: the first of its address, at least one if
\* there is one, and all of them still in the bucket of the address.
Taken(t, b, a, all, found) ==
    /\ b \in Bucket /\ a \in Address /\ HomeOf(a) = b
    /\ call[t] \in AllCalls /\ hashtables # <<>>
    /\ all \in Seq(Thread) /\ IsInjective(all) /\ ToSet(all) = QueuedAt(b) \cap OnAddress(a)
    /\ found \in Seq(Thread) /\ IsInjective(found) /\ ToSet(found) \subseteq ToSet(all)
    /\ Len(found) \in 0 .. Len(all) /\ found = SubSeq(all, 1, Len(found))
    /\ found = <<>> <=> all = <<>>
    /\ call[t].kind # "count" => Len(found) <= 1
    /\ queue' = [queue EXCEPT ![b] = Only(queue[b], Thread \ ToSet(found))]
    /\ queue' \in [Bucket -> Seq(Thread)]
    /\ \A c \in Bucket : IsInjective(queue'[c])
    /\ ToSet(queue'[b]) = QueuedAt(b) \ ToSet(found)
    /\ \A c \in Bucket : c # b => queue'[c] = queue[c]
    /\ token' \in [Thread -> {0, 1}]
    /\ call[t].kind = "callback" => \A u \in Thread : token'[u] = IF u \in ToSet(found) THEN 1 ELSE token[u]
    /\ call[t].kind # "callback" => token' = token

\* What a dequeue under the bucket lock does.
LEMMA DequeueFacts ==
  ASSUME IInv, NEW t \in Thread, Dequeue(t), NEW b, NEW a, NEW all, NEW found,
         b = myBucket[t], a = arg[t], all = Only(queue[b], OnAddress(a)),
         found = FirstOf(b, a, call[t].count)
  PROVE  Taken(t, b, a, all, found)
  <1>0. TypeOK /\ TablesOK /\ LocksOK /\ PlacesOK /\ TableOK(t) /\ pc[t] = "dequeue" /\ Current(t)
    BY DEF IInv, TablesOK, Dequeue
  <1>1. /\ b \in Bucket /\ a \in Address /\ HomeOf(a) = b /\ call[t] \in AllCalls /\ hashtables # <<>>
    <2>1. /\ a \in Address /\ call[t] \in AllCalls /\ myTable[t] \in 1 .. hashtable /\ b # Nil
          /\ b = hashtables[myTable[t]][Index(a, Size(myTable[t]))] /\ myTable[t] = hashtable
      BY <1>0 DEF TableOK, BucketPC, Current
    <2>2. b \in Bucket
      BY <1>0, <2>1 DEF TypeOK
    <2>3. hashtables # <<>>
      BY <1>0, <2>1 DEF TypeOK, hashtable
    <2> QED
      BY <2>1, <2>2, <2>3 DEF HomeOf, Spine, Slot, hashtable, Size
  <1>2. queue[b] \in Seq(Thread) /\ IsInjective(queue[b])
    BY <1>0, <1>1 DEF TypeOK, PlacesOK, QueueOK
  <1>3. all \in Seq(Thread) /\ IsInjective(all) /\ ToSet(all) = QueuedAt(b) \cap OnAddress(a)
    BY <1>2, OnlyType, OnlyMembers DEF QueuedAt
  <1>4. /\ call[t].count \in Nat \ {0}
        /\ call[t].kind # "count" => call[t].count = 1
    BY <1>1 DEF AllCalls
  <1>5. PICK k \in 0 .. Len(all) : /\ k = IF call[t].count < Len(all) THEN call[t].count ELSE Len(all)
                                   /\ found = SubSeq(all, 1, k)
    <2>1. found = SubSeq(all, 1, IF call[t].count < Len(all) THEN call[t].count ELSE Len(all))
      BY DEF FirstOf
    <2>2. (IF call[t].count < Len(all) THEN call[t].count ELSE Len(all)) \in 0 .. Len(all)
      BY <1>3, <1>4
    <2> QED
      BY <2>1, <2>2
  <1>6. /\ found \in Seq(Thread) /\ Len(found) = k
        /\ ToSet(found) \subseteq ToSet(all)
        /\ IsInjective(found)
        /\ found = <<>> <=> k = 0
    BY <1>3, <1>5, PrefixFacts
  <1>7. /\ found = <<>> <=> all = <<>>
        /\ call[t].kind # "count" => Len(found) <= 1
    <2>1. all = <<>> <=> Len(all) = 0
      BY <1>3
    <2>2. Len(all) \in Nat
      BY <1>3
    <2>3. k = 0 <=> Len(all) = 0
      BY <1>4, <1>5, <2>2
    <2>4. call[t].kind # "count" => k <= 1
      BY <1>4, <1>5, <2>2
    <2> QED
      BY <1>6, <2>1, <2>3, <2>4
  <1> DEFINE left == Only(queue[b], Thread \ ToSet(found))
  <1>8. /\ queue' = [queue EXCEPT ![b] = left]
        /\ token' = IF call[t].kind = "callback" /\ found # <<>> THEN [token EXCEPT ![found[1]] = 1] ELSE token
    BY DEF Dequeue
  <1>9. left \in Seq(Thread) /\ IsInjective(left) /\ ToSet(left) = QueuedAt(b) \ ToSet(found)
    <2>1. left \in Seq(Thread) /\ IsInjective(left) /\ ToSet(left) = QueuedAt(b) \cap (Thread \ ToSet(found))
      BY <1>2, OnlyType, OnlyMembers DEF QueuedAt
    <2>2. QueuedAt(b) \subseteq Thread
      BY <1>2 DEF QueuedAt, ToSet
    <2> QED
      BY <2>1, <2>2
  <1> HIDE DEF left
  <1>10. /\ queue' \in [Bucket -> Seq(Thread)] /\ queue'[b] = left
         /\ \A c \in Bucket : c # b => queue'[c] = queue[c]
    BY <1>0, <1>1, <1>8, <1>9 DEF TypeOK
  <1>11. \A c \in Bucket : IsInjective(queue'[c])
    <2> TAKE c \in Bucket
    <2>1. CASE c = b
      BY <1>9, <1>10, <2>1
    <2>2. CASE c # b
      BY <1>0, <1>10, <2>2 DEF PlacesOK, QueueOK
    <2> QED
      BY <2>1, <2>2
  <1>12. /\ token' \in [Thread -> {0, 1}]
         /\ call[t].kind # "callback" => token' = token
    <2>0. token \in [Thread -> {0, 1}]
      BY <1>0 DEF TypeOK
    <2>1. found # <<>> => found[1] \in Thread
      BY <1>6
    <2> QED
      BY <1>8, <2>0, <2>1
  <1>13. ASSUME call[t].kind = "callback", NEW u \in Thread
         PROVE  token'[u] = IF u \in ToSet(found) THEN 1 ELSE token[u]
    <2>0. token \in [Thread -> {0, 1}]
      BY <1>0 DEF TypeOK
    <2>1. Len(found) <= 1 /\ Len(found) \in Nat
      BY <1>6, <1>7, <1>13
    <2>2. CASE found = <<>>
      BY <1>8, <2>2 DEF ToSet
    <2>3. CASE found # <<>>
      <3>1. Len(found) = 1
        BY <1>6, <2>1, <2>3
      <3>2. DOMAIN found = {1}
        BY <1>6, <3>1
      <3>3. found[1] \in Thread
        BY <1>6, <2>3
      <3>4. ToSet(found) = {found[1]}
        BY <3>2 DEF ToSet
      <3> QED
        BY <1>8, <1>13, <2>0, <2>3, <3>3, <3>4
    <2> QED
      BY <2>2, <2>3
  <1>14. queue' = [queue EXCEPT ![b] = Only(queue[b], Thread \ ToSet(found))]
    BY <1>8 DEF left
  <1> QED
    BY <1>1, <1>3, <1>5, <1>6, <1>7, <1>9, <1>10, <1>11, <1>12, <1>13, <1>14 DEF Taken

\* An unpark takes threads off the queue.
LEMMA TablesDequeue ==
  ASSUME IInv, NEW t \in Thread, Dequeue(t)
  PROVE  TypeOK' /\ TablesOK' /\ LocksOK'
  <1>0. TypeOK /\ TablesOK /\ LocksOK /\ PlacesOK /\ TableOK(t) /\ pc[t] = "dequeue"
    BY DEF IInv, TablesOK, Dequeue
  <1>a. PICK b, a : b = myBucket[t] /\ a = arg[t]
    OBVIOUS
  <1>1. PICK found, all : found = FirstOf(b, a, call[t].count) /\ all = Only(queue[b], OnAddress(a))
    OBVIOUS
  <1>2. /\ found \in Seq(Thread) /\ queue' \in [Bucket -> Seq(Thread)] /\ token' \in [Thread -> {0, 1}]
        /\ call[t] \in AllCalls
    <2>1. Taken(t, b, a, all, found)
      BY <1>a, <1>1, DequeueFacts
    <2> QED
      BY <2>1 DEF Taken
  <1>3. \/ /\ Goto(t, "clearAddress")
           /\ targets' = [targets EXCEPT ![t] = found]
           /\ UNCHANGED <<arg, currentNumThreads, myTable, myBucket, buckets, call, didDequeue>>
        \/ Return(t)
    BY <1>a, <1>1 DEF Dequeue
  <1>4. UNCHANGED <<tableVars, address>>
    BY DEF Dequeue
  <1>5. LocalsOK'
    <2>1. CASE Return(t)
      BY <1>0, <2>1, ReturnTypes
    <2>2. CASE /\ Goto(t, "clearAddress")
               /\ targets' = [targets EXCEPT ![t] = found]
               /\ UNCHANGED <<arg, currentNumThreads, myTable, myBucket, buckets, call, didDequeue>>
      <3>1. pc' \in [Thread -> AllPC]
        BY <1>0, <2>2 DEF TypeOK, Goto, AllPC, WakePC
      <3>2. targets' \in [Thread -> Seq(Thread)]
        BY <1>0, <1>2, <2>2 DEF TypeOK
      <3> QED
        BY <1>0, <2>2, <3>1, <3>2 DEF TypeOK, LocalsOK
    <2> QED
      BY <1>3, <2>1, <2>2
  <1>6. TypeOK'
    BY <1>0, <1>2, <1>4, <1>5 DEF TypeOK, LocalsOK, tableVars
  <1>7. OthersKeep(t) /\ hashtables' = hashtables /\ lock' = lock /\ pc'[t] \in {"idle", "clearAddress"}
    BY <1>0, <1>3, <1>4 DEF TypeOK, OthersKeep, tableVars, Return, Goto
  <1>8. pc[t] \notin RehashPC /\ pc'[t] \notin RehashPC
    BY <1>0, <1>7 DEF RehashPC
  <1>9. pc'[t] = "clearAddress" => call'[t] = call[t]
    BY <1>0, <1>3 DEF TypeOK, Return, Goto
  <1>10. TableOK(t)'
    BY <1>2, <1>7, <1>9 DEF TableOK, ParkPC, SizingPC, RehashPC, WakePC, BucketPC
  <1> QED
    BY <1>6, <1>7, <1>8, <1>10, TablesQuiet

\* An address is cleared.
LEMMA TablesClear ==
  ASSUME IInv, NEW t \in Thread, ClearAddress(t)
  PROVE  TypeOK' /\ TablesOK' /\ LocksOK'
  <1>0. TypeOK /\ TablesOK /\ LocksOK /\ PlacesOK /\ TableOK(t) /\ pc[t] = "clearAddress"
    BY DEF IInv, TablesOK, ClearAddress
  <1> USE DEF ClearAddress, Goto, locals, tableVars, threadVars
  <1>1. targets[t] \in Seq(Thread) /\ targets[t] # <<>>
    BY <1>0 DEF TypeOK, PlacesOK, TargetsOK, WakePC
  <1>2. targets[t][1] \in Thread
    BY <1>1
  <1>3. TypeOK'
    BY <1>0, <1>2 DEF TypeOK, AllPC, WakePC
  <1>4. OthersKeep(t) /\ hashtables' = hashtables /\ lock' = lock /\ pc'[t] = "signal"
    BY <1>0 DEF TypeOK, OthersKeep
  <1>5. pc[t] \notin RehashPC /\ pc'[t] \notin RehashPC
    BY <1>0, <1>4 DEF RehashPC
  <1>6. TableOK(t)'
    BY <1>0, <1>4 DEF TypeOK, TableOK, ParkPC, SizingPC, RehashPC, WakePC, BucketPC
  <1> QED
    BY <1>3, <1>4, <1>5, <1>6, TablesQuiet

\* The first of a sequence and the others.
LEMMA FirstAndRest ==
  ASSUME NEW T, NEW s \in Seq(T), s # <<>>, IsInjective(s)
  PROVE  /\ s[1] \in T /\ Tail(s) \in Seq(T)
         /\ ToSet(s) = {s[1]} \cup ToSet(Tail(s)) /\ s[1] \notin ToSet(Tail(s))
         /\ IsInjective(Tail(s))
  <1> DEFINE r == Tail(s)
             u == s[1]
  <1>4. /\ r \in Seq(T) /\ Len(r) = Len(s) - 1 /\ Len(s) \in Nat \ {0} /\ s[1] \in T
        /\ \A i \in 1 .. Len(r) : r[i] = s[i + 1] /\ i + 1 \in 1 .. Len(s)
    OBVIOUS
  <1> HIDE DEF r, u
  <1>5. \A x : x \in ToSet(s) <=> x = u \/ x \in ToSet(r)
    <2>1. \A x : x \in ToSet(s) <=> \E i \in 1 .. Len(s) : s[i] = x
      BY Members
    <2>2. \A x : x \in ToSet(r) <=> \E i \in 1 .. Len(r) : r[i] = x
      BY <1>4, Members
    <2>3. ASSUME NEW x, x \in ToSet(s), x # u PROVE x \in ToSet(r)
      <3>1. PICK i \in 1 .. Len(s) : s[i] = x
        BY <2>1, <2>3
      <3>2. i # 1
        BY <2>3, <3>1 DEF u
      <3>3. i - 1 \in 1 .. Len(r) /\ (i - 1) + 1 = i
        BY <1>4, <3>2
      <3>4. r[i - 1] = x
        BY <1>4, <3>1, <3>3
      <3> QED
        BY <2>2, <3>3, <3>4
    <2>4. ASSUME NEW x, x \in ToSet(r) PROVE x \in ToSet(s)
      BY <1>4, <2>1, <2>2, <2>4
    <2>5. 1 \in 1 .. Len(s)
      BY <1>4
    <2>6. u \in ToSet(s)
      BY <2>1, <2>5 DEF u
    <2> QED
      BY <2>3, <2>4, <2>6
  <1>6. u \notin ToSet(r) /\ IsInjective(r)
    <2>1. \A i, j \in 1 .. Len(s) : s[i] = s[j] => i = j
      BY DEF IsInjective
    <2>2. \A x : x \in ToSet(r) <=> \E i \in 1 .. Len(r) : r[i] = x
      BY <1>4, Members
    <2>3. u \notin ToSet(r)
      <3> SUFFICES ASSUME NEW i \in 1 .. Len(r), r[i] = u PROVE FALSE
        BY <2>2
      <3>1. s[i + 1] = s[1] /\ i + 1 \in 1 .. Len(s) /\ 1 \in 1 .. Len(s) /\ i + 1 # 1
        BY <1>4 DEF u
      <3> QED
        BY <2>1, <3>1
    <2>4. ASSUME NEW i \in 1 .. Len(r), NEW j \in 1 .. Len(r), r[i] = r[j] PROVE i = j
      <3>1. s[i + 1] = s[j + 1] /\ i + 1 \in 1 .. Len(s) /\ j + 1 \in 1 .. Len(s)
        BY <1>4, <2>4
      <3>2. i + 1 = j + 1
        BY <2>1, <3>1
      <3> QED
        BY <1>4, <3>2
    <2>5. DOMAIN r = 1 .. Len(r)
      BY <1>4
    <2> QED
      BY <2>3, <2>4, <2>5 DEF IsInjective
  <1> QED
    BY <1>4, <1>5, <1>6 DEF r, u

\* What a signal does to the unparker and to the thread it wakes.
LEMMA SignalFacts ==
  ASSUME IInv, NEW t \in Thread, Signal(t), NEW u, u = targets[t][1]
  PROVE  /\ targets[t] \in Seq(Thread) /\ targets[t] # <<>> /\ IsInjective(targets[t])
         /\ u \in Thread /\ u # t /\ u \in ToSet(targets[t])
         /\ Tail(targets[t]) \in Seq(Thread)
         /\ ToSet(targets[t]) = {u} \cup ToSet(Tail(targets[t])) /\ u \notin ToSet(Tail(targets[t]))
         /\ IsInjective(Tail(targets[t]))
         /\ targets' = [targets EXCEPT ![t] = Tail(targets[t])]
         /\ Tail(targets[t]) = <<>> => pc'[t] = "idle"
         /\ Tail(targets[t]) # <<>> => pc'[t] = "clearAddress" /\ call'[t] = call[t]
         /\ pc'[u] = Awoken(pc[u])
         /\ \A v \in Thread \ {t, u} : pc'[v] = pc[v]
         /\ \A v \in Thread \ {t} : arg'[v] = arg[v] /\ call'[v] = call[v]
         /\ pc'[u] \in AllPC
  <1>0. TypeOK /\ PlacesOK /\ TargetsOK(t) /\ pc[t] = "signal"
    BY DEF IInv, PlacesOK, Signal
  <1>1. targets[t] \in Seq(Thread) /\ targets[t] # <<>> /\ IsInjective(targets[t]) /\ t \notin ToSet(targets[t])
    BY <1>0 DEF TypeOK, TargetsOK, WakePC
  <1> DEFINE s == targets[t]
             r == Tail(s)
  <1>2. s \in Seq(Thread) /\ s # <<>> /\ IsInjective(s)
    BY <1>1
  <1>4. /\ r \in Seq(Thread) /\ s[1] \in Thread
        /\ ToSet(s) = {s[1]} \cup ToSet(r) /\ s[1] \notin ToSet(r)
        /\ IsInjective(r)
    <2> HIDE DEF s
    <2> QED
      BY <1>2, FirstAndRest
  <1>3. u = s[1] /\ u # t
    BY <1>1, <1>4
  <1> HIDE DEF s, r
  <1>7. /\ pc' = [pc EXCEPT ![t] = IF r = <<>> THEN "idle" ELSE "clearAddress", ![u] = Awoken(@)]
        /\ targets' = [targets EXCEPT ![t] = r]
        /\ \/ /\ r = <<>>
              /\ arg' = [arg EXCEPT ![t] = Nil]
              /\ call' = [call EXCEPT ![t] = NoCall]
           \/ r # <<>> /\ UNCHANGED <<arg, call>>
    BY DEF Signal, r, s
  <1>8. u \in Thread /\ u # t
    BY <1>3, <1>4
  <1>9. /\ r = <<>> => pc'[t] = "idle"
        /\ r # <<>> => pc'[t] = "clearAddress" /\ call'[t] = call[t]
        /\ pc'[u] = Awoken(pc[u])
        /\ \A v \in Thread \ {t, u} : pc'[v] = pc[v]
        /\ \A v \in Thread \ {t} : arg'[v] = arg[v] /\ call'[v] = call[v]
    BY <1>0, <1>7, <1>8 DEF TypeOK
  <1>10. Awoken(pc[u]) \in AllPC
    BY <1>0, <1>8 DEF TypeOK, Awoken, AllPC, ParkPC
  <1> QED
    BY <1>2, <1>3, <1>4, <1>7, <1>8, <1>9, <1>10 DEF s, r

\* A thread is signalled.
LEMMA TablesSignal ==
  ASSUME IInv, NEW t \in Thread, Signal(t)
  PROVE  TypeOK' /\ TablesOK' /\ LocksOK'
  <1>0. TypeOK /\ TablesOK /\ LocksOK /\ PlacesOK /\ TableOK(t) /\ pc[t] = "signal"
    BY DEF IInv, TablesOK, Signal
  <1>1. PICK u : u = targets[t][1]
    OBVIOUS
  <1>2. /\ u \in Thread /\ u # t /\ Tail(targets[t]) \in Seq(Thread)
        /\ targets' = [targets EXCEPT ![t] = Tail(targets[t])]
        /\ Tail(targets[t]) = <<>> => pc'[t] = "idle"
        /\ Tail(targets[t]) # <<>> => pc'[t] = "clearAddress" /\ call'[t] = call[t]
        /\ pc'[u] = Awoken(pc[u])
        /\ \A v \in Thread \ {t, u} : pc'[v] = pc[v]
        /\ \A v \in Thread \ {t} : arg'[v] = arg[v] /\ call'[v] = call[v]
        /\ pc'[u] \in AllPC
    BY <1>1, SignalFacts
  <1> DEFINE rest == Tail(targets[t])
  <1>3. /\ pc' = [pc EXCEPT ![t] = IF rest = <<>> THEN "idle" ELSE "clearAddress", ![u] = Awoken(@)]
        /\ \/ /\ arg' = [arg EXCEPT ![t] = Nil]
              /\ myTable' = [myTable EXCEPT ![t] = 0]
              /\ myBucket' = [myBucket EXCEPT ![t] = Nil]
              /\ call' = [call EXCEPT ![t] = NoCall]
           \/ UNCHANGED <<arg, myTable, myBucket, call>>
        /\ UNCHANGED <<tableVars, queue, threadVars, currentNumThreads, buckets, didDequeue>>
    BY <1>1 DEF Signal
  <1>4. /\ arg' \in [Thread -> Address \cup {Nil}] /\ myTable' \in [Thread -> Nat]
        /\ myBucket' \in [Thread -> Bucket \cup {Nil}] /\ call' \in [Thread -> AllCalls \cup {NoCall}]
        /\ targets' \in [Thread -> Seq(Thread)]
        /\ \A v \in Thread \ {t} : myTable'[v] = myTable[v] /\ myBucket'[v] = myBucket[v]
    <2> HIDE DEF rest
    <2>1. targets' \in [Thread -> Seq(Thread)]
      BY <1>0, <1>2 DEF TypeOK
    <2>2. CASE UNCHANGED <<arg, myTable, myBucket, call>>
      BY <1>0, <2>1, <2>2 DEF TypeOK
    <2>3. CASE /\ arg' = [arg EXCEPT ![t] = Nil]
               /\ myTable' = [myTable EXCEPT ![t] = 0]
               /\ myBucket' = [myBucket EXCEPT ![t] = Nil]
               /\ call' = [call EXCEPT ![t] = NoCall]
      BY <1>0, <2>1, <2>3 DEF TypeOK
    <2> QED
      BY <1>3, <2>2, <2>3
  <1>5. pc' \in [Thread -> AllPC]
    <2>1. pc'[t] \in AllPC
      BY <1>2 DEF AllPC, WakePC
    <2>2. pc' = [v \in Thread |-> pc'[v]] /\ \A v \in Thread : pc[v] \in AllPC
      BY <1>0, <1>3 DEF TypeOK
    <2>3. \A v \in Thread : pc'[v] \in AllPC
      BY <1>2, <2>1, <2>2
    <2> QED
      BY <2>2, <2>3
  <1>6. TypeOK'
    BY <1>0, <1>3, <1>4, <1>5 DEF TypeOK, tableVars, threadVars
  <1>7. OthersKeep(t) /\ hashtables' = hashtables /\ lock' = lock
    <2>1. \A v \in Thread \ {t} : \/ pc'[v] = pc[v] \/ (pc[v] = "asleep" /\ pc'[v] = "park")
                                  \/ (pc[v] = "asleepFinish" /\ pc'[v] = "finish")
      BY <1>2 DEF Awoken
    <2> QED
      BY <1>2, <1>3, <1>4, <2>1 DEF OthersKeep, tableVars
  <1>8. pc[t] \notin RehashPC /\ pc'[t] \notin RehashPC /\ pc'[t] \in {"idle", "clearAddress"}
    BY <1>0, <1>2 DEF RehashPC
  <1>9. pc'[t] = "clearAddress" => call'[t] \in AllCalls
    BY <1>0, <1>2 DEF TableOK, WakePC
  <1>10. TableOK(t)'
    BY <1>8, <1>9 DEF TableOK, ParkPC, SizingPC, RehashPC, WakePC, BucketPC
  <1> QED
    BY <1>6, <1>7, <1>8, <1>10, TablesQuiet

-----------------------------------------------------------------------------
(* Where the threads are, one action at a time *)

\* A thread outside the part of a park that follows the enqueue has no address,
\* no token, is on no queue, and nobody is about to wake it.
LEMMA NotParked ==
  ASSUME TypeOK, PlacesOK, NEW t \in Thread, pc[t] \notin ParkedPC
  PROVE  /\ address[t] = Nil /\ ~didDequeue[t] /\ token[t] = 0
         /\ \A b \in Bucket : t \notin QueuedAt(b)
         /\ \A u \in Thread : t \notin ToClear(u)
  <1>1. address[t] = Nil /\ ~didDequeue[t]
    BY DEF PlacesOK, AddressOK
  <1>2. \A b \in Bucket : t \notin QueuedAt(b)
    BY <1>1 DEF PlacesOK, QueueOK
  <1>3. \A u \in Thread : t \notin ToClear(u)
    BY <1>1 DEF PlacesOK, TargetsOK
  <1>4. token[t] = 0
    BY <1>3 DEF PlacesOK, WokenOK
  <1> QED
    BY <1>1, <1>2, <1>3, <1>4

\* A thread that wakes nobody has no targets, so returning changes none.
LEMMA ReturnQuiet ==
  ASSUME TypeOK, PlacesOK, NEW t \in Thread, pc[t] \notin WakePC, ~didDequeue[t], Return(t)
  PROVE  targets' = targets /\ didDequeue' = didDequeue
  <1>1. targets[t] = <<>>
    BY DEF PlacesOK, TargetsOK
  <1>2. targets' = [targets EXCEPT ![t] = targets[t]] /\ targets = [u \in Thread |-> targets[u]]
    BY <1>1 DEF Return, TypeOK
  <1>3. didDequeue' = [didDequeue EXCEPT ![t] = FALSE] /\ didDequeue \in [Thread -> BOOLEAN] /\ didDequeue[t] = FALSE
    BY DEF Return, TypeOK
  <1> QED
    BY <1>2, <1>3

\* What an unparker has to clear depends on its pc and its targets.
LEMMA ClearSame ==
  ASSUME NEW u \in Thread, targets'[u] = targets[u], pc[u] = "signal" <=> pc'[u] = "signal"
  PROVE  ToClear(u)' = ToClear(u)
  BY DEF ToClear

\* A step of t that leaves queues, addresses, tokens and targets alone, and
\* goes where a thread like t may be.
Quiet(t) ==
    /\ queue' = queue /\ address' = address /\ token' = token
    /\ targets' = targets /\ didDequeue' = didDequeue
    /\ \A u \in Thread \ {t} : pc'[u] = pc[u] /\ arg'[u] = arg[u] /\ call'[u] = call[u]
    /\ pc[t] \notin WakePC /\ pc'[t] \notin WakePC
    /\ pc'[t] \in ParkedPC <=> pc[t] \in ParkedPC
    /\ address[t] # Nil => pc'[t] \in ParkedPC /\ arg'[t] = arg[t]
    /\ didDequeue[t] => pc'[t] = "finish"
    /\ pc'[t] \in {"finish", "asleepFinish"} => \A b \in Bucket : t \notin QueuedAt(b)
    /\ address[t] = Nil => /\ pc'[t] \notin {"asleep", "asleepFinish"}
                           /\ token[t] # 0 => pc'[t] \in ParkedPC

\* The queues and the standing of the threads, as the abstract specification
\* sees them, stay the same.
Stays == /\ \A a \in Address : QueueOf(a)' = QueueOf(a)
         /\ \A u \in Thread : StatusOf(u)' = StatusOf(u)

\* The queue of an address does not change when its bucket stays and nobody on
\* a queue gets another address.
LEMMA QueuesKept ==
  ASSUME TypeOK, PlacesOK, queue' = queue, HomesKept,
         \A b \in Bucket : \A u \in QueuedAt(b) : address'[u] = address[u],
         \A u \in Thread : address'[u] = address[u] \/ address'[u] = Nil, NEW a \in Address,
         HomeOf(a)' \in Bucket \cup {Nil}
  PROVE  QueueOf(a)' = QueueOf(a)
  <1>1. ASSUME NEW b \in Bucket
        PROVE  Only(queue[b], OnAddress(a)') = Only(queue[b], OnAddress(a))
    <2>1. queue[b] \in Seq(Thread)
      BY DEF TypeOK
    <2>2. ToSet(queue[b]) \subseteq Thread
      BY <2>1 DEF ToSet
    <2>3. ToSet(queue[b]) \cap OnAddress(a)' = ToSet(queue[b]) \cap OnAddress(a)
      BY <2>2 DEF OnAddress, QueuedAt
    <2> QED
      BY <2>1, <2>3, OnlySame
  <1>2. CASE HomeOf(a) # Nil
    <2>1. PICK b : b = HomeOf(a)
      OBVIOUS
    <2>2. HomeOf(a)' = b /\ b \in Bucket /\ b # Nil
      BY <1>2, <2>1 DEF HomesKept
    <2> QED
      BY <1>1, <2>1, <2>2 DEF QueueOf
  <1>3. CASE HomeOf(a) = Nil /\ HomeOf(a)' = Nil
    BY <1>3 DEF QueueOf
  <1>4. CASE HomeOf(a) = Nil /\ HomeOf(a)' # Nil
    <2>1. PICK b \in Bucket : b = HomeOf(a)'
      BY <1>4
    <2>2. queue[b] \in Seq(Thread)
      BY DEF TypeOK
    <2>3. ToSet(queue[b]) \cap OnAddress(a) = {}
      <3> SUFFICES ASSUME NEW u \in ToSet(queue[b]), address[u] = a PROVE FALSE
        BY DEF OnAddress
      <3>1. HomeOf(address[u]) = b
        BY DEF PlacesOK, QueueOK, QueuedAt
      <3> QED
        BY <1>4, <3>1, NilAssumption
    <2>4. Only(queue[b], OnAddress(a)) = <<>>
      BY <2>2, <2>3, OnlyAllOrNone
    <2>5. QueueOf(a)' = Only(queue[b], OnAddress(a)')
      BY <1>4, <2>1 DEF QueueOf
    <2>6. QueueOf(a) = <<>>
      BY <1>4 DEF QueueOf
    <2> QED
      BY <1>1, <2>1, <2>4, <2>5, <2>6
  <1> QED
    BY <1>2, <1>3, <1>4

\* After a step too, the bucket of an address is a bucket or none.
LEMMA HomeType ==
  ASSUME hashtables' \in Seq(Spines), NEW a \in Address
  PROVE  HomeOf(a)' \in Bucket \cup {Nil}
  <1>1. CASE hashtables' # <<>>
    <2>1. Spine(hashtables') \in Spines
      BY <1>1 DEF Spine
    <2>2. Index(a, Cardinality(DOMAIN Spine(hashtables'))) \in DOMAIN Spine(hashtables')
      BY <2>1, SpineFacts
    <2>3. Spine(hashtables')[Index(a, Cardinality(DOMAIN Spine(hashtables')))] \in Bucket \cup {Nil}
      BY <2>1, <2>2, SpineFacts
    <2> QED
      BY <1>1, <2>3 DEF HomeOf, Slot, Spine
  <1>2. CASE hashtables' = <<>>
    BY <1>2 DEF HomeOf
  <1> QED
    BY <1>1, <1>2

\* And before it.
LEMMA HomeNow ==
  ASSUME TypeOK, NEW a \in Address
  PROVE  HomeOf(a) \in Bucket \cup {Nil}
  <1>1. CASE hashtables # <<>>
    <2>1. Spine(hashtables) \in Spines
      BY <1>1 DEF Spine, TypeOK
    <2>2. Index(a, Cardinality(DOMAIN Spine(hashtables))) \in DOMAIN Spine(hashtables)
      BY <2>1, SpineFacts
    <2>3. Spine(hashtables)[Index(a, Cardinality(DOMAIN Spine(hashtables)))] \in Bucket \cup {Nil}
      BY <2>1, <2>2, SpineFacts
    <2> QED
      BY <1>1, <2>3 DEF HomeOf, Slot
  <1>2. CASE hashtables = <<>>
    BY <1>2 DEF HomeOf
  <1> QED
    BY <1>1, <1>2

\* Such a step keeps everybody's place.
LEMMA PlacesQuiet ==
  ASSUME IInv, TypeOK', NEW t \in Thread, Quiet(t), HomesKept
  PROVE  PlacesOK' /\ Stays
  <1>0. TypeOK /\ PlacesOK
    BY DEF IInv
  <1>1. \A u \in Thread : ToClear(u)' = ToClear(u)
    BY ClearSame DEF Quiet, WakePC
  <1>2. \A b \in Bucket : QueuedAt(b)' = QueuedAt(b)
    BY DEF Quiet, QueuedAt
  <1>3. \A u \in Thread : pc'[u] \in WakePC <=> pc[u] \in WakePC
    BY DEF Quiet
  <1>4. ASSUME NEW u \in Thread PROVE AddressOK(u)'
    <2>1. AddressOK(u)
      BY <1>0 DEF PlacesOK
    <2>2. CASE u = t
      BY <1>1, <1>2, <2>1, <2>2 DEF Quiet, AddressOK
    <2>3. CASE u # t
      BY <1>1, <1>2, <2>1, <2>3 DEF Quiet, AddressOK
    <2> QED
      BY <2>2, <2>3
  <1>5. ASSUME NEW b \in Bucket PROVE QueueOK(b)'
    <2>1. QueueOK(b)
      BY <1>0 DEF PlacesOK
    <2>2. ASSUME NEW u \in QueuedAt(b)
          PROVE  address'[u] # Nil /\ HomeOf(address[u])' = b /\ pc'[u] \notin {"finish", "asleepFinish"}
      <3>1. u \in Thread
        BY <1>0 DEF QueuedAt, ToSet, TypeOK
      <3>2. address[u] # Nil /\ HomeOf(address[u]) = b /\ pc[u] \notin {"finish", "asleepFinish"}
        BY <2>1 DEF QueueOK
      <3>3. PICK a \in Address : a = address[u] /\ address'[u] = a
        BY <1>0, <3>1, <3>2 DEF TypeOK, Quiet
      <3>4. HomeOf(a)' = b
        BY <3>2, <3>3, NilAssumption DEF HomesKept
      <3>5. pc'[u] \notin {"finish", "asleepFinish"}
        BY <3>1, <3>2 DEF Quiet
      <3> QED
        BY <3>2, <3>3, <3>4, <3>5
    <2>3. IsInjective(queue[b])'
      BY <2>1 DEF QueueOK, Quiet
    <2> QED
      BY <1>2, <2>2, <2>3 DEF QueueOK
  <1>6. ASSUME NEW u \in Thread PROVE TargetsOK(u)'
    <2>1. TargetsOK(u)
      BY <1>0 DEF PlacesOK
    <2>2. ASSUME NEW v \in ToClear(u)
          PROVE  /\ address'[v] # Nil /\ ~didDequeue'[v]
                 /\ \A b \in Bucket : v \notin QueuedAt(b)'
                 /\ \A w \in Thread : v \in ToClear(w)' => w = u
                 /\ token'[v] = IF call'[u].kind = "callback" THEN 1 ELSE 0
      <3>1. u # t
        <4> SUFFICES ASSUME u = t PROVE FALSE
          OBVIOUS
        <4>1. targets[u] = <<>> /\ pc[u] # "signal"
          BY <2>1 DEF TargetsOK, Quiet, WakePC
        <4> QED
          BY <2>2, <4>1 DEF ToClear, ToSet
      <3>2. call'[u] = call[u]
        BY <3>1 DEF Quiet
      <3> QED
        BY <1>1, <1>2, <2>1, <3>2 DEF TargetsOK, Quiet
    <2>3. (targets[u] # <<>> <=> pc[u] \in WakePC)' /\ IsInjective(targets[u])' /\ (u \notin ToSet(targets[u]))'
      BY <1>3, <2>1 DEF TargetsOK, Quiet
    <2> QED
      BY <1>1, <2>2, <2>3 DEF TargetsOK
  <1>7. ASSUME NEW u \in Thread PROVE WokenOK(u)'
    <2>1. WokenOK(u)
      BY <1>0 DEF PlacesOK
    <2>2. \A v \in Thread : pc[v] = "signal" <=> pc'[v] = "signal"
      BY DEF Quiet, WakePC
    <2>3. CASE u = t
      BY <1>1, <2>1, <2>2, <2>3 DEF WokenOK, Quiet
    <2>4. CASE u # t
      BY <1>1, <2>1, <2>2, <2>4 DEF WokenOK, Quiet
    <2> QED
      BY <2>3, <2>4
  <1>8. \A a \in Address : QueueOf(a)' = QueueOf(a)
    <2> TAKE a \in Address
    <2>1. HomeOf(a)' \in Bucket \cup {Nil}
      BY HomeType DEF TypeOK
    <2> QED
      BY <1>0, <2>1, QueuesKept DEF Quiet
  <1>9. \A u \in Thread : StatusOf(u)' = StatusOf(u)
    <2> TAKE u \in Thread
    <2>1. pc'[u] \in ParkedPC <=> pc[u] \in ParkedPC
      BY DEF Quiet
    <2> QED
      BY <1>2, <2>1 DEF StatusOf, Quiet, ParkedPC
  <1> QED
    BY <1>4, <1>5, <1>6, <1>7, <1>8, <1>9 DEF PlacesOK, Stays

\* A thread that neither parks nor wakes, before and after the step.
LEMMA PlacesElsewhere ==
  ASSUME IInv, TypeOK', NEW t \in Thread, HomesKept,
         queue' = queue, address' = address, token' = token, targets' = targets, didDequeue' = didDequeue,
         \A u \in Thread \ {t} : pc'[u] = pc[u] /\ arg'[u] = arg[u] /\ call'[u] = call[u],
         pc[t] \notin ParkedPC \cup WakePC, pc'[t] \notin ParkedPC \cup WakePC
  PROVE  PlacesOK' /\ Stays
  <1>1. /\ address[t] = Nil /\ ~didDequeue[t] /\ token[t] = 0
        /\ \A b \in Bucket : t \notin QueuedAt(b)
    BY NotParked DEF IInv
  <1>2. Quiet(t)
    BY <1>1 DEF Quiet, ParkedPC, ParkPC
  <1> QED
    BY <1>2, PlacesQuiet

\* The same when the thread returns.
LEMMA PlacesReturn ==
  ASSUME IInv, TypeOK', NEW t \in Thread, HomesKept, Return(t), queue' = queue, address' = address,
         token' = token, pc[t] \notin ParkedPC \cup WakePC
  PROVE  PlacesOK' /\ Stays
  <1>0. TypeOK /\ PlacesOK
    BY DEF IInv
  <1>1. ~didDequeue[t]
    BY <1>0, NotParked
  <1>2. targets' = targets /\ didDequeue' = didDequeue
    BY <1>0, <1>1, ReturnQuiet
  <1>3. /\ \A u \in Thread \ {t} : pc'[u] = pc[u] /\ arg'[u] = arg[u] /\ call'[u] = call[u]
        /\ pc'[t] = "idle"
    BY <1>0 DEF TypeOK, Return, Goto
  <1>4. pc'[t] \notin ParkedPC \cup WakePC
    BY <1>3 DEF ParkedPC, ParkPC, WakePC
  <1> QED
    BY <1>2, <1>3, <1>4, PlacesElsewhere

\* What Locate() leaves alone.
LEMMA LocateKeeps ==
  ASSUME TypeOK, NEW t \in Thread, NEW next, Locate(t, next)
  PROVE  /\ queue' = queue /\ address' = address /\ token' = token
         /\ targets' = targets /\ didDequeue' = didDequeue
         /\ \A u \in Thread \ {t} : pc'[u] = pc[u] /\ arg'[u] = arg[u] /\ call'[u] = call[u]
         /\ pc'[t] = next /\ arg' = arg
  <1>1. /\ Goto(t, next)
        /\ UNCHANGED <<queue, threadVars, arg, call, targets, didDequeue>>
    BY DEF Locate
  <1> QED
    BY <1>1 DEF TypeOK, Goto, threadVars

-----------------------------------------------------------------------------
(* The steps of the abstract specification *)

\* Nothing happens.
LEMMA AbstractStays ==
  ASSUME Stays
  PROVE  UNCHANGED AsQueues!vars
  BY DEF Stays, AsQueues!vars

\* A thread parks.
LEMMA AbstractPark ==
  ASSUME NEW t \in Thread, NEW a \in Address,
         StatusOf(t) = "running", StatusOf(t)' = "parked",
         \A u \in Thread \ {t} : StatusOf(u)' = StatusOf(u),
         QueueOf(a)' = Append(QueueOf(a), t),
         \A c \in Address \ {a} : QueueOf(c)' = QueueOf(c)
  PROVE  AsQueues!Next
  <1> DEFINE queues == [c \in Address |-> QueueOf(c)]
             status == [u \in Thread |-> StatusOf(u)]
  <1>1. status[t] = "running" /\ queues' = [queues EXCEPT ![a] = Append(@, t)]
        /\ status' = [status EXCEPT ![t] = "parked"]
    OBVIOUS
  <1>2. AsQueues!Park(t, a)
    BY <1>1 DEF AsQueues!Park
  <1>3. status' # status
    <2>1. status'[t] = "parked" /\ status[t] = "running"
      OBVIOUS
    <2> HIDE DEF status
    <2> QED
      BY <2>1
  <1> QED
    BY <1>2, <1>3 DEF AsQueues!Next

\* A thread returns.
LEMMA AbstractReturn ==
  ASSUME NEW t \in Thread,
         StatusOf(t) \in {"unparked", "timedOut"}, StatusOf(t)' = "running",
         \A u \in Thread \ {t} : StatusOf(u)' = StatusOf(u),
         \A c \in Address : QueueOf(c)' = QueueOf(c)
  PROVE  AsQueues!Next
  <1> DEFINE queues == [c \in Address |-> QueueOf(c)]
             status == [u \in Thread |-> StatusOf(u)]
  <1>1. status[t] \in {"unparked", "timedOut"} /\ queues' = queues
        /\ status' = [status EXCEPT ![t] = "running"]
    OBVIOUS
  <1>2. AsQueues!Return(t)
    BY <1>1 DEF AsQueues!Return
  <1>3. status' # status
    <2>1. status'[t] = "running" /\ status[t] # "running"
      OBVIOUS
    <2> HIDE DEF status
    <2> QED
      BY <2>1
  <1> QED
    BY <1>2, <1>3 DEF AsQueues!Next

\* A thread takes itself off.
LEMMA AbstractTimeOut ==
  ASSUME NEW t \in Thread, NEW a \in Address, NEW i \in 1 .. Len(QueueOf(a)), QueueOf(a)[i] = t,
         StatusOf(t) = "parked", StatusOf(t)' = "timedOut",
         \A u \in Thread \ {t} : StatusOf(u)' = StatusOf(u),
         QueueOf(a)' = SubSeq(QueueOf(a), 1, i - 1) \o SubSeq(QueueOf(a), i + 1, Len(QueueOf(a))),
         \A c \in Address \ {a} : QueueOf(c)' = QueueOf(c)
  PROVE  AsQueues!Next
  <1> DEFINE queues == [c \in Address |-> QueueOf(c)]
             status == [u \in Thread |-> StatusOf(u)]
  <1>1. /\ queues[a] = QueueOf(a)
        /\ queues' = [queues EXCEPT ![a] = SubSeq(@, 1, i - 1) \o SubSeq(@, i + 1, Len(@))]
        /\ status' = [status EXCEPT ![t] = "timedOut"]
    OBVIOUS
  <1>2. AsQueues!TimeOut(t, a)
    BY <1>1 DEF AsQueues!TimeOut
  <1>3. status' # status
    <2>1. status'[t] = "timedOut" /\ status[t] = "parked"
      OBVIOUS
    <2> HIDE DEF status
    <2> QED
      BY <2>1
  <1> QED
    BY <1>2, <1>3 DEF AsQueues!Next

\* The first threads of an address are unparked.
LEMMA AbstractUnpark ==
  ASSUME NEW a \in Address, NEW n \in 1 .. Len(QueueOf(a)), QueueOf(a) \in Seq(Thread),
         \A i \in 1 .. n : StatusOf(QueueOf(a)[i]) = "parked",
         \A i \in 1 .. n, u \in Thread : QueueOf(a)[i] = u => StatusOf(u)' = "unparked",
         \A u \in Thread : (\A i \in 1 .. n : QueueOf(a)[i] # u) => StatusOf(u)' = StatusOf(u),
         QueueOf(a)' = SubSeq(QueueOf(a), n + 1, Len(QueueOf(a))),
         \A c \in Address \ {a} : QueueOf(c)' = QueueOf(c)
  PROVE  AsQueues!Next
  <1> DEFINE queues == [c \in Address |-> QueueOf(c)]
             status == [u \in Thread |-> StatusOf(u)]
  <1>1. /\ queues[a] = QueueOf(a)
        /\ queues' = [queues EXCEPT ![a] = SubSeq(@, n + 1, Len(@))]
        /\ status' = [u \in Thread |-> IF \E i \in 1 .. n : queues[a][i] = u THEN "unparked" ELSE status[u]]
    OBVIOUS
  <1>2. AsQueues!Unpark(a, n)
    BY <1>1 DEF AsQueues!Unpark
  <1>3. status' # status
    <2>1. PICK u \in Thread : u = QueueOf(a)[1]
      OBVIOUS
    <2>2. status'[u] = "unparked" /\ status[u] = "parked"
      <3>1. 1 \in 1 .. n
        OBVIOUS
      <3> QED
        BY <2>1, <3>1
    <2> HIDE DEF status
    <2> QED
      BY <2>2
  <1> QED
    BY <1>1, <1>2, <1>3 DEF AsQueues!Next

\* A sequence is its beginning and its end.
LEMMA SplitAt ==
  ASSUME NEW T, NEW s \in Seq(T), NEW n \in 0 .. Len(s)
  PROVE  LET r == SubSeq(s, n + 1, Len(s))
         IN /\ r \in Seq(T) /\ Len(r) = Len(s) - n
            /\ \A i \in 1 .. Len(r) : r[i] = s[n + i]
            /\ s = SubSeq(s, 1, n) \o r
  <1> DEFINE p == SubSeq(s, 1, n)
             r == SubSeq(s, n + 1, Len(s))
  <1>0. Len(s) \in Nat /\ n \in Nat /\ n <= Len(s)
    OBVIOUS
  <1>1. p \in Seq(T) /\ Len(p) = n /\ \A i \in 1 .. n : p[i] = s[i]
    BY PrefixFacts
  <1>2. r \in Seq(T) /\ Len(r) = Len(s) - n /\ \A i \in 1 .. Len(r) : r[i] = s[n + i] /\ n + i \in 1 .. Len(s)
    BY <1>0
  <1> HIDE DEF p, r
  <1>3. s = p \o r
    <2>1. PICK c : c = p \o r
      OBVIOUS
    <2>2. /\ c \in Seq(T) /\ Len(c) = Len(p) + Len(r)
          /\ \A i \in 1 .. Len(p) + Len(r) : c[i] = IF i <= Len(p) THEN p[i] ELSE r[i - Len(p)]
      BY <1>1, <1>2, <2>1, ConcatProperties
    <2>3. Len(c) = Len(s)
      BY <1>0, <1>1, <1>2, <2>2
    <2>4. ASSUME NEW i \in 1 .. Len(s) PROVE c[i] = s[i]
      <3>1. CASE i <= n
        BY <1>0, <1>1, <1>2, <2>2, <3>1
      <3>2. CASE ~(i <= n)
        <4>1. i - n \in 1 .. Len(r) /\ n + (i - n) = i
          BY <1>0, <1>2, <3>2
        <4>2. c[i] = r[i - n]
          BY <1>0, <1>1, <1>2, <2>2, <3>2
        <4> QED
          BY <1>2, <4>1, <4>2
      <3> QED
        BY <3>1, <3>2
    <2>5. c = s
      BY <2>2, <2>3, <2>4, SeqEqual
    <2> QED
      BY <2>1, <2>5
  <1> QED
    BY <1>2, <1>3 DEF p, r

\* What is left of a sequence without its first elements.
LEMMA OnlyAfter ==
  ASSUME NEW T, NEW s \in Seq(T), IsInjective(s), NEW n \in 0 .. Len(s)
  PROVE  Only(s, T \ ToSet(SubSeq(s, 1, n))) = SubSeq(s, n + 1, Len(s))
  <1> DEFINE p == SubSeq(s, 1, n)
             r == SubSeq(s, n + 1, Len(s))
             S == T \ ToSet(p)
  <1>0. Len(s) \in Nat /\ n \in Nat /\ n <= Len(s)
    OBVIOUS
  <1>1. p \in Seq(T) /\ Len(p) = n /\ \A i \in 1 .. n : p[i] = s[i]
    BY PrefixFacts
  <1>3. r \in Seq(T) /\ Len(r) = Len(s) - n /\ (\A i \in 1 .. Len(r) : r[i] = s[n + i]) /\ s = p \o r
    BY SplitAt
  <1> HIDE DEF p, r
  <1>2. r \in Seq(T) /\ Len(r) = Len(s) - n /\ \A i \in 1 .. Len(r) : r[i] = s[n + i] /\ n + i \in 1 .. Len(s)
    BY <1>0, <1>3
  <1>4. ToSet(p) \cap S = {}
    OBVIOUS
  <1>5. ToSet(r) \subseteq S
    <2> SUFFICES ASSUME NEW x \in ToSet(r) PROVE x \in S
      OBVIOUS
    <2>1. PICK i \in 1 .. Len(r) : r[i] = x
      BY <1>2, Members
    <2>2. x \in T
      BY <1>2, <2>1
    <2>3. x \notin ToSet(p)
      <3> SUFFICES ASSUME x \in ToSet(p) PROVE FALSE
        OBVIOUS
      <3>1. PICK j \in 1 .. Len(p) : p[j] = x
        BY <1>1, Members
      <3>2. s[j] = s[n + i] /\ j \in 1 .. Len(s) /\ n + i \in 1 .. Len(s) /\ j # n + i
        BY <1>0, <1>1, <1>2, <2>1, <3>1
      <3> QED
        BY <3>2 DEF IsInjective
    <2> QED
      BY <2>2, <2>3
  <1> HIDE DEF S
  <1>6. Only(p, S) = <<>> /\ Only(r, S) = r
    BY <1>1, <1>2, <1>4, <1>5, OnlyAllOrNone
  <1>7. Only(p \o r, S) = Only(p, S) \o Only(r, S)
    BY <1>1, <1>2, OnlyConcat
  <1>8. <<>> \o r = r
    BY <1>2
  <1> QED
    BY <1>3, <1>6, <1>7, <1>8 DEF S, p, r

\* What is left of a sequence without one of its elements.
LEMMA OnlyWithout ==
  ASSUME NEW T, NEW s \in Seq(T), IsInjective(s), NEW i \in 1 .. Len(s)
  PROVE  Only(s, T \ {s[i]}) = SubSeq(s, 1, i - 1) \o SubSeq(s, i + 1, Len(s))
  <1> DEFINE p == SubSeq(s, 1, i)
             h == SubSeq(s, 1, i - 1)
             r == SubSeq(s, i + 1, Len(s))
             S == T \ {s[i]}
  <1>0. Len(s) \in Nat /\ i \in Nat \ {0} /\ i <= Len(s) /\ s[i] \in T
    OBVIOUS
  <1>b. p \in Seq(T) /\ Len(p) = i /\ \A j \in 1 .. i : p[j] = s[j]
    BY <1>0, PrefixFacts
  <1>c. h \in Seq(T) /\ Len(h) = i - 1 /\ \A j \in 1 .. i - 1 : h[j] = s[j]
    <2>1. i - 1 \in 0 .. Len(s)
      BY <1>0
    <2> QED
      BY <2>1, PrefixFacts
  <1>d. i \in 0 .. Len(s)
    BY <1>0
  <1>e. /\ r \in Seq(T) /\ Len(r) = Len(s) - i
        /\ \A j \in 1 .. Len(r) : r[j] = s[i + j]
        /\ s = p \o r
    BY <1>d, SplitAt
  <1> HIDE DEF p, h, r
  <1>f. p = Append(h, s[i])
    <2>1. PICK q \in Seq(T) : q = Append(h, s[i])
      <3>1. Append(h, s[i]) \in Seq(T)
        BY <1>0, <1>c, AppendProperties
      <3> QED
        BY <3>1
    <2>2. Len(q) = i /\ \A j \in 1 .. i : q[j] = s[j]
      <3>1. /\ Len(q) = Len(h) + 1 /\ q[Len(h) + 1] = s[i]
            /\ \A j \in 1 .. Len(h) : q[j] = h[j]
        BY <1>0, <1>c, <2>1, AppendProperties
      <3> QED
        BY <1>0, <1>c, <3>1
    <2>3. p = q
      BY <1>b, <2>2, SeqEqual
    <2> QED
      BY <2>1, <2>3
  <1>1. /\ p \in Seq(T) /\ h \in Seq(T) /\ r \in Seq(T) /\ p = Append(h, s[i]) /\ s = p \o r
        /\ Len(h) = i - 1 /\ Len(r) = Len(s) - i
        /\ \A j \in 1 .. Len(h) : h[j] = s[j]
        /\ \A j \in 1 .. Len(r) : r[j] = s[i + j]
    BY <1>b, <1>c, <1>e, <1>f
  <1>2. ASSUME NEW x \in ToSet(h) PROVE x \in S
    <2>1. PICK j \in 1 .. Len(h) : h[j] = x
      BY <1>1, Members
    <2>2. s[j] = x /\ j \in 1 .. Len(s) /\ j # i /\ x \in T
      BY <1>0, <1>1, <2>1
    <2> QED
      BY <2>2 DEF IsInjective
  <1>3. ASSUME NEW x \in ToSet(r) PROVE x \in S
    <2>1. PICK j \in 1 .. Len(r) : r[j] = x
      BY <1>1, Members
    <2>2. s[i + j] = x /\ i + j \in 1 .. Len(s) /\ i + j # i /\ x \in T
      BY <1>0, <1>1, <2>1
    <2> QED
      BY <2>2 DEF IsInjective
  <1>4. s[i] \notin S
    OBVIOUS
  <1> HIDE DEF S
  <1>5. Only(h, S) = h /\ Only(r, S) = r
    BY <1>1, <1>2, <1>3, OnlyAllOrNone
  <1>6. Only(p, S) = h
    BY <1>0, <1>1, <1>4, <1>5, OnlyOne
  <1>a. p \in Seq(T) /\ r \in Seq(T)
    BY <1>1
  <1>7. Only(p \o r, S) = Only(p, S) \o Only(r, S)
    BY <1>a, OnlyConcat
  <1> QED
    BY <1>1, <1>5, <1>6, <1>7 DEF S, h, r

\* A thread gets its data.
LEMMA PlacesCreate ==
  ASSUME IInv, TypeOK', NEW t \in Thread, CreateThreadData(t)
  PROVE  PlacesOK' /\ Stays
  <1>0. TypeOK
    BY DEF IInv
  <1>1. HomesKept
    BY HomesSame DEF CreateThreadData, tableVars
  <1> USE DEF CreateThreadData, Goto, locals, tableVars, threadVars
  <1>2. /\ queue' = queue /\ address' = address /\ token' = token
        /\ targets' = targets /\ didDequeue' = didDequeue
        /\ \A u \in Thread \ {t} : pc'[u] = pc[u] /\ arg'[u] = arg[u] /\ call'[u] = call[u]
    BY <1>0 DEF TypeOK
  <1>3. pc[t] \notin ParkedPC \cup WakePC /\ pc'[t] \notin ParkedPC \cup WakePC
    BY <1>0 DEF TypeOK, ParkedPC, ParkPC, WakePC
  <1> QED
    BY <1>1, <1>2, <1>3, PlacesElsewhere

\* A thread is gone.
LEMMA PlacesDestroy ==
  ASSUME IInv, TypeOK', NEW t \in Thread, DestroyThreadData(t)
  PROVE  PlacesOK' /\ Stays
  <1>0. TypeOK
    BY DEF IInv
  <1>1. HomesKept
    BY HomesSame DEF DestroyThreadData, tableVars
  <1> USE DEF DestroyThreadData, Goto, locals, tableVars, threadVars
  <1>2. /\ queue' = queue /\ address' = address /\ token' = token
        /\ targets' = targets /\ didDequeue' = didDequeue
        /\ \A u \in Thread \ {t} : pc'[u] = pc[u] /\ arg'[u] = arg[u] /\ call'[u] = call[u]
    BY <1>0 DEF TypeOK
  <1>3. pc[t] \notin ParkedPC \cup WakePC /\ pc'[t] \notin ParkedPC \cup WakePC
    BY <1>0 DEF TypeOK, ParkedPC, ParkPC, WakePC
  <1> QED
    BY <1>1, <1>2, <1>3, PlacesElsewhere

\* lockHashtable() fills the current spine and collects its buckets.
LEMMA PlacesCollect ==
  ASSUME IInv, TypeOK', NEW t \in Thread, CollectBuckets(t)
  PROVE  PlacesOK' /\ Stays
  <1>0. TypeOK
    BY DEF IInv
  <1>1. HomesKept
    BY TablesCollect
  <1> USE DEF CollectBuckets, Goto, locals, tableVars, threadVars
  <1>2. /\ queue' = queue /\ address' = address /\ token' = token
        /\ targets' = targets /\ didDequeue' = didDequeue
        /\ \A u \in Thread \ {t} : pc'[u] = pc[u] /\ arg'[u] = arg[u] /\ call'[u] = call[u]
    BY <1>0 DEF TypeOK
  <1>3. pc[t] \notin ParkedPC \cup WakePC /\ pc'[t] \notin ParkedPC \cup WakePC
    BY <1>0 DEF TypeOK, ParkedPC, ParkPC, WakePC
  <1> QED
    BY <1>1, <1>2, <1>3, PlacesElsewhere

\* The next bucket is locked.
LEMMA PlacesLockNext ==
  ASSUME IInv, TypeOK', NEW t \in Thread, LockNextBucket(t)
  PROVE  PlacesOK' /\ Stays
  <1>0. TypeOK
    BY DEF IInv
  <1>1. HomesKept
    BY HomesSame DEF LockNextBucket, tableVars
  <1> USE DEF LockNextBucket, Goto, locals, tableVars, threadVars
  <1>2. /\ queue' = queue /\ address' = address /\ token' = token
        /\ targets' = targets /\ didDequeue' = didDequeue
        /\ \A u \in Thread \ {t} : pc'[u] = pc[u] /\ arg'[u] = arg[u] /\ call'[u] = call[u]
    BY <1>0 DEF TypeOK
  <1>3. pc[t] \notin ParkedPC \cup WakePC /\ pc'[t] \notin ParkedPC \cup WakePC
    BY <1>0 DEF TypeOK, ParkedPC, ParkPC, WakePC
  <1> QED
    BY <1>1, <1>2, <1>3, PlacesElsewhere

\* The thread that has locked everything looks at what it locked.
LEMMA PlacesCheck ==
  ASSUME IInv, TypeOK', NEW t \in Thread, CheckHashtable(t)
  PROVE  PlacesOK' /\ Stays
  <1>0. TypeOK
    BY DEF IInv
  <1>1. HomesKept
    BY HomesSame DEF CheckHashtable, tableVars
  <1> USE DEF CheckHashtable, Goto, locals, tableVars, threadVars
  <1>2. /\ queue' = queue /\ address' = address /\ token' = token
        /\ targets' = targets /\ didDequeue' = didDequeue
        /\ \A u \in Thread \ {t} : pc'[u] = pc[u] /\ arg'[u] = arg[u] /\ call'[u] = call[u]
    BY <1>0 DEF TypeOK
  <1>3. pc[t] \notin ParkedPC \cup WakePC /\ pc'[t] \notin ParkedPC \cup WakePC
    BY <1>0 DEF TypeOK, ParkedPC, ParkPC, WakePC
  <1> QED
    BY <1>1, <1>2, <1>3, PlacesElsewhere

\* Somebody else rehashed.
LEMMA PlacesUnlockRetry ==
  ASSUME IInv, TypeOK', NEW t \in Thread, UnlockAndRetry(t)
  PROVE  PlacesOK' /\ Stays
  <1>0. TypeOK
    BY DEF IInv
  <1>1. HomesKept
    BY HomesSame DEF UnlockAndRetry, tableVars
  <1> USE DEF UnlockAndRetry, Goto, locals, tableVars, threadVars
  <1>2. /\ queue' = queue /\ address' = address /\ token' = token
        /\ targets' = targets /\ didDequeue' = didDequeue
        /\ \A u \in Thread \ {t} : pc'[u] = pc[u] /\ arg'[u] = arg[u] /\ call'[u] = call[u]
    BY <1>0 DEF TypeOK
  <1>3. pc[t] \notin ParkedPC \cup WakePC /\ pc'[t] \notin ParkedPC \cup WakePC
    BY <1>0 DEF TypeOK, ParkedPC, ParkPC, WakePC
  <1> QED
    BY <1>1, <1>2, <1>3, PlacesElsewhere

\* A call of parkConditionally().
LEMMA PlacesParkConditionally ==
  ASSUME IInv, TypeOK', NEW t \in Thread, NEW a \in Address, ParkConditionally(t, a)
  PROVE  PlacesOK' /\ Stays
  <1>0. TypeOK
    BY DEF IInv
  <1>1. HomesKept
    BY HomesSame DEF ParkConditionally, tableVars
  <1> USE DEF ParkConditionally, Goto, locals, tableVars, threadVars
  <1>2. /\ queue' = queue /\ address' = address /\ token' = token
        /\ targets' = targets /\ didDequeue' = didDequeue
        /\ \A u \in Thread \ {t} : pc'[u] = pc[u] /\ arg'[u] = arg[u] /\ call'[u] = call[u]
    BY <1>0 DEF TypeOK
  <1>3. pc[t] \notin ParkedPC \cup WakePC /\ pc'[t] \notin ParkedPC \cup WakePC
    BY <1>0 DEF TypeOK, ParkedPC, ParkPC, WakePC
  <1> QED
    BY <1>1, <1>2, <1>3, PlacesElsewhere

\* The hashtable was rehashed under the thread.
LEMMA PlacesRetryEnqueue ==
  ASSUME IInv, TypeOK', NEW t \in Thread, Retry(t, "enqueue", "locate")
  PROVE  PlacesOK' /\ Stays
  <1>0. TypeOK
    BY DEF IInv
  <1>1. HomesKept
    BY HomesSame DEF Retry, tableVars
  <1> USE DEF Retry, Goto, locals, tableVars, threadVars
  <1>2. /\ queue' = queue /\ address' = address /\ token' = token
        /\ targets' = targets /\ didDequeue' = didDequeue
        /\ \A u \in Thread \ {t} : pc'[u] = pc[u] /\ arg'[u] = arg[u] /\ call'[u] = call[u]
    BY <1>0 DEF TypeOK
  <1>3. pc[t] \notin ParkedPC \cup WakePC /\ pc'[t] \notin ParkedPC \cup WakePC
    BY <1>0 DEF TypeOK, ParkedPC, ParkPC, WakePC
  <1> QED
    BY <1>1, <1>2, <1>3, PlacesElsewhere

\* The hashtable was rehashed under the unparker.
LEMMA PlacesRetryDequeue ==
  ASSUME IInv, TypeOK', NEW t \in Thread, Retry(t, "dequeue", "unpark")
  PROVE  PlacesOK' /\ Stays
  <1>0. TypeOK
    BY DEF IInv
  <1>1. HomesKept
    BY HomesSame DEF Retry, tableVars
  <1> USE DEF Retry, Goto, locals, tableVars, threadVars
  <1>2. /\ queue' = queue /\ address' = address /\ token' = token
        /\ targets' = targets /\ didDequeue' = didDequeue
        /\ \A u \in Thread \ {t} : pc'[u] = pc[u] /\ arg'[u] = arg[u] /\ call'[u] = call[u]
    BY <1>0 DEF TypeOK
  <1>3. pc[t] \notin ParkedPC \cup WakePC /\ pc'[t] \notin ParkedPC \cup WakePC
    BY <1>0 DEF TypeOK, ParkedPC, ParkPC, WakePC
  <1> QED
    BY <1>1, <1>2, <1>3, PlacesElsewhere

\* A call of an unpark.
LEMMA PlacesUnpark ==
  ASSUME IInv, TypeOK', NEW t \in Thread, NEW a \in Address, NEW c \in Calls[a], Unpark(t, a, c)
  PROVE  PlacesOK' /\ Stays
  <1>0. TypeOK
    BY DEF IInv
  <1>1. HomesKept
    BY HomesSame DEF Unpark, tableVars
  <1> USE DEF Unpark, Goto, locals, tableVars, threadVars
  <1>2. /\ queue' = queue /\ address' = address /\ token' = token
        /\ targets' = targets /\ didDequeue' = didDequeue
        /\ \A u \in Thread \ {t} : pc'[u] = pc[u] /\ arg'[u] = arg[u] /\ call'[u] = call[u]
    BY <1>0 DEF TypeOK
  <1>3. pc[t] \notin ParkedPC \cup WakePC /\ pc'[t] \notin ParkedPC \cup WakePC
    BY <1>0 DEF TypeOK, ParkedPC, ParkPC, WakePC
  <1> QED
    BY <1>1, <1>2, <1>3, PlacesElsewhere

\* The validation said no.
LEMMA PlacesRefuse ==
  ASSUME IInv, TypeOK', NEW t \in Thread, Refuse(t)
  PROVE  PlacesOK' /\ Stays
  <1>1. /\ pc[t] = "enqueue" /\ Return(t) /\ hashtables' = hashtables
        /\ queue' = queue /\ address' = address /\ token' = token
    BY DEF Refuse, tableVars, threadVars
  <1>2. pc[t] \notin ParkedPC \cup WakePC
    BY <1>1 DEF ParkedPC, ParkPC, WakePC
  <1> QED
    BY <1>1, <1>2, HomesSame, PlacesReturn

\* The end of ensureHashtableSize().
LEMMA PlacesUnlock ==
  ASSUME IInv, TypeOK', NEW t \in Thread, UnlockHashtable(t)
  PROVE  PlacesOK' /\ Stays
  <1>1. /\ pc[t] = "unlockHashtable" /\ Return(t) /\ hashtables' = hashtables
        /\ queue' = queue /\ address' = address /\ token' = token
    BY DEF UnlockHashtable, threadVars
  <1>2. pc[t] \notin ParkedPC \cup WakePC
    BY <1>1 DEF ParkedPC, ParkPC, WakePC
  <1> QED
    BY <1>1, <1>2, HomesSame, PlacesReturn

\* The fast check of the size.
LEMMA PlacesSizeCheck ==
  ASSUME IInv, TypeOK', NEW t \in Thread, FastSizeCheck(t)
  PROVE  PlacesOK' /\ Stays
  <1>0. TypeOK
    BY DEF IInv
  <1>1. /\ pc[t] = "ensureSize" /\ hashtables' = hashtables
        /\ queue' = queue /\ address' = address /\ token' = token
        /\ Return(t) \/ (Goto(t, "lockHashtable") /\ UNCHANGED locals)
    BY DEF FastSizeCheck, tableVars, threadVars
  <1>2. pc[t] \notin ParkedPC \cup WakePC /\ "lockHashtable" \notin ParkedPC \cup WakePC
    BY <1>1 DEF ParkedPC, ParkPC, WakePC
  <1>3. HomesKept
    BY <1>1, HomesSame
  <1>4. CASE Return(t)
    BY <1>1, <1>2, <1>3, <1>4, PlacesReturn
  <1>5. CASE Goto(t, "lockHashtable") /\ UNCHANGED locals
    <2>1. /\ targets' = targets /\ didDequeue' = didDequeue /\ pc'[t] = "lockHashtable"
          /\ \A u \in Thread \ {t} : pc'[u] = pc[u] /\ arg'[u] = arg[u] /\ call'[u] = call[u]
      BY <1>0, <1>5 DEF TypeOK, Goto, locals
    <2> QED
      BY <1>1, <1>2, <1>3, <2>1, PlacesElsewhere
  <1> QED
    BY <1>1, <1>4, <1>5

\* parkConditionallyImpl() looks for its bucket.
LEMMA PlacesLocateBucket ==
  ASSUME IInv, TypeOK', NEW t \in Thread, LocateBucket(t)
  PROVE  PlacesOK' /\ Stays
  <1>0. TypeOK /\ pc[t] = "locate" /\ Locate(t, "enqueue") /\ HomesKept
    BY TablesLocateBucket DEF IInv, LocateBucket
  <1>1. /\ queue' = queue /\ address' = address /\ token' = token
        /\ targets' = targets /\ didDequeue' = didDequeue
        /\ \A u \in Thread \ {t} : pc'[u] = pc[u] /\ arg'[u] = arg[u] /\ call'[u] = call[u]
        /\ pc'[t] = "enqueue"
    BY <1>0, LocateKeeps
  <1>2. pc[t] \notin ParkedPC \cup WakePC /\ pc'[t] \notin ParkedPC \cup WakePC
    BY <1>0, <1>1 DEF ParkedPC, ParkPC, WakePC
  <1> QED
    BY <1>0, <1>1, <1>2, PlacesElsewhere

\* An unpark looks for its bucket.
LEMMA PlacesLocateTargets ==
  ASSUME IInv, TypeOK', NEW t \in Thread, LocateTargets(t)
  PROVE  PlacesOK' /\ Stays
  <1>0. TypeOK /\ pc[t] = "unpark" /\ HomesKept
    BY TablesLocateTargets DEF IInv, LocateTargets
  <1>1. pc[t] \notin ParkedPC \cup WakePC
    BY <1>0 DEF ParkedPC, ParkPC, WakePC
  <1>2. CASE Locate(t, "dequeue")
    <2>1. /\ queue' = queue /\ address' = address /\ token' = token
          /\ targets' = targets /\ didDequeue' = didDequeue
          /\ \A u \in Thread \ {t} : pc'[u] = pc[u] /\ arg'[u] = arg[u] /\ call'[u] = call[u]
          /\ pc'[t] = "dequeue"
      BY <1>0, <1>2, LocateKeeps
    <2>2. pc'[t] \notin ParkedPC \cup WakePC
      BY <2>1 DEF ParkedPC, ParkPC, WakePC
    <2> QED
      BY <1>0, <1>1, <2>1, <2>2, PlacesElsewhere
  <1>3. CASE Return(t) /\ UNCHANGED <<queue, threadVars>>
    <2>1. queue' = queue /\ address' = address /\ token' = token
      BY <1>3 DEF threadVars
    <2> QED
      BY <1>0, <1>1, <1>3, <2>1, PlacesReturn
  <1> QED
    BY <1>2, <1>3 DEF LocateTargets

\* The timeout is reached.
LEMMA PlacesTimeOut ==
  ASSUME IInv, TypeOK', NEW t \in Thread, TimeOut(t)
  PROVE  PlacesOK' /\ Stays
  <1>0. TypeOK /\ AddressOK(t)
    BY DEF IInv, PlacesOK
  <1>1. HomesKept
    BY HomesSame DEF TimeOut, tableVars
  <1>2. Quiet(t)
    BY <1>0 DEF TimeOut, Goto, tableVars, threadVars, locals, TypeOK, AddressOK, Quiet, ParkedPC, ParkPC, WakePC
  <1> QED
    BY <1>1, <1>2, PlacesQuiet

\* The hashtable was rehashed under a thread that timed out.
LEMMA PlacesRetryRemove ==
  ASSUME IInv, TypeOK', NEW t \in Thread, Retry(t, "removeSelf", "timedOut")
  PROVE  PlacesOK' /\ Stays
  <1>0. TypeOK /\ AddressOK(t)
    BY DEF IInv, PlacesOK
  <1>1. HomesKept
    BY HomesSame DEF Retry, tableVars
  <1>2. Quiet(t)
    BY <1>0 DEF Retry, Goto, tableVars, threadVars, locals, TypeOK, AddressOK, Quiet, ParkedPC, ParkPC, WakePC
  <1> QED
    BY <1>1, <1>2, PlacesQuiet

\* A wait returns without a signal.
LEMMA PlacesStopWaiting ==
  ASSUME IInv, TypeOK', NEW t \in Thread, StopWaiting(t)
  PROVE  PlacesOK' /\ Stays
  <1>0. TypeOK /\ PlacesOK /\ AddressOK(t)
    BY DEF IInv, PlacesOK
  <1>1. HomesKept
    BY HomesSame DEF StopWaiting, tableVars
  <1>2. \/ pc[t] = "asleep" /\ pc'[t] = "park"
        \/ pc[t] = "asleepFinish" /\ pc'[t] = "finish"
    BY <1>0 DEF StopWaiting, Goto, Awoken, TypeOK
  <1>3. pc'[t] = "finish" => \A b \in Bucket : t \notin QueuedAt(b)
    BY <1>0, <1>2 DEF PlacesOK, QueueOK
  <1>4. Quiet(t)
    BY <1>0, <1>2, <1>3 DEF StopWaiting, Goto, tableVars, threadVars, locals, TypeOK, AddressOK, Quiet, ParkedPC, ParkPC, WakePC
  <1> QED
    BY <1>1, <1>4, PlacesQuiet

\* A thread that timed out looks for its own bucket: no bucket, no queue.
LEMMA PlacesLocateSelf ==
  ASSUME IInv, TypeOK', NEW t \in Thread, LocateSelf(t)
  PROVE  PlacesOK' /\ Stays
  <1>0. TypeOK /\ TablesOK /\ PlacesOK /\ AddressOK(t) /\ pc[t] = "timedOut" /\ HomesKept
    BY TablesLocateSelf DEF IInv, PlacesOK, LocateSelf
  <1>1. ~didDequeue[t]
    BY <1>0 DEF AddressOK
  <1>2. CASE Locate(t, "removeSelf")
    <2>1. /\ queue' = queue /\ address' = address /\ token' = token
          /\ targets' = targets /\ didDequeue' = didDequeue
          /\ \A u \in Thread \ {t} : pc'[u] = pc[u] /\ arg'[u] = arg[u] /\ call'[u] = call[u]
          /\ pc'[t] = "removeSelf" /\ arg' = arg
      BY <1>0, <1>2, LocateKeeps
    <2>2. Quiet(t)
      BY <1>0, <1>1, <2>1 DEF Quiet, ParkedPC, ParkPC, WakePC
    <2> QED
      BY <1>0, <2>2, PlacesQuiet
  <1>3. CASE NoBucket(t) /\ Goto(t, "finish") /\ UNCHANGED <<tableVars, queue, threadVars, locals>>
    <2>1. ASSUME NEW b \in Bucket, t \in QueuedAt(b) PROVE FALSE
      <3>1. address[t] # Nil /\ HomeOf(address[t]) = b
        BY <1>0, <2>1 DEF PlacesOK, QueueOK
      <3>2. address[t] = arg[t]
        BY <1>0, <3>1 DEF AddressOK
      <3>3. hashtables # <<>> => HomeOf(arg[t]) = Nil
        BY <1>0, <1>3, EnsuredFacts DEF NoBucket, HomeOf
      <3>4. HomeOf(arg[t]) = Nil
        BY <3>3 DEF HomeOf
      <3> QED
        BY <3>1, <3>2, <3>4, NilAssumption
    <2>2. Quiet(t)
      BY <1>0, <1>1, <1>3, <2>1 DEF Goto, tableVars, threadVars, locals, TypeOK, Quiet, ParkedPC, ParkPC, WakePC
    <2> QED
      BY <1>0, <2>2, PlacesQuiet
  <1> QED
    BY <1>2, <1>3 DEF LocateSelf

\* A queued thread has an address, whose bucket it is in, and nobody has taken it.
LEMMA QueuedFacts ==
  ASSUME TypeOK, PlacesOK, NEW b \in Bucket, NEW u \in QueuedAt(b)
  PROVE  /\ u \in Thread /\ address[u] \in Address /\ HomeOf(address[u]) = b
         /\ pc[u] \in ParkedPC /\ pc[u] \notin {"finish", "asleepFinish"} /\ arg[u] = address[u]
         /\ ~didDequeue[u] /\ token[u] = 0
         /\ \A v \in Thread : u \notin ToClear(v)
         /\ \A c \in Bucket : u \in QueuedAt(c) => c = b
  <1>1. u \in Thread
    BY DEF QueuedAt, ToSet, TypeOK
  <1>2. address[u] # Nil /\ HomeOf(address[u]) = b /\ pc[u] \notin {"finish", "asleepFinish"}
    BY DEF PlacesOK, QueueOK
  <1>3. address[u] \in Address
    BY <1>1, <1>2 DEF TypeOK
  <1>4. pc[u] \in ParkedPC /\ arg[u] = address[u] /\ ~didDequeue[u]
    BY <1>1, <1>2 DEF PlacesOK, AddressOK
  <1>5. \A v \in Thread : u \notin ToClear(v)
    BY DEF PlacesOK, TargetsOK
  <1>6. token[u] = 0
    BY <1>1, <1>2, <1>5 DEF PlacesOK, WokenOK
  <1>7. \A c \in Bucket : u \in QueuedAt(c) => c = b
    BY <1>2 DEF PlacesOK, QueueOK
  <1> QED
    BY <1>1, <1>2, <1>3, <1>4, <1>5, <1>6, <1>7

\* The bucket that a thread has found is still that of its address.
LEMMA MyBucketHome ==
  ASSUME TypeOK, NEW t \in Thread, TableOK(t), pc[t] \in BucketPC, Current(t)
  PROVE  myBucket[t] \in Bucket /\ arg[t] \in Address /\ HomeOf(arg[t]) = myBucket[t]
  <1>1. /\ arg[t] \in Address /\ myTable[t] \in 1 .. hashtable /\ myBucket[t] # Nil
        /\ myBucket[t] = hashtables[myTable[t]][Index(arg[t], Size(myTable[t]))] /\ myTable[t] = hashtable
    BY DEF TableOK, BucketPC, Current, ParkPC
  <1>2. myBucket[t] \in Bucket
    BY <1>1 DEF TypeOK
  <1>3. hashtables # <<>>
    BY <1>1 DEF TypeOK, hashtable
  <1> QED
    BY <1>1, <1>2, <1>3 DEF HomeOf, Spine, Slot, hashtable, Size

\* A rehash moves the queued threads and nobody else.
LEMMA PlacesRehash ==
  ASSUME IInv, NEW t \in Thread, Rehash(t)
  PROVE  PlacesOK' /\ Stays
  <1>0. TypeOK /\ PlacesOK /\ pc[t] = "rehash"
    BY DEF IInv, Rehash
  <1>1. Goto(t, "unlockHashtable") /\ UNCHANGED <<lock, numThreads, alive, threadVars, locals>>
    BY DEF Rehash
  <1>2. /\ \A u \in Thread \ {t} : pc'[u] = pc[u]
        /\ pc'[t] = "unlockHashtable" /\ UNCHANGED <<address, token, targets, didDequeue, arg, call>>
    BY <1>0, <1>1 DEF TypeOK, Goto, threadVars, locals
  <1>3. pc[t] \notin ParkedPC \cup WakePC /\ pc'[t] \notin ParkedPC \cup WakePC
    BY <1>0, <1>2 DEF ParkedPC, ParkPC, WakePC
  <1>4. /\ hashtables' \in Seq(Spines) /\ hashtables' # <<>>
        /\ \A b \in Bucket : IsInjective(queue'[b])
        /\ \A b \in Bucket : \A u :
              u \in ToSet(queue'[b]) <=> /\ \E c \in Bucket : u \in QueuedAt(c)
                                         /\ HomeOf(address[u])' = b
        /\ \A a \in Address : HomeOf(a)' = Nil =>
              \A u \in OnAddress(a) : \A b \in Bucket : u \notin QueuedAt(b)
    BY RehashFacts
  <1>5. \A a \in Address : HomeOf(a)' \in Bucket \cup {Nil}
    BY <1>4, HomeType
  <1>6. \A u : (\E b \in Bucket : u \in QueuedAt(b)') <=> \E b \in Bucket : u \in QueuedAt(b)
    <2>1. ASSUME NEW u, NEW b \in Bucket, u \in QueuedAt(b) PROVE \E c \in Bucket : u \in QueuedAt(c)'
      <3>1. u \in Thread /\ address[u] \in Address
        BY <1>0, <2>1, QueuedFacts
      <3>2. PICK a \in Address : a = address[u] /\ a = address'[u]
        BY <1>2, <3>1
      <3>3. HomeOf(a)' # Nil
        BY <1>4, <2>1, <3>1, <3>2 DEF OnAddress
      <3>4. HomeOf(a)' \in Bucket
        BY <1>5, <3>3
      <3>5. HomeOf(address[u])' = HomeOf(a)'
        BY <3>2
      <3> QED
        BY <1>4, <2>1, <3>4, <3>5 DEF QueuedAt
    <2>2. ASSUME NEW u, NEW b \in Bucket, u \in QueuedAt(b)' PROVE \E c \in Bucket : u \in QueuedAt(c)
      BY <1>4, <2>2 DEF QueuedAt
    <2> QED
      BY <2>1, <2>2
  <1>7. \A u \in Thread : ToClear(u)' = ToClear(u)
    BY <1>2, <1>3, ClearSame DEF WakePC
  <1>8. ASSUME NEW b \in Bucket PROVE QueueOK(b)'
    <2>1. ASSUME NEW u \in ToSet(queue'[b])
          PROVE  address'[u] # Nil /\ HomeOf(address[u])' = b /\ pc'[u] \notin {"finish", "asleepFinish"}
      <3>1. HomeOf(address[u])' = b
        BY <1>4
      <3>2. PICK c \in Bucket : u \in QueuedAt(c)
        BY <1>4
      <3>3. u \in Thread /\ address[u] \in Address /\ pc[u] \notin {"finish", "asleepFinish"}
        BY <1>0, <3>2, QueuedFacts
      <3>4. pc'[u] \notin {"finish", "asleepFinish"}
        BY <1>2, <3>3
      <3> QED
        BY <1>2, <3>1, <3>3, <3>4, NilAssumption
    <2> QED
      BY <1>4, <2>1 DEF QueueOK, QueuedAt
  <1>9. ASSUME NEW u \in Thread PROVE AddressOK(u)' /\ TargetsOK(u)' /\ WokenOK(u)'
    <2>0. AddressOK(u) /\ TargetsOK(u) /\ WokenOK(u)
      BY <1>0 DEF PlacesOK
    <2>1. pc'[u] \in ParkedPC <=> pc[u] \in ParkedPC
      BY <1>2, <1>3
    <2>2. pc'[u] = pc[u] \/ (pc[u] \notin ParkedPC /\ pc'[u] \notin ParkedPC)
      BY <1>2, <1>3
    <2>3. AddressOK(u)'
      BY <1>2, <1>6, <1>7, <2>0, <2>1, <2>2 DEF AddressOK, ParkedPC, ParkPC
    <2>4. pc'[u] \in WakePC <=> pc[u] \in WakePC
      BY <1>2, <1>3
    <2>5. TargetsOK(u)'
      BY <1>2, <1>6, <1>7, <2>0, <2>4 DEF TargetsOK
    <2>6. \A v \in Thread : pc[v] = "signal" <=> pc'[v] = "signal"
      BY <1>2, <1>3 DEF WakePC
    <2>7. WokenOK(u)'
      BY <1>2, <1>7, <2>0, <2>1, <2>2, <2>6 DEF WokenOK, ParkedPC, ParkPC
    <2> QED
      BY <2>3, <2>5, <2>7
  <1>10. ASSUME NEW a \in Address PROVE QueueOf(a)' = QueueOf(a)
    <2>0. OnAddress(a)' = OnAddress(a)
      BY <1>2 DEF OnAddress
    <2>1. PICK b, c : b = HomeOf(a) /\ c = HomeOf(a)'
      OBVIOUS
    <2>2. c \in Bucket \cup {Nil} /\ queue' \in [Bucket -> Seq(Thread)]
      BY <1>5, <2>1, RehashFacts
    <2>3. CASE b # Nil /\ c # Nil
      <3>1. Only(queue'[c], OnAddress(a)) = Only(queue[b], OnAddress(a))
        BY <2>1, <2>3, RehashFacts
      <3> QED
        BY <2>0, <2>1, <2>3, <3>1 DEF QueueOf
    <2>4. CASE b = Nil \/ c = Nil
      <3>1. \A u \in OnAddress(a) : \A d \in Bucket : u \notin QueuedAt(d)
        BY <2>1, <2>4, RehashFacts
      <3>2. QueueOf(a) = <<>>
        <4>1. CASE b = Nil
          BY <2>1, <4>1 DEF QueueOf
        <4>2. CASE b # Nil
          <5>1. b \in Bucket
            BY <1>0, <2>1, <4>2, HomeNow
          <5>2. queue[b] \in Seq(Thread) /\ ToSet(queue[b]) \cap OnAddress(a) = {}
            BY <1>0, <3>1, <5>1 DEF TypeOK, QueuedAt
          <5>3. Only(queue[b], OnAddress(a)) = <<>>
            BY <5>2, OnlyAllOrNone
          <5> QED
            BY <2>1, <4>2, <5>3 DEF QueueOf
        <4> QED
          BY <4>1, <4>2
      <3>3. QueueOf(a)' = <<>>
        <4>1. CASE c = Nil
          BY <2>1, <4>1 DEF QueueOf
        <4>2. CASE c # Nil
          <5>1. c \in Bucket /\ queue'[c] \in Seq(Thread)
            BY <2>2, <4>2
          <5>2. ToSet(queue'[c]) \cap OnAddress(a) = {}
            BY <1>4, <3>1, <5>1
          <5>3. Only(queue'[c], OnAddress(a)) = <<>>
            BY <5>1, <5>2, OnlyAllOrNone
          <5> QED
            BY <2>0, <2>1, <4>2, <5>3 DEF QueueOf
        <4> QED
          BY <4>1, <4>2
      <3> QED
        BY <3>2, <3>3
    <2> QED
      BY <2>3, <2>4
  <1>11. ASSUME NEW u \in Thread PROVE StatusOf(u)' = StatusOf(u)
    <2>1. pc'[u] \in ParkedPC <=> pc[u] \in ParkedPC
      BY <1>2, <1>3
    <2> QED
      BY <1>2, <1>6, <2>1 DEF StatusOf, ParkedPC
  <1> QED
    BY <1>8, <1>9, <1>10, <1>11 DEF PlacesOK, Stays

\* A thread gets an address and goes to the end of its queue.
LEMMA PlacesEnqueue ==
  ASSUME IInv, NEW t \in Thread, Enqueue(t)
  PROVE  PlacesOK' /\ AsQueues!Next
  <1>0. TypeOK /\ PlacesOK /\ TableOK(t) /\ pc[t] = "enqueue" /\ Current(t)
    BY DEF IInv, TablesOK, Enqueue
  <1>1. PICK b \in Bucket, a \in Address : b = myBucket[t] /\ a = arg[t] /\ HomeOf(a) = b
    BY <1>0, MyBucketHome DEF BucketPC
  <1>2. /\ address' = [address EXCEPT ![t] = a]
        /\ queue' = [queue EXCEPT ![b] = Append(queue[b], t)]
        /\ pc' = [pc EXCEPT ![t] = "park"]
        /\ UNCHANGED <<hashtables, token, targets, didDequeue, arg, call>>
    BY <1>1 DEF Enqueue, Goto, locals, tableVars
  <1>3. /\ address[t] = Nil /\ ~didDequeue[t] /\ token[t] = 0
        /\ \A c \in Bucket : t \notin QueuedAt(c)
        /\ \A u \in Thread : t \notin ToClear(u)
    BY <1>0, NotParked DEF ParkedPC
  <1>4. /\ \A u \in Thread \ {t} : pc'[u] = pc[u] /\ address'[u] = address[u]
        /\ pc'[t] = "park" /\ address'[t] = a /\ a # Nil
        /\ queue'[b] = Append(queue[b], t) /\ queue[b] \in Seq(Thread)
        /\ \A c \in Bucket : c # b => queue'[c] = queue[c]
    BY <1>0, <1>2, NilAssumption DEF TypeOK
  <1>5. /\ QueuedAt(b)' = QueuedAt(b) \cup {t} /\ IsInjective(queue'[b])
        /\ \A c \in Bucket : c # b => QueuedAt(c)' = QueuedAt(c) /\ IsInjective(queue'[c])
    <2>1. IsInjective(queue[b]) /\ t \notin ToSet(queue[b])
      BY <1>0, <1>3 DEF PlacesOK, QueueOK, QueuedAt
    <2>2. ToSet(Append(queue[b], t)) = ToSet(queue[b]) \cup {t} /\ IsInjective(Append(queue[b], t))
      BY <1>4, <2>1, Members
    <2>3. \A c \in Bucket : IsInjective(queue[c])
      BY <1>0 DEF PlacesOK, QueueOK
    <2> QED
      BY <1>4, <2>2, <2>3 DEF QueuedAt
  <1>6. \A u \in Thread : ToClear(u)' = ToClear(u)
    BY <1>0, <1>2, <1>4, ClearSame
  <1>7. \A c \in Address : HomeOf(c)' = HomeOf(c)
    BY <1>2 DEF HomeOf, Slot, Spine
  <1>8. ASSUME NEW c \in Bucket PROVE QueueOK(c)'
    <2>1. ASSUME NEW u \in QueuedAt(c)'
          PROVE  address'[u] # Nil /\ HomeOf(address[u])' = c /\ pc'[u] \notin {"finish", "asleepFinish"}
      <3>1. CASE u = t
        <4>1. c = b
          BY <1>3, <1>5, <2>1, <3>1
        <4>2. HomeOf(address[u])' = HomeOf(a)'
          BY <1>4, <3>1
        <4> QED
          BY <1>1, <1>4, <1>7, <3>1, <4>1, <4>2
      <3>2. CASE u # t
        <4>1. u \in QueuedAt(c)
          BY <1>5, <2>1, <3>2
        <4>2. u \in Thread /\ address[u] \in Address /\ HomeOf(address[u]) = c /\ pc[u] \notin {"finish", "asleepFinish"}
          BY <1>0, <4>1, QueuedFacts
        <4>3. PICK d \in Address : d = address[u] /\ d = address'[u]
          BY <1>4, <3>2, <4>2
        <4>4. HomeOf(address[u])' = HomeOf(d)'
          BY <4>3
        <4> QED
          BY <1>4, <1>7, <3>2, <4>2, <4>3, <4>4, NilAssumption
      <3> QED
        BY <3>1, <3>2
    <2> QED
      BY <1>5, <2>1 DEF QueueOK
  <1>9. ASSUME NEW u \in Thread PROVE AddressOK(u)' /\ TargetsOK(u)' /\ WokenOK(u)'
    <2>0. AddressOK(u) /\ TargetsOK(u) /\ WokenOK(u)
      BY <1>0 DEF PlacesOK
    <2>1. AddressOK(u)'
      <3>1. CASE u = t
        <4>1. t \in QueuedAt(b)'
          BY <1>5
        <4> QED
          BY <1>1, <1>2, <1>3, <1>4, <3>1, <4>1 DEF AddressOK, ParkedPC, ParkPC
      <3>2. CASE u # t
        <4>1. \A c \in Bucket : u \in QueuedAt(c)' <=> u \in QueuedAt(c)
          BY <1>5, <3>2
        <4> QED
          BY <1>2, <1>4, <1>6, <2>0, <3>2, <4>1 DEF AddressOK
      <3> QED
        BY <3>1, <3>2
    <2>2. TargetsOK(u)'
      <3>1. pc'[u] \in WakePC <=> pc[u] \in WakePC
        BY <1>0, <1>4 DEF WakePC
      <3>2. ASSUME NEW v \in ToClear(u)
            PROVE  /\ address'[v] # Nil /\ ~didDequeue'[v]
                   /\ \A c \in Bucket : v \notin QueuedAt(c)'
                   /\ \A w \in Thread : v \in ToClear(w)' => w = u
                   /\ token'[v] = IF call'[u].kind = "callback" THEN 1 ELSE 0
        <4>1. v # t
          BY <1>3
        <4>2. /\ address[v] # Nil /\ ~didDequeue[v]
              /\ \A c \in Bucket : v \notin QueuedAt(c)
              /\ \A w \in Thread : v \in ToClear(w) => w = u
              /\ token[v] = IF call[u].kind = "callback" THEN 1 ELSE 0
          BY <2>0 DEF TargetsOK
        <4>3. address'[v] = address[v]
          BY <1>0, <1>2, <4>1 DEF TypeOK
        <4> QED
          BY <1>2, <1>5, <1>6, <4>1, <4>2, <4>3
      <3> QED
        BY <1>2, <1>6, <2>0, <3>1, <3>2 DEF TargetsOK
    <2>3. WokenOK(u)'
      <3>1. \A v \in Thread : pc[v] = "signal" <=> pc'[v] = "signal"
        BY <1>0, <1>4
      <3>2. CASE u = t
        BY <1>2, <1>3, <1>4, <3>2 DEF WokenOK
      <3>3. CASE u # t
        BY <1>2, <1>4, <1>6, <2>0, <3>1, <3>3 DEF WokenOK
      <3> QED
        BY <3>2, <3>3
    <2> QED
      BY <2>1, <2>2, <2>3
  <1>10. ASSUME NEW u \in Thread \ {t} PROVE StatusOf(u)' = StatusOf(u)
    <2>1. \A c \in Bucket : u \in QueuedAt(c)' <=> u \in QueuedAt(c)
      BY <1>5
    <2>2. pc'[u] = pc[u] /\ didDequeue'[u] = didDequeue[u]
      BY <1>2, <1>4
    <2> QED
      BY <2>1, <2>2 DEF StatusOf
  <1>11. StatusOf(t) = "running" /\ StatusOf(t)' = "parked"
    <2>1. t \in QueuedAt(b)'
      BY <1>5
    <2> QED
      BY <1>0, <1>3, <2>1 DEF StatusOf
  <1>12. QueueOf(a)' = Append(QueueOf(a), t)
    <2>1. OnAddress(a)' = OnAddress(a) \cup {t}
      BY <1>4 DEF OnAddress
    <2>2. t \notin ToSet(queue[b])
      BY <1>3 DEF QueuedAt
    <2>3. ToSet(queue[b]) \cap (OnAddress(a) \cup {t}) = ToSet(queue[b]) \cap OnAddress(a)
      BY <2>2
    <2>4. Only(queue[b], OnAddress(a) \cup {t}) = Only(queue[b], OnAddress(a))
      BY <1>4, <2>3, OnlySame
    <2>5. PICK S : S = OnAddress(a) \cup {t}
      OBVIOUS
    <2>6. Only(Append(queue[b], t), S) = Append(Only(queue[b], S), t)
      BY <1>4, <2>5, OnlyOne
    <2>7. HomeOf(a) = b /\ HomeOf(a)' = b /\ b # Nil
      BY <1>1, <1>7, NilAssumption
    <2>8. QueueOf(a) = Only(queue[b], OnAddress(a))
      BY <2>7 DEF QueueOf
    <2>9. QueueOf(a)' = Only(queue'[b], OnAddress(a)')
      BY <2>7 DEF QueueOf
    <2> QED
      BY <1>4, <2>1, <2>4, <2>5, <2>6, <2>8, <2>9
  <1>13. ASSUME NEW d \in Address \ {a} PROVE QueueOf(d)' = QueueOf(d)
    <2>1. OnAddress(d)' = OnAddress(d) /\ t \notin OnAddress(d)
      BY <1>3, <1>4, NilAssumption DEF OnAddress
    <2>2. PICK c : c = HomeOf(d) /\ c = HomeOf(d)'
      BY <1>7
    <2>3. CASE c = Nil
      BY <2>2, <2>3 DEF QueueOf
    <2>4. CASE c # Nil
      <3>1. c \in Bucket
        BY <1>0, <2>2, <2>4, HomeNow
      <3>2. Only(queue'[c], OnAddress(d)) = Only(queue[c], OnAddress(d))
        <4>1. CASE c = b
          <5>1. PICK S : S = OnAddress(d)
            OBVIOUS
          <5>2. Only(Append(queue[b], t), S) = Only(queue[b], S)
            BY <1>4, <2>1, <5>1, OnlyOne
          <5> QED
            BY <1>4, <4>1, <5>1, <5>2
        <4>2. CASE c # b
          BY <1>4, <3>1, <4>2
        <4> QED
          BY <4>1, <4>2
      <3> QED
        BY <2>1, <2>2, <2>4, <3>2 DEF QueueOf
    <2> QED
      BY <2>3, <2>4
  <1>14. AsQueues!Next
    BY <1>10, <1>11, <1>12, <1>13, AbstractPark
  <1> QED
    BY <1>8, <1>9, <1>14 DEF PlacesOK

\* A thread returns from parkConditionallyImpl(): unparked, or off its queue by
\* its own hand.
LEMMA PlacesParkReturns ==
  ASSUME IInv, NEW t \in Thread, pc[t] \in {"park", "finish"}, didDequeue[t] \/ address[t] = Nil,
         address' = [address EXCEPT ![t] = Nil], token' = [token EXCEPT ![t] = 0], Return(t),
         queue' = queue, hashtables' = hashtables
  PROVE  PlacesOK' /\ AsQueues!Next
  <1>0. TypeOK /\ PlacesOK /\ AddressOK(t)
    BY DEF IInv, PlacesOK
  <1>1. /\ pc'[t] = "idle" /\ address'[t] = Nil /\ token'[t] = 0 /\ ~didDequeue'[t] /\ targets'[t] = <<>>
        /\ \A u \in Thread \ {t} : /\ pc'[u] = pc[u] /\ address'[u] = address[u] /\ token'[u] = token[u]
                                   /\ didDequeue'[u] = didDequeue[u] /\ targets'[u] = targets[u]
                                   /\ arg'[u] = arg[u] /\ call'[u] = call[u]
    BY <1>0 DEF TypeOK, Return, Goto
  <1>2. targets[t] = <<>>
    BY <1>0 DEF PlacesOK, TargetsOK, WakePC
  <1>3. \A u \in Thread : ToClear(u)' = ToClear(u)
    BY <1>1, <1>2, ClearSame
  <1>4. \A b \in Bucket : QueuedAt(b)' = QueuedAt(b)
    BY DEF QueuedAt
  <1>5. \A b \in Bucket : t \notin QueuedAt(b)
    <2> SUFFICES ASSUME NEW b \in Bucket, t \in QueuedAt(b) PROVE FALSE
      OBVIOUS
    <2>1. ~didDequeue[t] /\ address[t] \in Address
      BY <1>0, QueuedFacts
    <2> QED
      BY <2>1, NilAssumption
  <1>6. \A u \in Thread : t \notin ToClear(u)
    BY <1>0 DEF PlacesOK, TargetsOK
  <1>7. \A a \in Address : HomeOf(a)' = HomeOf(a)
    BY DEF HomeOf, Slot, Spine
  <1>8. ASSUME NEW b \in Bucket PROVE QueueOK(b)'
    <2>1. ASSUME NEW u \in QueuedAt(b)
          PROVE  address'[u] # Nil /\ HomeOf(address[u])' = b /\ pc'[u] \notin {"finish", "asleepFinish"}
      <3>1. u # t
        BY <1>5
      <3>2. u \in Thread /\ address[u] \in Address /\ HomeOf(address[u]) = b /\ pc[u] \notin {"finish", "asleepFinish"}
        BY <1>0, QueuedFacts
      <3>3. PICK a \in Address : a = address[u] /\ a = address'[u]
        BY <1>1, <3>1, <3>2
      <3>4. HomeOf(address[u])' = HomeOf(a)'
        BY <3>3
      <3> QED
        BY <1>1, <1>7, <3>1, <3>2, <3>3, <3>4, NilAssumption
    <2>2. IsInjective(queue[b])'
      BY <1>0 DEF PlacesOK, QueueOK
    <2> QED
      BY <1>4, <2>1, <2>2 DEF QueueOK
  <1>9. ASSUME NEW u \in Thread PROVE AddressOK(u)' /\ TargetsOK(u)' /\ WokenOK(u)'
    <2>0. AddressOK(u) /\ TargetsOK(u) /\ WokenOK(u)
      BY <1>0 DEF PlacesOK
    <2>1. AddressOK(u)'
      <3>1. CASE u = t
        BY <1>1, <3>1 DEF AddressOK
      <3>2. CASE u # t
        BY <1>1, <1>3, <1>4, <2>0, <3>2 DEF AddressOK
      <3> QED
        BY <3>1, <3>2
    <2>2. TargetsOK(u)'
      <3>1. (targets[u] # <<>> <=> pc[u] \in WakePC)' /\ IsInjective(targets[u])' /\ (u \notin ToSet(targets[u]))'
        <4>1. targets'[u] = targets[u] /\ (pc'[u] \in WakePC <=> pc[u] \in WakePC)
          BY <1>1, <1>2 DEF WakePC
        <4> QED
          BY <2>0, <4>1 DEF TargetsOK
      <3>2. ASSUME NEW v \in ToClear(u)
            PROVE  /\ address'[v] # Nil /\ ~didDequeue'[v]
                   /\ \A b \in Bucket : v \notin QueuedAt(b)'
                   /\ \A w \in Thread : v \in ToClear(w)' => w = u
                   /\ token'[v] = IF call'[u].kind = "callback" THEN 1 ELSE 0
        <4>1. v # t /\ u # t
          BY <1>0, <1>2, <1>6, <3>2 DEF ToClear, ToSet
        <4>2. /\ address[v] # Nil /\ ~didDequeue[v]
              /\ \A b \in Bucket : v \notin QueuedAt(b)
              /\ \A w \in Thread : v \in ToClear(w) => w = u
              /\ token[v] = IF call[u].kind = "callback" THEN 1 ELSE 0
          BY <2>0 DEF TargetsOK
        <4>3. v \in Thread
          <5>1. targets[u] \in Seq(Thread) /\ (targets[u] # <<>> => Tail(targets[u]) \in Seq(Thread))
            BY <1>0 DEF TypeOK
          <5>2. pc[u] = "signal" => targets[u] # <<>>
            BY <2>0 DEF TargetsOK, WakePC
          <5> QED
            BY <3>2, <5>1, <5>2 DEF ToClear, ToSet
        <4> QED
          BY <1>1, <1>3, <1>4, <4>1, <4>2, <4>3
      <3> QED
        BY <1>3, <3>1, <3>2 DEF TargetsOK
    <2>3. WokenOK(u)'
      <3>1. \A v \in Thread : pc[v] = "signal" => pc'[v] = "signal" /\ targets'[v] = targets[v]
        BY <1>1
      <3>2. CASE u = t
        BY <1>1, <3>2 DEF WokenOK
      <3>3. CASE u # t
        BY <1>1, <1>3, <2>0, <3>1, <3>3 DEF WokenOK
      <3> QED
        BY <3>2, <3>3
    <2> QED
      BY <2>1, <2>2, <2>3
  <1>10. ASSUME NEW a \in Address PROVE QueueOf(a)' = QueueOf(a)
    <2>1. HomeOf(a)' \in Bucket \cup {Nil} /\ HomesKept
      BY <1>0, HomesSame, HomeType DEF TypeOK
    <2>2. \A b \in Bucket : \A u \in QueuedAt(b) : address'[u] = address[u]
      BY <1>0, <1>1, <1>5, QueuedFacts
    <2>3. \A u \in Thread : address'[u] = address[u] \/ address'[u] = Nil
      BY <1>1
    <2> QED
      BY <1>0, <2>1, <2>2, <2>3, QueuesKept
  <1>11. StatusOf(t) \in {"unparked", "timedOut"} /\ StatusOf(t)' = "running"
    BY <1>1, <1>4, <1>5 DEF StatusOf, ParkPC
  <1>12. \A u \in Thread \ {t} : StatusOf(u)' = StatusOf(u)
    BY <1>1, <1>4 DEF StatusOf
  <1>13. AsQueues!Next
    BY <1>10, <1>11, <1>12, AbstractReturn
  <1> QED
    BY <1>8, <1>9, <1>13 DEF PlacesOK

\* A parked thread looks at its address.
LEMMA PlacesPark ==
  ASSUME IInv, TypeOK', NEW t \in Thread, Park(t)
  PROVE  PlacesOK' /\ (Stays \/ AsQueues!Next)
  <1>0. TypeOK /\ PlacesOK /\ AddressOK(t) /\ pc[t] = "park"
    BY DEF IInv, PlacesOK, Park
  <1>1. hashtables' = hashtables /\ queue' = queue /\ address' = address
    BY DEF Park, tableVars
  <1>2. CASE address[t] # Nil /\ Goto(t, "asleep") /\ UNCHANGED <<token, locals>>
    <2>1. Quiet(t)
      BY <1>0, <1>1, <1>2 DEF Goto, locals, TypeOK, AddressOK, Quiet, ParkedPC, ParkPC, WakePC
    <2> QED
      BY <1>1, <2>1, HomesSame, PlacesQuiet
  <1>3. CASE address[t] = Nil /\ token' = [token EXCEPT ![t] = 0] /\ Return(t)
    <2>1. address' = [address EXCEPT ![t] = Nil]
      BY <1>0, <1>1, <1>3 DEF TypeOK
    <2> QED
      BY <1>0, <1>1, <1>3, <2>1, PlacesParkReturns
  <1> QED
    BY <1>2, <1>3 DEF Park

\* The end of a park that timed out.
LEMMA PlacesFinish ==
  ASSUME IInv, TypeOK', NEW t \in Thread, Finish(t)
  PROVE  PlacesOK' /\ (Stays \/ AsQueues!Next)
  <1>0. TypeOK /\ PlacesOK /\ AddressOK(t) /\ pc[t] = "finish"
    BY DEF IInv, PlacesOK, Finish
  <1>1. hashtables' = hashtables /\ queue' = queue
    BY DEF Finish, tableVars
  <1>2. CASE ~didDequeue[t] /\ address[t] # Nil /\ Goto(t, "asleepFinish") /\ UNCHANGED <<threadVars, locals>>
    <2>1. \A b \in Bucket : t \notin QueuedAt(b)
      BY <1>0 DEF PlacesOK, QueueOK
    <2>2. Quiet(t)
      BY <1>0, <1>1, <1>2, <2>1 DEF Goto, locals, threadVars, TypeOK, AddressOK, Quiet, ParkedPC, ParkPC, WakePC
    <2> QED
      BY <1>1, <2>2, HomesSame, PlacesQuiet
  <1>3. CASE /\ didDequeue[t] \/ address[t] = Nil
             /\ address' = [address EXCEPT ![t] = Nil] /\ token' = [token EXCEPT ![t] = 0] /\ Return(t)
    BY <1>0, <1>1, <1>3, PlacesParkReturns
  <1> QED
    BY <1>2, <1>3 DEF Finish

\* Who has to be cleared is a thread.
LEMMA ToClearThread ==
  ASSUME TypeOK, PlacesOK, NEW u \in Thread, NEW v \in ToClear(u)
  PROVE  /\ v \in Thread /\ v # u /\ v \in ToSet(targets[u]) /\ pc[u] \in WakePC
         /\ address[v] # Nil /\ ~didDequeue[v]
         /\ \A b \in Bucket : v \notin QueuedAt(b)
         /\ \A w \in Thread : v \in ToClear(w) => w = u
         /\ call[u].kind = "callback" => token[v] = 1
         /\ call[u].kind # "callback" => token[v] = 0
  <1>0. TargetsOK(u)
    BY DEF PlacesOK
  <1>1. targets[u] \in Seq(Thread)
    BY DEF TypeOK
  <1>2. pc[u] = "signal" => targets[u] # <<>>
    BY <1>0 DEF TargetsOK, WakePC
  <1>3. pc[u] = "signal" => /\ Tail(targets[u]) \in Seq(Thread)
                            /\ Len(Tail(targets[u])) = Len(targets[u]) - 1 /\ Len(targets[u]) \in Nat
                            /\ \A i \in 1 .. Len(targets[u]) - 1 : Tail(targets[u])[i] = targets[u][i + 1]
    BY <1>1, <1>2
  <1>4. v \in ToSet(targets[u])
    <2>1. CASE pc[u] # "signal"
      BY <2>1 DEF ToClear
    <2>2. CASE pc[u] = "signal"
      <3>1. PICK i \in 1 .. Len(targets[u]) - 1 : v = Tail(targets[u])[i]
        BY <1>3, <2>2 DEF ToClear, ToSet
      <3>2. i + 1 \in 1 .. Len(targets[u]) /\ v = targets[u][i + 1]
        BY <1>3, <2>2, <3>1
      <3> QED
        BY <1>1, <3>2 DEF ToSet
    <2> QED
      BY <2>1, <2>2
  <1>5. v \in Thread /\ targets[u] # <<>>
    BY <1>1, <1>4 DEF ToSet
  <1> QED
    BY <1>0, <1>4, <1>5 DEF TargetsOK

\* A thread takes itself off its queue, unless somebody was faster.
LEMMA PlacesRemoveSelf ==
  ASSUME IInv, NEW t \in Thread, RemoveSelf(t)
  PROVE  PlacesOK' /\ (Stays \/ AsQueues!Next)
  <1>0. TypeOK /\ PlacesOK /\ TableOK(t) /\ AddressOK(t) /\ pc[t] = "removeSelf" /\ Current(t)
    BY DEF IInv, TablesOK, PlacesOK, RemoveSelf
  <1>1. PICK b \in Bucket, a \in Address : b = myBucket[t] /\ a = arg[t] /\ HomeOf(a) = b
    BY <1>0, MyBucketHome DEF BucketPC
  <1> DEFINE left == Only(queue[b], Thread \ {t})
  <1>2. /\ didDequeue' = [didDequeue EXCEPT ![t] = Contains(queue[b], t)]
        /\ queue' = [queue EXCEPT ![b] = left]
        /\ pc' = [pc EXCEPT ![t] = "finish"]
        /\ UNCHANGED <<hashtables, address, token, targets, arg, call>>
    BY <1>1 DEF RemoveSelf, Goto, tableVars, threadVars
  <1>3. queue[b] \in Seq(Thread) /\ IsInjective(queue[b])
    BY <1>0 DEF TypeOK, PlacesOK, QueueOK
  <1>4. IsInjective(left) /\ ToSet(left) = QueuedAt(b) \ {t}
    <2>1. IsInjective(left) /\ ToSet(left) = QueuedAt(b) \cap (Thread \ {t})
      BY <1>3, OnlyMembers DEF QueuedAt
    <2>2. QueuedAt(b) \subseteq Thread
      BY <1>3 DEF QueuedAt, ToSet
    <2> QED
      BY <2>1, <2>2
  <1> HIDE DEF left
  <1>5. /\ \A u \in Thread \ {t} : pc'[u] = pc[u] /\ didDequeue'[u] = didDequeue[u]
        /\ pc'[t] = "finish" /\ queue'[b] = left
        /\ \A c \in Bucket : c # b => queue'[c] = queue[c]
    BY <1>0, <1>2 DEF TypeOK
  <1>6. didDequeue'[t] <=> t \in QueuedAt(b)
    <2>1. didDequeue'[t] = Contains(queue[b], t)
      BY <1>0, <1>2 DEF TypeOK
    <2>2. Contains(queue[b], t) <=> t \in ToSet(queue[b])
      BY <1>3 DEF Contains, ToSet
    <2> QED
      BY <2>1, <2>2 DEF QueuedAt
  <1>7. \A c \in Bucket : t \in QueuedAt(c) => c = b
    <2> SUFFICES ASSUME NEW c \in Bucket, t \in QueuedAt(c) PROVE c = b
      OBVIOUS
    <2>1. HomeOf(address[t]) = c /\ arg[t] = address[t]
      BY <1>0, QueuedFacts
    <2> QED
      BY <1>1, <2>1
  <1>8. \A c \in Bucket : QueuedAt(c)' = QueuedAt(c) \ {t} /\ IsInjective(queue'[c])
    <2> TAKE c \in Bucket
    <2>1. CASE c = b
      BY <1>4, <1>5, <2>1 DEF QueuedAt
    <2>2. CASE c # b
      BY <1>0, <1>5, <1>7, <2>2 DEF QueuedAt, PlacesOK, QueueOK
    <2> QED
      BY <2>1, <2>2
  <1>9. \A u \in Thread : ToClear(u)' = ToClear(u)
    BY <1>0, <1>2, <1>5, ClearSame
  <1>10. \A c \in Address : HomeOf(c)' = HomeOf(c)
    BY <1>2 DEF HomeOf, Slot, Spine
  <1>11. ASSUME NEW c \in Bucket PROVE QueueOK(c)'
    <2>1. ASSUME NEW u \in QueuedAt(c)'
          PROVE  address'[u] # Nil /\ HomeOf(address[u])' = c /\ pc'[u] \notin {"finish", "asleepFinish"}
      <3>1. u # t /\ u \in QueuedAt(c)
        BY <1>8, <2>1
      <3>2. u \in Thread /\ address[u] \in Address /\ HomeOf(address[u]) = c /\ pc[u] \notin {"finish", "asleepFinish"}
        BY <1>0, <3>1, QueuedFacts
      <3>3. PICK d \in Address : d = address[u] /\ d = address'[u]
        BY <1>2, <3>2
      <3>4. HomeOf(address[u])' = HomeOf(d)'
        BY <3>3
      <3> QED
        BY <1>5, <1>10, <3>1, <3>2, <3>3, <3>4, NilAssumption
    <2> QED
      BY <1>8, <2>1 DEF QueueOK
  <1>12. ASSUME NEW u \in Thread PROVE AddressOK(u)' /\ TargetsOK(u)' /\ WokenOK(u)'
    <2>0. AddressOK(u) /\ TargetsOK(u) /\ WokenOK(u)
      BY <1>0 DEF PlacesOK
    <2>1. AddressOK(u)'
      <3>1. CASE u = t
        <4>1. \A c \in Bucket : t \notin QueuedAt(c)'
          BY <1>8
        <4>2. ~didDequeue[t]
          BY <1>0 DEF AddressOK
        <4>3. didDequeue'[t] => address[t] # Nil
          BY <1>0, <1>6, QueuedFacts, NilAssumption
        <4>4. address[t] # Nil => /\ arg[t] = address[t]
                                  /\ didDequeue'[t] \/ \E v \in Thread : t \in ToClear(v)'
          BY <1>0, <1>6, <1>7, <1>9, <4>2 DEF AddressOK
        <4> QED
          BY <1>2, <1>5, <3>1, <4>1, <4>3, <4>4 DEF AddressOK, ParkedPC, ParkPC
      <3>2. CASE u # t
        BY <1>2, <1>5, <1>8, <1>9, <2>0, <3>2 DEF AddressOK
      <3> QED
        BY <3>1, <3>2
    <2>2. TargetsOK(u)'
      <3>1. pc'[u] \in WakePC <=> pc[u] \in WakePC
        BY <1>0, <1>5 DEF WakePC
      <3>2. ASSUME NEW v \in ToClear(u) PROVE ~didDequeue'[v] /\ \A c \in Bucket : v \notin QueuedAt(c)'
        <4>1. v \in Thread /\ ~didDequeue[v] /\ \A c \in Bucket : v \notin QueuedAt(c)
          BY <1>0, ToClearThread
        <4> QED
          BY <1>5, <1>6, <1>8, <4>1
      <3> QED
        BY <1>2, <1>9, <2>0, <3>1, <3>2 DEF TargetsOK
    <2>3. WokenOK(u)'
      <3>1. \A v \in Thread : pc[v] = "signal" <=> pc'[v] = "signal"
        BY <1>0, <1>5
      <3>2. CASE u = t
        BY <1>0, <1>2, <1>5, <1>9, <2>0, <3>2 DEF WokenOK, ParkedPC, ParkPC
      <3>3. CASE u # t
        BY <1>2, <1>5, <1>9, <2>0, <3>1, <3>3 DEF WokenOK
      <3> QED
        BY <3>2, <3>3
    <2> QED
      BY <2>1, <2>2, <2>3
  <1>13. \A u \in Thread \ {t} : StatusOf(u)' = StatusOf(u)
    BY <1>5, <1>8 DEF StatusOf
  <1>14. \A c \in Address : OnAddress(c)' = OnAddress(c)
    BY <1>2 DEF OnAddress
  <1>15. CASE t \notin QueuedAt(b)
    <2>1. ToSet(queue[b]) \subseteq Thread \ {t}
      BY <1>3, <1>15 DEF QueuedAt, ToSet
    <2>2. left = queue[b]
      BY <1>3, <2>1, OnlyAllOrNone DEF left
    <2>3. queue' = queue
      BY <1>0, <1>2, <2>2 DEF TypeOK
    <2>4. \A c \in Address : QueueOf(c)' = QueueOf(c)
      BY <1>10, <1>14, <2>3 DEF QueueOf
    <2>5. \A c \in Bucket : t \notin QueuedAt(c) /\ t \notin QueuedAt(c)'
      BY <1>7, <1>8, <1>15
    <2>6. ~didDequeue'[t] /\ ~didDequeue[t]
      BY <1>0, <1>6, <1>15 DEF AddressOK
    <2>7. StatusOf(t)' = StatusOf(t)
      BY <1>0, <1>5, <2>5, <2>6 DEF StatusOf, ParkPC
    <2> QED
      BY <1>11, <1>12, <1>13, <2>4, <2>7 DEF PlacesOK, Stays
  <1>16. CASE t \in QueuedAt(b)
    <2> DEFINE all == Only(queue[b], OnAddress(a))
    <2>1. address[t] = a
      BY <1>0, <1>1, <1>16, QueuedFacts
    <2>2. all \in Seq(Thread) /\ IsInjective(all) /\ t \in ToSet(all)
      <3>1. ToSet(all) = ToSet(queue[b]) \cap OnAddress(a) /\ IsInjective(all)
        BY <1>3, OnlyMembers
      <3>2. all \in Seq(Thread)
        BY <1>3, OnlyType
      <3> QED
        BY <1>16, <2>1, <3>1, <3>2 DEF QueuedAt, OnAddress
    <2>3. QueueOf(a) = all /\ QueueOf(a)' = Only(left, OnAddress(a))
      <3>1. HomeOf(a) = b /\ HomeOf(a)' = b /\ b # Nil
        BY <1>1, <1>10, NilAssumption
      <3>2. QueueOf(a)' = Only(queue'[b], OnAddress(a)')
        BY <3>1 DEF QueueOf
      <3> QED
        BY <1>5, <1>14, <3>1, <3>2 DEF QueueOf
    <2>4. Only(left, OnAddress(a)) = Only(all, Thread \ {t})
      <3>1. Only(left, OnAddress(a)) = Only(queue[b], (Thread \ {t}) \cap OnAddress(a))
        BY <1>3, OnlyTwice DEF left
      <3>2. Only(all, Thread \ {t}) = Only(queue[b], OnAddress(a) \cap (Thread \ {t}))
        BY <1>3, OnlyTwice
      <3>3. (Thread \ {t}) \cap OnAddress(a) = OnAddress(a) \cap (Thread \ {t})
        OBVIOUS
      <3> QED
        BY <3>1, <3>2, <3>3
    <2> HIDE DEF all
    <2>5. PICK i \in 1 .. Len(all) : all[i] = t
      BY <2>2, Members
    <2>6. Only(all, Thread \ {t}) = SubSeq(all, 1, i - 1) \o SubSeq(all, i + 1, Len(all))
      BY <2>2, <2>5, OnlyWithout
    <2>7. ASSUME NEW d \in Address \ {a} PROVE QueueOf(d)' = QueueOf(d)
      <3>1. PICK c : c = HomeOf(d) /\ c = HomeOf(d)'
        BY <1>10
      <3>2. CASE c = Nil
        BY <3>1, <3>2 DEF QueueOf
      <3>3. CASE c # Nil
        <4>1. c \in Bucket
          BY <1>0, <3>1, <3>3, HomeNow
        <4>2. Only(queue'[c], OnAddress(d)) = Only(queue[c], OnAddress(d))
          <5>1. CASE c = b
            <6>1. Only(left, OnAddress(d)) = Only(queue[b], (Thread \ {t}) \cap OnAddress(d))
              BY <1>3, OnlyTwice DEF left
            <6>2. (Thread \ {t}) \cap OnAddress(d) = OnAddress(d)
              BY <2>1 DEF OnAddress
            <6> QED
              BY <1>5, <5>1, <6>1, <6>2
          <5>2. CASE c # b
            BY <1>5, <4>1, <5>2
          <5> QED
            BY <5>1, <5>2
        <4> QED
          BY <1>14, <3>1, <3>3, <4>2 DEF QueueOf
      <3> QED
        BY <3>2, <3>3
    <2>8. StatusOf(t) = "parked" /\ StatusOf(t)' = "timedOut"
      <3>1. \A c \in Bucket : t \notin QueuedAt(c)'
        BY <1>8
      <3>2. didDequeue'[t]
        BY <1>6, <1>16
      <3> QED
        BY <1>5, <1>16, <3>1, <3>2 DEF StatusOf, ParkPC
    <2>9. i \in 1 .. Len(QueueOf(a)) /\ QueueOf(a)[i] = t
      BY <2>3, <2>5
    <2>10. QueueOf(a)' = SubSeq(QueueOf(a), 1, i - 1) \o SubSeq(QueueOf(a), i + 1, Len(QueueOf(a)))
      BY <2>3, <2>4, <2>6
    <2>11. AsQueues!Next
      BY <1>13, <2>7, <2>8, <2>9, <2>10, AbstractTimeOut
    <2> QED
      BY <1>11, <1>12, <2>11 DEF PlacesOK
  <1> QED
    BY <1>15, <1>16

\* An unparker takes threads off their queue; from then on they are its own.
LEMMA PlacesDequeue ==
  ASSUME IInv, TypeOK', NEW t \in Thread, Dequeue(t)
  PROVE  PlacesOK' /\ (Stays \/ AsQueues!Next)
  <1>0. TypeOK /\ PlacesOK /\ pc[t] = "dequeue"
    BY DEF IInv, Dequeue
  <1>a. PICK b, a : b = myBucket[t] /\ a = arg[t]
    OBVIOUS
  <1>b. PICK found, all : found = FirstOf(b, a, call[t].count) /\ all = Only(queue[b], OnAddress(a))
    OBVIOUS
  <1>1. Taken(t, b, a, all, found)
    BY <1>a, <1>b, DequeueFacts
  <1>2. /\ b \in Bucket /\ a \in Address /\ HomeOf(a) = b
        /\ ToSet(all) = QueuedAt(b) \cap OnAddress(a)
        /\ found \in Seq(Thread) /\ IsInjective(found) /\ ToSet(found) \subseteq ToSet(all)
        /\ queue' = [queue EXCEPT ![b] = Only(queue[b], Thread \ ToSet(found))]
        /\ \A c \in Bucket : IsInjective(queue'[c])
        /\ ToSet(queue'[b]) = QueuedAt(b) \ ToSet(found)
        /\ \A c \in Bucket : c # b => queue'[c] = queue[c]
    BY <1>1 DEF Taken
  <1>3. /\ call[t].kind = "callback" => \A u \in Thread : u \in ToSet(found) => token'[u] = 1
        /\ call[t].kind # "callback" => token' = token
        /\ \A u \in Thread : u \notin ToSet(found) => token'[u] = token[u]
    BY <1>1 DEF Taken
  <1>4. hashtables' = hashtables /\ address' = address
    BY DEF Dequeue, tableVars
  <1>5. pc[t] \notin ParkedPC \cup WakePC
    BY <1>0 DEF ParkedPC, ParkPC, WakePC
  <1>6. \/ /\ found # <<>> /\ Goto(t, "clearAddress")
           /\ targets' = [targets EXCEPT ![t] = found]
           /\ UNCHANGED <<arg, call, didDequeue>>
        \/ found = <<>> /\ Return(t)
    BY <1>a, <1>b DEF Dequeue
  <1>7. CASE found = <<>>
    <2>1. ToSet(found) = {}
      BY <1>7, Members
    <2>2. queue[b] \in Seq(Thread) /\ ToSet(queue[b]) \subseteq Thread
      BY <1>0, <1>2 DEF TypeOK, ToSet
    <2>3. Only(queue[b], Thread \ ToSet(found)) = queue[b]
      <3>1. ToSet(queue[b]) \subseteq Thread \ ToSet(found)
        BY <2>1, <2>2
      <3> QED
        BY <2>2, <3>1, OnlyAllOrNone
    <2>4. queue' = queue
      BY <1>0, <1>2, <2>3 DEF TypeOK
    <2>5. token' = token
      BY <1>a, <1>b, <1>7 DEF Dequeue
    <2> QED
      BY <1>4, <1>5, <1>6, <1>7, <2>4, <2>5, HomesSame, PlacesReturn
  <1>8. CASE found # <<>>
    <2>1. /\ \A u \in Thread \ {t} : pc'[u] = pc[u] /\ targets'[u] = targets[u]
          /\ pc'[t] = "clearAddress" /\ targets'[t] = found
          /\ UNCHANGED <<arg, call, didDequeue>>
      BY <1>0, <1>6, <1>8 DEF TypeOK, Goto
    <2>2. ASSUME NEW v \in ToSet(found)
          PROVE  /\ v \in Thread /\ v \in QueuedAt(b) /\ v # t
                 /\ address[v] # Nil /\ ~didDequeue[v] /\ token[v] = 0
                 /\ \A u \in Thread : v \notin ToClear(u)
                 /\ \A c \in Bucket : v \in QueuedAt(c) => c = b
      <3>1. v \in QueuedAt(b)
        BY <1>2
      <3> QED
        BY <1>0, <1>2, <1>5, <3>1, QueuedFacts, NilAssumption
    <2>3. ToClear(t)' = ToSet(found) /\ \A u \in Thread \ {t} : ToClear(u)' = ToClear(u)
      BY <2>1, ClearSame DEF ToClear
    <2>4. ToClear(t) = {}
      <3>1. targets[t] = <<>>
        BY <1>0, <1>5 DEF PlacesOK, TargetsOK
      <3> QED
        BY <1>0, <3>1, Members DEF ToClear
    <2>5. \A c \in Bucket : QueuedAt(c)' = QueuedAt(c) \ ToSet(found)
      <3> TAKE c \in Bucket
      <3>1. CASE c = b
        BY <1>2, <3>1 DEF QueuedAt
      <3>2. CASE c # b
        BY <1>2, <2>2, <3>2 DEF QueuedAt
      <3> QED
        BY <3>1, <3>2
    <2>6. \A c \in Address : HomeOf(c)' = HomeOf(c)
      BY <1>4 DEF HomeOf, Slot, Spine
    <2>7. ASSUME NEW c \in Bucket PROVE QueueOK(c)'
      <3>1. ASSUME NEW u \in QueuedAt(c)'
            PROVE  address'[u] # Nil /\ HomeOf(address[u])' = c /\ pc'[u] \notin {"finish", "asleepFinish"}
        <4>1. u \in QueuedAt(c)
          BY <2>5, <3>1
        <4>2. u \in Thread /\ address[u] \in Address /\ HomeOf(address[u]) = c /\ pc[u] \notin {"finish", "asleepFinish"}
          BY <1>0, <4>1, QueuedFacts
        <4>3. PICK d \in Address : d = address[u] /\ d = address'[u]
          BY <1>4, <4>2
        <4>4. HomeOf(address[u])' = HomeOf(d)'
          BY <4>3
        <4> QED
          BY <2>1, <2>6, <4>2, <4>3, <4>4, NilAssumption
      <3> QED
        BY <1>2, <3>1 DEF QueueOK
    <2>8. ASSUME NEW u \in Thread PROVE AddressOK(u)' /\ TargetsOK(u)' /\ WokenOK(u)'
      <3>0. AddressOK(u) /\ TargetsOK(u) /\ WokenOK(u)
        BY <1>0 DEF PlacesOK
      <3>1. AddressOK(u)'
        <4>1. u # t => pc'[u] = pc[u]
          BY <2>1
        <4>2. u = t => address[u] = Nil /\ ~didDequeue[u]
          BY <1>0, <1>5, NotParked
        <4>3. CASE u = t
          BY <1>4, <2>1, <4>2, <4>3 DEF AddressOK
        <4>4. CASE u # t
          <5>1. ASSUME address[u] # Nil
                PROVE  \/ \E c \in Bucket : u \in QueuedAt(c)'
                       \/ \E v \in Thread : u \in ToClear(v)'
                       \/ didDequeue[u]
            <6>1. CASE u \in ToSet(found)
              BY <2>3, <6>1
            <6>2. CASE u \notin ToSet(found) /\ \E c \in Bucket : u \in QueuedAt(c)
              BY <2>5, <6>2
            <6>3. CASE \E v \in Thread : u \in ToClear(v)
              BY <2>3, <2>4, <6>3
            <6> QED
              BY <3>0, <5>1, <6>1, <6>2, <6>3 DEF AddressOK
          <5> QED
            BY <1>4, <2>1, <2>5, <3>0, <4>1, <4>4, <5>1 DEF AddressOK
        <4> QED
          BY <4>3, <4>4
      <3>2. TargetsOK(u)'
        <4>1. CASE u = t
          <5>1. ASSUME NEW v \in ToSet(found)
                PROVE  /\ address'[v] # Nil /\ ~didDequeue'[v]
                       /\ \A c \in Bucket : v \notin QueuedAt(c)'
                       /\ \A w \in Thread : v \in ToClear(w)' => w = u
                       /\ token'[v] = IF call'[u].kind = "callback" THEN 1 ELSE 0
            BY <1>3, <1>4, <2>1, <2>2, <2>3, <2>5, <4>1
          <5>2. u \notin ToSet(found)
            BY <2>2, <4>1
          <5> QED
            BY <1>2, <1>8, <2>1, <2>3, <4>1, <5>1, <5>2 DEF TargetsOK, WakePC
        <4>2. CASE u # t
          <5>1. ASSUME NEW v \in ToClear(u)
                PROVE  /\ address'[v] # Nil /\ ~didDequeue'[v]
                       /\ \A c \in Bucket : v \notin QueuedAt(c)'
                       /\ \A w \in Thread : v \in ToClear(w)' => w = u
                       /\ token'[v] = IF call'[u].kind = "callback" THEN 1 ELSE 0
            <6>1. /\ v \in Thread /\ address[v] # Nil /\ ~didDequeue[v]
                  /\ \A c \in Bucket : v \notin QueuedAt(c)
                  /\ \A w \in Thread : v \in ToClear(w) => w = u
                  /\ call[u].kind = "callback" => token[v] = 1
                  /\ call[u].kind # "callback" => token[v] = 0
              BY <1>0, <5>1, ToClearThread
            <6>2. v \notin ToSet(found)
              BY <2>2, <6>1
            <6> QED
              BY <1>3, <1>4, <2>1, <2>3, <2>5, <6>1, <6>2
          <5> QED
            BY <2>1, <2>3, <3>0, <4>2, <5>1 DEF TargetsOK
        <4> QED
          BY <4>1, <4>2
      <3>3. WokenOK(u)'
        <4>1. ASSUME token'[u] # 0
              PROVE  (\E v \in Thread : u \in ToClear(v)') \/ (address[u] = Nil /\ pc[u] \in ParkedPC)
          <5>1. CASE u \in ToSet(found)
            BY <2>3, <5>1
          <5>2. CASE u \notin ToSet(found)
            BY <1>3, <2>3, <2>4, <3>0, <4>1, <5>2 DEF WokenOK
          <5> QED
            BY <5>1, <5>2
        <4>2. pc[u] \in ParkedPC => u # t
          BY <1>5
        <4>3. \A v \in Thread : pc[v] = "signal" => pc'[v] = "signal" /\ targets'[v] = targets[v]
          BY <1>0, <2>1
        <4>4. pc'[u] \in {"asleep", "asleepFinish"} => pc'[u] = pc[u]
          BY <2>1
        <4> QED
          BY <1>4, <2>1, <3>0, <4>1, <4>2, <4>3, <4>4 DEF WokenOK
      <3> QED
        BY <3>1, <3>2, <3>3
    <2>9. /\ all \in Seq(Thread) /\ IsInjective(all) /\ all = Only(queue[b], OnAddress(a))
          /\ Len(found) \in 0 .. Len(all) /\ found = SubSeq(all, 1, Len(found)) /\ queue[b] \in Seq(Thread)
          /\ queue'[b] = Only(queue[b], Thread \ ToSet(found))
      BY <1>0, <1>1, <1>2, <1>b DEF Taken, TypeOK
    <2>10. PICK n \in 1 .. Len(all) : n = Len(found)
      <3>1. Len(found) # 0 /\ Len(found) \in Nat
        BY <1>2, <1>8
      <3>2. Len(found) \in 1 .. Len(all)
        BY <2>9, <3>1
      <3> QED
        BY <3>2
    <2>11. \A c \in Address : OnAddress(c)' = OnAddress(c)
      BY <1>4 DEF OnAddress
    <2>12. QueueOf(a) = all /\ QueueOf(a)' = Only(queue'[b], OnAddress(a))
      <3>1. HomeOf(a) = b /\ HomeOf(a)' = b /\ b # Nil
        BY <1>2, <2>6, NilAssumption
      <3>2. QueueOf(a)' = Only(queue'[b], OnAddress(a)')
        BY <3>1 DEF QueueOf
      <3>3. QueueOf(a) = Only(queue[b], OnAddress(a))
        BY <3>1 DEF QueueOf
      <3> QED
        BY <1>b, <1>2, <2>11, <3>2, <3>3
    <2>13. Only(queue'[b], OnAddress(a)) = Only(all, Thread \ ToSet(found))
      <3>1. Only(queue'[b], OnAddress(a)) = Only(queue[b], (Thread \ ToSet(found)) \cap OnAddress(a))
        BY <2>9, OnlyTwice
      <3>2. Only(all, Thread \ ToSet(found)) = Only(queue[b], OnAddress(a) \cap (Thread \ ToSet(found)))
        BY <2>9, OnlyTwice
      <3>3. (Thread \ ToSet(found)) \cap OnAddress(a) = OnAddress(a) \cap (Thread \ ToSet(found))
        OBVIOUS
      <3> QED
        BY <3>1, <3>2, <3>3
    <2>14. Only(all, Thread \ ToSet(found)) = SubSeq(all, n + 1, Len(all))
      <3>1. found = SubSeq(all, 1, n)
        BY <2>9, <2>10
      <3>2. n \in 0 .. Len(all)
        BY <2>9, <2>10
      <3>3. Only(all, Thread \ ToSet(SubSeq(all, 1, n))) = SubSeq(all, n + 1, Len(all))
        BY <2>9, <3>2, OnlyAfter
      <3> QED
        BY <3>1, <3>3
    <2>15. ASSUME NEW d \in Address \ {a} PROVE QueueOf(d)' = QueueOf(d)
      <3>1. PICK c : c = HomeOf(d) /\ c = HomeOf(d)'
        BY <2>6
      <3>2. CASE c = Nil
        BY <3>1, <3>2 DEF QueueOf
      <3>3. CASE c # Nil
        <4>1. c \in Bucket
          BY <1>0, <3>1, <3>3, HomeNow
        <4>2. Only(queue'[c], OnAddress(d)) = Only(queue[c], OnAddress(d))
          <5>1. CASE c = b
            <6>1. Only(queue'[b], OnAddress(d)) = Only(queue[b], (Thread \ ToSet(found)) \cap OnAddress(d))
              BY <2>9, OnlyTwice
            <6>2. (Thread \ ToSet(found)) \cap OnAddress(d) = OnAddress(d)
              BY <1>2 DEF OnAddress
            <6> QED
              BY <5>1, <6>1, <6>2
          <5>2. CASE c # b
            BY <1>2, <4>1, <5>2
          <5> QED
            BY <5>1, <5>2
        <4> QED
          BY <2>11, <3>1, <3>3, <4>2 DEF QueueOf
      <3> QED
        BY <3>2, <3>3
    <2>16. ASSUME NEW u \in ToSet(found) PROVE u \in Thread /\ StatusOf(u) = "parked" /\ StatusOf(u)' = "unparked"
      <3>1. u \in QueuedAt(b) /\ u \in Thread /\ ~didDequeue[u] /\ u # t
        BY <2>2
      <3>2. pc[u] \in ParkedPC /\ pc'[u] = pc[u]
        BY <1>0, <1>2, <2>1, <3>1, QueuedFacts
      <3>3. \A c \in Bucket : u \notin QueuedAt(c)'
        BY <2>5
      <3> QED
        BY <1>2, <2>1, <3>1, <3>2, <3>3 DEF StatusOf, ParkedPC
    <2>17. ASSUME NEW u \in Thread, u \notin ToSet(found) PROVE StatusOf(u)' = StatusOf(u)
      <3>1. \A c \in Bucket : u \in QueuedAt(c)' <=> u \in QueuedAt(c)
        BY <2>5, <2>17
      <3>2. pc'[u] \in ParkedPC <=> pc[u] \in ParkedPC
        BY <1>5, <2>1 DEF ParkedPC, ParkPC
      <3> QED
        BY <2>1, <3>1, <3>2 DEF StatusOf, ParkedPC
    <2>18. \A u : u \in ToSet(found) <=> \E i \in 1 .. n : all[i] = u
      <3>1. \A u : u \in ToSet(found) <=> \E i \in 1 .. n : found[i] = u
        BY <1>2, <2>10, Members
      <3>2. \A i \in 1 .. n : found[i] = all[i]
        BY <2>9, <2>10, PrefixFacts
      <3> QED
        BY <3>1, <3>2
    <2>19. /\ n \in 1 .. Len(QueueOf(a)) /\ QueueOf(a) \in Seq(Thread)
           /\ QueueOf(a)' = SubSeq(QueueOf(a), n + 1, Len(QueueOf(a)))
      BY <2>9, <2>12, <2>13, <2>14
    <2>20. \A i \in 1 .. n : StatusOf(QueueOf(a)[i]) = "parked"
      BY <2>12, <2>16, <2>18
    <2>21. /\ \A i \in 1 .. n, u \in Thread : QueueOf(a)[i] = u => StatusOf(u)' = "unparked"
           /\ \A u \in Thread : (\A i \in 1 .. n : QueueOf(a)[i] # u) => StatusOf(u)' = StatusOf(u)
      BY <2>12, <2>16, <2>17, <2>18
    <2>22. AsQueues!Next
      BY <1>2, <2>15, <2>19, <2>20, <2>21, AbstractUnpark
    <2> QED
      BY <2>7, <2>8, <2>22 DEF PlacesOK
  <1> QED
    BY <1>7, <1>8

\* An unparker clears the address of the first of its threads.
LEMMA PlacesClear ==
  ASSUME IInv, NEW t \in Thread, ClearAddress(t)
  PROVE  PlacesOK' /\ Stays
  <1>0. TypeOK /\ PlacesOK /\ TargetsOK(t) /\ pc[t] = "clearAddress"
    BY DEF IInv, PlacesOK, ClearAddress
  <1>1. PICK u : u = targets[t][1]
    OBVIOUS
  <1>2. targets[t] \in Seq(Thread) /\ targets[t] # <<>> /\ IsInjective(targets[t])
    BY <1>0 DEF TypeOK, TargetsOK, WakePC
  <1>3. /\ u \in Thread
        /\ ToSet(targets[t]) = {u} \cup ToSet(Tail(targets[t])) /\ u \notin ToSet(Tail(targets[t]))
    BY <1>1, <1>2, FirstAndRest
  <1>4. u \in ToClear(t)
    BY <1>0, <1>3 DEF ToClear
  <1>5. /\ u # t /\ address[u] # Nil /\ ~didDequeue[u]
        /\ \A b \in Bucket : u \notin QueuedAt(b)
        /\ \A w \in Thread : u \in ToClear(w) => w = t
    BY <1>0, <1>4, ToClearThread
  <1>6. pc[u] \in ParkedPC
    BY <1>0, <1>3, <1>5 DEF PlacesOK, AddressOK
  <1>7. /\ address' = [address EXCEPT ![u] = Nil]
        /\ token' = IF call[t].kind = "one" THEN [token EXCEPT ![u] = 0] ELSE token
        /\ pc' = [pc EXCEPT ![t] = "signal"]
        /\ UNCHANGED <<hashtables, queue, targets, didDequeue, arg, call>>
    BY <1>1 DEF ClearAddress, Goto, locals, tableVars
  <1>8. /\ pc'[t] = "signal" /\ address'[u] = Nil
        /\ \A v \in Thread \ {t} : pc'[v] = pc[v]
        /\ \A v \in Thread \ {u} : address'[v] = address[v] /\ token'[v] = token[v]
    BY <1>0, <1>3, <1>7 DEF TypeOK
  <1>9. ToClear(t)' = ToClear(t) \ {u} /\ \A v \in Thread \ {t} : ToClear(v)' = ToClear(v)
    <2>1. ToClear(t)' = ToSet(Tail(targets[t]))
      BY <1>7, <1>8 DEF ToClear
    <2>2. ToClear(t) = ToSet(targets[t])
      BY <1>0 DEF ToClear
    <2>3. \A v \in Thread \ {t} : ToClear(v)' = ToClear(v)
      BY <1>7, <1>8, ClearSame
    <2> QED
      BY <1>3, <2>1, <2>2, <2>3
  <1>10. \A b \in Bucket : QueuedAt(b)' = QueuedAt(b)
    BY <1>7 DEF QueuedAt
  <1>11. \A c \in Address : HomeOf(c)' = HomeOf(c)
    BY <1>7 DEF HomeOf, Slot, Spine
  <1>12. ASSUME NEW b \in Bucket PROVE QueueOK(b)'
    <2>1. ASSUME NEW v \in QueuedAt(b)
          PROVE  address'[v] # Nil /\ HomeOf(address[v])' = b /\ pc'[v] \notin {"finish", "asleepFinish"}
      <3>1. v # u
        BY <1>5
      <3>2. v \in Thread /\ address[v] \in Address /\ HomeOf(address[v]) = b /\ pc[v] \notin {"finish", "asleepFinish"}
        BY <1>0, QueuedFacts
      <3>3. PICK d \in Address : d = address[v] /\ d = address'[v]
        BY <1>8, <3>1, <3>2
      <3>4. HomeOf(address[v])' = HomeOf(d)'
        BY <3>3
      <3> QED
        BY <1>8, <1>11, <3>2, <3>3, <3>4, NilAssumption
    <2>2. IsInjective(queue[b])'
      BY <1>0, <1>7 DEF PlacesOK, QueueOK
    <2> QED
      BY <1>10, <2>1, <2>2 DEF QueueOK
  <1>13. \A v \in Thread \ {u} : (\E w \in Thread : v \in ToClear(w)') <=> (\E w \in Thread : v \in ToClear(w))
    BY <1>9
  <1>14. ASSUME NEW v \in Thread PROVE AddressOK(v)' /\ TargetsOK(v)' /\ WokenOK(v)'
    <2>0. AddressOK(v) /\ TargetsOK(v) /\ WokenOK(v)
      BY <1>0 DEF PlacesOK
    <2>1. AddressOK(v)'
      <3>1. CASE v = u
        BY <1>5, <1>7, <1>8, <3>1 DEF AddressOK
      <3>2. CASE v # u
        <4>1. pc[v] \in ParkedPC => pc'[v] = pc[v]
          BY <1>0, <1>8 DEF ParkedPC, ParkPC
        <4>2. pc[v] = "finish" => pc'[v] = pc[v]
          BY <1>0, <1>8
        <4> QED
          BY <1>7, <1>8, <1>10, <1>13, <2>0, <3>2, <4>1, <4>2 DEF AddressOK
      <3> QED
        BY <3>1, <3>2
    <2>2. TargetsOK(v)'
      <3>1. pc'[v] \in WakePC <=> pc[v] \in WakePC
        BY <1>0, <1>8 DEF WakePC
      <3>2. ASSUME NEW x \in ToClear(v)'
            PROVE  /\ address'[x] # Nil /\ ~didDequeue'[x]
                   /\ \A b \in Bucket : x \notin QueuedAt(b)'
                   /\ \A w \in Thread : x \in ToClear(w)' => w = v
                   /\ token'[x] = IF call'[v].kind = "callback" THEN 1 ELSE 0
        <4>1. x \in ToClear(v) /\ x # u
          BY <1>5, <1>9, <3>2
        <4>2. /\ x \in Thread /\ address[x] # Nil /\ ~didDequeue[x]
              /\ \A b \in Bucket : x \notin QueuedAt(b)
              /\ \A w \in Thread : x \in ToClear(w) => w = v
              /\ call[v].kind = "callback" => token[x] = 1
              /\ call[v].kind # "callback" => token[x] = 0
          BY <1>0, <4>1, ToClearThread
        <4>3. \A w \in Thread : x \in ToClear(w)' => x \in ToClear(w)
          BY <1>9
        <4> QED
          BY <1>7, <1>8, <1>10, <4>1, <4>2, <4>3
      <3> QED
        BY <1>7, <2>0, <3>1, <3>2 DEF TargetsOK
    <2>3. WokenOK(v)'
      <3>1. \A w \in Thread : pc[w] = "signal" => pc'[w] = "signal" /\ targets'[w] = targets[w]
        BY <1>7, <1>8
      <3>2. CASE v = u
        <4>1. pc'[t] = "signal" /\ targets'[t][1] = u
          BY <1>1, <1>7, <1>8
        <4>2. pc'[u] = pc[u]
          BY <1>3, <1>5, <1>8
        <4> QED
          BY <1>6, <1>8, <3>2, <4>1, <4>2 DEF WokenOK
      <3>3. CASE v # u
        <4>1. pc[v] \in ParkedPC => pc'[v] = pc[v]
          BY <1>0, <1>8 DEF ParkedPC, ParkPC
        <4>2. pc'[v] \in {"asleep", "asleepFinish"} => pc'[v] = pc[v]
          BY <1>8
        <4>3. address'[v] = address[v] /\ token'[v] = token[v]
          BY <1>8, <3>3
        <4> QED
          BY <1>13, <2>0, <3>1, <3>3, <4>1, <4>2, <4>3 DEF WokenOK
      <3> QED
        BY <3>2, <3>3
    <2> QED
      BY <2>1, <2>2, <2>3
  <1>15. ASSUME NEW a \in Address PROVE QueueOf(a)' = QueueOf(a)
    <2>1. HomeOf(a)' \in Bucket \cup {Nil} /\ HomesKept
      BY <1>0, <1>7, HomesSame, HomeType DEF TypeOK
    <2>2. \A b \in Bucket : \A v \in QueuedAt(b) : address'[v] = address[v]
      BY <1>0, <1>5, <1>8, QueuedFacts
    <2>3. \A v \in Thread : address'[v] = address[v] \/ address'[v] = Nil
      BY <1>8
    <2> QED
      BY <1>0, <1>7, <2>1, <2>2, <2>3, QueuesKept
  <1>16. ASSUME NEW v \in Thread PROVE StatusOf(v)' = StatusOf(v)
    <2>1. pc'[v] \in ParkedPC <=> pc[v] \in ParkedPC
      BY <1>0, <1>8 DEF ParkedPC, ParkPC
    <2> QED
      BY <1>7, <1>10, <2>1 DEF StatusOf, ParkedPC
  <1> QED
    BY <1>12, <1>14, <1>15, <1>16 DEF PlacesOK, Stays

\* An unparker signals the thread whose address it has cleared.
LEMMA PlacesSignal ==
  ASSUME IInv, NEW t \in Thread, Signal(t)
  PROVE  PlacesOK' /\ Stays
  <1>0. TypeOK /\ PlacesOK /\ TargetsOK(t) /\ pc[t] = "signal"
    BY DEF IInv, PlacesOK, Signal
  <1>1. PICK u : u = targets[t][1]
    OBVIOUS
  <1>2. /\ targets[t] \in Seq(Thread)
        /\ u \in Thread /\ u # t
        /\ ToSet(targets[t]) = {u} \cup ToSet(Tail(targets[t]))
        /\ IsInjective(Tail(targets[t]))
        /\ targets' = [targets EXCEPT ![t] = Tail(targets[t])]
        /\ Tail(targets[t]) = <<>> => pc'[t] = "idle"
        /\ Tail(targets[t]) # <<>> => pc'[t] = "clearAddress" /\ call'[t] = call[t]
        /\ pc'[u] = Awoken(pc[u])
        /\ \A v \in Thread \ {t, u} : pc'[v] = pc[v]
        /\ \A v \in Thread \ {t} : arg'[v] = arg[v] /\ call'[v] = call[v]
    <2>1. /\ targets[t] \in Seq(Thread)
          /\ u \in Thread /\ u # t
          /\ ToSet(targets[t]) = {u} \cup ToSet(Tail(targets[t]))
          /\ IsInjective(Tail(targets[t]))
          /\ targets' = [targets EXCEPT ![t] = Tail(targets[t])]
      BY <1>1, SignalFacts
    <2>2. Tail(targets[t]) = <<>> => pc'[t] = "idle"
      BY <1>1, SignalFacts
    <2>3. Tail(targets[t]) # <<>> => pc'[t] = "clearAddress" /\ call'[t] = call[t]
      BY <1>1, SignalFacts
    <2>4. pc'[u] = Awoken(pc[u]) /\ \A v \in Thread \ {t, u} : pc'[v] = pc[v]
      BY <1>1, SignalFacts
    <2>5. \A v \in Thread \ {t} : arg'[v] = arg[v] /\ call'[v] = call[v]
      BY <1>1, SignalFacts
    <2> QED
      BY <2>1, <2>2, <2>3, <2>4, <2>5
  <1>3. UNCHANGED <<hashtables, queue, address, token, didDequeue>>
    BY DEF Signal, tableVars, threadVars
  <1>4. \A v \in Thread \ {t} : targets'[v] = targets[v]
    BY <1>0, <1>2 DEF TypeOK
  <1>5. targets'[t] = Tail(targets[t]) /\ pc'[t] \in {"idle", "clearAddress"}
    BY <1>0, <1>2 DEF TypeOK
  <1>6. /\ \A v \in Thread \ {t} : \/ pc'[v] = pc[v]
                                   \/ v = u /\ pc[v] = "asleep" /\ pc'[v] = "park"
                                   \/ v = u /\ pc[v] = "asleepFinish" /\ pc'[v] = "finish"
        /\ pc'[u] \notin {"asleep", "asleepFinish"}
    BY <1>2 DEF Awoken
  <1>7. \A v \in Thread : ToClear(v)' = ToClear(v)
    <2>1. ToClear(t)' = ToClear(t)
      BY <1>0, <1>5 DEF ToClear
    <2>2. \A v \in Thread \ {t} : ToClear(v)' = ToClear(v)
      BY <1>4, <1>6, ClearSame
    <2> QED
      BY <2>1, <2>2
  <1>8. \A b \in Bucket : QueuedAt(b)' = QueuedAt(b)
    BY <1>3 DEF QueuedAt
  <1>9. \A c \in Address : HomeOf(c)' = HomeOf(c)
    BY <1>3 DEF HomeOf, Slot, Spine
  <1>10. /\ address[t] = Nil /\ ~didDequeue[t] /\ token[t] = 0
         /\ \A b \in Bucket : t \notin QueuedAt(b)
         /\ \A v \in Thread : t \notin ToClear(v)
    BY <1>0, NotParked DEF ParkedPC, ParkPC
  <1>11. ASSUME NEW b \in Bucket PROVE QueueOK(b)'
    <2>1. ASSUME NEW v \in QueuedAt(b)
          PROVE  address'[v] # Nil /\ HomeOf(address[v])' = b /\ pc'[v] \notin {"finish", "asleepFinish"}
      <3>1. v # t
        BY <1>10
      <3>2. v \in Thread /\ address[v] \in Address /\ HomeOf(address[v]) = b /\ pc[v] \notin {"finish", "asleepFinish"}
        BY <1>0, QueuedFacts
      <3>3. PICK d \in Address : d = address[v] /\ d = address'[v]
        BY <1>3, <3>2
      <3>4. HomeOf(address[v])' = HomeOf(d)'
        BY <3>3
      <3> QED
        BY <1>6, <1>9, <3>1, <3>2, <3>3, <3>4, NilAssumption
    <2>2. IsInjective(queue[b])'
      BY <1>0, <1>3 DEF PlacesOK, QueueOK
    <2> QED
      BY <1>8, <2>1, <2>2 DEF QueueOK
  <1>12. ASSUME NEW v \in Thread PROVE AddressOK(v)' /\ TargetsOK(v)' /\ WokenOK(v)'
    <2>0. AddressOK(v) /\ TargetsOK(v) /\ WokenOK(v)
      BY <1>0 DEF PlacesOK
    <2>1. AddressOK(v)'
      <3>1. CASE v = t
        BY <1>3, <1>10, <3>1 DEF AddressOK
      <3>2. CASE v # t
        <4>1. (pc[v] \in ParkedPC => pc'[v] \in ParkedPC) /\ (pc[v] = "finish" => pc'[v] = "finish")
          BY <1>6, <3>2 DEF ParkedPC, ParkPC
        <4> QED
          BY <1>2, <1>3, <1>7, <1>8, <2>0, <3>2, <4>1 DEF AddressOK
      <3> QED
        BY <3>1, <3>2
    <2>2. TargetsOK(v)'
      <3>1. ASSUME NEW x \in ToClear(v)
            PROVE  /\ address'[x] # Nil /\ ~didDequeue'[x]
                   /\ \A b \in Bucket : x \notin QueuedAt(b)'
                   /\ \A w \in Thread : x \in ToClear(w)' => w = v
                   /\ token'[x] = IF call'[v].kind = "callback" THEN 1 ELSE 0
        <4>1. /\ address[x] # Nil /\ ~didDequeue[x]
              /\ \A b \in Bucket : x \notin QueuedAt(b)
              /\ \A w \in Thread : x \in ToClear(w) => w = v
              /\ call[v].kind = "callback" => token[x] = 1
              /\ call[v].kind # "callback" => token[x] = 0
          BY <1>0, <3>1, ToClearThread
        <4>2. call'[v] = call[v]
          <5>1. CASE v # t
            BY <1>2, <5>1
          <5>2. CASE v = t
            <6>1. x \in ToSet(Tail(targets[t]))
              BY <1>0, <3>1, <5>2 DEF ToClear
            <6>2. Tail(targets[t]) # <<>>
              BY <6>1, Members
            <6> QED
              BY <1>2, <5>2, <6>2
          <5> QED
            BY <5>1, <5>2
        <4> QED
          BY <1>3, <1>7, <1>8, <4>1, <4>2
      <3>2. (targets[v] # <<>> <=> pc[v] \in WakePC)' /\ IsInjective(targets[v])' /\ (v \notin ToSet(targets[v]))'
        <4>1. CASE v = t
          <5>1. t \notin ToSet(Tail(targets[t]))
            BY <1>0, <1>2 DEF TargetsOK
          <5> QED
            BY <1>2, <1>5, <4>1, <5>1 DEF WakePC
        <4>2. CASE v # t
          BY <1>4, <1>6, <2>0, <4>2 DEF TargetsOK, WakePC
        <4> QED
          BY <4>1, <4>2
      <3> QED
        BY <1>7, <3>1, <3>2 DEF TargetsOK
    <2>3. WokenOK(v)'
      <3>1. ASSUME NEW w \in Thread, pc[w] = "signal", targets[w][1] = v, v # u
            PROVE  pc'[w] = "signal" /\ targets'[w] = targets[w]
        <4>1. w # t
          BY <1>1, <3>1
        <4> QED
          BY <1>4, <1>6, <3>1, <4>1
      <3>2. CASE v = t
        BY <1>3, <1>5, <1>10, <3>2 DEF WokenOK
      <3>3. CASE v # t
        <4>1. pc[v] \in ParkedPC => pc'[v] \in ParkedPC
          BY <1>6, <3>3 DEF ParkedPC, ParkPC
        <4>2. pc'[v] \in {"asleep", "asleepFinish"} => pc'[v] = pc[v] /\ v # u
          BY <1>6, <3>3
        <4> QED
          BY <1>3, <1>7, <2>0, <3>1, <4>1, <4>2 DEF WokenOK
      <3> QED
        BY <3>2, <3>3
    <2> QED
      BY <2>1, <2>2, <2>3
  <1>13. \A a \in Address : QueueOf(a)' = QueueOf(a)
    BY <1>3, <1>9 DEF QueueOf, OnAddress
  <1>14. ASSUME NEW v \in Thread PROVE StatusOf(v)' = StatusOf(v)
    <2>1. pc'[v] \in ParkedPC <=> pc[v] \in ParkedPC
      BY <1>0, <1>5, <1>6 DEF ParkedPC, ParkPC
    <2> QED
      BY <1>3, <1>8, <2>1 DEF StatusOf, ParkedPC
  <1> QED
    BY <1>11, <1>12, <1>13, <1>14 DEF PlacesOK, Stays

-----------------------------------------------------------------------------
(* The inductive invariant *)

\* Nothing is on a queue at the start.
LEMMA InitIInv ==
  ASSUME Init
  PROVE  IInv
  <1>1. TypeOK
    <2>1. hashtables \in Seq(Spines)
      BY DEF Init
    <2>2. queue \in [Bucket -> Seq(Thread)] /\ targets \in [Thread -> Seq(Thread)]
      BY DEF Init
    <2>3. alive \in SUBSET Thread /\ IsFiniteSet(alive) /\ numThreads = Cardinality(alive)
      BY FS_EmptySet DEF Init
    <2>4. pc \in [Thread -> AllPC]
      BY DEF Init, AllPC
    <2> QED
      BY <2>1, <2>2, <2>3, <2>4 DEF Init, TypeOK
  <1>2. TablesOK
    BY DEF Init, TablesOK, TableOK, ParkPC, SizingPC, RehashPC, WakePC, BucketPC
  <1>3. LocksOK
    <2>1. \A b \in Bucket : lock[b] = Nil
      BY DEF Init
    <2>2. 0 \in Nat
      OBVIOUS
    <2>3. \A t \in Thread : LockOK(t)
      BY DEF Init, LockOK, RehashPC
    <2> QED
      BY <2>1, <2>2, <2>3 DEF LocksOK
  <1>4. PlacesOK
    <2>1. \A b \in Bucket : QueuedAt(b) = {} /\ IsInjective(queue[b])
      BY Members DEF Init, QueuedAt
    <2>2. \A t \in Thread : targets[t] = <<>> /\ pc[t] = "idle" /\ address[t] = Nil /\ token[t] = 0 /\ ~didDequeue[t]
      BY DEF Init
    <2>3. \A t \in Thread : ToClear(t) = {}
      BY <2>2, Members DEF ToClear
    <2>4. \A t \in Thread : AddressOK(t)
      BY <2>2 DEF AddressOK
    <2>5. \A t \in Thread : TargetsOK(t)
      BY <2>2, <2>3, Members DEF TargetsOK, WakePC
    <2>6. \A t \in Thread : WokenOK(t)
      BY <2>2 DEF WokenOK
    <2>7. \A b \in Bucket : QueueOK(b)
      BY <2>1 DEF QueueOK
    <2> QED
      BY <2>4, <2>5, <2>6, <2>7 DEF PlacesOK
  <1> QED
    BY <1>1, <1>2, <1>3, <1>4 DEF IInv

\* The steps of ensureHashtableSize().
LEMMA RehashStepIInv ==
  ASSUME IInv, NEW t \in Thread, RehashStep(t)
  PROVE  IInv'
  <1>1. CASE FastSizeCheck(t)
    BY <1>1, TablesSizeCheck, PlacesSizeCheck DEF IInv
  <1>2. CASE CollectBuckets(t)
    BY <1>2, TablesCollect, PlacesCollect DEF IInv
  <1>3. CASE LockNextBucket(t)
    BY <1>3, TablesLockNext, PlacesLockNext DEF IInv
  <1>4. CASE CheckHashtable(t)
    BY <1>4, TablesCheck, PlacesCheck DEF IInv
  <1>5. CASE UnlockAndRetry(t)
    BY <1>5, TablesUnlockRetry, PlacesUnlockRetry DEF IInv
  <1>6. CASE UnlockHashtable(t)
    BY <1>6, TablesUnlock, PlacesUnlock DEF IInv
  <1>7. CASE Rehash(t)
    BY <1>7, TablesRehash, PlacesRehash DEF IInv
  <1> QED
    BY <1>1, <1>2, <1>3, <1>4, <1>5, <1>6, <1>7 DEF RehashStep

\* The steps of parkConditionallyImpl().
LEMMA ParkStepIInv ==
  ASSUME IInv, NEW t \in Thread, ParkStep(t)
  PROVE  IInv'
  <1>1. CASE LocateBucket(t)
    BY <1>1, TablesLocateBucket, PlacesLocateBucket DEF IInv
  <1>2. CASE Retry(t, "enqueue", "locate")
    BY <1>2, TablesRetryEnqueue, PlacesRetryEnqueue DEF IInv
  <1>3. CASE Enqueue(t)
    BY <1>3, TablesEnqueue, PlacesEnqueue DEF IInv
  <1>4. CASE Park(t)
    BY <1>4, TablesPark, PlacesPark DEF IInv
  <1>5. CASE LocateSelf(t)
    BY <1>5, TablesLocateSelf, PlacesLocateSelf DEF IInv
  <1>6. CASE Retry(t, "removeSelf", "timedOut")
    BY <1>6, TablesRetryRemove, PlacesRetryRemove DEF IInv
  <1>7. CASE RemoveSelf(t)
    BY <1>7, TablesRemoveSelf, PlacesRemoveSelf DEF IInv
  <1>8. CASE Finish(t)
    BY <1>8, TablesFinish, PlacesFinish DEF IInv
  <1> QED
    BY <1>1, <1>2, <1>3, <1>4, <1>5, <1>6, <1>7, <1>8 DEF ParkStep

\* The steps of an unpark.
LEMMA UnparkStepIInv ==
  ASSUME IInv, NEW t \in Thread, UnparkStep(t)
  PROVE  IInv'
  <1>1. CASE LocateTargets(t)
    BY <1>1, TablesLocateTargets, PlacesLocateTargets DEF IInv
  <1>2. CASE Retry(t, "dequeue", "unpark")
    BY <1>2, TablesRetryDequeue, PlacesRetryDequeue DEF IInv
  <1>3. CASE Dequeue(t)
    BY <1>3, TablesDequeue, PlacesDequeue DEF IInv
  <1>4. CASE ClearAddress(t)
    BY <1>4, TablesClear, PlacesClear DEF IInv
  <1>5. CASE Signal(t)
    BY <1>5, TablesSignal, PlacesSignal DEF IInv
  <1> QED
    BY <1>1, <1>2, <1>3, <1>4, <1>5 DEF UnparkStep

\* Every step keeps the invariant.
LEMMA NextIInv ==
  ASSUME IInv, Next
  PROVE  IInv'
  <1>1. PICK t \in Thread :
           \/ CreateThreadData(t) \/ DestroyThreadData(t) \/ RehashStep(t)
           \/ \E a \in Address : ParkConditionally(t, a)
           \/ Refuse(t) \/ ParkStep(t) \/ TimeOut(t) \/ StopWaiting(t)
           \/ \E a \in Address : \E c \in Calls[a] : Unpark(t, a, c)
           \/ UnparkStep(t)
    BY DEF Next
  <1>2. CASE CreateThreadData(t)
    BY <1>2, TablesCreate, PlacesCreate DEF IInv
  <1>3. CASE DestroyThreadData(t)
    BY <1>3, TablesDestroy, PlacesDestroy DEF IInv
  <1>4. CASE RehashStep(t)
    BY <1>4, RehashStepIInv
  <1>5. CASE \E a \in Address : ParkConditionally(t, a)
    BY <1>5, TablesParkConditionally, PlacesParkConditionally DEF IInv
  <1>6. CASE Refuse(t)
    BY <1>6, TablesRefuse, PlacesRefuse DEF IInv
  <1>7. CASE ParkStep(t)
    BY <1>7, ParkStepIInv
  <1>8. CASE TimeOut(t)
    BY <1>8, TablesTimeOut, PlacesTimeOut DEF IInv
  <1>9. CASE StopWaiting(t)
    BY <1>9, TablesStopWaiting, PlacesStopWaiting DEF IInv
  <1>10. CASE \E a \in Address : \E c \in Calls[a] : Unpark(t, a, c)
    BY <1>10, TablesUnpark, PlacesUnpark DEF IInv
  <1>11. CASE UnparkStep(t)
    BY <1>11, UnparkStepIInv
  <1> QED
    BY <1>1, <1>2, <1>3, <1>4, <1>5, <1>6, <1>7, <1>8, <1>9, <1>10, <1>11

\* Nor does a stuttering step touch it.
LEMMA StutterIInv ==
  ASSUME IInv, UNCHANGED vars
  PROVE  IInv'
  <1> USE DEF vars, tableVars, threadVars, locals
  <1>1. TypeOK'
    BY DEF IInv, TypeOK
  <1>2. TablesOK'
    BY DEF IInv, TablesOK, TableOK, OneToOne, Full, hashtable, Size, Spine
  <1>3. LocksOK'
    BY DEF IInv, LocksOK, LockOK, LargeEnough, hashtable, Size
  <1>4. (\A t \in Thread : ToClear(t)' = ToClear(t)) /\ (\A b \in Bucket : QueuedAt(b)' = QueuedAt(b))
    BY DEF ToClear, QueuedAt
  <1>5. (\A t \in Thread : AddressOK(t)' = AddressOK(t) /\ TargetsOK(t)' = TargetsOK(t) /\ WokenOK(t)' = WokenOK(t))
    BY <1>4 DEF AddressOK, TargetsOK, WokenOK
  <1>6. \A b \in Bucket : QueueOK(b)' = QueueOK(b)
    BY <1>4 DEF QueueOK, HomeOf, Slot, Spine
  <1>7. PlacesOK'
    BY <1>5, <1>6 DEF IInv, PlacesOK
  <1> QED
    BY <1>1, <1>2, <1>3, <1>7 DEF IInv

\* Whatever threads park, time out, unpark and rehash, in whatever order: the
\* invariant that everything below rests on.
THEOREM ParkingLotInvariant == Spec => []IInv
  <1>1. Init => IInv
    BY InitIInv
  <1>2. IInv /\ [Next]_vars => IInv'
    BY NextIInv, StutterIInv
  <1> QED
    BY <1>1, <1>2, PTL DEF Spec

-----------------------------------------------------------------------------
(* What the invariant says *)

\* As many elements as the sequence is long, if none is there twice.
LEMMA InjectiveCount ==
  ASSUME NEW T, NEW q \in Seq(T), IsInjective(q)
  PROVE  Cardinality(ToSet(q)) = Len(q)
  <1>1. Len(q) \in Nat /\ DOMAIN q = 1 .. Len(q) /\ q \in [1 .. Len(q) -> T]
    OBVIOUS
  <1>2. \A i \in 1 .. Len(q) : q[i] \in ToSet(q)
    BY <1>1 DEF ToSet
  <1>3. q \in Bijection(1 .. Len(q), ToSet(q))
    BY <1>1, <1>2 DEF Bijection, Injection, Surjection, IsInjective, ToSet
  <1>4. IsFiniteSet(1 .. Len(q)) /\ Cardinality(1 .. Len(q)) = Len(q)
    <2>1. Cardinality(1 .. Len(q)) = IF 1 > Len(q) THEN 0 ELSE Len(q) - 1 + 1
      BY <1>1, FS_Interval
    <2> QED
      BY <1>1, <2>1, FS_Interval
  <1>5. ExistsBijection(1 .. Len(q), ToSet(q))
    BY <1>3 DEF ExistsBijection
  <1> QED
    BY <1>4, <1>5, FS_Bijection

\* Nobody with an address is lost: it is on a queue, the right one, or it has
\* one unparker that will clear it, or it took itself off.
LEMMA InvariantNobodyForgotten ==
  ASSUME IInv
  PROVE  NobodyForgotten
  <1>0. TypeOK /\ TablesOK /\ PlacesOK
    BY DEF IInv
  <1>1. ASSUME NEW t \in Thread, address[t] # Nil
        PROVE  LET queued == \E b \in Bucket : t \in QueuedAt(b)
                   unparkers == {u \in Thread : t \in ToClear(u)}
               IN \/ queued /\ ~didDequeue[t] /\ unparkers = {}
                  \/ ~queued /\ ~didDequeue[t] /\ Cardinality(unparkers) = 1
                  \/ ~queued /\ didDequeue[t] /\ pc[t] = "finish"
    <2> DEFINE unparkers == {u \in Thread : t \in ToClear(u)}
    <2>0. AddressOK(t)
      BY <1>0 DEF PlacesOK
    <2>1. CASE \E b \in Bucket : t \in QueuedAt(b)
      BY <1>0, <2>1, QueuedFacts
    <2>2. CASE \E u \in Thread : t \in ToClear(u)
      <3>1. PICK u \in Thread : t \in ToClear(u)
        BY <2>2
      <3>2. /\ ~didDequeue[t] /\ \A b \in Bucket : t \notin QueuedAt(b)
            /\ \A v \in Thread : t \in ToClear(v) => v = u
        BY <1>0, <3>1, ToClearThread
      <3>3. unparkers = {u}
        BY <3>1, <3>2
      <3>4. Cardinality(unparkers) = 1
        BY <3>3, FS_Singleton
      <3> QED
        BY <3>2, <3>4
    <2>3. CASE didDequeue[t]
      BY <2>0, <2>3 DEF AddressOK
    <2> QED
      BY <1>1, <2>0, <2>1, <2>2, <2>3 DEF AddressOK
  <1>2. \A b \in Bucket : \A t \in QueuedAt(b) : address[t] # Nil /\ HomeOf(address[t]) = b
    BY <1>0 DEF PlacesOK, QueueOK
  <1>3. ASSUME NEW b \in Bucket PROVE Cardinality(QueuedAt(b)) = Len(queue[b])
    BY <1>0, InjectiveCount DEF TypeOK, PlacesOK, QueueOK, QueuedAt
  <1>4. hashtables # <<>> => OneToOne(Spine(hashtables))
    BY <1>0 DEF TablesOK
  <1> QED
    BY <1>1, <1>2, <1>3, <1>4 DEF NobodyForgotten, OneToOne

\* The size that a rehash chooses is at least what the load factor asks for.
LEMMA Growth ==
  ASSUME NEW n \in Nat \ {0}, NEW g \in Nat \ {0}, NEW m \in Nat \ {0}
  PROVE  n * g * m >= m * n
  <1>1. PICK k \in Nat : k = n * m
    BY SMTT(30)
  <1>2. n * g * m = g * k /\ m * n = k
    BY <1>1, SMTT(30)
  <1>3. PICK h \in Nat : g = h + 1
    <2>1. g - 1 \in Nat /\ g = (g - 1) + 1
      OBVIOUS
    <2> QED
      BY <2>1
  <1>4. g * k = h * k + k /\ h * k \in Nat
    BY <1>1, <1>3, SMTT(30)
  <1> QED
    BY <1>1, <1>2, <1>4

\* The RELEASE_ASSERTs.
LEMMA InvariantAssertionsHold ==
  ASSUME IInv
  PROVE  AssertionsHold
  <1>0. TypeOK /\ TablesOK /\ LocksOK /\ PlacesOK
    BY DEF IInv
  <1> SUFFICES ASSUME NEW t \in Thread
               PROVE  /\ pc[t] \in {"locate", "enqueue"} => address[t] = Nil
                      /\ pc[t] \in {"finish", "asleepFinish"} => \A b \in Bucket : t \notin QueuedAt(b)
                      /\ pc[t] = "rehash" =>
                            /\ currentNumThreads[t] * growthFactor * maxLoadFactor > Size(hashtable)
                            /\ myTable[t] = hashtable
                            /\ \A b \in InSpine(Spine(hashtables)) : lock[b] = t
                      /\ pc[t] = "clearAddress" => address[targets[t][1]] # Nil
    BY DEF AssertionsHold
  <1>1. pc[t] \in {"locate", "enqueue"} => address[t] = Nil
    BY <1>0, NotParked DEF ParkedPC
  <1>2. pc[t] \in {"finish", "asleepFinish"} => \A b \in Bucket : t \notin QueuedAt(b)
    BY <1>0 DEF PlacesOK, QueueOK
  <1>3. ASSUME pc[t] = "rehash"
        PROVE  /\ currentNumThreads[t] * growthFactor * maxLoadFactor > Size(hashtable)
               /\ myTable[t] = hashtable
               /\ \A b \in InSpine(Spine(hashtables)) : lock[b] = t
    <2>1. TableOK(t) /\ LockOK(t)
      BY <1>0 DEF TablesOK, LocksOK
    <2>2. /\ myTable[t] = hashtable /\ myTable[t] \in 1 .. hashtable
          /\ buckets[t] = InSpine(hashtables[hashtable]) /\ currentNumThreads[t] # 0
          /\ \A b \in buckets[t] : lock[b] = t
          /\ ~LargeEnough(hashtable, currentNumThreads[t])
      BY <1>3, <2>1 DEF TableOK, LockOK, RehashPC
    <2>3. hashtable \in 1 .. Len(hashtables) /\ hashtables[hashtable] \in Spines
      BY <1>0, <2>2 DEF TypeOK, hashtable
    <2>4. Size(hashtable) \in Nat
      BY <2>3, SpineFacts DEF Size
    <2>5. hashtable # 0
      BY <1>0, <2>3 DEF TypeOK
    <2>6. ~(Size(hashtable) >= maxLoadFactor * currentNumThreads[t])
      BY <2>2, <2>5 DEF LargeEnough
    <2>7. PICK n \in Nat \ {0} : n = currentNumThreads[t]
      BY <1>0, <2>2 DEF TypeOK
    <2>8. n * growthFactor * maxLoadFactor >= maxLoadFactor * n
      BY FactorAssumption, Growth
    <2>9. maxLoadFactor * n \in Nat /\ n * growthFactor * maxLoadFactor \in Nat
      BY FactorAssumption
    <2>10. n * growthFactor * maxLoadFactor > Size(hashtable)
      BY <2>4, <2>6, <2>7, <2>8, <2>9
    <2> QED
      BY <2>2, <2>7, <2>10 DEF Spine, hashtable
  <1>4. ASSUME pc[t] = "clearAddress" PROVE address[targets[t][1]] # Nil
    <2>1. targets[t] \in Seq(Thread) /\ targets[t] # <<>> /\ IsInjective(targets[t])
      BY <1>0, <1>4 DEF TypeOK, PlacesOK, TargetsOK, WakePC
    <2>2. targets[t][1] \in ToSet(targets[t])
      BY <2>1, FirstAndRest
    <2>3. targets[t][1] \in ToClear(t)
      BY <1>4, <2>2 DEF ToClear
    <2> QED
      BY <1>0, <2>3, ToClearThread
  <1> QED
    BY <1>1, <1>2, <1>3, <1>4

\* The token.
LEMMA InvariantTokenTruthful ==
  ASSUME IInv
  PROVE  TokenTruthful
  BY DEF IInv, PlacesOK, TargetsOK, TokenTruthful

\* Nobody sleeps who is not about to be signalled, and no set of threads waits
\* for buckets in a circle: the owner of the highest bucket that the set owns
\* waits for a higher one.
LEMMA InvariantNobodyStuck ==
  ASSUME IInv
  PROVE  NobodyStuck
  <1>0. TypeOK /\ LocksOK /\ PlacesOK
    BY DEF IInv
  <1>1. \A t \in Thread : pc[t] \in {"asleep", "asleepFinish"} /\ address[t] = Nil =>
          \E u \in Thread : pc[u] = "signal" /\ targets[u][1] = t
    BY <1>0 DEF PlacesOK, WokenOK
  <1>2. ASSUME NEW S \in (SUBSET Thread) \ {{}},
               \A t \in S : pc[t] = "lockBuckets" /\ \E b \in buckets[t] \ Locked(t) : lock[b] \in S
        PROVE  FALSE
    <2>1. S \subseteq Thread /\ S # {} /\ Nil \notin S
      BY NilAssumption
    <2>2. PICK n \in Nat : \A b \in Bucket : lock[b] # Nil => b < n
      BY <1>0 DEF LocksOK
    <2> DEFINE H == {b \in Bucket : lock[b] \in S}
               D == {n - b : b \in H}
    <2>3. ASSUME NEW t \in S PROVE \E b \in H : b \in buckets[t] /\ lock[b] # t
      <3>1. PICK b \in buckets[t] \ Locked(t) : lock[b] \in S
        BY <1>2
      <3>2. b \in Bucket
        BY <1>0, <2>1 DEF TypeOK
      <3> QED
        BY <3>1, <3>2 DEF Locked
    <2>4. \A b \in H : b \in Nat /\ b < n
      BY <2>1, <2>2, BucketAssumption
    <2>5. H # {}
      BY <2>1, <2>3
    <2> HIDE DEF H
    <2>6. D \in SUBSET Nat /\ D # {}
      BY <2>4, <2>5
    <2>7. PICK d \in D : \A e \in D : d <= e
      <3> HIDE DEF D
      <3> QED
        BY <2>6, Least
    <2>8. PICK b \in H : d = n - b
      OBVIOUS
    <2>9. \A c \in H : c <= b
      <3> TAKE c \in H
      <3>1. n - c \in D
        OBVIOUS
      <3>2. d <= n - c
        BY <2>7, <3>1
      <3> QED
        BY <2>4, <2>8, <3>2
    <2>10. b \in Bucket /\ lock[b] \in S
      BY DEF H
    <2>11. PICK t \in S : t = lock[b]
      BY <2>10
    <2>12. b \in buckets[t] /\ LockOK(t) /\ pc[t] = "lockBuckets"
      BY <1>0, <1>2, <2>1, <2>10, <2>11 DEF LocksOK
    <2>13. PICK c \in H : c \in buckets[t] /\ lock[c] # t
      BY <2>3
    <2>14. b < c
      BY <2>11, <2>12, <2>13 DEF LockOK
    <2> QED
      BY <2>4, <2>9, <2>13, <2>14
  <1> QED
    BY <1>1, <1>2 DEF NobodyStuck

\* A thread that parked is never lost, whatever rehashing, timeouts and unparks
\* cross: on the queue of its address, with one unparker, or off by its own hand.
THEOREM ParkingLotForgetsNobody == Spec => []NobodyForgotten
  BY ParkingLotInvariant, InvariantNobodyForgotten, PTL

\* The RELEASE_ASSERTs of ParkingLot.cpp never fire.
THEOREM ParkingLotAssertionsHold == Spec => []AssertionsHold
  BY ParkingLotInvariant, InvariantAssertionsHold, PTL

\* A thread that was dequeued has the token of the unpark that dequeued it.
THEOREM ParkingLotTokenTruthful == Spec => []TokenTruthful
  BY ParkingLotInvariant, InvariantTokenTruthful, PTL

\* No thread sleeps for a signal that will not come, and threads that lock whole
\* hashtables never wait for each other in a circle.
THEOREM ParkingLotStrandsNobody == Spec => []NobodyStuck
  BY ParkingLotInvariant, InvariantNobodyStuck, PTL

-----------------------------------------------------------------------------
(* What an unpark tells its caller *)

\* A step of v that is not about a dequeue of another thread.
Elsewhere(v) == pc[v] # "dequeue" /\ \A u \in Thread \ {v} : pc'[u] = pc[u]

\* The steps of ensureHashtableSize() are.
LEMMA RehashStepElsewhere ==
  ASSUME TypeOK, NEW v \in Thread, RehashStep(v)
  PROVE  Elsewhere(v)
  <1>0. pc \in [Thread -> AllPC]
    BY DEF TypeOK
  <1>1. CASE FastSizeCheck(v)
    BY <1>0, <1>1 DEF Elsewhere, FastSizeCheck, Return, Goto
  <1>2. CASE CollectBuckets(v)
    BY <1>0, <1>2 DEF Elsewhere, CollectBuckets, Goto
  <1>3. CASE LockNextBucket(v)
    BY <1>0, <1>3 DEF Elsewhere, LockNextBucket, Goto
  <1>4. CASE CheckHashtable(v)
    BY <1>0, <1>4 DEF Elsewhere, CheckHashtable, Goto
  <1>5. CASE UnlockAndRetry(v)
    BY <1>0, <1>5 DEF Elsewhere, UnlockAndRetry, Goto
  <1>6. CASE UnlockHashtable(v)
    BY <1>0, <1>6 DEF Elsewhere, UnlockHashtable, Return, Goto
  <1>7. CASE Rehash(v)
    BY <1>0, <1>7 DEF Elsewhere, Rehash, Goto
  <1> QED
    BY <1>1, <1>2, <1>3, <1>4, <1>5, <1>6, <1>7 DEF RehashStep

\* So are the steps of parkConditionallyImpl().
LEMMA ParkStepElsewhere ==
  ASSUME TypeOK, NEW v \in Thread, ParkStep(v)
  PROVE  Elsewhere(v)
  <1>0. pc \in [Thread -> AllPC]
    BY DEF TypeOK
  <1>1. CASE LocateBucket(v)
    BY <1>0, <1>1 DEF Elsewhere, LocateBucket, Locate, Goto
  <1>2. CASE Retry(v, "enqueue", "locate")
    BY <1>0, <1>2 DEF Elsewhere, Retry, Goto
  <1>3. CASE Enqueue(v)
    BY <1>0, <1>3 DEF Elsewhere, Enqueue, Goto
  <1>4. CASE Park(v)
    BY <1>0, <1>4 DEF Elsewhere, Park, Return, Goto
  <1>5. CASE LocateSelf(v)
    BY <1>0, <1>5 DEF Elsewhere, LocateSelf, Locate, Goto
  <1>6. CASE Retry(v, "removeSelf", "timedOut")
    BY <1>0, <1>6 DEF Elsewhere, Retry, Goto
  <1>7. CASE RemoveSelf(v)
    BY <1>0, <1>7 DEF Elsewhere, RemoveSelf, Goto
  <1>8. CASE Finish(v)
    BY <1>0, <1>8 DEF Elsewhere, Finish, Return, Goto
  <1> QED
    BY <1>1, <1>2, <1>3, <1>4, <1>5, <1>6, <1>7, <1>8 DEF ParkStep

\* Only its own dequeue takes a thread from there to the wake-ups or out of
\* the call.
LEMMA WhoDequeues ==
  ASSUME IInv, Next, NEW t \in Thread, pc[t] = "dequeue", pc'[t] \in {"clearAddress", "idle"}
  PROVE  Dequeue(t)
  <1>0. TypeOK /\ pc \in [Thread -> AllPC]
    BY DEF IInv, TypeOK
  <1>1. PICK v \in Thread :
           \/ CreateThreadData(v) \/ DestroyThreadData(v) \/ RehashStep(v)
           \/ \E a \in Address : ParkConditionally(v, a)
           \/ Refuse(v) \/ ParkStep(v) \/ TimeOut(v) \/ StopWaiting(v)
           \/ \E a \in Address : \E c \in Calls[a] : Unpark(v, a, c)
           \/ UnparkStep(v)
    BY DEF Next
  <1>2. ~Elsewhere(v)
    BY DEF Elsewhere
  <1>3. CASE CreateThreadData(v) \/ DestroyThreadData(v)
    BY <1>0, <1>2, <1>3 DEF Elsewhere, CreateThreadData, DestroyThreadData, Goto
  <1>4. CASE RehashStep(v)
    BY <1>0, <1>2, <1>4, RehashStepElsewhere
  <1>5. CASE \E a \in Address : ParkConditionally(v, a)
    BY <1>0, <1>2, <1>5 DEF Elsewhere, ParkConditionally, Goto
  <1>6. CASE Refuse(v)
    BY <1>0, <1>2, <1>6 DEF Elsewhere, Refuse, Return, Goto
  <1>7. CASE ParkStep(v)
    BY <1>0, <1>2, <1>7, ParkStepElsewhere
  <1>8. CASE TimeOut(v)
    BY <1>0, <1>2, <1>8 DEF Elsewhere, TimeOut, Goto
  <1>9. CASE StopWaiting(v)
    BY <1>0, <1>2, <1>9 DEF Elsewhere, StopWaiting, Goto
  <1>10. CASE \E a \in Address : \E c \in Calls[a] : Unpark(v, a, c)
    BY <1>0, <1>2, <1>10 DEF Elsewhere, Unpark, Goto
  <1>11. CASE UnparkStep(v)
    <2>1. CASE LocateTargets(v)
      BY <1>0, <1>2, <2>1 DEF Elsewhere, LocateTargets, Locate, Return, Goto
    <2>2. CASE Retry(v, "dequeue", "unpark")
      <3>1. pc'[v] = "unpark" /\ \A u \in Thread \ {v} : pc'[u] = pc[u]
        BY <1>0, <2>2 DEF Retry, Goto
      <3> QED
        BY <3>1
    <2>3. CASE Dequeue(v)
      <3>1. \A u \in Thread \ {v} : pc'[u] = pc[u]
        BY <1>0, <2>3 DEF Dequeue, Return, Goto
      <3> QED
        BY <2>3, <3>1
    <2>4. CASE ClearAddress(v)
      BY <1>0, <1>2, <2>4 DEF Elsewhere, ClearAddress, Goto
    <2>5. CASE Signal(v)
      <3>1. PICK u : u = targets[v][1]
        OBVIOUS
      <3>2. pc'[u] = Awoken(pc[u]) /\ \A w \in Thread \ {v, u} : pc'[w] = pc[w]
        BY <2>5, <3>1, SignalFacts
      <3>3. pc[v] = "signal"
        BY <2>5 DEF Signal
      <3> QED
        BY <3>2, <3>3 DEF Awoken
    <2> QED
      BY <1>11, <2>1, <2>2, <2>3, <2>4, <2>5 DEF UnparkStep
  <1> QED
    BY <1>1, <1>3, <1>4, <1>5, <1>6, <1>7, <1>8, <1>9, <1>10, <1>11

\* The bucket that a dequeue leaves empty was the only one where threads of its
\* address are.
LEMMA EmptyMeansNone ==
  ASSUME IInv, NEW t \in Thread, Dequeue(t), queue'[myBucket[t]] = <<>>
  PROVE  \A c \in Bucket : \A u \in ToSet(queue'[c]) : address'[u] # arg[t]
  <1>0. TypeOK /\ PlacesOK /\ address' = address
    BY DEF IInv, Dequeue
  <1>1. PICK b, a : b = myBucket[t] /\ a = arg[t]
    OBVIOUS
  <1>2. PICK found, all : found = FirstOf(b, a, call[t].count) /\ all = Only(queue[b], OnAddress(a))
    OBVIOUS
  <1>3. Taken(t, b, a, all, found)
    BY <1>1, <1>2, DequeueFacts
  <1> SUFFICES ASSUME NEW c \in Bucket, NEW u \in ToSet(queue'[c]), address[u] = a PROVE FALSE
    BY <1>0, <1>1
  <1>4. c # b
    BY <1>1 DEF ToSet
  <1>5. u \in QueuedAt(c)
    BY <1>3, <1>4 DEF Taken, QueuedAt
  <1>6. HomeOf(a) = c
    BY <1>0, <1>5, QueuedFacts
  <1> QED
    BY <1>3, <1>4, <1>6 DEF Taken

\* mayHaveMoreThreads is computed from one bucket and is true of all of them:
\* when an unpark leaves its bucket empty, nobody is parked on its address.
THEOREM ParkingLotNoMoreThreadsIsTrue == Spec => NoMoreThreadsIsTrue
  <1>1. IInv /\ [Next]_vars =>
          [\A t \in Thread :
              pc[t] = "dequeue" /\ pc'[t] \in {"clearAddress", "idle"} /\ queue'[myBucket[t]] = <<>>
                  => \A b \in Bucket : \A u \in ToSet(queue'[b]) : address'[u] # arg[t]]_vars
    BY WhoDequeues, EmptyMeansNone
  <1> QED
    BY <1>1, ParkingLotInvariant, PTL DEF Spec, NoMoreThreadsIsTrue

-----------------------------------------------------------------------------
(* One queue per address *)

\* The steps of ensureHashtableSize().
LEMMA RehashStepRefines ==
  ASSUME IInv, NEW t \in Thread, RehashStep(t)
  PROVE  Stays \/ AsQueues!Next
  <1>1. CASE FastSizeCheck(t)
    BY <1>1, TablesSizeCheck, PlacesSizeCheck
  <1>2. CASE CollectBuckets(t)
    BY <1>2, TablesCollect, PlacesCollect
  <1>3. CASE LockNextBucket(t)
    BY <1>3, TablesLockNext, PlacesLockNext
  <1>4. CASE CheckHashtable(t)
    BY <1>4, TablesCheck, PlacesCheck
  <1>5. CASE UnlockAndRetry(t)
    BY <1>5, TablesUnlockRetry, PlacesUnlockRetry
  <1>6. CASE UnlockHashtable(t)
    BY <1>6, TablesUnlock, PlacesUnlock
  <1>7. CASE Rehash(t)
    BY <1>7, TablesRehash, PlacesRehash
  <1> QED
    BY <1>1, <1>2, <1>3, <1>4, <1>5, <1>6, <1>7 DEF RehashStep

\* The steps of parkConditionallyImpl().
LEMMA ParkStepRefines ==
  ASSUME IInv, NEW t \in Thread, ParkStep(t)
  PROVE  Stays \/ AsQueues!Next
  <1>1. CASE LocateBucket(t)
    BY <1>1, TablesLocateBucket, PlacesLocateBucket
  <1>2. CASE Retry(t, "enqueue", "locate")
    BY <1>2, TablesRetryEnqueue, PlacesRetryEnqueue
  <1>3. CASE Enqueue(t)
    BY <1>3, TablesEnqueue, PlacesEnqueue
  <1>4. CASE Park(t)
    BY <1>4, TablesPark, PlacesPark
  <1>5. CASE LocateSelf(t)
    BY <1>5, TablesLocateSelf, PlacesLocateSelf
  <1>6. CASE Retry(t, "removeSelf", "timedOut")
    BY <1>6, TablesRetryRemove, PlacesRetryRemove
  <1>7. CASE RemoveSelf(t)
    BY <1>7, TablesRemoveSelf, PlacesRemoveSelf
  <1>8. CASE Finish(t)
    BY <1>8, TablesFinish, PlacesFinish
  <1> QED
    BY <1>1, <1>2, <1>3, <1>4, <1>5, <1>6, <1>7, <1>8 DEF ParkStep

\* The steps of an unpark.
LEMMA UnparkStepRefines ==
  ASSUME IInv, NEW t \in Thread, UnparkStep(t)
  PROVE  Stays \/ AsQueues!Next
  <1>1. CASE LocateTargets(t)
    BY <1>1, TablesLocateTargets, PlacesLocateTargets
  <1>2. CASE Retry(t, "dequeue", "unpark")
    BY <1>2, TablesRetryDequeue, PlacesRetryDequeue
  <1>3. CASE Dequeue(t)
    BY <1>3, TablesDequeue, PlacesDequeue
  <1>4. CASE ClearAddress(t)
    BY <1>4, TablesClear, PlacesClear
  <1>5. CASE Signal(t)
    BY <1>5, TablesSignal, PlacesSignal
  <1> QED
    BY <1>1, <1>2, <1>3, <1>4, <1>5 DEF UnparkStep

\* Every step keeps the invariant.
LEMMA NextRefines ==
  ASSUME IInv, Next
  PROVE  Stays \/ AsQueues!Next
  <1>1. PICK t \in Thread :
           \/ CreateThreadData(t) \/ DestroyThreadData(t) \/ RehashStep(t)
           \/ \E a \in Address : ParkConditionally(t, a)
           \/ Refuse(t) \/ ParkStep(t) \/ TimeOut(t) \/ StopWaiting(t)
           \/ \E a \in Address : \E c \in Calls[a] : Unpark(t, a, c)
           \/ UnparkStep(t)
    BY DEF Next
  <1>2. CASE CreateThreadData(t)
    BY <1>2, TablesCreate, PlacesCreate
  <1>3. CASE DestroyThreadData(t)
    BY <1>3, TablesDestroy, PlacesDestroy
  <1>4. CASE RehashStep(t)
    BY <1>4, RehashStepRefines
  <1>5. CASE \E a \in Address : ParkConditionally(t, a)
    BY <1>5, TablesParkConditionally, PlacesParkConditionally
  <1>6. CASE Refuse(t)
    BY <1>6, TablesRefuse, PlacesRefuse
  <1>7. CASE ParkStep(t)
    BY <1>7, ParkStepRefines
  <1>8. CASE TimeOut(t)
    BY <1>8, TablesTimeOut, PlacesTimeOut
  <1>9. CASE StopWaiting(t)
    BY <1>9, TablesStopWaiting, PlacesStopWaiting
  <1>10. CASE \E a \in Address : \E c \in Calls[a] : Unpark(t, a, c)
    BY <1>10, TablesUnpark, PlacesUnpark
  <1>11. CASE UnparkStep(t)
    BY <1>11, UnparkStepRefines
  <1> QED
    BY <1>1, <1>2, <1>3, <1>4, <1>5, <1>6, <1>7, <1>8, <1>9, <1>10, <1>11


\* Before the first step, every queue is empty and nobody is parked.
LEMMA InitRefines ==
  ASSUME Init
  PROVE  AsQueues!Init
  <1>1. \A a \in Address : QueueOf(a) = <<>>
    BY DEF Init, QueueOf, HomeOf
  <1>2. \A t \in Thread : StatusOf(t) = "running"
    <2>1. \A t \in Thread : pc[t] = "idle"
      BY DEF Init
    <2>2. \A b \in Bucket : QueuedAt(b) = {}
      BY Members DEF Init, QueuedAt
    <2> QED
      BY <2>1, <2>2 DEF StatusOf, ParkPC
  <1> QED
    BY <1>1, <1>2 DEF AsQueues!Init

\* A stuttering step changes no queue.
LEMMA StutterStays ==
  ASSUME UNCHANGED vars
  PROVE  Stays
  <1> USE DEF vars, tableVars, threadVars, locals
  <1>1. \A a \in Address : HomeOf(a)' = HomeOf(a) /\ OnAddress(a)' = OnAddress(a)
    BY DEF HomeOf, Slot, Spine, OnAddress
  <1>2. \A b \in Bucket : QueuedAt(b)' = QueuedAt(b)
    BY DEF QueuedAt
  <1>3. \A a \in Address : QueueOf(a)' = QueueOf(a)
    BY <1>1 DEF QueueOf
  <1>4. \A t \in Thread : StatusOf(t)' = StatusOf(t)
    BY <1>2 DEF StatusOf
  <1> QED
    BY <1>3, <1>4 DEF Stays

\* The hashtable with its buckets, its rehashing, its timeouts and its retries
\* implements one FIFO queue per address.
THEOREM ParkingLotImplementsQueues == Spec => ImplementsQueues
  <1>1. Init => AsQueues!Init
    BY InitRefines
  <1>2. IInv /\ [Next]_vars => [AsQueues!Next]_(AsQueues!vars)
    BY NextRefines, StutterStays, AbstractStays
  <1> QED
    BY <1>1, <1>2, ParkingLotInvariant, PTL DEF Spec, ImplementsQueues, AsQueues!Spec
=============================================================================
