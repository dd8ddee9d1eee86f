--------------------------- MODULE RequestQueueProofs --------------------------
(***************************************************************************)
(* Proofs about RequestQueue, for any finite set of producers, any number  *)
(* of queues and any depth: along the links lie disjoint lists, a thread's *)
(* requests are in order in them, a wake is due for what no merge will     *)
(* find, and every step on the links is a step of RequestBank.             *)
(*                                                                         *)
(* Follow walks a list by recursion over its length.  That it finds the    *)
(* list (FollowFinds) is an induction on a set of numbers, from the        *)
(* library's theorem on minimal elements.                                  *)
(***************************************************************************)
EXTENDS RequestQueue, FiniteSetTheorems, SequenceTheorems, NaturalsInduction,
        WellFoundedInduction, TLAPS

-----------------------------------------------------------------------------
(* Linked lists and the sequences they stand for.                          *)

\* From h the links lead through the requests of s, in order, to Nil.
Links(s, link, h) ==
    /\ s \in Seq(Requests)
    /\ \A j, k \in 1 .. Len(s) : s[j] = s[k] => j = k
    /\ h = IF s = <<>> THEN Nil ELSE s[1]
    /\ \A k \in 1 .. Len(s) : link[s[k]] = IF k = Len(s) THEN Nil ELSE s[k + 1]

\* < on the numbers, as a relation, and the library's fact about it.
LessThan == {p \in Nat \X Nat : p[1] < p[2]}

LEMMA LessThanWellFounded == IsWellFoundedOn(LessThan, Nat)
  BY NatLessThanWellFounded, Zenon DEF OpToRel, LessThan

\* Induction on a set of numbers.
LEMMA AllNumbers ==
  ASSUME NEW S, S \subseteq Nat, 0 \in S, NEW n \in Nat,
         \A k \in 1 .. n : k - 1 \in S => k \in S
  PROVE  \A k \in 0 .. n : k \in S
  <1> DEFINE Bad == {k \in 0 .. n : k \notin S}
  <1> SUFFICES ASSUME Bad # {} PROVE FALSE
    OBVIOUS
  <1>1. Bad \subseteq Nat
    OBVIOUS
  <1> HIDE DEF Bad
  <1>2. PICK b \in Bad : \A k \in Bad : <<k, b>> \notin LessThan
    BY <1>1, WFMin, LessThanWellFounded
  <1> USE DEF Bad
  <1>3. b # 0 /\ b - 1 \in 0 .. n
    OBVIOUS
  <1>4. b - 1 \in S
    <2>1. <<b - 1, b>> \in LessThan
      BY <1>3 DEF LessThan
    <2> QED
      BY <1>2, <1>3, <2>1
  <1> QED
    BY <1>3, <1>4

LEMMA RequestsFinite == IsFiniteSet(Requests) /\ Cardinality(Requests) \in Nat
  <1>1. IsFiniteSet(1 .. MaxSubmits)
    BY QueueAssumption, FS_Interval
  <1>2. IsFiniteSet(Requests)
    BY <1>1, QueueAssumption, FS_Product DEF Requests
  <1> QED
    BY <1>2, FS_CardinalityType

\* A list has no more requests than there are.
LEMMA ListFits ==
  ASSUME NEW s \in Seq(Requests), \A j, k \in 1 .. Len(s) : s[j] = s[k] => j = k
  PROVE  Len(s) <= Cardinality(Requests)
  <1>1. s \in Injection(1 .. Len(s), Requests)
    BY DEF Injection, IsInjective
  <1>2. Cardinality(1 .. Len(s)) = Len(s)
    BY FS_Interval
  <1> QED
    BY <1>1, <1>2, RequestsFinite, FS_Injection

\* What Follow walks in n steps, along with its shorter walks.
IsWalk(f, link, n) ==
    f = [k \in 0 .. n |->
            [x \in Requests \union {Nil} |->
                IF k = 0 \/ x = Nil THEN <<>> ELSE <<x>> \o f[k - 1][link[x]]]]

\* There is one, of every length: Follow's recursion is sound.
LEMMA WalkExists ==
  ASSUME NEW link, NEW n \in Nat
  PROVE  \E f : IsWalk(f, link, n)
  <1> DEFINE Has == {m \in Nat : \E f : IsWalk(f, link, m)}
  <1>1. 0 \in Has
    <2> DEFINE e == [k \in 0 .. 0 |-> [x \in Requests \union {Nil} |-> <<>>]]
    <2>1. IsWalk(e, link, 0)
      BY DEF IsWalk
    <2> QED
      BY <2>1
  <1>2. ASSUME NEW m \in 1 .. n, m - 1 \in Has
        PROVE  m \in Has
    <2>1. PICK f : IsWalk(f, link, m - 1)
      BY <1>2
    <2> DEFINE g == [k \in 0 .. m |->
                       [x \in Requests \union {Nil} |->
                          IF k = 0 \/ x = Nil THEN <<>>
                          ELSE <<x>> \o f[k - 1][link[x]]]]
    <2>2. ASSUME NEW k \in 0 .. m - 1 PROVE g[k] = f[k]
      <3>1. f[k] = [x \in Requests \union {Nil} |->
                      IF k = 0 \/ x = Nil THEN <<>>
                      ELSE <<x>> \o f[k - 1][link[x]]]
        BY <2>1, Zenon DEF IsWalk
      <3>2. k \in 0 .. m
        OBVIOUS
      <3>3. g[k] = [x \in Requests \union {Nil} |->
                      IF k = 0 \/ x = Nil THEN <<>>
                      ELSE <<x>> \o f[k - 1][link[x]]]
        BY <3>2, Zenon
      <3> HIDE DEF g
      <3> QED
        BY <3>1, <3>3
    <2>3. ASSUME NEW k \in 0 .. m, k # 0 PROVE f[k - 1] = g[k - 1]
      <3>1. k - 1 \in 0 .. m - 1
        BY <2>3
      <3> HIDE DEF g
      <3> QED
        BY <2>2, <3>1
    <2> DEFINE h == [k \in 0 .. m |->
                       [x \in Requests \union {Nil} |->
                          IF k = 0 \/ x = Nil THEN <<>>
                          ELSE <<x>> \o g[k - 1][link[x]]]]
    <2>4. ASSUME NEW k \in 0 .. m PROVE g[k] = h[k]
      <3>1. CASE k = 0
        BY <3>1
      <3>2. CASE k # 0
        <4>1. f[k - 1] = g[k - 1]
          BY <2>3, <3>2
        <4> HIDE DEF g
        <4>2. h[k] = [x \in Requests \union {Nil} |->
                        IF k = 0 \/ x = Nil THEN <<>>
                        ELSE <<x>> \o g[k - 1][link[x]]]
          OBVIOUS
        <4> USE DEF g
        <4>3. g[k] = [x \in Requests \union {Nil} |->
                        IF k = 0 \/ x = Nil THEN <<>>
                        ELSE <<x>> \o f[k - 1][link[x]]]
          OBVIOUS
        <4> HIDE DEF g, h
        <4> QED
          BY <4>1, <4>2, <4>3
      <3> QED
        BY <3>1, <3>2
    <2>5. g = h
      BY <2>4
    <2>6. IsWalk(g, link, m)
      <3> HIDE DEF g
      <3> QED
        BY <2>5 DEF IsWalk
    <2> QED
      BY <2>6
  <1>3. Has \subseteq Nat
    OBVIOUS
  <1> HIDE DEF Has
  <1>4. \A m \in 0 .. n : m \in Has
    BY <1>1, <1>2, <1>3, AllNumbers
  <1>5. n \in Has
    BY <1>4
  <1> QED
    BY <1>5 DEF Has

LEMMA FollowIsWalk ==
  ASSUME NEW link, NEW h
  PROVE  \E f : IsWalk(f, link, Cardinality(Requests))
                 /\ Follow(link, h) = f[Cardinality(Requests)][h]
  <1> DEFINE N == Cardinality(Requests)
             f == CHOOSE g : IsWalk(g, link, N)
  <1>1. Follow(link, h) = f[N][h]
    BY DEF Follow, IsWalk
  <1>2. IsWalk(f, link, N)
    BY RequestsFinite, WalkExists
  <1> QED
    BY <1>1, <1>2

\* What Follow finds is the list, though it only knows its head.
LEMMA FollowFinds ==
  ASSUME NEW s, NEW link, NEW h, Links(s, link, h)
  PROVE  Follow(link, h) = s
  <1> DEFINE N == Cardinality(Requests)
             L == Len(s)
             At(k) == IF k <= L THEN s[k] ELSE Nil
             End(k, n) == IF k + n - 1 <= L THEN k + n - 1 ELSE L
  <1>1. N \in Nat /\ s \in Seq(Requests) /\ L <= N /\ L \in Nat
    BY RequestsFinite, ListFits DEF Links
  <1>2. PICK f : IsWalk(f, link, N) /\ Follow(link, h) = f[N][h]
    BY FollowIsWalk
  <1> HIDE DEF N
  <1> DEFINE Found == {n \in 0 .. N : \A k \in 1 .. L + 1 :
                         f[n][At(k)] = SubSeq(s, k, End(k, n))}
  <1>3. ASSUME NEW n \in 0 .. N, NEW x \in Requests \union {Nil}
        PROVE  f[n][x] = IF n = 0 \/ x = Nil THEN <<>> ELSE <<x>> \o f[n - 1][link[x]]
    <2>1. f[n] = [y \in Requests \union {Nil} |->
                    IF n = 0 \/ y = Nil THEN <<>> ELSE <<y>> \o f[n - 1][link[y]]]
      BY <1>2, Zenon DEF IsWalk
    <2> QED
      BY <2>1, Zenon
  <1>4. \A k \in 1 .. L + 1 : At(k) \in Requests \union {Nil}
    BY <1>1
  <1>5. 0 \in Found
    <2>1. ASSUME NEW k \in 1 .. L + 1
          PROVE  f[0][At(k)] = SubSeq(s, k, End(k, 0))
      <3>1. SubSeq(s, k, End(k, 0)) = <<>>
        BY <1>1, SubSeqEmpty
      <3>2. At(k) \in Requests \union {Nil} /\ 0 \in 0 .. N
        BY <1>1, <1>4
      <3> HIDE DEF At, End
      <3> QED
        BY <1>3, <3>1, <3>2
    <2> QED
      BY <1>1, <2>1
  <1>6. ASSUME NEW n \in 1 .. N, n - 1 \in Found
        PROVE  n \in Found
    <2>1. ASSUME NEW k \in 1 .. L + 1
          PROVE  f[n][At(k)] = SubSeq(s, k, End(k, n))
      <3>1. CASE k = L + 1
        <4>1. SubSeq(s, k, End(k, n)) = <<>>
          BY <1>1, <3>1, SubSeqEmpty
        <4>2. At(k) = Nil /\ n \in 0 .. N
          BY <1>1, <3>1
        <4> HIDE DEF At, End
        <4> QED
          BY <1>3, <4>1, <4>2
      <3>2. CASE k <= L
        <4>1. At(k) = s[k] /\ s[k] \in Requests /\ s[k] # Nil
          BY <1>1, <3>2, NilAssumption
        <4>2. link[s[k]] = At(k + 1)
          BY <1>1, <3>2 DEF Links
        <4>3. f[n][At(k)] = <<s[k]>> \o f[n - 1][At(k + 1)]
          <5>1. n \in 0 .. N /\ n # 0
            BY <1>1
          <5> HIDE DEF At
          <5> QED
            BY <1>3, <4>1, <4>2, <5>1
        <4>4. f[n - 1][At(k + 1)] = SubSeq(s, k + 1, End(k + 1, n - 1))
          BY <1>1, <1>6, <3>2
        <4>5. End(k + 1, n - 1) = End(k, n) /\ End(k, n) \in k .. L
          BY <1>1, <3>2
        <4>6. SubSeq(s, k, End(k, n)) = <<s[k]>> \o SubSeq(s, k + 1, End(k, n))
          <5> DEFINE e == End(k, n)
          <5>1. k \in 1 .. L /\ e \in k .. L
            BY <1>1, <3>2, <4>5
          <5> HIDE DEF e
          <5>2. SubSeq(s, k, e) = <<s[k]>> \o SubSeq(s, k + 1, e)
            BY <1>1, <5>1, SubSeqRecursiveFirst
          <5> QED
            BY <5>2 DEF e
        <4> HIDE DEF At, End
        <4> QED
          BY <4>3, <4>4, <4>5, <4>6
      <3> QED
        BY <1>1, <3>1, <3>2
    <2> QED
      BY <1>1, <2>1
  <1>7. Found \subseteq Nat
    BY <1>1
  <1>8. N \in Found
    <2> HIDE DEF Found
    <2>1. \A n \in 0 .. N : n \in Found
      BY <1>1, <1>5, <1>6, <1>7, AllNumbers
    <2> QED
      BY <1>1, <2>1
  <1>9. h = At(1)
    BY <1>1 DEF Links
  <1>10. f[N][h] = SubSeq(s, 1, End(1, N))
    BY <1>1, <1>8, <1>9
  <1>11. End(1, N) = L
    BY <1>1
  <1>12. SubSeq(s, 1, L) = s
    BY <1>1, SubSeqFull
  <1> QED
    BY <1>2, <1>10, <1>11, <1>12

LastOf(s) == IF s = <<>> THEN Nil ELSE s[Len(s)]

\* What Links says, for citing.
LEMMA ListFacts ==
  ASSUME NEW s, NEW link, NEW h, Links(s, link, h)
  PROVE  /\ s \in Seq(Requests) /\ Len(s) \in Nat /\ DOMAIN s = 1 .. Len(s)
         /\ s = <<>> <=> Len(s) = 0
         /\ \A j, k \in 1 .. Len(s) : s[j] = s[k] => j = k
         /\ \A k \in 1 .. Len(s) : k # Len(s) => link[s[k]] = s[k + 1]
         /\ s # <<>> => h = s[1] /\ link[s[Len(s)]] = Nil
         /\ s = <<>> <=> h = Nil
         /\ \A k \in 1 .. Len(s) : s[k] \in Requests /\ s[k] \in Elements(s)
         /\ s # <<>> => LastOf(s) = s[Len(s)] /\ LastOf(s) \in Elements(s)
         /\ Elements(s) \subseteq Requests
  <1>1. s \in Seq(Requests) /\ Len(s) \in Nat /\ DOMAIN s = 1 .. Len(s)
    BY DEF Links
  <1>2. s = <<>> <=> Len(s) = 0
    BY <1>1, EmptySeq
  <1>3. \A k \in 1 .. Len(s) : s[k] \in Requests /\ s[k] \in Elements(s)
    BY <1>1 DEF Elements
  <1>4. s # <<>> => s[1] \in Requests
    BY <1>1, <1>2
  <1>5. s # <<>> => LastOf(s) = s[Len(s)] /\ LastOf(s) \in Elements(s)
    BY <1>1, <1>2, <1>3 DEF LastOf
  <1>6. s # <<>> => h = s[1] /\ link[s[Len(s)]] = Nil
    <2>1. ASSUME s # <<>> PROVE h = s[1]
      BY <2>1 DEF Links
    <2>2. ASSUME s # <<>> PROVE link[s[Len(s)]] = Nil
      <3>1. Len(s) \in 1 .. Len(s)
        BY <1>1, <1>2, <2>2
      <3>2. link[s[Len(s)]] = IF Len(s) = Len(s) THEN Nil ELSE s[Len(s) + 1]
        BY <3>1 DEF Links
      <3> QED
        BY <3>2
    <2> QED
      BY <2>1, <2>2
  <1>7. s = <<>> <=> h = Nil
    BY <1>4, <1>6, NilAssumption DEF Links
  <1>8. Elements(s) \subseteq Requests
    BY <1>1, <1>3 DEF Elements
  <1>9. \A j, k \in 1 .. Len(s) : s[j] = s[k] => j = k
    BY DEF Links
  <1>10. \A k \in 1 .. Len(s) : k # Len(s) => link[s[k]] = s[k + 1]
    BY DEF Links
  <1> QED
    BY <1>1, <1>2, <1>3, <1>5, <1>6, <1>7, <1>8, <1>9, <1>10

\* Links of requests elsewhere do not matter to a list.
LEMMA ListStays ==
  ASSUME NEW s, NEW link, NEW h, NEW link2, Links(s, link, h),
         \A x \in Elements(s) : link2[x] = link[x]
  PROVE  Links(s, link2, h)
  <1>1. s \in Seq(Requests) /\ DOMAIN s = 1 .. Len(s)
    BY DEF Links
  <1>2. ASSUME NEW k \in 1 .. Len(s) PROVE link2[s[k]] = link[s[k]]
    BY <1>1 DEF Elements
  <1> QED
    BY <1>2 DEF Links

\* The last request of a list links to g now, the others and the rest as before.
Relinks(s, rest, link, link2, g) ==
    /\ s # <<>> => link2[LastOf(s)] = g
    /\ \A x \in Elements(s) \union rest :
        s = <<>> \/ x # LastOf(s) => link2[x] = link[x]

\* A push: the last request links to the new one, which links to nothing.
LEMMA ListAppends ==
  ASSUME NEW s, NEW link, NEW h, NEW link2, NEW r \in Requests, Links(s, link, h),
         r \notin Elements(s), link2[r] = Nil, Relinks(s, {}, link, link2, r)
  PROVE  /\ Links(Append(s, r), link2, IF s = <<>> THEN r ELSE h)
         /\ LastOf(Append(s, r)) = r
         /\ Elements(Append(s, r)) = Elements(s) \union {r}
         /\ Len(Append(s, r)) = Len(s) + 1
  <1> DEFINE t == Append(s, r)
  <1>1. /\ s \in Seq(Requests) /\ Len(s) \in Nat /\ DOMAIN s = 1 .. Len(s)
        /\ s = <<>> <=> Len(s) = 0
        /\ s # <<>> => h = s[1] /\ LastOf(s) = s[Len(s)]
    BY ListFacts
  <1>a. \A j, k \in 1 .. Len(s) : s[j] = s[k] => j = k
    BY ListFacts
  <1>b. \A k \in 1 .. Len(s) : k # Len(s) => link[s[k]] = s[k + 1]
    BY ListFacts
  <1>c. /\ s # <<>> => link2[LastOf(s)] = r
        /\ \A x \in Elements(s) : s = <<>> \/ x # LastOf(s) => link2[x] = link[x]
    BY DEF Relinks
  <1>2. /\ t \in Seq(Requests) /\ Len(t) = Len(s) + 1 /\ DOMAIN t = 1 .. Len(s) + 1
        /\ t[Len(s) + 1] = r
        /\ t # <<>>
    <2>1. /\ t \in Seq(Requests) /\ Len(t) = Len(s) + 1 /\ DOMAIN t = 1 .. Len(s) + 1
          /\ t[Len(s) + 1] = r
      BY <1>1
    <2>2. Len(t) # 0
      BY <1>1, <2>1
    <2> HIDE DEF t
    <2> QED
      BY <2>1, <2>2, EmptySeq
  <1>3. ASSUME NEW k \in 1 .. Len(s) PROVE t[k] = s[k] /\ s[k] \in Elements(s)
    BY <1>1 DEF Elements
  <1> HIDE DEF t
  <1>4. ASSUME NEW j \in 1 .. Len(t), NEW k \in 1 .. Len(t), t[j] = t[k]
        PROVE  j = k
    <2>1. CASE j <= Len(s) /\ k <= Len(s)
      BY <1>1, <1>3, <1>4, <1>a, <2>1
    <2>2. CASE j = Len(s) + 1 /\ k = Len(s) + 1
      BY <2>2
    <2>3. CASE j <= Len(s) /\ k = Len(s) + 1
      BY <1>1, <1>2, <1>3, <1>4, <2>3
    <2>4. CASE j = Len(s) + 1 /\ k <= Len(s)
      BY <1>1, <1>2, <1>3, <1>4, <2>4
    <2> QED
      BY <1>1, <1>2, <2>1, <2>2, <2>3, <2>4
  <1>5. ASSUME NEW k \in 1 .. Len(t)
        PROVE  link2[t[k]] = IF k = Len(t) THEN Nil ELSE t[k + 1]
    <2>1. CASE k = Len(t)
      BY <1>2, <2>1
    <2>2. CASE k = Len(s) /\ Len(s) # 0
      <3>1. s # <<>> /\ LastOf(s) = t[k]
        BY <1>1, <1>3, <2>2
      <3> QED
        BY <1>1, <1>2, <1>c, <2>2, <3>1
    <2>3. CASE k < Len(s)
      <3>1. s # <<>> /\ LastOf(s) = s[Len(s)]
        BY <1>1, <2>3
      <3>2. s[k] # LastOf(s)
        BY <1>1, <1>a, <2>3, <3>1
      <3>3. link2[s[k]] = link[s[k]]
        BY <1>1, <1>3, <1>c, <2>3, <3>1, <3>2
      <3>4. link[s[k]] = s[k + 1]
        <4>1. k \in 1 .. Len(s) /\ k # Len(s)
          <5>1. Len(s) \in Nat /\ Len(t) \in Nat /\ k \in 1 .. Len(t)
            BY <1>1, <1>2
          <5> QED
            BY <2>3, <5>1
        <4> QED
          BY <1>b, <4>1
      <3> QED
        BY <1>1, <1>2, <1>3, <2>3, <3>3, <3>4
    <2> QED
      <3>1. k = Len(t) \/ (k = Len(s) /\ Len(s) # 0) \/ k < Len(s)
        <4>1. Len(s) \in Nat /\ Len(t) = Len(s) + 1 /\ k \in 1 .. Len(t)
          BY <1>1, <1>2
        <4> HIDE DEF t
        <4> QED
          BY <4>1
      <3> QED
        BY <2>1, <2>2, <2>3, <3>1
  <1>6. (IF s = <<>> THEN r ELSE h) = t[1]
    <2>1. CASE s = <<>>
      BY <1>2, <2>1
    <2>2. CASE s # <<>>
      <3>1. 1 \in 1 .. Len(s)
        BY <1>1, <2>2
      <3> QED
        BY <1>1, <1>3, <2>2, <3>1
    <2> QED
      BY <2>1, <2>2
  <1>7. Links(t, link2, IF s = <<>> THEN r ELSE h)
    BY <1>2, <1>4, <1>5, <1>6, Zenon DEF Links
  <1>8. Elements(t) = Elements(s) \union {r}
    <2>1. ASSUME NEW k \in 1 .. Len(s) + 1 PROVE t[k] \in Elements(s) \union {r}
      BY <1>1, <1>2, <1>3
    <2>2. Elements(t) \subseteq Elements(s) \union {r}
      BY <1>2, <2>1 DEF Elements
    <2>3. r \in Elements(t)
      BY <1>1, <1>2 DEF Elements
    <2>4. Elements(s) \subseteq Elements(t)
      <3> SUFFICES ASSUME NEW x \in Elements(s) PROVE x \in Elements(t)
        OBVIOUS
      <3>1. PICK k \in 1 .. Len(s) : x = s[k]
        BY <1>1 DEF Elements
      <3>2. k \in DOMAIN t /\ t[k] = x
        BY <1>1, <1>2, <1>3, <3>1
      <3> QED
        BY <3>2 DEF Elements
    <2> QED
      BY <2>2, <2>3, <2>4
  <1> QED
    BY <1>2, <1>7, <1>8 DEF LastOf, t

\* A merge: the last request of one links to the first of the other.
LEMMA ListsJoin ==
  ASSUME NEW s, NEW t, NEW link, NEW h, NEW g, NEW link2,
         Links(s, link, h), Links(t, link, g), t # <<>>,
         Elements(s) \intersect Elements(t) = {},
         Relinks(s, Elements(t), link, link2, g)
  PROVE  /\ Links(s \o t, link2, IF s = <<>> THEN g ELSE h)
         /\ LastOf(s \o t) = LastOf(t)
         /\ Elements(s \o t) = Elements(s) \union Elements(t)
  <1> DEFINE u == s \o t
  <1>1. /\ s \in Seq(Requests) /\ Len(s) \in Nat /\ DOMAIN s = 1 .. Len(s)
        /\ s = <<>> <=> Len(s) = 0
        /\ s # <<>> => h = s[1] /\ LastOf(s) = s[Len(s)]
        /\ t \in Seq(Requests) /\ Len(t) \in Nat \ {0} /\ DOMAIN t = 1 .. Len(t)
        /\ g = t[1]
    BY ListFacts
  <1>a. \A j, k \in 1 .. Len(s) : s[j] = s[k] => j = k
    BY ListFacts
  <1>b. \A k \in 1 .. Len(s) : k # Len(s) => link[s[k]] = s[k + 1]
    BY ListFacts
  <1>c. \A j, k \in 1 .. Len(t) : t[j] = t[k] => j = k
    BY ListFacts
  <1>d. \A k \in 1 .. Len(t) : link[t[k]] = IF k = Len(t) THEN Nil ELSE t[k + 1]
    BY DEF Links
  <1>e. /\ s # <<>> => link2[LastOf(s)] = g
        /\ \A x \in Elements(s) \union Elements(t) :
               s = <<>> \/ x # LastOf(s) => link2[x] = link[x]
    BY DEF Relinks
  <1>2. /\ u \in Seq(Requests) /\ Len(u) = Len(s) + Len(t)
        /\ DOMAIN u = 1 .. Len(s) + Len(t)
        /\ u # <<>>
    BY <1>1
  <1>3. ASSUME NEW k \in 1 .. Len(s) PROVE u[k] = s[k] /\ s[k] \in Elements(s)
    BY <1>1 DEF Elements
  <1>4. ASSUME NEW k \in 1 .. Len(t) PROVE u[Len(s) + k] = t[k] /\ t[k] \in Elements(t)
    BY <1>1 DEF Elements
  <1>5. ASSUME NEW k \in Len(s) + 1 .. Len(u)
        PROVE  /\ u[k] = t[k - Len(s)] /\ t[k - Len(s)] \in Elements(t)
               /\ k - Len(s) \in 1 .. Len(t)
    <2>1. k - Len(s) \in 1 .. Len(t) /\ Len(s) + (k - Len(s)) = k
      BY <1>1, <1>2
    <2> HIDE DEF u
    <2> QED
      BY <1>4, <2>1
  <1> HIDE DEF u
  <1>6. ASSUME NEW j \in 1 .. Len(u), NEW k \in 1 .. Len(u), u[j] = u[k]
        PROVE  j = k
    <2>1. CASE j <= Len(s) /\ k <= Len(s)
      BY <1>1, <1>3, <1>6, <1>a, <2>1
    <2>2. CASE j > Len(s) /\ k > Len(s)
      <3>1. /\ j - Len(s) \in 1 .. Len(t) /\ k - Len(s) \in 1 .. Len(t)
            /\ t[j - Len(s)] = t[k - Len(s)]
        BY <1>1, <1>2, <1>5, <1>6, <2>2
      <3>2. j - Len(s) = k - Len(s)
        BY <1>c, <3>1
      <3> QED
        BY <1>1, <1>2, <3>2
    <2>3. CASE j <= Len(s) /\ k > Len(s)
      <3>1. j \in 1 .. Len(s) /\ k \in Len(s) + 1 .. Len(u)
        BY <1>1, <1>2, <2>3
      <3>2. u[j] \in Elements(s) /\ u[k] \in Elements(t)
        BY <1>3, <1>5, <3>1
      <3> QED
        BY <1>6, <3>2
    <2>4. CASE j > Len(s) /\ k <= Len(s)
      <3>1. k \in 1 .. Len(s) /\ j \in Len(s) + 1 .. Len(u)
        BY <1>1, <1>2, <2>4
      <3>2. u[k] \in Elements(s) /\ u[j] \in Elements(t)
        BY <1>3, <1>5, <3>1
      <3> QED
        BY <1>6, <3>2
    <2> QED
      BY <1>1, <1>2, <2>1, <2>2, <2>3, <2>4
  <1>7. ASSUME NEW k \in 1 .. Len(u)
        PROVE  link2[u[k]] = IF k = Len(u) THEN Nil ELSE u[k + 1]
    <2>1. CASE k < Len(s)
      <3>1. s # <<>> /\ LastOf(s) = s[Len(s)]
        BY <1>1, <2>1
      <3>2. s[k] # LastOf(s)
        BY <1>1, <1>a, <2>1, <3>1
      <3>3. link2[s[k]] = link[s[k]]
        BY <1>1, <1>3, <1>e, <2>1, <3>1, <3>2
      <3>4. link[s[k]] = s[k + 1]
        <4>1. k \in 1 .. Len(s) /\ k # Len(s)
          <5>1. Len(s) \in Nat /\ Len(u) \in Nat /\ k \in 1 .. Len(u)
            BY <1>1, <1>2
          <5> QED
            BY <2>1, <5>1
        <4> QED
          BY <1>b, <4>1
      <3> QED
        BY <1>1, <1>2, <1>3, <2>1, <3>3, <3>4
    <2>2. CASE k = Len(s) /\ Len(s) # 0
      <3>1. s # <<>> /\ LastOf(s) = u[k]
        BY <1>1, <1>3, <2>2
      <3>2. g = u[k + 1]
        BY <1>1, <1>4, <2>2
      <3>3. k # Len(u)
        <4>1. Len(s) \in Nat /\ Len(t) \in Nat \ {0} /\ Len(u) = Len(s) + Len(t)
          BY <1>1, <1>2
        <4> QED
          BY <2>2, <4>1
      <3> QED
        BY <1>e, <2>2, <3>1, <3>2, <3>3
    <2>3. CASE k > Len(s)
      <3> DEFINE l == k - Len(s)
      <3>1. u[k] = t[l] /\ t[l] \in Elements(t) /\ l \in 1 .. Len(t)
        BY <1>1, <1>2, <1>5, <2>3
      <3>2. s = <<>> \/ t[l] # LastOf(s)
        <4>1. s # <<>> => LastOf(s) \in Elements(s)
          BY <1>1, <1>3
        <4> QED
          BY <3>1, <4>1
      <3>3. link2[t[l]] = link[t[l]]
        BY <1>e, <3>1, <3>2
      <3>4. link[t[l]] = IF l = Len(t) THEN Nil ELSE t[l + 1]
        BY <1>d, <3>1
      <3>5. l = Len(t) <=> k = Len(u)
        BY <1>1, <1>2
      <3>6. ASSUME l # Len(t) PROVE u[k + 1] = t[l + 1]
        <4>1. k + 1 \in Len(s) + 1 .. Len(u) /\ (k + 1) - Len(s) = l + 1
          BY <1>1, <1>2, <2>3, <3>5, <3>6
        <4> QED
          BY <1>5, <4>1
      <3> HIDE DEF l
      <3> QED
        BY <3>1, <3>3, <3>4, <3>5, <3>6
    <2> QED
      <3>1. k < Len(s) \/ (k = Len(s) /\ Len(s) # 0) \/ k > Len(s)
        <4>1. Len(s) \in Nat /\ Len(u) \in Nat /\ k \in 1 .. Len(u)
          BY <1>1, <1>2
        <4> QED
          BY <4>1
      <3> QED
        BY <2>1, <2>2, <2>3, <3>1
  <1>8. (IF s = <<>> THEN g ELSE h) = u[1]
    <2>1. CASE s = <<>>
      <3>1. Len(s) = 0 /\ g = t[1]
        BY <1>1, <2>1
      <3>2. u[1] = t[1]
        BY <1>1, <1>4, <3>1
      <3> QED
        BY <2>1, <3>1, <3>2
    <2>2. CASE s # <<>>
      <3>1. 1 \in 1 .. Len(s)
        BY <1>1, <2>2
      <3> QED
        BY <1>1, <1>3, <2>2, <3>1
    <2> QED
      BY <2>1, <2>2
  <1>9. Links(u, link2, IF s = <<>> THEN g ELSE h)
    BY <1>2, <1>6, <1>7, <1>8, Zenon DEF Links
  <1>10. Elements(u) = Elements(s) \union Elements(t)
    <2>1. ASSUME NEW k \in 1 .. Len(u) PROVE u[k] \in Elements(s) \union Elements(t)
      <3>1. CASE k <= Len(s)
        BY <1>1, <1>3, <3>1
      <3>2. CASE k > Len(s)
        <4>1. k \in Len(s) + 1 .. Len(u)
          BY <1>1, <1>2, <3>2
        <4> QED
          BY <1>5, <4>1
      <3> QED
        BY <1>1, <3>1, <3>2
    <2>2. ASSUME NEW k \in 1 .. Len(s) PROVE s[k] \in Elements(u)
      BY <1>1, <1>2, <1>3 DEF Elements
    <2>3. ASSUME NEW k \in 1 .. Len(t) PROVE t[k] \in Elements(u)
      <3>1. Len(s) + k \in DOMAIN u
        BY <1>1, <1>2
      <3> QED
        BY <1>4, <3>1 DEF Elements
    <2>4. Elements(u) \subseteq Elements(s) \union Elements(t)
      BY <1>2, <2>1 DEF Elements
    <2>5. Elements(s) \subseteq Elements(u)
      <3> SUFFICES ASSUME NEW x \in Elements(s) PROVE x \in Elements(u)
        OBVIOUS
      <3>1. PICK k \in 1 .. Len(s) : x = s[k]
        BY <1>1 DEF Elements
      <3> QED
        BY <2>2, <3>1
    <2>6. Elements(t) \subseteq Elements(u)
      <3> SUFFICES ASSUME NEW x \in Elements(t) PROVE x \in Elements(u)
        OBVIOUS
      <3>1. PICK k \in 1 .. Len(t) : x = t[k]
        BY <1>1 DEF Elements
      <3> QED
        BY <2>3, <3>1
    <2> QED
      BY <2>4, <2>5, <2>6
  <1>11. u[Len(u)] = t[Len(t)]
    BY <1>1, <1>2, <1>4
  <1> QED
    BY <1>1, <1>2, <1>9, <1>10, <1>11 DEF LastOf, u

\* The first request leaves: its link is the new first.
LEMMA ListAdvances ==
  ASSUME NEW s, NEW link, NEW h, Links(s, link, h), h # Nil
  PROVE  /\ s # <<>> /\ h = Head(s) /\ h \in Requests
         /\ Links(Tail(s), link, link[h])
         /\ Elements(s) = {h} \union Elements(Tail(s))
         /\ h \notin Elements(Tail(s))
         /\ link[h] = Nil <=> Tail(s) = <<>>
         /\ Tail(s) # <<>> => LastOf(Tail(s)) = LastOf(s)
  <1> DEFINE t == Tail(s)
  <1>1. s \in Seq(Requests) /\ Len(s) \in Nat /\ DOMAIN s = 1 .. Len(s) /\ s # <<>>
    BY ListFacts
  <1>2. Len(s) > 0 /\ h = s[1] /\ h = Head(s) /\ h \in Requests
    <2>1. Len(s) # 0 /\ h = s[1]
      BY <1>1, ListFacts
    <2> QED
      BY <1>1, <2>1, ListFacts
  <1>a. \A j, k \in 1 .. Len(s) : s[j] = s[k] => j = k
    BY ListFacts
  <1>b. \A k \in 1 .. Len(s) : link[s[k]] = IF k = Len(s) THEN Nil ELSE s[k + 1]
    BY DEF Links
  <1>3. /\ t \in Seq(Requests) /\ Len(t) = Len(s) - 1 /\ DOMAIN t = 1 .. Len(t)
        /\ t = <<>> <=> Len(t) = 0
    BY <1>1, HeadTailProperties, EmptySeq
  <1>4. ASSUME NEW k \in 1 .. Len(t)
        PROVE  t[k] = s[k + 1] /\ k + 1 \in 1 .. Len(s) /\ t[k] \in Elements(t)
    <2>1. k + 1 \in 1 .. Len(s)
      BY <1>1, <1>3
    <2>2. t[k] = s[k + 1]
      BY <1>1, HeadTailProperties
    <2> HIDE DEF t
    <2> QED
      BY <1>3, <2>1, <2>2 DEF Elements
  <1> HIDE DEF t
  <1>5. ASSUME NEW j \in 1 .. Len(t), NEW k \in 1 .. Len(t), t[j] = t[k]
        PROVE  j = k
    <2>1. j + 1 = k + 1
      BY <1>4, <1>5, <1>a
    <2> QED
      BY <1>1, <1>3, <2>1
  <1>6. ASSUME NEW k \in 1 .. Len(t)
        PROVE  link[t[k]] = IF k = Len(t) THEN Nil ELSE t[k + 1]
    <2>1. link[s[k + 1]] = IF k + 1 = Len(s) THEN Nil ELSE s[(k + 1) + 1]
      BY <1>4, <1>b
    <2>2. k = Len(t) <=> k + 1 = Len(s)
      BY <1>1, <1>3
    <2>3. ASSUME k # Len(t) PROVE t[k + 1] = s[(k + 1) + 1]
      <3>1. k + 1 \in 1 .. Len(t)
        <4>1. k < Len(t)
          BY <1>3, <2>3
        <4> QED
          BY <1>3, <4>1
      <3> QED
        BY <1>4, <3>1
    <2> QED
      BY <1>4, <2>1, <2>2, <2>3
  <1>7. link[h] = IF t = <<>> THEN Nil ELSE t[1]
    <2>1. link[s[1]] = IF 1 = Len(s) THEN Nil ELSE s[2]
      <3>1. 1 \in 1 .. Len(s) /\ 1 + 1 = 2
        BY <1>1, <1>2
      <3>2. link[s[1]] = IF 1 = Len(s) THEN Nil ELSE s[1 + 1]
        BY <1>b, <3>1
      <3> QED
        BY <3>1, <3>2
    <2>2. t = <<>> <=> Len(s) = 1
      BY <1>1, <1>2, <1>3
    <2>3. ASSUME t # <<>> PROVE t[1] = s[2]
      <3>1. 1 \in 1 .. Len(t) /\ 1 + 1 = 2
        BY <1>1, <1>3, <2>3
      <3> QED
        BY <1>4, <3>1
    <2> QED
      BY <1>2, <2>1, <2>2, <2>3
  <1>8. Links(t, link, link[h])
    BY <1>3, <1>5, <1>6, <1>7, Zenon DEF Links
  <1>9. Elements(s) = {h} \union Elements(t)
    <2>1. ASSUME NEW k \in 1 .. Len(s) PROVE s[k] \in {h} \union Elements(t)
      <3>1. CASE k = 1
        BY <1>2, <3>1
      <3>2. CASE k # 1
        <4>1. k - 1 \in 1 .. Len(t) /\ (k - 1) + 1 = k
          BY <1>1, <1>3, <3>2
        <4>2. t[k - 1] = s[k] /\ t[k - 1] \in Elements(t)
          BY <1>4, <4>1
        <4> QED
          BY <4>2
      <3> QED
        BY <3>1, <3>2
    <2>2. ASSUME NEW k \in 1 .. Len(t) PROVE t[k] \in Elements(s)
      BY <1>1, <1>4 DEF Elements
    <2>3. h \in Elements(s)
      BY <1>1, <1>2 DEF Elements
    <2> QED
      BY <1>1, <1>3, <2>1, <2>2, <2>3 DEF Elements
  <1>10. h \notin Elements(t)
    <2> SUFFICES ASSUME NEW k \in 1 .. Len(t), t[k] = h PROVE FALSE
      BY <1>3 DEF Elements
    <2>1. s[k + 1] = s[1] /\ k + 1 \in 1 .. Len(s) /\ 1 \in 1 .. Len(s)
      BY <1>1, <1>2, <1>4
    <2>2. k + 1 = 1
      BY <1>a, <2>1
    <2> QED
      BY <1>3, <2>2
  <1>11. ASSUME t # <<>> PROVE LastOf(t) = LastOf(s)
    <2>1. Len(t) \in 1 .. Len(t) /\ Len(t) + 1 = Len(s)
      BY <1>1, <1>3, <1>11
    <2>2. t[Len(t)] = s[Len(s)]
      BY <1>4, <2>1
    <2> QED
      BY <1>1, <1>11, <2>2 DEF LastOf
  <1>12. link[h] = Nil <=> t = <<>>
    <2>1. ASSUME t # <<>> PROVE t[1] \in Requests
      BY <1>3, <2>1
    <2> QED
      BY <1>7, <2>1, NilAssumption
  <1> QED
    BY <1>1, <1>2, <1>8, <1>9, <1>10, <1>11, <1>12 DEF t

-----------------------------------------------------------------------------
(* The inductive invariant.                                                *)

\* The sequences that RequestBank is about.
queues == [i \in Shards |-> Chain(head[i])]
batch == Chain(first)

Fates == {"new", "refused", "queued", "ran", "rejected", "freed"}

QueueTypes ==
    /\ head \in [Shards -> Requests \union {Nil}]
    /\ tail \in [Shards -> Requests \union {Nil}]
    /\ count \in [Shards -> Nat]
    /\ next \in [Requests -> Requests \union {Nil}]
    /\ first \in Requests \union {Nil}
    /\ last \in Requests \union {Nil}
    /\ merged \in 0 .. RequestQueueCount

ThreadTypes ==
    /\ myQueue \in [Producers \union {FFI} -> Nat \union {-1}]
    /\ counter \in Nat
    /\ submitted \in [Producers -> 0 .. MaxSubmits]
    /\ fate \in [Requests -> Fates]
    /\ pushedBack \subseteq Requests
    /\ ffi \in {"top", "wait", "exited", "gone"} \union Working

\* Each head leads through its own list to its tail, ...
Lists ==
    /\ \A i \in Shards :
        Links(queues[i], next, head[i]) /\ tail[i] = LastOf(queues[i])
    /\ Links(batch, next, first) /\ last = LastOf(batch)

\* ... no list meets another, ...
Apart ==
    \A i \in Shards :
        /\ Elements(queues[i]) \intersect Elements(batch) = {}
        /\ \A j \in Shards \ {i} : Elements(queues[i]) \intersect Elements(queues[j]) = {}

\* ... and together they hold what was queued and is not done with.
QueuedIsListed ==
    \A r \in Requests :
        fate[r] = "queued" <=>
            r \in Elements(batch) \/ \E i \in Shards : r \in Elements(queues[i])

CountIsLength == ffi # "gone" => \A i \in Shards : count[i] = Len(queues[i])

\* Outside a round nothing is merged, and a round starts from the first queue.
RoundsWhole ==
    /\ ffi \notin Working => first = Nil
    /\ ffi \in {"top", "wait"} => merged = 0

Numbered ==
    \A r \in Requests :
        /\ fate[r] = "new" <=> submitted[r[1]] < r[2]
        /\ r \in pushedBack => fate[r] # "new"

\* While a request that was never given back waits, none that its thread
\* submitted later has gone further.
LaterWaits ==
    \A x, y \in Requests :
        x[1] = y[1] /\ x[2] < y[2] /\ x \notin pushedBack /\ fate[x] = "queued" =>
            y \notin pushedBack /\ fate[y] \in {"new", "refused", "queued"}

\* A thread's requests in a list are in the order of their numbers, up to the
\* last that was never given back.
Precedes(x, y) == x[1] = y[1] => x[2] < y[2]

InOrder(s, skip) ==
    \A k, l \in 1 .. Len(s) : k < l /\ s[l] \notin skip => Precedes(s[k], s[l])

ListsInOrder ==
    /\ InOrder(batch, pushedBack)
    /\ \A i \in Shards :
        /\ InOrder(queues[i], pushedBack)
        /\ \A x \in Elements(batch), y \in Elements(queues[i]) \ pushedBack :
            Precedes(x, y)

\* A request that was never given back is in its thread's queue.
InOwnQueue ==
    \A i \in Shards : \A y \in Elements(queues[i]) \ pushedBack :
        myQueue[y[1]] # -1 /\ i = myQueue[y[1]] % RequestQueueCount

\* A queue with nothing given back is still to be merged, or a wake is due.
WakeDue ==
    \A i \in Shards :
        queues[i] # <<>> /\ Elements(queues[i]) \intersect pushedBack = {} =>
            \/ waking # {} \/ reqSignal
            \/ ffi \in {"top", "exited", "gone"}
            \/ ffi \in Working /\ merged <= i

IInv ==
    /\ QueueTypes /\ ThreadTypes
    /\ Lists /\ Apart /\ QueuedIsListed /\ CountIsLength
    /\ RoundsWhole /\ Numbered
    /\ LaterWaits /\ ListsInOrder /\ InOwnQueue
    /\ WakeDue

-----------------------------------------------------------------------------
(* Order in a sequence.                                                    *)

LEMMA AppendInOrder ==
  ASSUME NEW s \in Seq(Requests), NEW skip, NEW r \in Requests, InOrder(s, skip),
         r \notin skip => \A x \in Elements(s) : Precedes(x, r)
  PROVE  InOrder(Append(s, r), skip)
  <1> DEFINE t == Append(s, r)
  <1>1. /\ Len(s) \in Nat /\ Len(t) = Len(s) + 1 /\ t[Len(s) + 1] = r
        /\ \A k \in 1 .. Len(s) : t[k] = s[k] /\ s[k] \in Elements(s)
    BY DEF Elements
  <1> HIDE DEF t
  <1> SUFFICES ASSUME NEW k \in 1 .. Len(t), NEW l \in 1 .. Len(t), k < l,
                      t[l] \notin skip
               PROVE  Precedes(t[k], t[l])
    BY Zenon DEF InOrder, t
  <1>2. k \in 1 .. Len(s)
    BY <1>1
  <1>3. CASE l = Len(s) + 1
    BY <1>1, <1>2, <1>3
  <1>4. CASE l # Len(s) + 1
    <2>1. l \in 1 .. Len(s)
      BY <1>1, <1>4
    <2> QED
      BY <1>1, <1>2, <2>1 DEF InOrder
  <1> QED
    BY <1>3, <1>4

LEMMA JoinInOrder ==
  ASSUME NEW s \in Seq(Requests), NEW t \in Seq(Requests), NEW skip,
         InOrder(s, skip), InOrder(t, skip),
         \A x \in Elements(s), y \in Elements(t) \ skip : Precedes(x, y)
  PROVE  InOrder(s \o t, skip)
  <1> DEFINE u == s \o t
  <1>1. Len(s) \in Nat /\ Len(t) \in Nat /\ Len(u) = Len(s) + Len(t)
    OBVIOUS
  <1>2. \A k \in 1 .. Len(s) : u[k] = s[k] /\ s[k] \in Elements(s)
    BY DEF Elements
  <1>3. \A k \in Len(s) + 1 .. Len(u) :
            /\ k - Len(s) \in 1 .. Len(t)
            /\ u[k] = t[k - Len(s)] /\ t[k - Len(s)] \in Elements(t)
    BY <1>1 DEF Elements
  <1> HIDE DEF u
  <1> SUFFICES ASSUME NEW k \in 1 .. Len(u), NEW l \in 1 .. Len(u), k < l,
                      u[l] \notin skip
               PROVE  Precedes(u[k], u[l])
    BY Zenon DEF InOrder, u
  <1>4. CASE l <= Len(s)
    <2>1. k \in 1 .. Len(s) /\ l \in 1 .. Len(s)
      BY <1>1, <1>4
    <2> QED
      BY <1>2, <2>1 DEF InOrder
  <1>5. CASE k <= Len(s) /\ l > Len(s)
    <2>1. k \in 1 .. Len(s) /\ l \in Len(s) + 1 .. Len(u)
      BY <1>1, <1>5
    <2> QED
      BY <1>2, <1>3, <2>1
  <1>6. CASE k > Len(s)
    <2>1. /\ k \in Len(s) + 1 .. Len(u) /\ l \in Len(s) + 1 .. Len(u)
          /\ k - Len(s) < l - Len(s)
      BY <1>1, <1>6
    <2>2. /\ k - Len(s) \in 1 .. Len(t) /\ u[k] = t[k - Len(s)]
          /\ l - Len(s) \in 1 .. Len(t) /\ u[l] = t[l - Len(s)]
      BY <1>3, <2>1
    <2> QED
      BY <2>1, <2>2 DEF InOrder
  <1> QED
    BY <1>1, <1>4, <1>5, <1>6

LEMMA TailInOrder ==
  ASSUME NEW s \in Seq(Requests), NEW skip, s # <<>>, InOrder(s, skip)
  PROVE  /\ InOrder(Tail(s), skip)
         /\ \A y \in Elements(Tail(s)) \ skip : Precedes(Head(s), y)
  <1> DEFINE t == Tail(s)
  <1>1. /\ t \in Seq(Requests) /\ Len(s) \in Nat \ {0} /\ Len(t) = Len(s) - 1
        /\ DOMAIN t = 1 .. Len(t) /\ Head(s) = s[1]
    BY HeadTailProperties, EmptySeq
  <1>2. \A k \in 1 .. Len(t) : t[k] = s[k + 1] /\ k + 1 \in 1 .. Len(s)
    BY <1>1, HeadTailProperties
  <1> HIDE DEF t
  <1>3. InOrder(t, skip)
    <2> SUFFICES ASSUME NEW k \in 1 .. Len(t), NEW l \in 1 .. Len(t), k < l,
                        t[l] \notin skip
                 PROVE  Precedes(t[k], t[l])
      BY Zenon DEF InOrder
    <2>1. k + 1 < l + 1
      BY <1>1
    <2> QED
      BY <1>2, <2>1 DEF InOrder
  <1>4. ASSUME NEW k \in 1 .. Len(t), t[k] \notin skip PROVE Precedes(Head(s), t[k])
    <2>1. 1 < k + 1 /\ 1 \in 1 .. Len(s)
      BY <1>1
    <2> QED
      BY <1>1, <1>2, <1>4, <2>1 DEF InOrder
  <1> QED
    BY <1>1, <1>3, <1>4 DEF Elements, t

LEMMA MoreSkipped ==
  ASSUME NEW s, NEW skip, NEW more, InOrder(s, skip), skip \subseteq more
  PROVE  InOrder(s, more)
  BY DEF InOrder

-----------------------------------------------------------------------------
(* What the steps do to the lists.                                         *)

\* Whoever knows lists that the heads lead through, knows the sequences.
LEMMA ListsAre ==
  ASSUME NEW qs, qs = [i \in Shards |-> qs[i]],
         \A i \in Shards : Links(qs[i], next', head'[i]) /\ tail'[i] = LastOf(qs[i]),
         NEW b, Links(b, next', first'), last' = LastOf(b)
  PROVE  Lists' /\ queues' = qs /\ batch' = b
  <1>1. ASSUME NEW i \in Shards PROVE Follow(next', head'[i]) = qs[i]
    BY FollowFinds
  <1>2. Follow(next', first') = b
    BY FollowFinds
  <1>3. queues' = [i \in Shards |-> Follow(next', head'[i])]
    BY DEF queues, Chain
  <1>4. queues' = qs
    BY <1>1, <1>3
  <1>5. batch' = b
    BY <1>2 DEF batch, Chain
  <1> HIDE DEF queues, batch
  <1> QED
    BY <1>4, <1>5 DEF Lists

\* A push of a request that is in no queue.
LEMMA Pushes ==
  ASSUME QueueTypes, Lists, Apart, NEW i \in Shards, NEW r \in Requests, Link(i, r),
         \A j \in Shards : r \notin Elements(queues[j])
  PROVE  LET qs == [queues EXCEPT ![i] = Append(@, r)]
         IN  /\ qs = [j \in Shards |-> qs[j]]
             /\ \A j \in Shards :
                    Links(qs[j], next', head'[j]) /\ tail'[j] = LastOf(qs[j])
             /\ Elements(qs[i]) = Elements(queues[i]) \union {r}
             /\ Len(qs[i]) = Len(queues[i]) + 1
             /\ \A s, h : /\ Links(s, next, h)
                          /\ r \notin Elements(s)
                          /\ Elements(s) \intersect Elements(queues[i]) = {}
                          => Links(s, next', h)
  <1> DEFINE s0 == queues[i]
             qs == [queues EXCEPT ![i] = Append(@, r)]
  <1>1. /\ \A j \in Shards : Links(queues[j], next, head[j]) /\ tail[j] = LastOf(queues[j])
        /\ queues = [j \in Shards |-> queues[j]]
    BY Zenon DEF Lists, queues
  <1>2. /\ s0 = <<>> <=> tail[i] = Nil
        /\ s0 # <<>> => tail[i] = LastOf(s0) /\ tail[i] \in Elements(s0)
        /\ Elements(s0) \subseteq Requests
        /\ s0 = <<>> => Elements(s0) = {}
    <2>1. Links(s0, next, head[i]) /\ tail[i] = LastOf(s0)
      BY <1>1
    <2>2. /\ Elements(s0) \subseteq Requests
          /\ s0 # <<>> => LastOf(s0) \in Elements(s0)
      BY <2>1, ListFacts
    <2>3. s0 = <<>> => LastOf(s0) = Nil /\ Elements(s0) = {}
      BY DEF LastOf, Elements
    <2> QED
      BY <2>1, <2>2, <2>3, NilAssumption
  <1>3. next' = [x \in Requests |->
                   CASE x = r -> Nil [] x = tail[i] -> r [] OTHER -> next[x]]
    BY DEF Link
  <1>4. ASSUME NEW x \in Requests, x # r, x # tail[i] PROVE next'[x] = next[x]
    BY <1>3, <1>4
  <1>5. next'[r] = Nil
    <2>1. r # tail[i]
      BY <1>2, NilAssumption
    <2> QED
      BY <1>3, <2>1
  <1>6. s0 # <<>> => next'[LastOf(s0)] = r
    <2>1. ASSUME s0 # <<>> PROVE tail[i] \in Requests /\ tail[i] # r
      BY <1>2, <2>1
    <2> QED
      BY <1>2, <1>3, <2>1
  <1>7. head' = [head EXCEPT ![i] = IF tail[i] = Nil THEN r ELSE head[i]]
        /\ tail' = [tail EXCEPT ![i] = r]
    BY DEF Link
  <1>8. /\ Links(Append(s0, r), next', head'[i])
        /\ tail'[i] = LastOf(Append(s0, r))
        /\ Elements(Append(s0, r)) = Elements(s0) \union {r}
        /\ Len(Append(s0, r)) = Len(s0) + 1
    <2>1. Links(s0, next, head[i]) /\ r \notin Elements(s0)
      BY <1>1
    <2>2. Relinks(s0, {}, next, next', r)
      <3>1. \A x \in Elements(s0) : s0 = <<>> \/ x # LastOf(s0) => next'[x] = next[x]
        BY <1>2, <1>4, <2>1
      <3> HIDE DEF s0
      <3> QED
        BY <1>6, <3>1 DEF Relinks
    <2>3. head'[i] = IF s0 = <<>> THEN r ELSE head[i]
      BY <1>2, <1>7 DEF QueueTypes
    <2>4. tail'[i] = r
      BY <1>7 DEF QueueTypes
    <2> HIDE DEF s0
    <2>5. /\ Links(Append(s0, r), next', IF s0 = <<>> THEN r ELSE head[i])
          /\ LastOf(Append(s0, r)) = r
          /\ Elements(Append(s0, r)) = Elements(s0) \union {r}
          /\ Len(Append(s0, r)) = Len(s0) + 1
      BY <1>5, <2>1, <2>2, ListAppends
    <2> QED
      BY <2>3, <2>4, <2>5, Zenon
  <1>9. ASSUME NEW s, NEW h, Links(s, next, h), r \notin Elements(s),
               Elements(s) \intersect Elements(s0) = {}
        PROVE  Links(s, next', h)
    <2>1. Elements(s) \subseteq Requests
      BY <1>9, ListFacts
    <2>2. ASSUME NEW x \in Elements(s) PROVE next'[x] = next[x]
      <3>1. x \in Requests /\ x # r
        BY <1>9, <2>1
      <3>2. x # tail[i]
        BY <1>2, <1>9, <3>1, NilAssumption
      <3> QED
        BY <1>4, <3>1, <3>2
    <2> QED
      BY <1>9, <2>2, ListStays
  <1>10. ASSUME NEW j \in Shards, j # i
         PROVE  /\ qs[j] = queues[j]
                /\ Links(queues[j], next', head'[j]) /\ tail'[j] = LastOf(queues[j])
    <2>1. Elements(queues[j]) \intersect Elements(s0) = {}
      BY <1>10 DEF Apart
    <2>2. head'[j] = head[j] /\ tail'[j] = tail[j]
      BY <1>7, <1>10 DEF QueueTypes
    <2>3. Links(queues[j], next', head[j])
      BY <1>1, <1>9, <2>1
    <2>4. qs[j] = queues[j]
      BY <1>1, <1>10
    <2> QED
      BY <1>1, <2>2, <2>3, <2>4
  <1>11. qs[i] = Append(s0, r) /\ qs = [j \in Shards |-> qs[j]]
    BY <1>1
  <1> HIDE DEF qs, s0
  <1>12. \A j \in Shards : Links(qs[j], next', head'[j]) /\ tail'[j] = LastOf(qs[j])
    BY <1>8, <1>10, <1>11
  <1> QED
    BY <1>8, <1>9, <1>11, <1>12 DEF qs, s0

\* A queue goes behind the batch.
LEMMA Splices ==
  ASSUME QueueTypes, Lists, Apart, NEW i \in Shards, Splice(i)
  PROVE  /\ Lists'
         /\ queues' = [queues EXCEPT ![i] = <<>>]
         /\ batch' = batch \o queues[i]
         /\ Elements(batch \o queues[i]) = Elements(batch) \union Elements(queues[i])
  <1> DEFINE s0 == queues[i]
             qs == [queues EXCEPT ![i] = <<>>]
             b == batch \o s0
  <1>1. /\ \A j \in Shards : Links(queues[j], next, head[j]) /\ tail[j] = LastOf(queues[j])
        /\ queues = [j \in Shards |-> queues[j]]
        /\ Links(batch, next, first) /\ last = LastOf(batch)
    BY Zenon DEF Lists, queues
  <1>2. qs = [j \in Shards |-> qs[j]] /\ qs[i] = <<>>
        /\ \A j \in Shards \ {i} : qs[j] = queues[j]
    BY <1>1
  <1>3. batch \in Seq(Requests) /\ (batch = <<>> <=> first = Nil)
        /\ s0 \in Seq(Requests) /\ (s0 = <<>> <=> head[i] = Nil)
    <2>1. Links(s0, next, head[i])
      BY <1>1
    <2> QED
      BY <1>1, <2>1, ListFacts
  <1>4. CASE head[i] = Nil
    <2>1. s0 = <<>> /\ UNCHANGED <<bank, chain>>
      BY <1>3, <1>4 DEF Splice
    <2>2. b = batch
      BY <1>3, <2>1, ConcatEmptySeq
    <2>3. \A j \in Shards : qs[j] = queues[j]
      BY <1>2, <2>1
    <2>4. Elements(s0) = {}
      BY <2>1 DEF Elements
    <2> HIDE DEF qs, b, s0
    <2>5. /\ \A j \in Shards : Links(qs[j], next', head'[j]) /\ tail'[j] = LastOf(qs[j])
          /\ Links(batch, next', first') /\ last' = LastOf(batch)
      BY <1>1, <2>1, <2>3 DEF bank, chain
    <2>6. Lists' /\ queues' = qs /\ batch' = batch
      BY <1>2, <2>5, ListsAre
    <2> QED
      BY <2>2, <2>4, <2>6 DEF qs, b, s0
  <1>5. CASE head[i] # Nil
    <2>1. /\ first' = IF first = Nil THEN head[i] ELSE first
          /\ next' = [x \in Requests |->
                        IF first # Nil /\ x = last THEN head[i] ELSE next[x]]
          /\ last' = tail[i]
          /\ head' = [head EXCEPT ![i] = Nil]
          /\ tail' = [tail EXCEPT ![i] = Nil]
      BY <1>5 DEF Splice, Reset
    <2>2. Links(s0, next, head[i]) /\ s0 # <<>> /\ Links(batch, next, first)
      BY <1>1, <1>3, <1>5
    <2>3. Elements(s0) \subseteq Requests /\ Elements(batch) \subseteq Requests
          /\ Elements(batch) \intersect Elements(s0) = {}
      BY <2>2, ListFacts DEF Apart
    <2>4. batch # <<>> => LastOf(batch) \in Elements(batch)
      BY <2>2, ListFacts
    <2>5. Relinks(batch, Elements(s0), next, next', head[i])
      <3>1. batch # <<>> => next'[LastOf(batch)] = head[i]
        BY <1>1, <1>3, <2>1, <2>3, <2>4
      <3>2. \A x \in Elements(batch) \union Elements(s0) :
              batch = <<>> \/ x # LastOf(batch) => next'[x] = next[x]
        BY <1>1, <1>3, <2>1, <2>3
      <3> QED
        BY <3>1, <3>2 DEF Relinks
    <2>6. /\ Links(b, next', IF batch = <<>> THEN head[i] ELSE first)
          /\ LastOf(b) = LastOf(s0)
          /\ Elements(b) = Elements(batch) \union Elements(s0)
      BY <2>2, <2>3, <2>5, ListsJoin
    <2>7. Links(b, next', first') /\ last' = LastOf(b)
      BY <1>1, <1>3, <2>1, <2>6
    <2>8. ASSUME NEW j \in Shards
          PROVE  Links(qs[j], next', head'[j]) /\ tail'[j] = LastOf(qs[j])
      <3>1. CASE j = i
        <4>1. head'[i] = Nil /\ tail'[i] = Nil
          BY <2>1 DEF QueueTypes
        <4>2. Links(<<>>, next', Nil) /\ LastOf(<<>>) = Nil
          BY DEF Links, LastOf
        <4> QED
          BY <1>2, <3>1, <4>1, <4>2
      <3>2. CASE j # i
        <4>1. head'[j] = head[j] /\ tail'[j] = tail[j] /\ qs[j] = queues[j]
          BY <1>2, <2>1, <3>2 DEF QueueTypes
        <4>2. Links(queues[j], next, head[j]) /\ tail[j] = LastOf(queues[j])
          BY <1>1
        <4>3. ASSUME NEW x \in Elements(queues[j]) PROVE next'[x] = next[x]
          <5>1. x \in Requests
            BY <4>2, ListFacts
          <5>2. first # Nil => x # last
            BY <1>1, <1>3, <2>4 DEF Apart
          <5> QED
            BY <2>1, <5>1, <5>2
        <4>4. Links(queues[j], next', head[j])
          BY <4>2, <4>3, ListStays
        <4> QED
          BY <4>1, <4>2, <4>4
      <3> QED
        BY <3>1, <3>2
    <2> HIDE DEF qs, b
    <2>9. Lists' /\ queues' = qs /\ batch' = b
      BY <1>2, <2>7, <2>8, ListsAre
    <2> QED
      BY <2>6, <2>9 DEF qs, b
  <1> QED
    BY <1>4, <1>5

\* The first request of the batch leaves it.
LEMMA TakesFirst ==
  ASSUME Lists, first # Nil, TakeFirst
  PROVE  /\ Links(Tail(batch), next, first') /\ last' = LastOf(Tail(batch))
         /\ batch \in Seq(Requests) /\ batch # <<>>
         /\ first = Head(batch) /\ first \in Requests
         /\ Elements(batch) = {first} \union Elements(Tail(batch))
         /\ first \notin Elements(Tail(batch))
  <1>1. Links(batch, next, first) /\ last = LastOf(batch)
    BY DEF Lists
  <1>2. /\ batch # <<>> /\ first = Head(batch) /\ first \in Requests
        /\ Links(Tail(batch), next, next[first])
        /\ Elements(batch) = {first} \union Elements(Tail(batch))
        /\ first \notin Elements(Tail(batch))
        /\ next[first] = Nil <=> Tail(batch) = <<>>
        /\ Tail(batch) # <<>> => LastOf(Tail(batch)) = LastOf(batch)
    BY <1>1, ListAdvances
  <1>3. batch \in Seq(Requests)
    BY <1>1, ListFacts
  <1>4. first' = next[first] /\ last' = IF next[first] = Nil THEN Nil ELSE last
    BY DEF TakeFirst
  <1>5. last' = LastOf(Tail(batch))
    <2>1. Tail(batch) = <<>> => LastOf(Tail(batch)) = Nil
      BY DEF LastOf
    <2> QED
      BY <1>1, <1>2, <1>4, <2>1
  <1> QED
    BY <1>2, <1>3, <1>4, <1>5

LEMMA Advances ==
  ASSUME Lists, first # Nil, TakeFirst, UNCHANGED bank
  PROVE  Lists' /\ queues' = queues /\ batch' = Tail(batch)
  <1>1. Links(Tail(batch), next, first') /\ last' = LastOf(Tail(batch))
    BY TakesFirst
  <1>2. /\ \A j \in Shards : Links(queues[j], next, head[j]) /\ tail[j] = LastOf(queues[j])
        /\ queues = [j \in Shards |-> queues[j]]
    BY Zenon DEF Lists, queues
  <1>3. \A j \in Shards : Links(queues[j], next', head'[j]) /\ tail'[j] = LastOf(queues[j])
    BY <1>2 DEF bank
  <1>4. Links(Tail(batch), next', first')
    BY <1>1 DEF bank
  <1> QED
    BY <1>1, <1>2, <1>3, <1>4, ListsAre

\* A step that leaves the links, the heads and the batch alone.
LEMMA ListsStay ==
  ASSUME Lists, UNCHANGED <<bank, chain>>
  PROVE  Lists' /\ queues' = queues /\ batch' = batch
  <1>1. /\ \A j \in Shards : Links(queues[j], next, head[j]) /\ tail[j] = LastOf(queues[j])
        /\ queues = [j \in Shards |-> queues[j]]
        /\ Links(batch, next, first) /\ last = LastOf(batch)
    BY Zenon DEF Lists, queues
  <1>2. /\ \A j \in Shards :
               Links(queues[j], next', head'[j]) /\ tail'[j] = LastOf(queues[j])
        /\ Links(batch, next', first') /\ last' = LastOf(batch)
    BY <1>1 DEF bank, chain
  <1> QED
    BY <1>1, <1>2, ListsAre

-----------------------------------------------------------------------------
(* Types.                                                                  *)

LEMMA IndexIsShard ==
  ASSUME ThreadTypes, NEW p \in Producers \union {FFI}
  PROVE  QueueNumber(p) \in Nat /\ QueueIndex(p) \in Shards
  <1>1. QueueNumber(p) \in Nat
    BY DEF ThreadTypes, QueueNumber
  <1>2. \A n \in Nat : n % RequestQueueCount \in 0 .. RequestQueueCount - 1
    BY QueueAssumption, SMTT(30)
  <1> QED
    BY <1>1, <1>2 DEF QueueIndex, Shards

LEMMA AssignTypes ==
  ASSUME ThreadTypes, NEW p \in Producers \union {FFI}, AssignQueue(p)
  PROVE  /\ myQueue' \in [Producers \union {FFI} -> Nat \union {-1}]
         /\ counter' \in Nat
  BY IndexIsShard DEF AssignQueue, ThreadTypes

LEMMA LinkTypes ==
  ASSUME QueueTypes, NEW i \in Shards, NEW r \in Requests, Link(i, r)
  PROVE  /\ head' \in [Shards -> Requests \union {Nil}]
         /\ tail' \in [Shards -> Requests \union {Nil}]
         /\ count' \in [Shards -> Nat]
         /\ next' \in [Requests -> Requests \union {Nil}]
  <1>1. next' \in [Requests -> Requests \union {Nil}]
    <2>1. next' = [x \in Requests |->
                     CASE x = r -> Nil [] x = tail[i] -> r [] OTHER -> next[x]]
      BY DEF Link
    <2>2. ASSUME NEW x \in Requests PROVE next'[x] \in Requests \union {Nil}
      <3>1. CASE x = r /\ x = tail[i]
        BY <2>1, <3>1
      <3>2. CASE x = r /\ x # tail[i]
        BY <2>1, <3>2
      <3>3. CASE x # r
        BY <2>1, <3>3 DEF QueueTypes
      <3> QED
        BY <3>1, <3>2, <3>3
    <2> QED
      BY <2>1, <2>2
  <1> QED
    BY <1>1 DEF Link, QueueTypes

LEMMA RequestsOf ==
  ASSUME ThreadTypes, NEW p \in Producers, submitted[p] < MaxSubmits
  PROVE  <<p, submitted[p] + 1>> \in Requests
  BY QueueAssumption DEF ThreadTypes, Requests

LEMMA TypesKept ==
  ASSUME QueueTypes, ThreadTypes, [Next]_vars
  PROVE  QueueTypes' /\ ThreadTypes'
  <1>1. ASSUME NEW p \in Producers, Submit(p)
        PROVE  QueueTypes' /\ ThreadTypes'
    <2> DEFINE r == <<p, submitted[p] + 1>>
    <2>1. r \in Requests /\ submitted[p] + 1 \in 0 .. MaxSubmits
      BY <1>1, RequestsOf, QueueAssumption DEF Submit, ThreadTypes
    <2>2. AssignQueue(p) /\ submitted' = [submitted EXCEPT ![p] = @ + 1]
          /\ UNCHANGED <<pushedBack, ffi, merged, first, last>>
      BY <1>1 DEF Submit, chain
    <2>3. myQueue' \in [Producers \union {FFI} -> Nat \union {-1}] /\ counter' \in Nat
      BY <2>2, AssignTypes
    <2>4. fate' = [fate EXCEPT ![r] = "refused"] \/ fate' = [fate EXCEPT ![r] = "queued"]
      BY <1>1 DEF Submit
    <2>5. UNCHANGED bank \/ Link(QueueIndex(p), r)
      BY <1>1 DEF Submit
    <2>6. QueueTypes'
      BY <2>1, <2>2, <2>5, IndexIsShard, LinkTypes DEF QueueTypes, bank
    <2> HIDE DEF r
    <2>7. ThreadTypes'
      BY <2>1, <2>2, <2>3, <2>4 DEF ThreadTypes, Fates
    <2> QED
      BY <2>6, <2>7
  <1>2. ASSUME NEW p \in Producers, Fire(p)
        PROVE  QueueTypes' /\ ThreadTypes'
    BY <1>2 DEF Fire, QueueTypes, ThreadTypes, bank, index, history, chain
  <1>3. CASE Start \/ StartLast \/ Woken \/ WaitEnds \/ Stop
    BY <1>3 DEF Start, StartLast, Woken, WaitEnds, Stop, Goes, QueueTypes, ThreadTypes,
                Working, bank, index, history, chain
  <1>4. CASE MergeOne
    <2>1. merged \in Shards /\ merged' = merged + 1 /\ Splice(merged)
      BY <1>4, QueueAssumption DEF MergeOne, QueueTypes, Shards
    <2>2. merged' \in 0 .. RequestQueueCount
      BY <1>4, QueueAssumption DEF MergeOne, QueueTypes
    <2>3. ThreadTypes'
      BY <1>4 DEF MergeOne, Goes, ThreadTypes, index, history
    <2>4. QueueTypes'
      BY <2>1, <2>2 DEF Splice, Reset, QueueTypes, bank, chain
    <2> QED
      BY <2>3, <2>4
  <1>5. CASE Process \/ Reject
    <2>1. first \in Requests /\ first' = next[first] /\ (last' = Nil \/ last' = last)
          /\ UNCHANGED bank /\ (merged' = 0 \/ merged' = merged)
      BY <1>5 DEF Process, Reject, TakeFirst, QueueTypes
    <2>2. QueueTypes'
      BY <2>1, QueueAssumption DEF QueueTypes, bank
    <2>3. ThreadTypes'
      BY <1>5, <2>1 DEF Process, Reject, ThreadTypes, index, Fates
    <2> QED
      BY <2>2, <2>3
  <1>6. CASE GiveBack
    <2>1. /\ first \in Requests /\ first' = next[first] /\ (last' = Nil \/ last' = last)
          /\ AssignQueue(FFI) /\ Link(QueueIndex(FFI), first)
          /\ pushedBack' = pushedBack \union {first}
          /\ UNCHANGED <<submitted, fate, ffi, merged>>
      BY <1>6 DEF GiveBack, TakeFirst, QueueTypes
    <2>2. QueueTypes'
      BY <2>1, IndexIsShard, LinkTypes DEF QueueTypes
    <2>3. ThreadTypes'
      BY <2>1, AssignTypes DEF ThreadTypes
    <2> QED
      BY <2>2, <2>3
  <1>7. CASE Done
    BY <1>7, QueueAssumption DEF Done, Goes, QueueTypes, ThreadTypes, Working, bank, index,
                history, chain
  <1>8. CASE Deinit
    BY <1>8 DEF Deinit, QueueTypes, ThreadTypes, Fates, Working, index, chain
  <1>9. CASE UNCHANGED vars
    BY <1>9 DEF QueueTypes, ThreadTypes, vars, bank, index, history, chain
  <1> QED
    BY <1>1, <1>2, <1>3, <1>4, <1>5, <1>6, <1>7, <1>8, <1>9 DEF Next

-----------------------------------------------------------------------------
(* The lists in each step.                                                 *)

ListsInv == Lists /\ Apart /\ QueuedIsListed /\ CountIsLength

\* What a push adds to.
Appended(i, r) ==
    /\ queues' = [queues EXCEPT ![i] = Append(@, r)]
    /\ Elements(queues'[i]) = Elements(queues[i]) \union {r}
    /\ \A j \in Shards \ {i} : queues'[j] = queues[j]

LEMMA PushKeepsApart ==
  ASSUME Apart, NEW i \in Shards, NEW r \in Requests, Appended(i, r),
         \A j \in Shards : r \notin Elements(queues[j]),
         Elements(batch') \subseteq Elements(batch), r \notin Elements(batch')
  PROVE  Apart'
  <1>1. \A j \in Shards :
            Elements(queues'[j]) \subseteq
                Elements(queues[j]) \union (IF j = i THEN {r} ELSE {})
    BY DEF Appended
  <1>2. ASSUME NEW j \in Shards
        PROVE  Elements(queues'[j]) \intersect Elements(batch') = {}
    BY <1>1 DEF Apart
  <1>3. ASSUME NEW j \in Shards, NEW k \in Shards \ {j}
        PROVE  Elements(queues'[j]) \intersect Elements(queues'[k]) = {}
    BY <1>1 DEF Apart
  <1> QED
    BY <1>2, <1>3 DEF Apart

LEMMA NewIsNowhere ==
  ASSUME QueuedIsListed, NEW r \in Requests, fate[r] # "queued"
  PROVE  r \notin Elements(batch) /\ \A j \in Shards : r \notin Elements(queues[j])
  BY DEF QueuedIsListed

LEMMA SubmitLists ==
  ASSUME IInv, NEW p \in Producers, NEW i, NEW r, i = QueueIndex(p),
         r = <<p, submitted[p] + 1>>, Submit(p)
  PROVE  /\ ListsInv'
         /\ batch' = batch
         /\ r \in Requests /\ i \in Shards /\ fate[r] = "new"
         /\ \/ queues' = queues /\ fate' = [fate EXCEPT ![r] = "refused"]
               /\ waking' = waking
            \/ /\ Appended(i, r)
               /\ fate' = [fate EXCEPT ![r] = "queued"]
               /\ Len(queues[i]) < RequestQueueDepth
               /\ waking' = IF queues[i] = <<>> THEN waking \union {p} ELSE waking
  <1> USE DEF IInv
  <1>1. r \in Requests /\ i \in Shards
    BY RequestsOf, IndexIsShard DEF Submit
  <1>2. fate[r] = "new"
    <2>1. r[1] = p /\ r[2] = submitted[p] + 1 /\ submitted[p] \in Nat
      BY DEF ThreadTypes
    <2> QED
      BY <1>1, <2>1 DEF Numbered
  <1>3. r \notin Elements(batch) /\ \A j \in Shards : r \notin Elements(queues[j])
    BY <1>1, <1>2, NewIsNowhere
  <1>4. CASE Full(i)
    <2>1. UNCHANGED <<bank, chain>> /\ fate' = [fate EXCEPT ![r] = "refused"]
          /\ ffi' = ffi /\ waking' = waking
      BY <1>4 DEF Submit
    <2>2. Lists' /\ queues' = queues /\ batch' = batch
      BY <2>1, ListsStay
    <2>3. Apart' /\ CountIsLength'
      BY <2>1, <2>2 DEF Apart, CountIsLength, bank
    <2>4. QueuedIsListed'
      BY <1>1, <1>3, <2>1, <2>2 DEF QueuedIsListed, ThreadTypes
    <2> QED
      BY <1>1, <1>2, <2>1, <2>2, <2>3, <2>4 DEF ListsInv
  <1>5. CASE ~Full(i)
    <2>1. /\ Link(i, r) /\ fate' = [fate EXCEPT ![r] = "queued"]
          /\ waking' = IF tail[i] = Nil THEN waking \union {p} ELSE waking
          /\ first' = first /\ last' = last /\ ffi' = ffi /\ ffi # "gone"
      BY <1>5 DEF Submit, Wakes, chain
    <2> DEFINE qs == [queues EXCEPT ![i] = Append(@, r)]
    <2>2. /\ qs = [j \in Shards |-> qs[j]]
          /\ \A j \in Shards : Links(qs[j], next', head'[j]) /\ tail'[j] = LastOf(qs[j])
          /\ Elements(qs[i]) = Elements(queues[i]) \union {r}
          /\ Len(qs[i]) = Len(queues[i]) + 1
      BY <1>1, <1>3, <2>1, Pushes
    <2>3. /\ queues = [j \in Shards |-> queues[j]]
          /\ Links(batch, next, first) /\ last = LastOf(batch)
          /\ Links(queues[i], next, head[i]) /\ tail[i] = LastOf(queues[i])
      BY <1>1, Zenon DEF Lists, queues
    <2>4. Links(batch, next', first)
      <3>1. Elements(batch) \intersect Elements(queues[i]) = {}
        BY <1>1 DEF Apart
      <3> QED
        BY <1>1, <1>3, <2>1, <2>3, <3>1, Pushes
    <2>5. \A j \in Shards \ {i} : qs[j] = queues[j]
      BY <2>3
    <2> HIDE DEF qs
    <2>6. Lists' /\ queues' = qs /\ batch' = batch
      BY <2>1, <2>2, <2>3, <2>4, ListsAre
    <2>7. Appended(i, r)
      BY <2>2, <2>5, <2>6 DEF Appended, qs
    <2>8. Apart'
      BY <1>1, <1>3, <2>6, <2>7, PushKeepsApart
    <2>9. QueuedIsListed'
      <3>1. \A x \in Requests : fate'[x] = IF x = r THEN "queued" ELSE fate[x]
        BY <2>1 DEF ThreadTypes
      <3> QED
        BY <1>1, <2>6, <2>7, <3>1 DEF QueuedIsListed, Appended
    <2>10. CountIsLength'
      <3>1. \A j \in Shards : count'[j] = IF j = i THEN count[j] + 1 ELSE count[j]
        BY <2>1 DEF Link, QueueTypes
      <3> QED
        BY <2>1, <2>2, <2>5, <2>6, <3>1 DEF CountIsLength
    <2>11. Len(queues[i]) < RequestQueueDepth
      <3>1. count[i] = Len(queues[i]) /\ count[i] \in Nat
        BY <1>1, <2>1 DEF CountIsLength, QueueTypes
      <3> QED
        BY <1>5, <3>1, QueueAssumption DEF Full
    <2>12. tail[i] = Nil <=> queues[i] = <<>>
      <3>1. queues[i] = <<>> => LastOf(queues[i]) = Nil
        BY DEF LastOf
      <3>2. queues[i] # <<>> => LastOf(queues[i]) \in Requests
        BY <2>3, ListFacts
      <3> QED
        BY <2>3, <3>1, <3>2, NilAssumption
    <2> QED
      BY <1>1, <1>2, <2>1, <2>6, <2>7, <2>8, <2>9, <2>10, <2>11, <2>12 DEF ListsInv
  <1> QED
    BY <1>4, <1>5

LEMMA MergeLists ==
  ASSUME IInv, MergeOne
  PROVE  /\ ListsInv' /\ merged \in Shards
         /\ queues' = [queues EXCEPT ![merged] = <<>>]
         /\ batch' = batch \o queues[merged]
         /\ Elements(batch') = Elements(batch) \union Elements(queues[merged])
         /\ queues'[merged] = <<>>
         /\ \A j \in Shards \ {merged} : queues'[j] = queues[j]
  <1> USE DEF IInv
  <1>1. merged \in Shards /\ Splice(merged) /\ ffi \in Working /\ ffi' = ffi /\ fate' = fate
    BY QueueAssumption DEF MergeOne, QueueTypes, Shards, Goes, history
  <1>2. /\ Lists'
        /\ queues' = [queues EXCEPT ![merged] = <<>>]
        /\ batch' = batch \o queues[merged]
        /\ Elements(batch') = Elements(batch) \union Elements(queues[merged])
    BY <1>1, Splices
  <1>3. queues = [j \in Shards |-> queues[j]]
    BY Zenon DEF queues
  <1>4. queues'[merged] = <<>> /\ \A j \in Shards \ {merged} : queues'[j] = queues[j]
    BY <1>1, <1>2, <1>3
  <1>5. Elements(queues'[merged]) = {}
    BY <1>4 DEF Elements
  <1>6. Apart'
    <2>1. ASSUME NEW j \in Shards
          PROVE  Elements(queues'[j]) \intersect Elements(batch') = {}
      BY <1>1, <1>2, <1>4, <1>5, <2>1 DEF Apart
    <2>2. ASSUME NEW j \in Shards, NEW k \in Shards \ {j}
          PROVE  Elements(queues'[j]) \intersect Elements(queues'[k]) = {}
      BY <1>4, <1>5, <2>2 DEF Apart
    <2> QED
      BY <2>1, <2>2 DEF Apart
  <1>7. QueuedIsListed'
    <2>1. ASSUME NEW x \in Requests
          PROVE  (x \in Elements(batch) \/ \E j \in Shards : x \in Elements(queues[j]))
                 <=> (x \in Elements(batch') \/ \E j \in Shards : x \in Elements(queues'[j]))
      BY <1>1, <1>2, <1>4, <1>5
    <2> QED
      BY <1>1, <2>1 DEF QueuedIsListed
  <1>8. CountIsLength'
    <2>1. \A j \in Shards : count'[j] = count[j] \/ (j = merged /\ count'[j] = 0)
      BY <1>1 DEF Splice, Reset, QueueTypes, bank
    <2>2. head[merged] = Nil => queues[merged] = <<>>
      BY <1>1, ListFacts DEF Lists
    <2>3. head[merged] # Nil => count'[merged] = 0
      BY <1>1 DEF Splice, Reset, QueueTypes
    <2>4. head[merged] = Nil => count' = count
      BY <1>1 DEF Splice, bank
    <2>5. count[merged] = Len(queues[merged])
      BY <1>1 DEF CountIsLength, Working
    <2>6. Len(<<>>) = 0
      OBVIOUS
    <2>7. count'[merged] = Len(queues'[merged])
      BY <1>4, <2>2, <2>3, <2>4, <2>5, <2>6
    <2> QED
      BY <1>1, <1>4, <2>1, <2>7 DEF CountIsLength, Working
  <1> QED
    BY <1>1, <1>2, <1>4, <1>6, <1>7, <1>8 DEF ListsInv

\* Run or rejected: the first request is done with.
LEMMA FinishLists ==
  ASSUME IInv, Process \/ Reject
  PROVE  /\ ListsInv' /\ queues' = queues /\ batch' = Tail(batch) /\ batch # <<>>
         /\ fate'[first] \in {"ran", "rejected"}
         /\ \A x \in Requests \ {first} : fate'[x] = fate[x]
  <1> USE DEF IInv
  <1>1. /\ first # Nil /\ TakeFirst /\ UNCHANGED <<head, tail, count, next>> /\ ffi' = ffi
        /\ \/ fate' = [fate EXCEPT ![first] = "ran"]
           \/ fate' = [fate EXCEPT ![first] = "rejected"]
    BY DEF Process, Reject, bank
  <1>2. Lists' /\ queues' = queues /\ batch' = Tail(batch)
    BY <1>1, Advances DEF bank
  <1>3. /\ batch # <<>> /\ first \in Requests
        /\ Elements(batch) = {first} \union Elements(Tail(batch))
        /\ first \notin Elements(Tail(batch))
    BY <1>1, TakesFirst
  <1>4. /\ fate'[first] \in {"ran", "rejected"}
        /\ \A x \in Requests \ {first} : fate'[x] = fate[x]
    BY <1>1, <1>3 DEF ThreadTypes
  <1>5. Apart'
    BY <1>2, <1>3 DEF Apart
  <1>6. QueuedIsListed'
    <2>1. \A j \in Shards : first \notin Elements(queues[j])
      BY <1>3 DEF Apart
    <2> QED
      BY <1>2, <1>3, <1>4, <2>1 DEF QueuedIsListed
  <1>7. CountIsLength'
    BY <1>1, <1>2 DEF CountIsLength
  <1> QED
    BY <1>2, <1>3, <1>4, <1>5, <1>6, <1>7 DEF ListsInv

LEMMA GiveBackLists ==
  ASSUME IInv, GiveBack, NEW i, i = QueueIndex(FFI)
  PROVE  /\ ListsInv' /\ i \in Shards /\ first \in Requests
         /\ Appended(i, first) /\ batch' = Tail(batch)
         /\ batch # <<>> /\ first = Head(batch)
         /\ Len(queues[i]) < RequestQueueDepth
         /\ fate[first] = "queued"
  <1> USE DEF IInv
  <1>1. /\ i \in Shards /\ first # Nil /\ TakeFirst /\ Link(i, first) /\ ~Full(i)
        /\ fate' = fate /\ ffi' = ffi /\ ffi # "gone"
    BY IndexIsShard DEF GiveBack, Merged, Working
  <1>2. /\ Links(Tail(batch), next, first') /\ last' = LastOf(Tail(batch))
        /\ batch # <<>> /\ first = Head(batch) /\ first \in Requests
        /\ Elements(batch) = {first} \union Elements(Tail(batch))
        /\ first \notin Elements(Tail(batch))
    BY <1>1, TakesFirst
  <1>3. \A j \in Shards : first \notin Elements(queues[j])
    BY <1>2 DEF Apart
  <1> DEFINE qs == [queues EXCEPT ![i] = Append(@, first)]
  <1>4. /\ qs = [j \in Shards |-> qs[j]]
        /\ \A j \in Shards : Links(qs[j], next', head'[j]) /\ tail'[j] = LastOf(qs[j])
        /\ Elements(qs[i]) = Elements(queues[i]) \union {first}
        /\ Len(qs[i]) = Len(queues[i]) + 1
    BY <1>1, <1>2, <1>3, Pushes
  <1>5. Links(Tail(batch), next', first')
    <2>1. Elements(Tail(batch)) \intersect Elements(queues[i]) = {}
      BY <1>1, <1>2 DEF Apart
    <2> QED
      BY <1>1, <1>2, <1>3, <2>1, Pushes
  <1>6. queues = [j \in Shards |-> queues[j]]
    BY Zenon DEF queues
  <1>7. \A j \in Shards \ {i} : qs[j] = queues[j]
    BY <1>6
  <1> HIDE DEF qs
  <1>8. Lists' /\ queues' = qs /\ batch' = Tail(batch)
    BY <1>2, <1>4, <1>5, ListsAre
  <1>9. Appended(i, first)
    BY <1>4, <1>7, <1>8 DEF Appended, qs
  <1>10. Apart'
    BY <1>1, <1>2, <1>3, <1>8, <1>9, PushKeepsApart
  <1>11. fate[first] = "queued"
    BY <1>2 DEF QueuedIsListed
  <1>12. QueuedIsListed'
    BY <1>1, <1>2, <1>8, <1>9, <1>11 DEF QueuedIsListed, Appended
  <1>13. CountIsLength'
    <2>1. \A j \in Shards : count'[j] = IF j = i THEN count[j] + 1 ELSE count[j]
      BY <1>1 DEF Link, QueueTypes
    <2> QED
      BY <1>1, <1>4, <1>7, <1>8, <2>1 DEF CountIsLength
  <1>14. Len(queues[i]) < RequestQueueDepth
    <2>1. count[i] = Len(queues[i]) /\ count[i] \in Nat
      BY <1>1 DEF CountIsLength, QueueTypes
    <2> QED
      BY <1>1, <2>1, QueueAssumption DEF Full
  <1> QED
    BY <1>1, <1>2, <1>8, <1>9, <1>10, <1>11, <1>12, <1>13, <1>14 DEF ListsInv

\* What is left behind the last drain is freed: the batch was empty.
LEMMA DeinitLists ==
  ASSUME IInv, Deinit
  PROVE  /\ ListsInv' /\ queues' = [i \in Shards |-> <<>>] /\ batch' = batch
         /\ \A i \in Shards : queues'[i] = <<>>
         /\ batch' = <<>>
         /\ \A x \in Requests : fate'[x] = IF fate[x] = "queued" THEN "freed" ELSE fate[x]
  <1> USE DEF IInv
  <1>1. /\ ffi = "exited" /\ ffi' = "gone" /\ first = Nil
        /\ UNCHANGED <<next, first, last>>
        /\ head' = [i \in Shards |-> Nil] /\ tail' = [i \in Shards |-> Nil]
        /\ \A x \in Requests : fate'[x] = IF fate[x] = "queued" THEN "freed" ELSE fate[x]
    BY DEF Deinit, RoundsWhole, Working, chain
  <1>2. Links(batch, next, first) /\ last = LastOf(batch)
    BY DEF Lists
  <1>3. batch = <<>>
    BY <1>1, <1>2, ListFacts
  <1> DEFINE qs == [i \in Shards |-> <<>>]
  <1>4. Links(<<>>, next', Nil) /\ LastOf(<<>>) = Nil
    BY DEF Links, LastOf
  <1>5. /\ qs = [i \in Shards |-> qs[i]]
        /\ \A i \in Shards : Links(qs[i], next', head'[i]) /\ tail'[i] = LastOf(qs[i])
    BY <1>1, <1>4
  <1>6. \A i \in Shards : qs[i] = <<>>
    OBVIOUS
  <1> HIDE DEF qs
  <1>7. Lists' /\ queues' = qs /\ batch' = batch
    <2>1. Links(batch, next', first') /\ last' = LastOf(batch)
      BY <1>1, <1>2
    <2> QED
      BY <1>5, <2>1, ListsAre
  <1>8. Elements(<<>>) = {}
    BY DEF Elements
  <1>9. Apart' /\ QueuedIsListed'
    BY <1>1, <1>3, <1>6, <1>7, <1>8 DEF Apart, QueuedIsListed
  <1>10. CountIsLength'
    BY <1>1 DEF CountIsLength
  <1> QED
    BY <1>1, <1>3, <1>6, <1>7, <1>9, <1>10 DEF ListsInv, qs

LEMMA OtherLists ==
  ASSUME ListsInv, UNCHANGED <<bank, chain, fate>>, ffi = "gone" <=> ffi' = "gone"
  PROVE  ListsInv' /\ queues' = queues /\ batch' = batch
  <1>1. Lists' /\ queues' = queues /\ batch' = batch
    BY ListsStay DEF ListsInv
  <1> QED
    BY <1>1 DEF ListsInv, Apart, QueuedIsListed, CountIsLength, bank

-----------------------------------------------------------------------------
(* The order of a thread's requests.                                       *)

OrderInv == Numbered /\ LaterWaits /\ ListsInOrder /\ InOwnQueue

LEMMA PairsOf ==
  ASSUME NEW x \in Requests
  PROVE  x[1] \in Producers /\ x[2] \in 1 .. MaxSubmits /\ x = <<x[1], x[2]>>
  BY DEF Requests

LEMMA ListedAreQueued ==
  ASSUME Lists, QueuedIsListed
  PROVE  /\ batch \in Seq(Requests)
         /\ \A x \in Elements(batch) : x \in Requests /\ fate[x] = "queued"
         /\ \A j \in Shards :
                /\ queues[j] \in Seq(Requests)
                /\ \A x \in Elements(queues[j]) : x \in Requests /\ fate[x] = "queued"
  <1>1. batch \in Seq(Requests) /\ Elements(batch) \subseteq Requests
    BY ListFacts DEF Lists
  <1>2. ASSUME NEW j \in Shards
        PROVE  queues[j] \in Seq(Requests) /\ Elements(queues[j]) \subseteq Requests
    BY ListFacts DEF Lists
  <1> QED
    BY <1>1, <1>2 DEF QueuedIsListed

\* Of the requests of its thread that were never given back, the batch's first
\* is the oldest.
LEMMA FirstIsOldest ==
  ASSUME IInv, first # Nil
  PROVE  /\ first \in Requests /\ batch # <<>> /\ first = Head(batch)
         /\ Elements(batch) = {first} \union Elements(Tail(batch))
         /\ \A x \in Requests :
                fate[x] = "queued" /\ x \notin pushedBack /\ x # first /\ x[1] = first[1]
                    => first[2] < x[2]
  <1> USE DEF IInv
  <1>1. Links(batch, next, first)
    BY DEF Lists
  <1>2. /\ first \in Requests /\ batch # <<>> /\ first = Head(batch)
        /\ Elements(batch) = {first} \union Elements(Tail(batch))
    BY <1>1, ListAdvances
  <1>3. \A y \in Elements(Tail(batch)) \ pushedBack : Precedes(first, y)
    BY <1>1, <1>2, ListFacts, TailInOrder DEF ListsInOrder
  <1>4. ASSUME NEW x \in Requests, fate[x] = "queued", x \notin pushedBack, x # first
        PROVE  Precedes(first, x)
    <2>1. CASE x \in Elements(batch)
      BY <1>2, <1>3, <1>4, <2>1
    <2>2. ASSUME NEW j \in Shards, x \in Elements(queues[j])
          PROVE  Precedes(first, x)
      BY <1>2, <1>4, <2>2 DEF ListsInOrder
    <2> QED
      BY <1>4, <2>1, <2>2 DEF QueuedIsListed
  <1> QED
    BY <1>2, <1>4 DEF Precedes

LEMMA SubmitOrder ==
  ASSUME IInv, NEW p \in Producers, Submit(p)
  PROVE  OrderInv'
  <1> USE DEF IInv
  <1> DEFINE i == QueueIndex(p)
             r == <<p, submitted[p] + 1>>
  <1>1. /\ batch' = batch /\ r \in Requests /\ i \in Shards /\ fate[r] = "new"
        /\ \/ queues' = queues /\ fate' = [fate EXCEPT ![r] = "refused"]
           \/ Appended(i, r) /\ fate' = [fate EXCEPT ![r] = "queued"]
    BY SubmitLists
  <1>2. /\ submitted' = [submitted EXCEPT ![p] = @ + 1] /\ AssignQueue(p)
        /\ pushedBack' = pushedBack
    BY DEF Submit
  <1>3. r[1] = p /\ r[2] = submitted[p] + 1 /\ submitted[p] \in Nat
    BY DEF ThreadTypes
  <1>4. r \notin pushedBack
    BY <1>1 DEF Numbered
  <1>5. \A x \in Elements(batch) : Precedes(x, r)
    <2>1. ASSUME NEW x \in Elements(batch), x[1] = p PROVE x[2] < r[2]
      <3>1. x \in Requests /\ fate[x] # "new"
        BY ListedAreQueued
      <3>2. ~(submitted[p] < x[2]) /\ x[2] \in Int
        BY <2>1, <3>1, PairsOf DEF Numbered
      <3> QED
        BY <1>3, <3>2
    <2> QED
      BY <1>3, <2>1 DEF Precedes
  <1>6. \A x \in Elements(queues[i]) : Precedes(x, r)
    <2>1. ASSUME NEW x \in Elements(queues[i]), x[1] = p PROVE x[2] < r[2]
      <3>1. x \in Requests /\ fate[x] # "new"
        BY <1>1, ListedAreQueued
      <3>2. ~(submitted[p] < x[2]) /\ x[2] \in Int
        BY <2>1, <3>1, PairsOf DEF Numbered
      <3> QED
        BY <1>3, <3>2
    <2> QED
      BY <1>3, <2>1 DEF Precedes
  <1>7. \A x \in Requests :
            IF x = r THEN fate'[x] \in {"queued", "refused"} ELSE fate'[x] = fate[x]
    BY <1>1 DEF ThreadTypes
  <1>8. \A q \in Producers : submitted'[q] = IF q = p THEN submitted[p] + 1 ELSE submitted[q]
    BY <1>2 DEF ThreadTypes
  <1> HIDE DEF i, r
  <1>9. Numbered'
    <2> SUFFICES ASSUME NEW x \in Requests
                 PROVE  /\ fate'[x] = "new" <=> submitted'[x[1]] < x[2]
                        /\ x \in pushedBack => fate'[x] # "new"
      BY <1>2 DEF Numbered
    <2>1. CASE x = r
      <3>1. submitted'[p] = submitted[p] + 1
        BY <1>8
      <3>2. fate'[x] # "new"
        BY <1>7, <2>1
      <3> QED
        BY <1>3, <2>1, <3>1, <3>2
    <2>2. CASE x # r /\ x[1] = p
      <3>1. x[2] # submitted[p] + 1 /\ x[2] \in Int
        BY <2>2, PairsOf DEF r
      <3>2. submitted'[p] < x[2] <=> submitted[p] < x[2]
        BY <1>3, <1>8, <3>1
      <3> QED
        BY <1>7, <2>2, <3>2 DEF Numbered
    <2>3. CASE x # r /\ x[1] # p
      BY <1>7, <1>8, <2>3, PairsOf DEF Numbered
    <2> QED
      BY <2>1, <2>2, <2>3
  <1>10. LaterWaits'
    <2> SUFFICES ASSUME NEW x \in Requests, NEW y \in Requests, x[1] = y[1], x[2] < y[2],
                        x \notin pushedBack, fate'[x] = "queued"
                 PROVE  y \notin pushedBack /\ fate'[y] \in {"new", "refused", "queued"}
      BY <1>2, Zenon DEF LaterWaits
    <2>1. CASE y = r
      BY <1>4, <1>7, <2>1
    <2>2. CASE x = r /\ y # r
      <3>1. y[1] = p /\ submitted[p] < y[2]
        BY <1>3, <2>2, PairsOf
      <3>2. fate[y] = "new" /\ y \notin pushedBack
        BY <3>1 DEF Numbered
      <3> QED
        BY <1>7, <2>2, <3>2
    <2>3. CASE x # r /\ y # r
      BY <1>7, <2>3 DEF LaterWaits
    <2> QED
      BY <2>1, <2>2, <2>3
  <1>11. ListsInOrder'
    <2>1. CASE queues' = queues
      BY <1>1, <1>2, <2>1 DEF ListsInOrder
    <2>2. CASE Appended(i, r)
      <3>1. InOrder(Append(queues[i], r), pushedBack)
        BY <1>1, <1>6, ListedAreQueued, AppendInOrder DEF ListsInOrder
      <3>2. queues'[i] = Append(queues[i], r)
        <4>1. queues = [j \in Shards |-> queues[j]]
          BY Zenon DEF queues
        <4> QED
          BY <1>1, <2>2, <4>1 DEF Appended
      <3> QED
        BY <1>1, <1>2, <1>5, <2>2, <3>1, <3>2 DEF ListsInOrder, Appended
    <2> QED
      BY <1>1, <2>1, <2>2
  <1>12. InOwnQueue'
    <2>1. \A q \in Producers : myQueue[q] # -1 => myQueue'[q] = myQueue[q]
      BY <1>2 DEF AssignQueue, QueueNumber, ThreadTypes
    <2>2. myQueue'[p] # -1 /\ i = myQueue'[p] % RequestQueueCount
      <3>1. myQueue'[p] = QueueNumber(p) /\ QueueNumber(p) \in Nat
        BY <1>2, IndexIsShard DEF AssignQueue, ThreadTypes
      <3>2. QueueNumber(p) # -1
        BY <3>1
      <3> QED
        BY <3>1, <3>2 DEF QueueIndex, i
    <2> SUFFICES ASSUME NEW j \in Shards, NEW y \in Elements(queues'[j]), y \notin pushedBack
                 PROVE  myQueue'[y[1]] # -1 /\ j = myQueue'[y[1]] % RequestQueueCount
      BY <1>2, Zenon DEF InOwnQueue
    <2>3. CASE y \in Elements(queues[j])
      <3>1. myQueue[y[1]] # -1 /\ j = myQueue[y[1]] % RequestQueueCount
        BY <2>3 DEF InOwnQueue
      <3>2. y[1] \in Producers
        BY <2>3, ListedAreQueued, PairsOf
      <3> QED
        BY <2>1, <3>1, <3>2
    <2>4. CASE y \notin Elements(queues[j])
      <3>1. y = r /\ j = i
        BY <1>1, <2>4 DEF Appended
      <3> QED
        BY <1>3, <2>2, <3>1
    <2> QED
      BY <2>3, <2>4
  <1> QED
    BY <1>9, <1>10, <1>11, <1>12 DEF OrderInv

LEMMA MergeOrder ==
  ASSUME IInv, MergeOne
  PROVE  OrderInv'
  <1> USE DEF IInv
  <1>1. /\ merged \in Shards
        /\ batch' = batch \o queues[merged]
        /\ Elements(batch') = Elements(batch) \union Elements(queues[merged])
        /\ queues'[merged] = <<>>
        /\ \A j \in Shards \ {merged} : queues'[j] = queues[j]
    BY MergeLists
  <1>2. UNCHANGED <<submitted, fate, pushedBack, myQueue>>
    BY DEF MergeOne, Goes, index, history
  <1>3. Elements(queues'[merged]) = {} /\ InOrder(queues'[merged], pushedBack)
    BY <1>1 DEF Elements, InOrder
  <1>4. InOrder(batch', pushedBack)
    BY <1>1, ListedAreQueued, JoinInOrder DEF ListsInOrder
  \* What was given back may lie in another queue, but not with a later number.
  <1>5. ASSUME NEW x \in Elements(queues[merged]), NEW j \in Shards \ {merged},
               NEW y \in Elements(queues[j]), y \notin pushedBack
        PROVE  Precedes(x, y)
    <2> SUFFICES ASSUME x[1] = y[1] PROVE x[2] < y[2]
      BY DEF Precedes
    <2>1. /\ x \in Requests /\ fate[x] = "queued"
          /\ y \in Requests /\ fate[y] = "queued"
      BY <1>1, ListedAreQueued
    <2>2. x \in pushedBack
      BY <1>1, <1>5 DEF InOwnQueue
    <2>3. x # y
      <3>1. Elements(queues[j]) \intersect Elements(queues[merged]) = {}
        BY <1>1 DEF Apart
      <3> QED
        BY <1>5, <3>1
    <2>4. x[2] # y[2] /\ x[2] \in Int /\ y[2] \in Int
      BY <2>1, <2>3, PairsOf
    <2>5. ~(y[2] < x[2])
      BY <1>5, <2>1, <2>2 DEF LaterWaits
    <2> QED
      BY <2>4, <2>5
  <1>6. ListsInOrder'
    <2>1. ASSUME NEW j \in Shards
          PROVE  /\ InOrder(queues'[j], pushedBack)
                 /\ \A x \in Elements(batch'), y \in Elements(queues'[j]) \ pushedBack :
                        Precedes(x, y)
      <3>1. CASE j = merged
        BY <1>3, <3>1
      <3>2. CASE j # merged
        BY <1>1, <1>5, <3>2 DEF ListsInOrder
      <3> QED
        BY <3>1, <3>2
    <2> QED
      BY <1>2, <1>4, <2>1 DEF ListsInOrder
  <1>7. InOwnQueue'
    BY <1>1, <1>2, <1>3 DEF InOwnQueue
  <1>8. Numbered' /\ LaterWaits'
    BY <1>2 DEF Numbered, LaterWaits
  <1> QED
    BY <1>6, <1>7, <1>8 DEF OrderInv

LEMMA FinishOrder ==
  ASSUME IInv, Process \/ Reject
  PROVE  OrderInv'
  <1> USE DEF IInv
  <1>1. /\ queues' = queues /\ batch' = Tail(batch) /\ batch # <<>>
        /\ fate'[first] \in {"ran", "rejected"}
        /\ \A x \in Requests \ {first} : fate'[x] = fate[x]
    BY FinishLists
  <1>2. UNCHANGED <<submitted, pushedBack, myQueue>> /\ first # Nil
    BY DEF Process, Reject, index
  <1>3. /\ first \in Requests
        /\ Elements(batch) = {first} \union Elements(Tail(batch))
        /\ \A x \in Requests :
               fate[x] = "queued" /\ x \notin pushedBack /\ x # first /\ x[1] = first[1]
                   => first[2] < x[2]
    BY <1>2, FirstIsOldest
  <1>4. fate[first] = "queued"
    BY <1>3 DEF QueuedIsListed
  <1>5. Numbered'
    <2>1. \A x \in Requests : fate'[x] = "new" <=> fate[x] = "new"
      BY <1>1, <1>4
    <2> QED
      BY <1>2, <2>1 DEF Numbered
  <1>6. LaterWaits'
    <2> SUFFICES ASSUME NEW x \in Requests, NEW y \in Requests, x[1] = y[1], x[2] < y[2],
                        x \notin pushedBack, fate'[x] = "queued"
                 PROVE  y \notin pushedBack /\ fate'[y] \in {"new", "refused", "queued"}
      BY <1>2, Zenon DEF LaterWaits
    <2>1. x # first /\ fate[x] = "queued"
      BY <1>1
    <2>2. y # first
      <3> SUFFICES ASSUME y = first PROVE FALSE
        OBVIOUS
      <3>1. first[2] < x[2] /\ x[2] < first[2]
        BY <1>3, <2>1
      <3>2. x[2] \in Int /\ first[2] \in Int
        BY <1>3, PairsOf
      <3> QED
        BY <3>1, <3>2
    <2> QED
      BY <1>1, <2>1, <2>2 DEF LaterWaits
  <1>7. ListsInOrder'
    <2>1. InOrder(Tail(batch), pushedBack)
      BY <1>1, ListedAreQueued, TailInOrder DEF ListsInOrder
    <2> QED
      BY <1>1, <1>2, <1>3, <2>1 DEF ListsInOrder
  <1>8. InOwnQueue'
    BY <1>1, <1>2 DEF InOwnQueue
  <1> QED
    BY <1>5, <1>6, <1>7, <1>8 DEF OrderInv

LEMMA GiveBackOrder ==
  ASSUME IInv, GiveBack
  PROVE  OrderInv'
  <1> USE DEF IInv
  <1> DEFINE i == QueueIndex(FFI)
  <1>1. /\ i \in Shards /\ Appended(i, first) /\ batch' = Tail(batch) /\ batch # <<>>
        /\ fate[first] = "queued"
    BY GiveBackLists
  <1>2. /\ UNCHANGED <<submitted, fate>> /\ pushedBack' = pushedBack \union {first}
        /\ first # Nil /\ AssignQueue(FFI)
    BY DEF GiveBack
  <1>3. /\ first \in Requests
        /\ Elements(batch) = {first} \union Elements(Tail(batch))
        /\ \A x \in Requests :
               fate[x] = "queued" /\ x \notin pushedBack /\ x # first /\ x[1] = first[1]
                   => first[2] < x[2]
    BY <1>2, FirstIsOldest
  <1> HIDE DEF i
  <1>4. Numbered'
    BY <1>1, <1>2 DEF Numbered
  <1>5. LaterWaits'
    <2> SUFFICES ASSUME NEW x \in Requests, NEW y \in Requests, x[1] = y[1], x[2] < y[2],
                        x \notin pushedBack, x # first, fate[x] = "queued"
                 PROVE  /\ y \notin pushedBack /\ y # first
                        /\ fate[y] \in {"new", "refused", "queued"}
      BY <1>2 DEF LaterWaits
    <2>1. y # first
      <3> SUFFICES ASSUME y = first PROVE FALSE
        OBVIOUS
      <3>1. first[2] < x[2] /\ x[2] < first[2]
        BY <1>3
      <3>2. x[2] \in Int /\ first[2] \in Int
        BY <1>3, PairsOf
      <3> QED
        BY <3>1, <3>2
    <2> QED
      BY <2>1 DEF LaterWaits
  <1>6. ListsInOrder'
    <2>1. InOrder(Tail(batch), pushedBack')
      BY <1>1, <1>2, ListedAreQueued, TailInOrder, MoreSkipped DEF ListsInOrder
    <2>2. queues'[i] = Append(queues[i], first)
      <3>1. queues = [j \in Shards |-> queues[j]]
        BY Zenon DEF queues
      <3> QED
        BY <1>1, <3>1 DEF Appended
    <2>3. InOrder(queues'[i], pushedBack')
      <3>1. InOrder(queues[i], pushedBack')
        BY <1>1, <1>2, MoreSkipped DEF ListsInOrder
      <3>2. first \in pushedBack' /\ queues[i] \in Seq(Requests)
        BY <1>1, <1>2, ListedAreQueued
      <3> QED
        BY <1>3, <2>2, <3>1, <3>2, AppendInOrder
    <2>4. ASSUME NEW j \in Shards
          PROVE  /\ InOrder(queues'[j], pushedBack')
                 /\ \A x \in Elements(batch'), y \in Elements(queues'[j]) \ pushedBack' :
                        Precedes(x, y)
      <3>1. InOrder(queues'[j], pushedBack')
        BY <1>1, <1>2, <2>3, MoreSkipped DEF ListsInOrder, Appended
      <3>2. Elements(queues'[j]) \ pushedBack' \subseteq Elements(queues[j]) \ pushedBack
        BY <1>1, <1>2 DEF Appended
      <3>3. Elements(batch') \subseteq Elements(batch)
        BY <1>1, <1>3
      <3> QED
        BY <3>1, <3>2, <3>3 DEF ListsInOrder
    <2> QED
      BY <1>1, <2>1, <2>4 DEF ListsInOrder
  <1>7. InOwnQueue'
    <2>1. \A q \in Producers : myQueue[q] # -1 => myQueue'[q] = myQueue[q]
      BY <1>2 DEF AssignQueue, QueueNumber, ThreadTypes
    <2> SUFFICES ASSUME NEW j \in Shards, NEW y \in Elements(queues'[j]),
                        y \notin pushedBack, y # first
                 PROVE  myQueue'[y[1]] # -1 /\ j = myQueue'[y[1]] % RequestQueueCount
      BY <1>2 DEF InOwnQueue
    <2>2. y \in Elements(queues[j])
      BY <1>1 DEF Appended
    <2>3. y[1] \in Producers
      BY <2>2, ListedAreQueued, PairsOf
    <2>4. myQueue[y[1]] # -1 /\ j = myQueue[y[1]] % RequestQueueCount
      BY <2>2 DEF InOwnQueue
    <2> QED
      BY <2>1, <2>3, <2>4
  <1> QED
    BY <1>4, <1>5, <1>6, <1>7 DEF OrderInv

LEMMA DeinitOrder ==
  ASSUME IInv, Deinit
  PROVE  OrderInv'
  <1> USE DEF IInv
  <1>1. /\ \A i \in Shards : queues'[i] = <<>>
        /\ batch' = <<>>
        /\ \A x \in Requests : fate'[x] = IF fate[x] = "queued" THEN "freed" ELSE fate[x]
    BY DeinitLists
  <1>2. UNCHANGED <<submitted, pushedBack, myQueue>>
    BY DEF Deinit, index
  <1>3. \A s : InOrder(<<>>, s)
    BY DEF InOrder
  <1>4. Elements(<<>>) = {}
    BY DEF Elements
  <1>5. ListsInOrder' /\ InOwnQueue'
    BY <1>1, <1>3, <1>4 DEF ListsInOrder, InOwnQueue
  <1>6. Numbered'
    BY <1>1, <1>2 DEF Numbered
  <1>7. LaterWaits'
    BY <1>1 DEF LaterWaits
  <1> QED
    BY <1>5, <1>6, <1>7 DEF OrderInv

LEMMA OtherOrder ==
  ASSUME OrderInv, queues' = queues, batch' = batch,
         UNCHANGED <<submitted, fate, pushedBack, myQueue>>
  PROVE  OrderInv'
  BY DEF OrderInv, Numbered, LaterWaits, ListsInOrder, InOwnQueue

-----------------------------------------------------------------------------
(* Rounds and wakes.                                                       *)

LEMMA RoundsKept ==
  ASSUME IInv, [Next]_vars
  PROVE  RoundsWhole'
  <1> USE DEF IInv
  <1>1. ASSUME NEW p \in Producers, Submit(p) \/ Fire(p)
        PROVE  RoundsWhole'
    BY <1>1 DEF Submit, Fire, RoundsWhole, chain
  <1>2. CASE Start \/ StartLast \/ Woken \/ WaitEnds \/ Stop
    BY <1>2 DEF Start, StartLast, Woken, WaitEnds, Stop, Goes, RoundsWhole, Working, chain
  <1>3. CASE MergeOne
    BY <1>3 DEF MergeOne, Goes, RoundsWhole, Working
  <1>4. CASE Process \/ Reject \/ GiveBack
    BY <1>4 DEF Process, Reject, GiveBack, Merged, RoundsWhole, Working
  <1>5. CASE Done
    BY <1>5 DEF Done, Merged, Goes, RoundsWhole, chain
  <1>6. CASE Deinit
    BY <1>6 DEF Deinit, RoundsWhole, Working, chain
  <1>7. CASE UNCHANGED vars
    BY <1>7 DEF vars, chain, RoundsWhole
  <1> QED
    BY <1>1, <1>2, <1>3, <1>4, <1>5, <1>6, <1>7 DEF Next

LEMMA WakeKept ==
  ASSUME IInv, ListsInv, [Next]_vars
  PROVE  WakeDue'
  <1> USE DEF IInv
  <1>1. ASSUME NEW p \in Producers, Submit(p)
        PROVE  WakeDue'
    <2> DEFINE i == QueueIndex(p)
               r == <<p, submitted[p] + 1>>
    <2>1. /\ r \in Requests /\ i \in Shards
          /\ \/ queues' = queues /\ waking' = waking
             \/ /\ Appended(i, r)
                /\ waking' = IF queues[i] = <<>> THEN waking \union {p} ELSE waking
      BY <1>1, SubmitLists
    <2>2. UNCHANGED <<reqSignal, pushedBack, ffi, merged>>
      BY <1>1 DEF Submit
    <2> HIDE DEF i, r
    <2>3. CASE queues' = queues /\ waking' = waking
      BY <2>2, <2>3 DEF WakeDue
    <2>4. CASE Appended(i, r) /\ queues[i] = <<>> /\ waking' = waking \union {p}
      BY <2>4 DEF WakeDue
    <2>5. CASE Appended(i, r) /\ queues[i] # <<>> /\ waking' = waking
      <3>1. ASSUME NEW j \in Shards, queues'[j] # <<>>,
                   Elements(queues'[j]) \intersect pushedBack = {}
            PROVE  queues[j] # <<>> /\ Elements(queues[j]) \intersect pushedBack = {}
        BY <2>5, <3>1 DEF Appended
      <3> QED
        BY <2>2, <2>5, <3>1 DEF WakeDue
    <2> QED
      BY <2>1, <2>3, <2>4, <2>5
  <1>2. ASSUME NEW p \in Producers, Fire(p)
        PROVE  WakeDue'
    <2>1. reqSignal' /\ queues' = queues
      BY <1>2, ListsStay DEF Fire
    <2> QED
      BY <2>1 DEF WakeDue
  <1>3. CASE Start \/ StartLast
    <2>1. UNCHANGED <<bank, chain, waking, reqSignal, pushedBack, merged>> /\ ffi = "top"
          /\ ffi' \in Working
      BY <1>3 DEF Start, StartLast, Goes, history, Working
    <2>2. queues' = queues
      BY <2>1, ListsStay
    <2>3. merged' = 0 /\ \A i \in Shards : 0 <= i
      BY <2>1, QueueAssumption DEF RoundsWhole, Shards
    <2> QED
      BY <2>1, <2>3 DEF WakeDue
  <1>4. CASE MergeOne
    <2>1. /\ merged \in Shards /\ queues'[merged] = <<>>
          /\ \A j \in Shards \ {merged} : queues'[j] = queues[j]
      BY <1>4, MergeLists
    <2>2. /\ UNCHANGED <<waking, reqSignal, pushedBack, ffi>> /\ ffi \in Working
          /\ merged' = merged + 1
      BY <1>4 DEF MergeOne, Goes, history
    <2>3. \A j \in Shards \ {merged} : merged <= j => merged' <= j
      BY <2>1, <2>2, QueueAssumption DEF Shards
    <2> QED
      BY <2>1, <2>2, <2>3 DEF WakeDue
  <1>5. CASE Process \/ Reject
    <2>1. /\ UNCHANGED <<waking, reqSignal, pushedBack, ffi>>
          /\ merged' = 0 \/ merged' = merged
      BY <1>5 DEF Process, Reject
    <2>2. queues' = queues
      BY <1>5, FinishLists
    <2>3. \A j \in Shards : 0 <= j
      BY QueueAssumption DEF Shards
    <2> QED
      BY <2>1, <2>2, <2>3 DEF WakeDue
  <1>6. CASE GiveBack
    <2>1. /\ QueueIndex(FFI) \in Shards /\ Appended(QueueIndex(FFI), first)
      BY <1>6, GiveBackLists
    <2>2. /\ UNCHANGED <<waking, reqSignal, ffi, merged>>
          /\ pushedBack' = pushedBack \union {first}
      BY <1>6 DEF GiveBack
    <2>3. ASSUME NEW j \in Shards, queues'[j] # <<>>,
                 Elements(queues'[j]) \intersect pushedBack' = {}
          PROVE  queues[j] # <<>> /\ Elements(queues[j]) \intersect pushedBack = {}
      BY <2>1, <2>2, <2>3 DEF Appended
    <2> QED
      BY <2>2, <2>3 DEF WakeDue
  \* The round is over: what was pushed behind it has a wake due already.
  <1>7. CASE Done
    <2>1. UNCHANGED <<bank, chain, waking, reqSignal, pushedBack>>
          /\ ffi \in Working /\ merged = RequestQueueCount
      BY <1>7 DEF Done, Merged, Goes, history
    <2>2. queues' = queues
      BY <2>1, ListsStay
    <2>3. \A j \in Shards : ~(merged <= j)
      BY <2>1, QueueAssumption DEF Shards
    <2> QED
      BY <2>1, <2>2, <2>3 DEF WakeDue, Working
  <1>8. CASE Woken \/ WaitEnds
    <2>1. UNCHANGED <<bank, chain>> /\ ffi' = "top"
      BY <1>8 DEF Woken, WaitEnds, Goes
    <2> QED
      BY <2>1 DEF WakeDue
  <1>9. CASE Stop \/ UNCHANGED vars
    <2>1. UNCHANGED <<bank, chain, waking, reqSignal, pushedBack, ffi, merged>>
      BY <1>9 DEF Stop, vars, history
    <2>2. queues' = queues
      BY <2>1, ListsStay
    <2> QED
      BY <2>1, <2>2 DEF WakeDue
  <1>10. CASE Deinit
    BY <1>10 DEF Deinit, WakeDue
  <1> QED
    BY <1>1, <1>2, <1>3, <1>4, <1>5, <1>6, <1>7, <1>8, <1>9, <1>10 DEF Next

-----------------------------------------------------------------------------
(* The invariant holds.                                                    *)

LEMMA EmptyAtFirst ==
  ASSUME Init
  PROVE  queues = [i \in Shards |-> <<>>] /\ batch = <<>> /\ Lists
  <1>1. Links(<<>>, next, Nil) /\ LastOf(<<>>) = Nil
    BY DEF Links, LastOf
  <1>2. Follow(next, Nil) = <<>>
    BY <1>1, FollowFinds
  <1>3. /\ \A i \in Shards : head[i] = Nil /\ tail[i] = Nil
        /\ first = Nil /\ last = Nil
    BY DEF Init
  <1>4. queues = [i \in Shards |-> <<>>] /\ batch = <<>>
    BY <1>2, <1>3 DEF queues, batch, Chain
  <1> HIDE DEF queues, batch
  <1>5. Lists
    BY <1>1, <1>3, <1>4 DEF Lists
  <1> QED
    BY <1>4, <1>5

LEMMA InitHolds == Init => IInv
  <1> SUFFICES ASSUME Init PROVE IInv
    OBVIOUS
  <1>1. queues = [i \in Shards |-> <<>>] /\ batch = <<>> /\ Lists
    BY EmptyAtFirst
  <1>2. \A i \in Shards : queues[i] = <<>>
    BY <1>1
  <1>3. Elements(<<>>) = {} /\ Len(<<>>) = 0 /\ \A s : InOrder(<<>>, s)
    BY DEF Elements, InOrder
  <1>4. QueueTypes /\ ThreadTypes
    BY QueueAssumption DEF Init, QueueTypes, ThreadTypes, Fates
  <1>5. Apart /\ QueuedIsListed /\ CountIsLength
    BY <1>1, <1>2, <1>3 DEF Init, Apart, QueuedIsListed, CountIsLength
  <1>6. Numbered
    <2>1. ASSUME NEW x \in Requests PROVE submitted[x[1]] < x[2] /\ fate[x] = "new"
      BY PairsOf DEF Init
    <2> QED
      BY <2>1 DEF Init, Numbered
  <1>7. RoundsWhole /\ LaterWaits /\ WakeDue
    BY <1>2 DEF Init, RoundsWhole, LaterWaits, WakeDue
  <1>8. ListsInOrder /\ InOwnQueue
    BY <1>1, <1>2, <1>3 DEF ListsInOrder, InOwnQueue
  <1> QED
    BY <1>1, <1>4, <1>5, <1>6, <1>7, <1>8 DEF IInv

LEMMA StepKeeps == IInv /\ [Next]_vars => IInv'
  <1> SUFFICES ASSUME IInv, [Next]_vars PROVE IInv'
    OBVIOUS
  <1>1. ListsInv /\ OrderInv
    BY DEF IInv, ListsInv, OrderInv
  <1>2. QueueTypes' /\ ThreadTypes'
    BY TypesKept DEF IInv
  <1>3. ListsInv' /\ OrderInv'
    <2>1. ASSUME NEW p \in Producers, Submit(p) PROVE ListsInv' /\ OrderInv'
      BY <2>1, SubmitLists, SubmitOrder
    <2>2. CASE MergeOne
      BY <2>2, MergeLists, MergeOrder
    <2>3. CASE Process \/ Reject
      BY <2>3, FinishLists, FinishOrder
    <2>4. CASE GiveBack
      BY <2>4, GiveBackLists, GiveBackOrder
    <2>5. CASE Deinit
      BY <2>5, DeinitLists, DeinitOrder
    <2>6. CASE (\E p \in Producers : Fire(p)) \/ Start \/ StartLast \/ Done \/ Woken
               \/ WaitEnds \/ Stop \/ UNCHANGED vars
      <3>1. UNCHANGED <<bank, chain, submitted, fate, pushedBack, myQueue>>
            /\ (ffi = "gone" <=> ffi' = "gone")
        BY <2>6 DEF Fire, Start, StartLast, Done, Merged, Working, Woken, WaitEnds, Stop,
                    Goes, vars, index, history
      <3> QED
        BY <1>1, <3>1, OtherLists, OtherOrder
    <2> QED
      BY <2>1, <2>2, <2>3, <2>4, <2>5, <2>6 DEF Next
  <1>4. RoundsWhole' /\ WakeDue'
    BY <1>1, RoundsKept, WakeKept
  <1> QED
    BY <1>2, <1>3, <1>4 DEF IInv, ListsInv, OrderInv

\* The linked queues and the merged chain stay disjoint lists in the producers' order, and
\* a wake is due for what no merge will find (pushRequest, mergeQueues, processQueue).
THEOREM QueueInvariant == Spec => []IInv
  BY InitHolds, StepKeeps, PTL DEF Spec

\* The requests of a thread run in the order of their submits, whatever threads, queues
\* and bounds there are, up to those that were given back (rejectQueuedRequests).
THEOREM RunInOrder == Spec => []ProducerOrder
  <1>1. ASSUME IInv PROVE ProducerOrder
    <2> SUFFICES ASSUME NEW p \in Producers,
                        NEW m \in 1 .. MaxSubmits, NEW n \in 1 .. MaxSubmits,
                        m < n, fate[<<p, n>>] = "ran", <<p, m>> \notin pushedBack,
                        fate[<<p, m>>] = "queued"
                 PROVE  FALSE
      BY DEF ProducerOrder
    <2> DEFINE x == <<p, m>>
               y == <<p, n>>
    <2>1. x \in Requests /\ y \in Requests /\ x[1] = y[1] /\ x[2] < y[2]
      BY DEF Requests
    <2> QED
      BY <1>1, <2>1 DEF IInv, LaterWaits
  <1> QED
    BY <1>1, QueueInvariant, PTL

\* The FFI thread never waits beside a queue that somebody pushed to and nobody will wake
\* it for: only what it gave back itself waits for the 100 ms (submit, ffiThreadBody).
THEOREM NoWakeLost == Spec => []WakeIsPending
  <1>1. ASSUME IInv PROVE WakeIsPending
    <2> SUFFICES ASSUME ffi = "wait", ~reqSignal, waking = {}, NEW i \in Shards,
                        head[i] # Nil
                 PROVE  Elements(queues[i]) \intersect pushedBack # {}
      BY Zenon DEF WakeIsPending, queues
    <2>1. queues[i] # <<>>
      BY <1>1, ListFacts DEF IInv, Lists
    <2> QED
      BY <1>1, <2>1 DEF IInv, WakeDue, Working
  <1> QED
    BY <1>1, QueueInvariant, PTL

-----------------------------------------------------------------------------
(* The refinement: each step of the queues is one of RequestBank's.        *)

BankStep == [Bank!Next]_(Bank!vars)

LEMMA StepMaps ==
  ASSUME IInv, [Next]_vars
  PROVE  BankStep
  <1>1. queues = [i \in Shards |-> queues[i]]
    BY Zenon DEF queues
  <1>2. ASSUME NEW p \in Producers, Submit(p)
        PROVE  BankStep
    <2> DEFINE i == QueueIndex(p)
               r == <<p, submitted[p] + 1>>
    <2>1. /\ batch' = batch /\ r \in Requests /\ i \in Shards
          /\ \/ queues' = queues
             \/ Appended(i, r) /\ Len(queues[i]) < RequestQueueDepth
      BY <1>2, SubmitLists
    <2> HIDE DEF i, r
    <2>2. CASE queues' = queues
      BY <2>1, <2>2 DEF BankStep, Bank!vars, queues, batch
    <2>3. CASE Appended(i, r) /\ Len(queues[i]) < RequestQueueDepth
      <3>1. Bank!Push(i, r)
        BY <2>1, <2>3, Zenon DEF Bank!Push, Appended, queues, batch
      <3> QED
        BY <2>1, <3>1 DEF BankStep, Bank!Next
    <2> QED
      BY <2>1, <2>2, <2>3
  <1>3. CASE MergeOne
    <2>1. /\ merged \in Shards
          /\ queues' = [queues EXCEPT ![merged] = <<>>]
          /\ batch' = batch \o queues[merged]
      BY <1>3, MergeLists
    <2>2. Bank!Take(merged)
      BY <2>1, Zenon DEF Bank!Take, queues, batch
    <2> QED
      BY <2>1, <2>2 DEF BankStep, Bank!Next
  <1>4. CASE Process \/ Reject
    <2>1. queues' = queues /\ batch' = Tail(batch) /\ batch # <<>>
      BY <1>4, FinishLists
    <2>2. Bank!Consume
      BY <2>1, Zenon DEF Bank!Consume, queues, batch
    <2> QED
      BY <2>2 DEF BankStep, Bank!Next
  <1>5. CASE GiveBack
    <2> DEFINE i == QueueIndex(FFI)
    <2>1. /\ i \in Shards /\ Appended(i, first) /\ batch' = Tail(batch) /\ batch # <<>>
          /\ first = Head(batch) /\ Len(queues[i]) < RequestQueueDepth
      BY <1>5, GiveBackLists
    <2> HIDE DEF i
    <2>2. queues' = [queues EXCEPT ![i] = Append(@, Head(batch))]
      BY <2>1 DEF Appended
    <2>3. Bank!PushBack(i)
      BY <2>1, <2>2, Zenon DEF Bank!PushBack, queues, batch
    <2> QED
      BY <2>1, <2>3 DEF BankStep, Bank!Next
  <1>6. CASE Deinit
    <2>1. queues' = [i \in Shards |-> <<>>] /\ batch' = batch
      BY <1>6, DeinitLists
    <2>2. Bank!Discard
      BY <2>1, Zenon DEF Bank!Discard, queues, batch
    <2> QED
      BY <2>2 DEF BankStep, Bank!Next
  <1>7. CASE (\E p \in Producers : Fire(p)) \/ Start \/ StartLast \/ Done \/ Woken
             \/ WaitEnds \/ Stop \/ UNCHANGED vars
    <2>1. UNCHANGED <<bank, chain>>
      BY <1>7 DEF Fire, Start, StartLast, Done, Woken, WaitEnds, Stop, vars
    <2>2. queues' = queues /\ batch' = batch
      BY <2>1, ListsStay DEF IInv
    <2> QED
      BY <2>2 DEF BankStep, Bank!vars, queues, batch
  <1> QED
    BY <1>2, <1>3, <1>4, <1>5, <1>6, <1>7 DEF Next

\* Queues linked through the requests, merged a lock at a time, are the bounded queues of
\* RequestBank: nothing is lost, doubled or reordered (ffi_request_queue.nim).
THEOREM ImplementsRequestBank == Spec => ImplementsBank
  <1>1. Init => Bank!Init
    <2> SUFFICES ASSUME Init PROVE Bank!Init
      OBVIOUS
    <2>1. queues = [i \in Shards |-> <<>>] /\ batch = <<>>
      BY EmptyAtFirst
    <2> QED
      BY <2>1, Zenon DEF Bank!Init, queues, batch
  <1>2. IInv /\ [Next]_vars => BankStep
    BY StepMaps
  <1>3. Spec => Bank!Init /\ [][Bank!Next]_(Bank!vars)
    BY <1>1, <1>2, QueueInvariant, PTL DEF Spec, BankStep
  <1> QED
    BY <1>3 DEF ImplementsBank, Bank!Spec
=============================================================================
