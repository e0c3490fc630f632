--------------------------- MODULE IVSurface_proofs ---------------------------
(***************************************************************************)
(* Proofs about IVSurface, for every chain of legs: what is in the surface *)
(* and that its two indexes list it in its order.                          *)
(***************************************************************************)
EXTENDS IVSurface, FiniteSetTheorems, TLAPS

-----------------------------------------------------------------------------
(* Sorting *)

\* The keys of a list of n elements: triples, or pairs.
Keyed(key, n) == \/ key \in [1..n -> Nat \X Nat \X Nat]
                 \/ key \in [1..n -> Nat \X Nat]

\* Lexicographic order, spelt out for the two kinds of keys.
LEMMA LexTriples ==
  ASSUME NEW a \in Nat \X Nat \X Nat, NEW b \in Nat \X Nat \X Nat
  PROVE  /\ Lex(a, b) <=> \/ a[1] < b[1]
                          \/ a[1] = b[1] /\ a[2] < b[2]
                          \/ a[1] = b[1] /\ a[2] = b[2] /\ a[3] < b[3]
         /\ a = b <=> a[1] = b[1] /\ a[2] = b[2] /\ a[3] = b[3]
<1>1. DOMAIN a = {1, 2, 3}
  OBVIOUS
<1>2. 1..(1 - 1) = {} /\ 1..(2 - 1) = {1} /\ 1..(3 - 1) = {1, 2}
  OBVIOUS
<1>3. a = <<a[1], a[2], a[3]>> /\ b = <<b[1], b[2], b[3]>>
  OBVIOUS
<1>4. a = b <=> a[1] = b[1] /\ a[2] = b[2] /\ a[3] = b[3]
  BY <1>3, Zenon
<1> QED BY <1>1, <1>2, <1>4 DEF Lex

LEMMA LexPairs ==
  ASSUME NEW a \in Nat \X Nat, NEW b \in Nat \X Nat
  PROVE  /\ Lex(a, b) <=> \/ a[1] < b[1]
                          \/ a[1] = b[1] /\ a[2] < b[2]
         /\ a = b <=> a[1] = b[1] /\ a[2] = b[2]
<1>1. DOMAIN a = {1, 2}
  OBVIOUS
<1>2. 1..(1 - 1) = {} /\ 1..(2 - 1) = {1}
  OBVIOUS
<1>3. a = <<a[1], a[2]>> /\ b = <<b[1], b[2]>>
  OBVIOUS
<1>4. a = b <=> a[1] = b[1] /\ a[2] = b[2]
  BY <1>3, Zenon
<1> QED BY <1>1, <1>2, <1>4 DEF Lex

\* Before is a total order of the places of a list.
LEMMA TotalOrder ==
  ASSUME NEW n \in Nat, NEW key, Keyed(key, n)
  PROVE  /\ \A i \in 1..n : ~Before(key, i, i)
         /\ \A i, j, k \in 1..n : Before(key, i, j) /\ Before(key, j, k) => Before(key, i, k)
         /\ \A i, j \in 1..n : i = j \/ Before(key, i, j) \/ Before(key, j, i)
<1>1. CASE key \in [1..n -> Nat \X Nat \X Nat]
  <2>0. \A i \in 1..n : key[i] \in Nat \X Nat \X Nat
    BY <1>1
  <2>1. \A i, j \in 1..n : Before(key, i, j) <=>
          \/ key[i][1] < key[j][1]
          \/ key[i][1] = key[j][1] /\ key[i][2] < key[j][2]
          \/ key[i][1] = key[j][1] /\ key[i][2] = key[j][2] /\ key[i][3] < key[j][3]
          \/ key[i][1] = key[j][1] /\ key[i][2] = key[j][2] /\ key[i][3] = key[j][3] /\ i < j
    BY <2>0, LexTriples, Zenon DEF Before
  <2> DEFINE first == [i \in 1..n |-> key[i][1]]
             second == [i \in 1..n |-> key[i][2]]
             third == [i \in 1..n |-> key[i][3]]
  <2>2. first \in [1..n -> Nat] /\ second \in [1..n -> Nat] /\ third \in [1..n -> Nat]
    BY <1>1
  <2>3. \A i, j \in 1..n : Before(key, i, j) <=>
          \/ first[i] < first[j]
          \/ first[i] = first[j] /\ second[i] < second[j]
          \/ first[i] = first[j] /\ second[i] = second[j] /\ third[i] < third[j]
          \/ first[i] = first[j] /\ second[i] = second[j] /\ third[i] = third[j] /\ i < j
    BY <2>1
  <2> HIDE DEF first, second, third
  <2>4. \A i \in 1..n : /\ i \in Nat /\ first[i] \in Nat
                        /\ second[i] \in Nat /\ third[i] \in Nat
    BY <2>2
  <2>5. ASSUME NEW i \in 1..n, NEW j \in 1..n
        PROVE  i = j \/ Before(key, i, j) \/ Before(key, j, i)
    BY <2>3, <2>4
  <2>6. ASSUME NEW i \in 1..n, NEW j \in 1..n, NEW k \in 1..n,
               Before(key, i, j), Before(key, j, k)
        PROVE  Before(key, i, k)
    BY <2>3, <2>4, <2>6
  <2>7. \A i \in 1..n : ~Before(key, i, i)
    BY <2>3, <2>4
  <2> QED BY <2>5, <2>6, <2>7, Zenon
<1>2. CASE key \in [1..n -> Nat \X Nat]
  <2>0. \A i \in 1..n : key[i] \in Nat \X Nat
    BY <1>2
  <2>1. \A i, j \in 1..n : Before(key, i, j) <=>
          \/ key[i][1] < key[j][1]
          \/ key[i][1] = key[j][1] /\ key[i][2] < key[j][2]
          \/ key[i][1] = key[j][1] /\ key[i][2] = key[j][2] /\ i < j
    BY <2>0, LexPairs, Zenon DEF Before
  <2>2. \A i \in 1..n : key[i][1] \in Nat /\ key[i][2] \in Nat
    BY <1>2
  <2> QED BY <2>1, <2>2
<1> QED BY <1>1, <1>2 DEF Keyed

\* The rank of a place counts the places up to it.
LEMMA Ranks ==
  ASSUME NEW n \in Nat, NEW key, Keyed(key, n)
  PROVE  /\ \A i \in 1..n : Rank(key, i) \in 1..n
         /\ \A i, j \in 1..n : Rank(key, i) < Rank(key, j) <=> Before(key, i, j)
<1> DEFINE UpTo(i) == {j \in 1..n : j = i \/ Before(key, j, i)}
<1>0. DOMAIN key = 1..n
  BY DEF Keyed
<1>1. \A i \in 1..n : Rank(key, i) = Cardinality(UpTo(i))
  BY <1>0 DEF Rank
<1>2. IsFiniteSet(1..n) /\ Cardinality(1..n) = n
  BY FS_Interval
<1>3. \A i \in 1..n : /\ IsFiniteSet(UpTo(i)) /\ Cardinality(UpTo(i)) \in Nat
                      /\ Cardinality(UpTo(i)) <= n
  <2>1. \A i \in 1..n : UpTo(i) \in SUBSET (1..n)
    OBVIOUS
  <2> HIDE DEF UpTo
  <2> QED BY <1>2, <2>1, FS_Subset, FS_CardinalityType
<1>4. ASSUME NEW i \in 1..n
      PROVE  Rank(key, i) \in 1..n
  <2>1. UpTo(i) # {}
    OBVIOUS
  <2>2. Cardinality(UpTo(i)) # 0
    BY <1>3, <2>1, FS_EmptySet
  <2> QED BY <1>1, <1>3, <2>2
<1>5. ASSUME NEW i \in 1..n, NEW j \in 1..n, Before(key, i, j)
      PROVE  Rank(key, i) < Rank(key, j)
  <2>1. UpTo(i) \subseteq UpTo(j)
    BY <1>5, TotalOrder
  <2>2. j \notin UpTo(i) /\ j \in UpTo(j)
    BY <1>5, TotalOrder
  <2>3. /\ Rank(key, i) = Cardinality(UpTo(i)) /\ Rank(key, j) = Cardinality(UpTo(j))
        /\ IsFiniteSet(UpTo(j))
        /\ Cardinality(UpTo(i)) \in Nat /\ Cardinality(UpTo(j)) \in Nat
    BY <1>1, <1>3
  <2> HIDE DEF UpTo
  <2>4. Cardinality(UpTo(i)) <= Cardinality(UpTo(j)) /\ Cardinality(UpTo(i)) # Cardinality(UpTo(j))
    BY <2>1, <2>2, <2>3, FS_Subset
  <2> QED BY <2>3, <2>4
<1>6. ASSUME NEW i \in 1..n, NEW j \in 1..n, Rank(key, i) < Rank(key, j)
      PROVE  Before(key, i, j)
  <2>1. i # j /\ ~(Rank(key, j) < Rank(key, i))
    BY <1>4, <1>6
  <2> QED BY <1>5, <2>1, TotalOrder
<1> QED BY <1>4, <1>5, <1>6

\* Nth is the inverse of Rank: each place is the n-th for one n, and n grows with
\* the order of the places.
LEMMA Places ==
  ASSUME NEW n \in Nat, NEW key, Keyed(key, n)
  PROVE  /\ \A m \in 1..n : Nth(key, m) \in 1..n /\ Rank(key, Nth(key, m)) = m
         /\ \A i \in 1..n : Rank(key, i) \in 1..n /\ Nth(key, Rank(key, i)) = i
         /\ \A i, j \in 1..n : Rank(key, i) < Rank(key, j) <=> Before(key, i, j)
<1> DEFINE rank == [i \in 1..n |-> Rank(key, i)]
<1>1. DOMAIN key = 1..n
  BY DEF Keyed
<1>2. \A i, j \in 1..n : Rank(key, i) = Rank(key, j) => i = j
  BY Ranks, TotalOrder
<1>3. rank \in Injection(1..n, 1..n)
  BY <1>2, Ranks DEF Injection, IsInjective
<1>4. rank \in Surjection(1..n, 1..n)
  BY <1>3, FS_Interval, FS_Injection
<1>5. \A m \in 1..n : \E i \in 1..n : Rank(key, i) = m
  BY <1>4 DEF Surjection
<1>6. \A m \in 1..n : Nth(key, m) \in 1..n /\ Rank(key, Nth(key, m)) = m
  BY <1>1, <1>5 DEF Nth
<1> QED BY <1>2, <1>6, Ranks

-----------------------------------------------------------------------------
(* Lists of some of the elements of another *)

\* An element appended to both is listed too.
LEMMA ListsAppended ==
  ASSUME NEW T, NEW s \in Seq(T), NEW list \in Seq(T), NEW x \in T, NEW I, Lists(list, s, I)
  PROVE  Lists(Append(list, x), Append(s, x), I \cup {Len(s) + 1})
<1> DEFINE m == Len(list)
           l == Len(s)
<1>1. m \in Nat /\ l \in Nat /\ DOMAIN list = 1..m /\ DOMAIN s = 1..l
  OBVIOUS
<1>2. PICK at \in [1..m -> 1..l] :
        /\ \A a, b \in 1..m : a < b => at[a] < at[b]
        /\ {at[a] : a \in 1..m} = I
        /\ \A a \in 1..m : list[a] = s[at[a]]
  BY <1>1 DEF Lists
<1>3. /\ DOMAIN Append(list, x) = 1..(m + 1) /\ DOMAIN Append(s, x) = 1..(l + 1)
      /\ \A a \in 1..m : Append(list, x)[a] = list[a]
      /\ \A i \in 1..l : Append(s, x)[i] = s[i]
      /\ Append(list, x)[m + 1] = x /\ Append(s, x)[l + 1] = x
  OBVIOUS
<1> DEFINE to == [a \in 1..(m + 1) |-> IF a = m + 1 THEN l + 1 ELSE at[a]]
<1> HIDE DEF m, l
<1>4. to \in [1..(m + 1) -> 1..(l + 1)] /\ \A a, b \in 1..(m + 1) : a < b => to[a] < to[b]
  BY <1>1, <1>2
<1>5. {to[a] : a \in 1..(m + 1)} = I \cup {l + 1}
  <2>1. \A a \in 1..m : a \in 1..(m + 1) /\ to[a] = at[a]
    BY <1>1
  <2>2. m + 1 \in 1..(m + 1) /\ to[m + 1] = l + 1
    BY <1>1
  <2>3. \A a \in 1..(m + 1) : a \in 1..m \/ a = m + 1
    BY <1>1
  <2> HIDE DEF to
  <2> QED BY <1>2, <2>1, <2>2, <2>3
<1>6. \A a \in 1..(m + 1) : Append(list, x)[a] = Append(s, x)[to[a]]
  BY <1>1, <1>2, <1>3
<1> HIDE DEF to
<1> QED BY <1>3, <1>4, <1>5, <1>6 DEF Lists, l

\* A list of the elements at some places is not affected by what is appended.
LEMMA ListsOfLonger ==
  ASSUME NEW T, NEW s \in Seq(T), NEW list \in Seq(T), NEW x \in T, NEW I, Lists(list, s, I)
  PROVE  Lists(list, Append(s, x), I)
<1>1. PICK at \in [DOMAIN list -> DOMAIN s] :
        /\ \A a, b \in DOMAIN list : a < b => at[a] < at[b]
        /\ {at[a] : a \in DOMAIN list} = I
        /\ \A a \in DOMAIN list : list[a] = s[at[a]]
  BY DEF Lists
<1>2. /\ DOMAIN s \subseteq DOMAIN Append(s, x)
      /\ \A i \in DOMAIN s : Append(s, x)[i] = s[i]
  OBVIOUS
<1>3. at \in [DOMAIN list -> DOMAIN Append(s, x)]
  BY <1>2
<1>4. \A a \in DOMAIN list : list[a] = Append(s, x)[at[a]]
  BY <1>1, <1>2
<1> QED BY <1>1, <1>3, <1>4 DEF Lists

\* The keys of the list order its elements as those of s order theirs.
SameOrder(list, listKey, s, key, I) ==
  \A a, b \in DOMAIN list, i, j \in I : list[a] = s[i] /\ list[b] = s[j] =>
    /\ Lex(listKey[a], listKey[b]) <=> Lex(key[i], key[j])
    /\ listKey[a] = listKey[b] <=> key[i] = key[j]

\* The places where the sort puts the elements of I.
Moved(key, p, I) == {n \in 1..p : Nth(key, n) \in I}

\* Sorted apart, by keys that agree on the places of the list, the list is still
\* one of the same elements, in the order they have now.
LEMMA ListsSorted ==
  ASSUME NEW p \in Nat, NEW s, DOMAIN s = 1..p, NEW key, Keyed(key, p),
         NEW q \in Nat, NEW list, DOMAIN list = 1..q, NEW listKey, Keyed(listKey, q),
         NEW I, Lists(list, s, I), SameOrder(list, listKey, s, key, I)
  PROVE  Lists(SortedBy(list, listKey), SortedBy(s, key), Moved(key, p, I))
<1>1. PICK at \in [1..q -> 1..p] :
        /\ \A a, b \in 1..q : a < b => at[a] < at[b]
        /\ {at[a] : a \in 1..q} = I
        /\ \A a \in 1..q : list[a] = s[at[a]]
  <2>1. PICK f \in [DOMAIN list -> DOMAIN s] :
          /\ \A a, b \in DOMAIN list : a < b => f[a] < f[b]
          /\ {f[a] : a \in DOMAIN list} = I
          /\ \A a \in DOMAIN list : list[a] = s[f[a]]
    BY DEF Lists
  <2>2. f \in [1..q -> 1..p] /\ {f[a] : a \in 1..q} = I
    BY <2>1
  <2> QED BY <2>1, <2>2
<1>2. \A a \in 1..q : at[a] \in 1..p /\ at[a] \in I
  BY <1>1
<1>3. \A a, b \in 1..q : Before(listKey, a, b) => Before(key, at[a], at[b])
  BY <1>1, <1>2 DEF Before, SameOrder
<1> DEFINE to == [m \in 1..q |-> Rank(key, at[Nth(listKey, m)])]
<1>4. \A m \in 1..q : Nth(listKey, m) \in 1..q /\ at[Nth(listKey, m)] \in 1..p
  BY <1>2, Places
<1>5. to \in [1..q -> 1..p]
  BY <1>4, Places
<1>6. ASSUME NEW m \in 1..q, NEW n \in 1..q, m < n
      PROVE  to[m] < to[n]
  <2>1. Before(listKey, Nth(listKey, m), Nth(listKey, n))
    BY <1>6, Places
  <2>2. Before(key, at[Nth(listKey, m)], at[Nth(listKey, n)])
    BY <1>3, <1>4, <2>1
  <2> QED BY <1>4, <2>2, Places
<1>7. \A m \in 1..q : Nth(key, to[m]) = at[Nth(listKey, m)]
  BY <1>4, Places
<1>8. {to[m] : m \in 1..q} = {n \in 1..p : Nth(key, n) \in I}
  <2>1. \A m \in 1..q : to[m] \in 1..p /\ Nth(key, to[m]) \in I
    BY <1>2, <1>4, <1>5, <1>7
  <2>2. ASSUME NEW n \in 1..p, Nth(key, n) \in I
        PROVE  \E m \in 1..q : to[m] = n
    <3>1. PICK a \in 1..q : at[a] = Nth(key, n)
      BY <1>1, <2>2
    <3>2. Rank(listKey, a) \in 1..q /\ Nth(listKey, Rank(listKey, a)) = a
      BY Places
    <3>3. to[Rank(listKey, a)] = Rank(key, Nth(key, n))
      BY <3>1, <3>2
    <3>4. Rank(key, Nth(key, n)) = n
      BY Places
    <3> QED BY <3>2, <3>3, <3>4
  <2> HIDE DEF to
  <2> QED BY <2>1, <2>2
<1>9. \A m \in 1..q : SortedBy(list, listKey)[m] = SortedBy(s, key)[to[m]]
  <2>1. ASSUME NEW m \in 1..q
        PROVE  SortedBy(list, listKey)[m] = SortedBy(s, key)[to[m]]
    <3>1. SortedBy(list, listKey)[m] = s[at[Nth(listKey, m)]]
      BY <1>1, <1>4 DEF SortedBy
    <3>2. to[m] \in 1..p
      BY <1>5
    <3> HIDE DEF to
    <3>3. SortedBy(s, key)[to[m]] = s[Nth(key, to[m])]
      BY <3>2 DEF SortedBy
    <3> QED BY <1>7, <3>1, <3>3
  <2> QED BY <2>1
<1>10. DOMAIN SortedBy(list, listKey) = 1..q /\ DOMAIN SortedBy(s, key) = 1..p
  BY DEF SortedBy
<1> HIDE DEF to
<1> QED BY <1>5, <1>6, <1>8, <1>9, <1>10 DEF Lists, Moved

-----------------------------------------------------------------------------
(* The loop and the sorts *)

\* The usable legs the loop has been through.
Reached == {i \in UsableLegs : i <= taken}

\* Each of them has its one point.
PointPerLeg ==
  \E legOf \in Bijection(DOMAIN points, IF spotKnown THEN Reached ELSE {}) :
    \A n \in DOMAIN points : IsOf(points[n], quotes[legOf[n]])

SurfaceInv ==
  /\ SurfaceTypeOK
  /\ returned /\ spotKnown => taken = Len(quotes)
  /\ VenueTakesPrecedence
  /\ PointPerLeg
  /\ IndexesAgree

\* A leg of a chain is a quote, at an expiry and a strike that are indexed.
LEMMA Legs ==
  ASSUME SurfaceTypeOK
  PROVE  /\ quotes \in Seq(Quote)
         /\ \A i \in DOMAIN quotes : /\ quotes[i] \in Quote
                                     /\ quotes[i].expiry \in Expiries
                                     /\ quotes[i].strike \in Strikes
BY SurfaceAssumption DEF SurfaceTypeOK, Expiries, Strikes

\* _resolve_iv gives a volatility for the usable legs and for no other.
LEMMA ResolvesUsable ==
  ASSUME SurfaceTypeOK, NEW i \in DOMAIN quotes
  PROVE  /\ i \in UsableLegs <=> ResolveIv(quotes[i]) # Missing
         /\ i \in UsableLegs =>
              /\ ResolveIv(quotes[i]) \in Resolved
              /\ ResolveIv(quotes[i]).iv = IF quotes[i].markIv \notin {Missing, 0}
                                            THEN quotes[i].markIv ELSE quotes[i].fit
              /\ ResolveIv(quotes[i]).source = IF quotes[i].markIv \notin {Missing, 0}
                                                THEN "mark_iv" ELSE "fitted"
<1> DEFINE q == quotes[i]
<1>1. q \in Quote /\ AsOf \in Nat /\ Missing \notin Nat \cup Resolved
  BY Legs, SurfaceAssumption
<1>2. Published(q) <=> q.markIv \notin {Missing, 0}
  BY <1>1 DEF Published, Quote
<1>3. Fittable(q) <=> q.hasPrice /\ q.expiry > AsOf /\ q.fit \notin {Missing, 0}
  BY <1>1 DEF Fittable, Tenor, Quote
<1>4. i \in UsableLegs <=> Published(q) \/ Fittable(q)
  BY <1>2, <1>3 DEF UsableLegs
<1>5. CASE Published(q)
  <2>1. ResolveIv(q) = [iv |-> q.markIv, source |-> "mark_iv"] /\ q.markIv \in Nat
    BY <1>1, <1>2, <1>5 DEF ResolveIv, Quote
  <2> QED BY <1>1, <1>2, <1>4, <1>5, <2>1 DEF Resolved
<1>6. CASE ~Published(q) /\ Fittable(q)
  <2>1. ResolveIv(q) = [iv |-> q.fit, source |-> "fitted"] /\ q.fit \in Nat
    BY <1>1, <1>3, <1>6 DEF ResolveIv, Quote
  <2> QED BY <1>1, <1>2, <1>4, <1>6, <2>1 DEF Resolved
<1>7. CASE ~Published(q) /\ ~Fittable(q)
  BY <1>4, <1>7 DEF ResolveIv
<1> QED BY <1>5, <1>6, <1>7

\* The point of a usable leg.
LEMMA PointOfLeg ==
  ASSUME SurfaceTypeOK, NEW i \in DOMAIN quotes, ResolveIv(quotes[i]) # Missing
  PROVE  /\ Point(quotes[i], ResolveIv(quotes[i])) \in SurfacePoint
         /\ IsOf(Point(quotes[i], ResolveIv(quotes[i])), quotes[i])
         /\ Point(quotes[i], ResolveIv(quotes[i])).iv = ResolveIv(quotes[i]).iv
         /\ Point(quotes[i], ResolveIv(quotes[i])).source = ResolveIv(quotes[i]).source
<1>1. quotes[i] \in Quote /\ ResolveIv(quotes[i]) \in Resolved
  BY Legs, ResolvesUsable
<1>2. Tenor(quotes[i]) \in Nat /\ Upper(quotes[i].right) \in {1, 2}
  BY <1>1, SurfaceAssumption DEF Tenor, Upper, Quote
<1> QED BY <1>1, <1>2 DEF Point, SurfacePoint, IsOf, Quote, Resolved

\* Sorting a list of points permutes it.
LEMMA SortedPoints ==
  ASSUME NEW s \in Seq(SurfacePoint), NEW key, Keyed(key, Len(s))
  PROVE  /\ SortedBy(s, key) \in Seq(SurfacePoint)
         /\ DOMAIN SortedBy(s, key) = DOMAIN s
         /\ \A n \in DOMAIN s : Nth(key, n) \in DOMAIN s /\ SortedBy(s, key)[n] = s[Nth(key, n)]
<1>1. Len(s) \in Nat /\ DOMAIN s = 1..Len(s)
  OBVIOUS
<1>2. \A n \in 1..Len(s) : Nth(key, n) \in 1..Len(s)
  BY <1>1, Places
<1>3. SortedBy(s, key) \in [1..Len(s) -> SurfacePoint]
  BY <1>1, <1>2 DEF SortedBy
<1> QED BY <1>1, <1>2, <1>3 DEF SortedBy

\* The fields of a point that keys are made of.
LEMMA KeyFields ==
  ASSUME NEW p \in SurfacePoint
  PROVE  p.expiry \in Nat /\ p.strike \in Nat /\ p.right \in Nat
<1>1. p.expiry \in Nat /\ p.strike \in Nat /\ p.right \in {1, 2}
  BY DEF SurfacePoint
<1>2. {1, 2} \subseteq Nat
  OBVIOUS
<1> QED BY <1>1, <1>2

\* The keys of the three sorts.
LEMMA KeysOf ==
  ASSUME NEW s \in Seq(SurfacePoint)
  PROVE  /\ Keyed(SurfaceKeys(s), Len(s)) /\ Keyed(SkewKeys(s), Len(s))
         /\ Keyed(TermKeys(s), Len(s))
         /\ \A n \in DOMAIN s : s[n] \in SurfacePoint
<1>1. Len(s) \in Nat /\ DOMAIN s = 1..Len(s) /\ \A n \in 1..Len(s) : s[n] \in SurfacePoint
  OBVIOUS
<1>2. \A n \in 1..Len(s) : s[n].expiry \in Nat /\ s[n].strike \in Nat /\ s[n].right \in Nat
  BY <1>1, KeyFields
<1>3. SurfaceKeys(s) \in [1..Len(s) -> Nat \X Nat \X Nat]
  BY <1>1, <1>2 DEF SurfaceKeys
<1>4. SkewKeys(s) \in [1..Len(s) -> Nat \X Nat] /\ TermKeys(s) \in [1..Len(s) -> Nat \X Nat]
  BY <1>1, <1>2 DEF SkewKeys, TermKeys
<1> QED BY <1>1, <1>3, <1>4 DEF Keyed

\* At one expiry the key of the surface orders points as that of the skew does, and
\* at one strike as that of the term structure.
LEMMA KeysAgree ==
  ASSUME NEW s \in Seq(SurfacePoint), NEW list \in Seq(SurfacePoint),
         NEW a \in DOMAIN list, NEW b \in DOMAIN list, NEW i \in DOMAIN s, NEW j \in DOMAIN s,
         list[a] = s[i], list[b] = s[j]
  PROVE  /\ s[i].expiry = s[j].expiry =>
              /\ Lex(SkewKeys(list)[a], SkewKeys(list)[b]) <=> Lex(SurfaceKeys(s)[i], SurfaceKeys(s)[j])
              /\ SkewKeys(list)[a] = SkewKeys(list)[b] <=> SurfaceKeys(s)[i] = SurfaceKeys(s)[j]
         /\ s[i].strike = s[j].strike =>
              /\ Lex(TermKeys(list)[a], TermKeys(list)[b]) <=> Lex(SurfaceKeys(s)[i], SurfaceKeys(s)[j])
              /\ TermKeys(list)[a] = TermKeys(list)[b] <=> SurfaceKeys(s)[i] = SurfaceKeys(s)[j]
<1> DEFINE x == s[i]
           y == s[j]
<1>0. x \in SurfacePoint /\ y \in SurfacePoint
  BY KeysOf
<1>1. /\ x.expiry \in Nat /\ x.strike \in Nat /\ x.right \in Nat
      /\ y.expiry \in Nat /\ y.strike \in Nat /\ y.right \in Nat
  BY <1>0, KeyFields
<1>2. /\ SurfaceKeys(s)[i] = <<x.expiry, x.strike, x.right>>
      /\ SurfaceKeys(s)[j] = <<y.expiry, y.strike, y.right>>
      /\ SkewKeys(list)[a] = <<x.strike, x.right>> /\ SkewKeys(list)[b] = <<y.strike, y.right>>
      /\ TermKeys(list)[a] = <<x.expiry, x.right>> /\ TermKeys(list)[b] = <<y.expiry, y.right>>
  BY DEF SurfaceKeys, SkewKeys, TermKeys
<1> HIDE DEF x, y
<1>3. Lex(SurfaceKeys(s)[i], SurfaceKeys(s)[j]) <=>
        \/ x.expiry < y.expiry
        \/ x.expiry = y.expiry /\ x.strike < y.strike
        \/ x.expiry = y.expiry /\ x.strike = y.strike /\ x.right < y.right
  <2>1. /\ <<x.expiry, x.strike, x.right>> \in Nat \X Nat \X Nat
        /\ <<y.expiry, y.strike, y.right>> \in Nat \X Nat \X Nat
    BY <1>1
  <2>2. LET u == <<x.expiry, x.strike, x.right>>
            v == <<y.expiry, y.strike, y.right>>
        IN  Lex(u, v) <=> \/ u[1] < v[1]
                          \/ u[1] = v[1] /\ u[2] < v[2]
                          \/ u[1] = v[1] /\ u[2] = v[2] /\ u[3] < v[3]
    BY <2>1, LexTriples, Zenon
  <2> QED BY <1>2, <2>2
<1>4. /\ Lex(SkewKeys(list)[a], SkewKeys(list)[b]) <=>
           x.strike < y.strike \/ (x.strike = y.strike /\ x.right < y.right)
      /\ Lex(TermKeys(list)[a], TermKeys(list)[b]) <=>
           x.expiry < y.expiry \/ (x.expiry = y.expiry /\ x.right < y.right)
  <2>1. /\ <<x.strike, x.right>> \in Nat \X Nat /\ <<y.strike, y.right>> \in Nat \X Nat
        /\ <<x.expiry, x.right>> \in Nat \X Nat /\ <<y.expiry, y.right>> \in Nat \X Nat
    BY <1>1
  <2>2. LET u == <<x.strike, x.right>>
            v == <<y.strike, y.right>>
        IN  Lex(u, v) <=> u[1] < v[1] \/ (u[1] = v[1] /\ u[2] < v[2])
    BY <2>1, LexPairs, Zenon
  <2>3. LET u == <<x.expiry, x.right>>
            v == <<y.expiry, y.right>>
        IN  Lex(u, v) <=> u[1] < v[1] \/ (u[1] = v[1] /\ u[2] < v[2])
    BY <2>1, LexPairs, Zenon
  <2> QED BY <1>2, <2>2, <2>3
<1> QED BY <1>1, <1>2, <1>3, <1>4 DEF x, y

\* Taking a usable leg appends its point to the three lists it belongs to.
LEMMA TakeKeeps ==
  ASSUME SurfaceInv, TakeLeg
  PROVE  SurfaceInv'
<1> DEFINE i == taken + 1
           l == Len(points)
           point == Point(leg, ResolveIv(leg))
<1>1. /\ spotKnown /\ ~returned /\ taken \in Nat /\ l \in Nat
      /\ i \in DOMAIN quotes /\ i \notin Reached /\ leg = quotes[i]
      /\ taken' = i /\ i \in 0..Len(quotes)
      /\ DOMAIN points = 1..l
  BY Legs DEF TakeLeg, Loop, leg, SurfaceInv, SurfaceTypeOK, Reached
<1>2. /\ i \in UsableLegs /\ point \in SurfacePoint /\ IsOf(point, quotes[i])
      /\ point.expiry = leg.expiry /\ point.strike = leg.strike
      /\ leg.expiry \in Expiries /\ leg.strike \in Strikes
  BY <1>1, Legs, ResolvesUsable, PointOfLeg DEF TakeLeg, SurfaceInv, IsOf
<1>3. /\ points' = Append(points, point)
      /\ byExpiry' = [byExpiry EXCEPT ![leg.expiry] = Append(@, point)]
      /\ byStrike' = [byStrike EXCEPT ![leg.strike] = Append(@, point)]
      /\ UNCHANGED <<quotes, spotKnown, returned>>
  BY DEF TakeLeg, args
<1>4. UsableLegs' = UsableLegs
  BY <1>3 DEF UsableLegs
<1>5. SurfaceTypeOK'
  BY <1>1, <1>2, <1>3 DEF SurfaceInv, SurfaceTypeOK
<1>6. /\ DOMAIN points' = 1..(l + 1) /\ points'[l + 1] = point
      /\ \A n \in 1..l : points'[n] = points[n]
      /\ points \in Seq(SurfacePoint)
  BY <1>2, <1>3 DEF SurfaceInv, SurfaceTypeOK
<1>7. VenueTakesPrecedence'
  <2>1. /\ point.iv = IF quotes[i].markIv \notin {Missing, 0} THEN quotes[i].markIv
                       ELSE quotes[i].fit
        /\ point.source = IF quotes[i].markIv \notin {Missing, 0} THEN "mark_iv" ELSE "fitted"
    BY <1>1, <1>2, ResolvesUsable, PointOfLeg DEF TakeLeg, SurfaceInv
  <2>2. \A n \in 1..(l + 1) : n \in 1..l \/ n = l + 1
    BY <1>1
  <2> DEFINE Says(p, q) == /\ IsOf(p, q)
                           /\ p.iv = IF q.markIv \notin {Missing, 0} THEN q.markIv ELSE q.fit
                           /\ p.source = IF q.markIv \notin {Missing, 0} THEN "mark_iv" ELSE "fitted"
  <2>3. Says(point, quotes[i])
    BY <1>2, <2>1
  <2>4. \A n \in 1..l : \E t \in UsableLegs : Says(points[n], quotes[t])
    BY <1>1 DEF SurfaceInv, VenueTakesPrecedence
  <2>5. (\A n \in DOMAIN points' : \E t \in UsableLegs' : Says(points'[n], quotes'[t]))
          => VenueTakesPrecedence'
    BY DEF VenueTakesPrecedence
  <2> HIDE DEF point, i, l, Says
  <2> QED BY <1>2, <1>3, <1>4, <1>6, <2>2, <2>3, <2>4, <2>5
<1>8. PointPerLeg'
  <2>1. PICK legOf \in Bijection(1..l, Reached) :
          \A n \in 1..l : IsOf(points[n], quotes[legOf[n]])
    BY <1>1 DEF SurfaceInv, PointPerLeg
  <2>2. Reached' = Reached \cup {i}
    BY <1>1, <1>2, <1>4 DEF Reached, UsableLegs
  <2> DEFINE now == [n \in 1..(l + 1) |-> IF n = l + 1 THEN i ELSE legOf[n]]
  <2>3. /\ legOf \in [1..l -> Reached]
        /\ \A a, b \in 1..l : legOf[a] = legOf[b] => a = b
        /\ \A t \in Reached : \E n \in 1..l : legOf[n] = t
    BY <2>1 DEF Bijection, Injection, Surjection, IsInjective
  <2> HIDE DEF i, l, point
  <2>4. now \in [1..(l + 1) -> Reached']
    BY <1>1, <2>2, <2>3
  <2>5. \A a, b \in 1..(l + 1) : now[a] = now[b] => a = b
    BY <1>1, <2>3
  <2>6. \A t \in Reached' : \E n \in 1..(l + 1) : now[n] = t
    <3>1. now[l + 1] = i /\ l + 1 \in 1..(l + 1)
      BY <1>1
    <3>2. \A n \in 1..l : n \in 1..(l + 1) /\ now[n] = legOf[n]
      BY <1>1
    <3> HIDE DEF now
    <3> QED BY <2>2, <2>3, <3>1, <3>2
  <2>7. now \in Bijection(1..(l + 1), Reached')
    BY <2>4, <2>5, <2>6 DEF Bijection, Injection, Surjection, IsInjective
  <2>8. \A n \in 1..(l + 1) : IsOf(points'[n], quotes[now[n]])
    BY <1>1, <1>2, <1>6, <2>1
  <2> HIDE DEF now
  <2> QED BY <1>1, <1>3, <1>6, <2>7, <2>8 DEF PointPerLeg
<1>9. IndexesAgree'
  <2>1. ASSUME NEW e \in Expiries
        PROVE  Lists(byExpiry'[e], points', {n \in DOMAIN points' : points'[n].expiry = e})
    <3> DEFINE I == {n \in DOMAIN points : points[n].expiry = e}
    <3>1. Lists(byExpiry[e], points, I) /\ byExpiry[e] \in Seq(SurfacePoint)
      BY DEF SurfaceInv, SurfaceTypeOK, IndexesAgree
    <3>2. {n \in DOMAIN points' : points'[n].expiry = e}
            = IF e = leg.expiry THEN I \cup {l + 1} ELSE I
      BY <1>1, <1>2, <1>6
    <3>3. byExpiry'[e] = IF e = leg.expiry THEN Append(byExpiry[e], point) ELSE byExpiry[e]
      BY <1>2, <1>3 DEF SurfaceInv, SurfaceTypeOK
    <3> HIDE DEF I, point
    <3>4. /\ Lists(Append(byExpiry[e], point), Append(points, point), I \cup {l + 1})
          /\ Lists(byExpiry[e], Append(points, point), I)
      BY <1>2, <1>6, <3>1, ListsAppended, ListsOfLonger
    <3> QED BY <1>3, <3>2, <3>3, <3>4
  <2>2. ASSUME NEW k \in Strikes
        PROVE  Lists(byStrike'[k], points', {n \in DOMAIN points' : points'[n].strike = k})
    <3> DEFINE I == {n \in DOMAIN points : points[n].strike = k}
    <3>1. Lists(byStrike[k], points, I) /\ byStrike[k] \in Seq(SurfacePoint)
      BY DEF SurfaceInv, SurfaceTypeOK, IndexesAgree
    <3>2. {n \in DOMAIN points' : points'[n].strike = k}
            = IF k = leg.strike THEN I \cup {l + 1} ELSE I
      BY <1>1, <1>2, <1>6
    <3>3. byStrike'[k] = IF k = leg.strike THEN Append(byStrike[k], point) ELSE byStrike[k]
      BY <1>2, <1>3 DEF SurfaceInv, SurfaceTypeOK
    <3> HIDE DEF I, point
    <3>4. /\ Lists(Append(byStrike[k], point), Append(points, point), I \cup {l + 1})
          /\ Lists(byStrike[k], Append(points, point), I)
      BY <1>2, <1>6, <3>1, ListsAppended, ListsOfLonger
    <3> QED BY <1>3, <3>2, <3>3, <3>4
  <2> QED BY <2>1, <2>2 DEF IndexesAgree
<1> QED BY <1>1, <1>3, <1>5, <1>7, <1>8, <1>9 DEF SurfaceInv

\* The sorts permute the points, and leave each index a list of the same ones.
LEMMA SortKeeps ==
  ASSUME SurfaceInv, Sort
  PROVE  SurfaceInv'
<1> DEFINE key == SurfaceKeys(points)
           l == Len(points)
<1>1. /\ spotKnown /\ taken = Len(quotes) /\ returned' = TRUE
      /\ points' = SortedBy(points, key)
      /\ byExpiry' = [e \in Expiries |-> SortedBy(byExpiry[e], SkewKeys(byExpiry[e]))]
      /\ byStrike' = [k \in Strikes |-> SortedBy(byStrike[k], TermKeys(byStrike[k]))]
      /\ UNCHANGED <<quotes, spotKnown, taken>>
  BY DEF Sort, args
<1>2. /\ l \in Nat /\ points \in Seq(SurfacePoint) /\ Keyed(key, l)
      /\ DOMAIN points = 1..l
      /\ \A e \in Expiries : byExpiry[e] \in Seq(SurfacePoint)
      /\ \A k \in Strikes : byStrike[k] \in Seq(SurfacePoint)
  BY KeysOf DEF SurfaceInv, SurfaceTypeOK
<1> HIDE DEF key
<1>3. /\ points' \in Seq(SurfacePoint) /\ DOMAIN points' = 1..l
      /\ \A n \in 1..l : Nth(key, n) \in 1..l /\ points'[n] = points[Nth(key, n)]
  BY <1>1, <1>2, SortedPoints
<1>4. SurfaceTypeOK'
  <2>1. \A e \in Expiries : byExpiry'[e] \in Seq(SurfacePoint)
    BY <1>1, <1>2, KeysOf, SortedPoints
  <2>2. \A k \in Strikes : byStrike'[k] \in Seq(SurfacePoint)
    BY <1>1, <1>2, KeysOf, SortedPoints
  <2> QED BY <1>1, <1>3, <2>1, <2>2 DEF SurfaceInv, SurfaceTypeOK
<1>5. UsableLegs' = UsableLegs /\ Reached' = Reached
  BY <1>1 DEF UsableLegs, Reached
<1>6. VenueTakesPrecedence'
  BY <1>1, <1>2, <1>3, <1>5 DEF SurfaceInv, VenueTakesPrecedence
<1>7. PointPerLeg'
  <2>1. PICK legOf \in Bijection(1..l, Reached) :
          \A n \in 1..l : IsOf(points[n], quotes[legOf[n]])
    BY <1>1, <1>2 DEF SurfaceInv, PointPerLeg
  <2> DEFINE now == [n \in 1..l |-> legOf[Nth(key, n)]]
  <2>2. /\ legOf \in [1..l -> Reached]
        /\ \A a, b \in 1..l : legOf[a] = legOf[b] => a = b
        /\ \A t \in Reached : \E n \in 1..l : legOf[n] = t
    BY <2>1 DEF Bijection, Injection, Surjection, IsInjective
  <2> HIDE DEF l
  <2>3. /\ \A a, b \in 1..l : Nth(key, a) = Nth(key, b) => a = b
        /\ \A n \in 1..l : \E m \in 1..l : Nth(key, m) = n
    BY <1>2, Places
  <2>4. /\ now \in [1..l -> Reached]
        /\ \A a, b \in 1..l : now[a] = now[b] => a = b
    BY <1>3, <2>2, <2>3
  <2>5. ASSUME NEW t \in Reached
        PROVE  \E n \in 1..l : now[n] = t
    <3>1. PICK n \in 1..l : legOf[n] = t
      BY <2>2
    <3>2. PICK m \in 1..l : Nth(key, m) = n
      BY <2>3
    <3> QED BY <3>1, <3>2
  <2>6. now \in Bijection(1..l, Reached)
    BY <2>4, <2>5 DEF Bijection, Injection, Surjection, IsInjective
  <2>7. \A n \in 1..l : IsOf(points'[n], quotes[now[n]])
    BY <1>3, <2>1
  <2> HIDE DEF now
  <2> QED BY <1>1, <1>3, <1>5, <2>6, <2>7 DEF PointPerLeg
<1>8. IndexesAgree'
  <2>1. ASSUME NEW e \in Expiries
        PROVE  Lists(byExpiry'[e], points', {n \in DOMAIN points' : points'[n].expiry = e})
    <3> DEFINE I == {n \in DOMAIN points : points[n].expiry = e}
               list == byExpiry[e]
    <3>1. /\ Lists(list, points, I) /\ list \in Seq(SurfacePoint)
          /\ byExpiry'[e] = SortedBy(list, SkewKeys(list))
      BY <1>1, <1>2 DEF SurfaceInv, IndexesAgree
    <3>2. {n \in DOMAIN points' : points'[n].expiry = e} = {n \in 1..l : Nth(key, n) \in I}
      BY <1>2, <1>3
    <3>3. \A i, j \in I : i \in DOMAIN points /\ j \in DOMAIN points
                          /\ points[i].expiry = points[j].expiry
      OBVIOUS
    <3> HIDE DEF I, list, l
    <3>4. Len(list) \in Nat /\ DOMAIN list = 1..Len(list) /\ Keyed(SkewKeys(list), Len(list))
      BY <3>1, KeysOf
    <3>5. SameOrder(list, SkewKeys(list), points, key, I)
      BY <1>2, <3>1, <3>3, <3>4, KeysAgree DEF key, SameOrder
    <3> DEFINE listKey == SkewKeys(list)
               q == Len(list)
    <3>6. /\ q \in Nat /\ DOMAIN list = 1..q /\ Keyed(listKey, q)
          /\ SameOrder(list, listKey, points, key, I)
      BY <3>4, <3>5
    <3>7. l \in Nat /\ DOMAIN points = 1..l /\ Keyed(key, l) /\ Lists(list, points, I)
      BY <1>2, <3>1
    <3> HIDE DEF listKey, q
    <3>8. Lists(SortedBy(list, listKey), SortedBy(points, key), Moved(key, l, I))
      BY <3>6, <3>7, ListsSorted, Zenon
    <3> QED BY <1>1, <3>1, <3>2, <3>8 DEF listKey, Moved
  <2>2. ASSUME NEW k \in Strikes
        PROVE  Lists(byStrike'[k], points', {n \in DOMAIN points' : points'[n].strike = k})
    <3> DEFINE I == {n \in DOMAIN points : points[n].strike = k}
               list == byStrike[k]
    <3>1. /\ Lists(list, points, I) /\ list \in Seq(SurfacePoint)
          /\ byStrike'[k] = SortedBy(list, TermKeys(list))
      BY <1>1, <1>2 DEF SurfaceInv, IndexesAgree
    <3>2. {n \in DOMAIN points' : points'[n].strike = k} = {n \in 1..l : Nth(key, n) \in I}
      BY <1>2, <1>3
    <3>3. \A i, j \in I : i \in DOMAIN points /\ j \in DOMAIN points
                          /\ points[i].strike = points[j].strike
      OBVIOUS
    <3> HIDE DEF I, list, l
    <3>4. Len(list) \in Nat /\ DOMAIN list = 1..Len(list) /\ Keyed(TermKeys(list), Len(list))
      BY <3>1, KeysOf
    <3>5. SameOrder(list, TermKeys(list), points, key, I)
      BY <1>2, <3>1, <3>3, <3>4, KeysAgree DEF key, SameOrder
    <3> DEFINE listKey == TermKeys(list)
               q == Len(list)
    <3>6. /\ q \in Nat /\ DOMAIN list = 1..q /\ Keyed(listKey, q)
          /\ SameOrder(list, listKey, points, key, I)
      BY <3>4, <3>5
    <3>7. l \in Nat /\ DOMAIN points = 1..l /\ Keyed(key, l) /\ Lists(list, points, I)
      BY <1>2, <3>1
    <3> HIDE DEF listKey, q
    <3>8. Lists(SortedBy(list, listKey), SortedBy(points, key), Moved(key, l, I))
      BY <3>6, <3>7, ListsSorted, Zenon
    <3> QED BY <1>1, <3>1, <3>2, <3>8 DEF listKey, Moved
  <2> QED BY <2>1, <2>2 DEF IndexesAgree
<1> QED BY <1>1, <1>4, <1>6, <1>7, <1>8 DEF SurfaceInv

\* Dropping a leg keeps the invariant, since the leg is not usable.
LEMMA DropKeeps ==
  ASSUME SurfaceInv, DropLeg
  PROVE  SurfaceInv'
<1>1. /\ taken \in Nat /\ taken' = taken + 1 /\ taken' \in 0..Len(quotes)
      /\ taken + 1 \in DOMAIN quotes /\ leg = quotes[taken + 1]
      /\ ~returned /\ UNCHANGED <<quotes, spotKnown, points, byExpiry, byStrike, returned>>
  BY Legs DEF DropLeg, Loop, leg, args, SurfaceInv, SurfaceTypeOK
<1>2. taken + 1 \notin UsableLegs
  BY <1>1, ResolvesUsable DEF DropLeg, SurfaceInv
<1>3. UsableLegs' = UsableLegs
  BY <1>1 DEF UsableLegs
<1>4. Reached' = Reached
  <2>1. \A i \in UsableLegs : i \in Nat
    BY Legs DEF UsableLegs, SurfaceInv
  <2> QED BY <1>1, <1>2, <1>3, <2>1 DEF Reached
<1>5. SurfaceTypeOK'
  BY <1>1 DEF SurfaceInv, SurfaceTypeOK
<1>6. VenueTakesPrecedence' /\ PointPerLeg' /\ IndexesAgree'
  BY <1>1, <1>3, <1>4 DEF SurfaceInv, VenueTakesPrecedence, PointPerLeg, IndexesAgree
<1> QED BY <1>1, <1>5, <1>6 DEF SurfaceInv

\* What the invariant says is about the legs and the points, and not of the return.
LEMMA NothingMoved ==
  ASSUME SurfaceTypeOK, VenueTakesPrecedence, PointPerLeg, IndexesAgree, returned' \in BOOLEAN,
         UNCHANGED <<quotes, spotKnown, taken, points, byExpiry, byStrike>>
  PROVE  SurfaceTypeOK' /\ VenueTakesPrecedence' /\ PointPerLeg' /\ IndexesAgree'
<1>1. UsableLegs' = UsableLegs
  BY DEF UsableLegs
<1>2. Reached' = Reached
  BY <1>1 DEF Reached
<1>3. SurfaceTypeOK'
  BY DEF SurfaceTypeOK
<1>4. VenueTakesPrecedence'
  BY <1>1 DEF VenueTakesPrecedence
<1>5. PointPerLeg'
  BY <1>2 DEF PointPerLeg
<1>6. IndexesAgree'
  BY DEF IndexesAgree
<1> QED BY <1>3, <1>4, <1>5, <1>6

\* Every step keeps the invariant.
LEMMA SurfaceStep == SurfaceInv /\ [Next]_vars => SurfaceInv'
<1>1. ASSUME SurfaceInv, NoSpot PROVE SurfaceInv'
  <2>1. /\ ~spotKnown /\ returned' = TRUE
        /\ UNCHANGED <<quotes, spotKnown, taken, points, byExpiry, byStrike>>
    BY <1>1 DEF NoSpot, args
  <2>2. SurfaceTypeOK' /\ VenueTakesPrecedence' /\ PointPerLeg' /\ IndexesAgree'
    BY <1>1, <2>1, NothingMoved DEF SurfaceInv
  <2> QED BY <2>1, <2>2 DEF SurfaceInv
<1>2. ASSUME SurfaceInv, UNCHANGED vars PROVE SurfaceInv'
  <2>1. UNCHANGED <<quotes, spotKnown, taken, points, byExpiry, byStrike, returned>>
    BY <1>2 DEF vars, args
  <2>2. SurfaceTypeOK' /\ VenueTakesPrecedence' /\ PointPerLeg' /\ IndexesAgree'
    BY <1>2, <2>1, NothingMoved DEF SurfaceInv, SurfaceTypeOK
  <2> QED BY <1>2, <2>1, <2>2 DEF SurfaceInv
<1> QED BY <1>1, <1>2, TakeKeeps, SortKeeps, DropKeeps DEF Next

\* Before the loop there are no points.
LEMMA SurfaceStart == Init => SurfaceInv
<1> SUFFICES ASSUME Init PROVE SurfaceInv
  OBVIOUS
<1>1. SurfaceTypeOK
  <2>1. quotes \in Chains /\ quotes \in Seq(Quote) /\ Len(quotes) \in Nat
    BY SurfaceAssumption DEF Init
  <2>2. << >> \in Seq(SurfacePoint)
    OBVIOUS
  <2>3. byExpiry \in [Expiries -> Seq(SurfacePoint)] /\ byStrike \in [Strikes -> Seq(SurfacePoint)]
    BY <2>2 DEF Init
  <2>4. taken \in 0..Len(quotes)
    BY <2>1 DEF Init
  <2> QED BY <2>1, <2>2, <2>3, <2>4 DEF Init, SurfaceTypeOK
<1>2. points = << >> /\ DOMAIN points = {} /\ taken = 0 /\ ~returned
  BY DEF Init
<1>3. VenueTakesPrecedence
  BY <1>2 DEF VenueTakesPrecedence
<1>4. PointPerLeg
  <2>1. Reached = {}
    BY <1>1, <1>2, Legs DEF Reached, UsableLegs
  <2>2. points \in Bijection({}, {})
    BY <1>2 DEF Bijection, Injection, Surjection, IsInjective
  <2>3. points \in Bijection(DOMAIN points, IF spotKnown THEN Reached ELSE {})
    BY <1>2, <2>1, <2>2
  <2> QED BY <1>2, <2>3 DEF PointPerLeg
<1>5. IndexesAgree
  <2>1. Lists(points, points, {})
    <3> DEFINE at == [n \in DOMAIN points |-> n]
    <3>1. at \in [DOMAIN points -> DOMAIN points] /\ {at[a] : a \in DOMAIN points} = {}
      BY <1>2
    <3>2. \A a, b \in DOMAIN points : a < b => at[a] < at[b]
      BY <1>2
    <3>3. \A a \in DOMAIN points : points[a] = points[at[a]]
      BY <1>2
    <3> HIDE DEF at
    <3> QED BY <3>1, <3>2, <3>3 DEF Lists
  <2>2. /\ \A e \in Expiries : /\ byExpiry[e] = points
                               /\ {n \in DOMAIN points : points[n].expiry = e} = {}
        /\ \A k \in Strikes : /\ byStrike[k] = points
                              /\ {n \in DOMAIN points : points[n].strike = k} = {}
    BY <1>2 DEF Init
  <2> QED BY <2>1, <2>2 DEF IndexesAgree
<1> QED BY <1>1, <1>2, <1>3, <1>4, <1>5 DEF SurfaceInv

LEMMA SurfaceInvariance == Spec => []SurfaceInv
BY SurfaceStart, SurfaceStep, PTL DEF Spec

\* The surface stays well typed: every volatility in it is a number, from one of the
\* two sources, and no tenor is negative (iv_surface.py:84).
THEOREM SurfaceTypeCorrect == Spec => []SurfaceTypeOK
BY SurfaceInvariance, PTL DEF SurfaceInv

\* A point has the volatility the venue published where it did, and a fitted one only
\* where it did not (iv_surface.py:39), whatever the chain.
THEOREM Precedence == Spec => []VenueTakesPrecedence
BY SurfaceInvariance, PTL DEF SurfaceInv

\* The legs with a usable volatility and the points are one to one (iv_surface.py:138),
\* for chains of any length and with any repetitions.
THEOREM OnePoint == Spec => []OnePointPerUsableLeg
<1>1. SurfaceInv => OnePointPerUsableLeg
  <2> SUFFICES ASSUME SurfaceInv, returned PROVE OnePointPerUsableLeg
    BY DEF OnePointPerUsableLeg
  <2>1. spotKnown => Reached = UsableLegs
    BY Legs DEF SurfaceInv, Reached, UsableLegs
  <2> QED BY <2>1 DEF SurfaceInv, PointPerLeg, OnePointPerUsableLeg
<1> QED BY <1>1, SurfaceInvariance, PTL

\* Each index lists the points of its expiry or its strike in the order of the flat
\* list, after three separate sorts by three keys (iv_surface.py:173).
THEOREM Indexes == Spec => []IndexesAgree
BY SurfaceInvariance, PTL DEF SurfaceInv
=============================================================================
