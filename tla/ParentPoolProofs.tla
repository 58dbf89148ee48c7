-------------------------- MODULE ParentPoolProofs --------------------------
(***************************************************************************)
(* Proofs about ParentPool: the HTTP pool's list, flags and latencies      *)
(* agree, and a call of connect that fails has tried every parent, each    *)
(* once.                                                                   *)
(***************************************************************************)
EXTENDS ParentPool, FiniteSetTheorems, TLAPS

-----------------------------------------------------------------------------
(* Arranging a sequence                                                    *)

\* R is a strict total order of K.
Orders(R, K) ==
  /\ \A i \in K : <<i, i>> \notin R
  /\ \A i, j, l \in K : <<i, j>> \in R /\ <<j, l>> \in R => <<i, l>> \in R
  /\ \A i, j \in K : i # j => <<i, j>> \in R \/ <<j, i>> \in R

\* The places follow the order.
LEMMA PlaceGrows ==
  ASSUME NEW K, IsFiniteSet(K), NEW R, Orders(R, K),
         NEW i \in K, NEW j \in K, <<i, j>> \in R
  PROVE  Place(K, R, i) < Place(K, R, j)
<1> DEFINE A == {x \in K : <<x, i>> \in R}
           B == {x \in K : <<x, j>> \in R}
<1>1. A \subseteq B /\ i \in B /\ i \notin A /\ B \subseteq K
  BY DEF Orders
<1>2. IsFiniteSet(A) /\ IsFiniteSet(B)
  BY <1>1, FS_Subset
<1>3. Cardinality(A) \in Nat /\ Cardinality(B) \in Nat
  BY <1>2, FS_CardinalityType
<1>4. Cardinality(A) <= Cardinality(B) /\ Cardinality(A) # Cardinality(B)
  BY <1>1, <1>2, FS_Subset
<1> QED BY <1>3, <1>4 DEF Place

\* An entry has fewer entries before it than there are.
LEMMA PlaceRange ==
  ASSUME NEW K, IsFiniteSet(K), NEW R, Orders(R, K), NEW i \in K
  PROVE  Place(K, R, i) \in 0 .. (Cardinality(K) - 1)
<1> DEFINE A == {x \in K : <<x, i>> \in R}
<1>1. A \subseteq K /\ i \notin A
  BY DEF Orders
<1>2. IsFiniteSet(A) /\ Cardinality(A) <= Cardinality(K) /\ Cardinality(A) # Cardinality(K)
  BY <1>1, FS_Subset
<1>3. Cardinality(A) \in Nat /\ Cardinality(K) \in Nat
  BY <1>2, FS_CardinalityType
<1> QED BY <1>2, <1>3 DEF Place

\* Every place is taken.
LEMMA PlaceTaken ==
  ASSUME NEW K, IsFiniteSet(K), NEW R, Orders(R, K), NEW k \in 1 .. Cardinality(K)
  PROVE  \E i \in K : Place(K, R, i) = k - 1
<1> DEFINE n == Cardinality(K)
           P == 0 .. (n - 1)
           f == [i \in K |-> Place(K, R, i)]
<1>1. n \in Nat
  BY FS_CardinalityType
<1>2. f \in [K -> P]
  BY PlaceRange
<1>3. ASSUME NEW i \in K, NEW j \in K, i # j PROVE f[i] # f[j]
  <2>1. Place(K, R, i) \in Int /\ Place(K, R, j) \in Int
    BY PlaceRange
  <2>2. CASE <<i, j>> \in R
    BY <2>1, <2>2, PlaceGrows
  <2>3. CASE <<j, i>> \in R
    BY <2>1, <2>3, PlaceGrows
  <2> QED BY <1>3, <2>2, <2>3 DEF Orders
<1>4. f \in Injection(K, P)
  <2>1. IsInjective(f)
    BY <1>2, <1>3 DEF IsInjective
  <2> QED BY <1>2, <2>1 DEF Injection
<1>5. IsFiniteSet(P) /\ Cardinality(P) = n
  <2>1. 0 \in Int /\ n - 1 \in Int
    BY <1>1
  <2>2. IsFiniteSet(P) /\ Cardinality(P) = IF 0 > n - 1 THEN 0 ELSE n - 1 - 0 + 1
    BY <2>1, FS_Interval
  <2> QED BY <1>1, <2>2
<1>6. f \in Surjection(K, P)
  BY <1>4, <1>5, FS_Injection
<1>7. \A t \in P : \E i \in K : f[i] = t
  BY <1>6 DEF Surjection
<1>8. k - 1 \in P
  BY <1>1
<1> HIDE DEF P
<1>9. PICK i \in K : f[i] = k - 1
  BY <1>7, <1>8
<1> QED BY <1>9

\* Arrange takes each position of K once, in their order.
Arranges(c, s, K, R) ==
  /\ c \in [1 .. Cardinality(K) -> K]
  /\ \A k \in 1 .. Cardinality(K) : Arrange(s, K, R)[k] = s[c[k]]
  /\ \A k, l \in 1 .. Cardinality(K) : k < l => <<c[k], c[l]>> \in R
  /\ \A k, l \in 1 .. Cardinality(K) : c[k] = c[l] => k = l
  /\ \A i \in K : \E k \in 1 .. Cardinality(K) : c[k] = i

\* Arrange puts every entry of K at a place of its own.
LEMMA ArrangeFacts ==
  ASSUME NEW s, NEW K, IsFiniteSet(K), NEW R, Orders(R, K)
  PROVE  \E c : Arranges(c, s, K, R)
<1> DEFINE n == Cardinality(K)
           At(k) == CHOOSE i \in K : Place(K, R, i) = k - 1
           c == [k \in 1 .. n |-> At(k)]
<1>0. n \in Nat
  BY FS_CardinalityType
<1>1. \A k \in 1 .. n : At(k) \in K /\ Place(K, R, At(k)) = k - 1
  BY PlaceTaken
<1>2. c \in [1 .. n -> K] /\ \A k \in 1 .. n : Place(K, R, c[k]) = k - 1
  BY <1>1
<1>3. \A k \in 1 .. n : Arrange(s, K, R)[k] = s[c[k]]
  BY DEF Arrange
<1> HIDE DEF c, At
<1>4. ASSUME NEW k \in 1 .. n, NEW l \in 1 .. n, k < l PROVE <<c[k], c[l]>> \in R
  <2>1. c[k] \in K /\ c[l] \in K /\ c[k] # c[l]
    BY <1>0, <1>2, <1>4
  <2>2. ~(<<c[l], c[k]>> \in R)
    BY <1>0, <1>2, <1>4, <2>1, PlaceGrows
  <2> QED BY <2>1, <2>2 DEF Orders
<1>5. ASSUME NEW k \in 1 .. n, NEW l \in 1 .. n, c[k] = c[l] PROVE k = l
  BY <1>0, <1>2, <1>5
<1>6. ASSUME NEW i \in K PROVE \E k \in 1 .. n : c[k] = i
  <2>1. Place(K, R, i) \in 0 .. (n - 1)
    BY PlaceRange
  <2>2. PICK k \in 1 .. n : k = Place(K, R, i) + 1
    BY <1>0, <2>1
  <2>3. Place(K, R, c[k]) = Place(K, R, i) /\ c[k] \in K
    BY <1>0, <1>2, <2>1, <2>2
  <2>4. CASE c[k] # i
    <3>1. Place(K, R, i) \in Int
      BY <1>0, <2>1
    <3>2. <<c[k], i>> \in R \/ <<i, c[k]>> \in R
      BY <2>3, <2>4 DEF Orders
    <3> QED BY <2>3, <3>1, <3>2, PlaceGrows
  <2> QED BY <2>4
<1> QED BY <1>2, <1>3, <1>4, <1>5, <1>6 DEF Arranges

\* Taking a node out of a list keeps the others and their order.
LEMMA WithoutFacts ==
  ASSUME NEW S, NEW s \in Seq(S), IsInjective(s), NEW n
  PROVE  /\ Without(s, n) \in Seq(S) /\ IsInjective(Without(s, n))
         /\ Range(Without(s, n)) = Range(s) \ {n}
         /\ \A k, l \in DOMAIN Without(s, n) : k < l =>
              \E i, j \in DOMAIN s : i < j /\ Without(s, n)[k] = s[i] /\ Without(s, n)[l] = s[j]
<1> DEFINE K == {i \in DOMAIN s : s[i] # n}
           R == {x \in K \X K : x[1] < x[2]}
<1>1. Len(s) \in Nat /\ DOMAIN s = 1 .. Len(s) /\ \A i \in DOMAIN s : s[i] \in S
  OBVIOUS
<1>2. IsFiniteSet(K)
  <2>1. IsFiniteSet(1 .. Len(s)) /\ K \in SUBSET (1 .. Len(s))
    BY <1>1, FS_Interval
  <2> QED BY <2>1, FS_Subset
<1>3. \A i, j \in K : <<i, j>> \in R <=> i < j
  OBVIOUS
<1>4. K \subseteq DOMAIN s /\ K \subseteq Int /\ \A i \in DOMAIN s : i \in K <=> s[i] # n
  BY <1>1
<1>5. PICK w : w = Without(s, n)
  OBVIOUS
<1>6. w = Arrange(s, K, R)
  BY <1>5 DEF Without
<1> HIDE DEF K, R
<1>7. Orders(R, K)
  BY <1>3, <1>4 DEF Orders
<1>8. PICK c : Arranges(c, s, K, R)
  BY <1>2, <1>7, ArrangeFacts
<1>9. PICK m \in Nat : m = Cardinality(K)
  BY <1>2, FS_CardinalityType
<1>10. DOMAIN w = 1 .. m /\ w = [k \in 1 .. m |-> w[k]]
  BY <1>6, <1>9 DEF Arrange
<1>11. /\ \A k \in 1 .. m : c[k] \in K /\ w[k] = s[c[k]]
       /\ \A k, l \in 1 .. m : k < l => <<c[k], c[l]>> \in R
       /\ \A k, l \in 1 .. m : c[k] = c[l] => k = l
       /\ \A i \in K : \E k \in 1 .. m : c[k] = i
  BY <1>6, <1>8, <1>9 DEF Arranges
<1>12. w \in Seq(S)
  <2>1. \A k \in 1 .. m : w[k] \in S
    BY <1>1, <1>4, <1>11
  <2> QED BY <1>10, <2>1
<1>13. IsInjective(w)
  BY <1>4, <1>10, <1>11 DEF IsInjective
<1>14. Range(w) = Range(s) \ {n}
  <2>1. ASSUME NEW x \in Range(w) PROVE x \in Range(s) \ {n}
    BY <1>4, <1>10, <1>11 DEF Range
  <2>2. ASSUME NEW x \in Range(s) \ {n} PROVE x \in Range(w)
    <3>1. PICK i \in DOMAIN s : x = s[i]
      BY DEF Range
    <3>2. i \in K
      BY <1>4, <3>1
    <3>3. PICK k \in 1 .. m : c[k] = i
      BY <1>11, <3>2
    <3> QED BY <1>10, <1>11, <3>1, <3>3 DEF Range
  <2> QED BY <2>1, <2>2
<1>15. \A k, l \in DOMAIN w : k < l => \E i, j \in DOMAIN s : i < j /\ w[k] = s[i] /\ w[l] = s[j]
  <2> SUFFICES ASSUME NEW k \in 1 .. m, NEW l \in 1 .. m, k < l
               PROVE  \E i, j \in DOMAIN s : i < j /\ w[k] = s[i] /\ w[l] = s[j]
    BY <1>10
  <2>1. c[k] \in K /\ c[l] \in K /\ <<c[k], c[l]>> \in R
    BY <1>11
  <2>2. c[k] \in DOMAIN s /\ c[l] \in DOMAIN s /\ c[k] < c[l]
    BY <1>3, <1>4, <2>1
  <2> QED BY <1>11, <2>2
<1> QED BY <1>5, <1>12, <1>13, <1>14, <1>15

-----------------------------------------------------------------------------
(* The lists of parents                                                    *)

IsList(t, n) == t = [k \in 1 .. n |-> t[k]]
ListOf(t, n, S) == IsList(t, n) /\ \A k \in 1 .. n : t[k] \in S

\* A function on the first n numbers is a sequence of length n.
LEMMA SequenceOf ==
  ASSUME NEW S, NEW n \in Nat, NEW t, ListOf(t, n, S)
  PROVE  t \in Seq(S) /\ Len(t) = n
BY DEF IsList, ListOf

\* There are n numbers from 1 to n.
LEMMA FirstNumbers ==
  ASSUME NEW n \in Nat
  PROVE  IsFiniteSet(1 .. n) /\ Cardinality(1 .. n) = n
<1>1. 1 \in Int /\ n \in Int
  OBVIOUS
<1>2. IsFiniteSet(1 .. n) /\ Cardinality(1 .. n) = IF 1 > n THEN 0 ELSE n - 1 + 1
  BY <1>1, FS_Interval
<1> QED BY <1>2

\* What a list of parents with latencies is made of, and that each configured
\* parent is in it once.
Entries(c) == [parent : Range(c.parents), latency : Nat]
Complete(s, c) ==
  /\ s \in Seq(Entries(c)) /\ Len(s) = Len(c.parents)
  /\ \A i, j \in 1 .. Len(c.parents) : s[i].parent = s[j].parent => i = j
  /\ \A p \in Range(c.parents) : \E i \in 1 .. Len(c.parents) : s[i].parent = p

\* s and t hold the same parents at the same places.
SameParents(s, t, c) == \A i \in 1 .. Len(c.parents) : s[i].parent = t[i].parent

\* What ParentAssumption says of one setting.
LEMMA SettingFacts ==
  ASSUME NEW c \in Settings
  PROVE  /\ c.parents \in Seq(Range(c.parents)) /\ IsInjective(c.parents)
         /\ Len(c.parents) \in Nat /\ DOMAIN c.parents = 1 .. Len(c.parents)
         /\ c.http \subseteq Range(c.parents) /\ IsFiniteSet(c.http)
         /\ c.lats \subseteq Nat /\ Max(c.lats) \in Nat /\ \A l \in c.lats : l <= Max(c.lats)
<1>1. /\ c.parents \in Seq(Range(c.parents)) /\ IsInjective(c.parents)
      /\ c.http \subseteq Range(c.parents)
      /\ c.lats \subseteq Nat /\ \E m \in c.lats : \A l \in c.lats : l <= m
  BY ParentAssumption
<1>2. Len(c.parents) \in Nat /\ DOMAIN c.parents = 1 .. Len(c.parents)
  BY <1>1
<1>3. IsFiniteSet(Range(c.parents))
  <2>1. IsFiniteSet(1 .. Len(c.parents))
    BY <1>2, FirstNumbers
  <2>2. c.parents \in Surjection(1 .. Len(c.parents), Range(c.parents))
    BY <1>1, <1>2 DEF Surjection, Range
  <2> QED BY <2>1, <2>2, FS_Surjection
<1>4. IsFiniteSet(c.http)
  BY <1>1, <1>3, FS_Subset
<1>5. Max(c.lats) \in c.lats /\ \A l \in c.lats : l <= Max(c.lats)
  BY <1>1 DEF Max
<1> QED BY <1>1, <1>2, <1>4, <1>5

\* The list as configured has every parent once.
LEMMA ConfiguredComplete ==
  ASSUME cfg \in Settings
  PROVE  Complete(AsConfigured, cfg) /\ N \in Nat
<1>1. /\ cfg.parents \in Seq(Range(cfg.parents)) /\ IsInjective(cfg.parents)
      /\ N \in Nat /\ DOMAIN cfg.parents = 1 .. N
  BY SettingFacts DEF N
<1>2. PICK s : s = AsConfigured
  OBVIOUS
<1>3. s \in Seq(Entries(cfg)) /\ Len(s) = N /\ \A i \in 1 .. N : s[i].parent = cfg.parents[i]
  BY <1>1, <1>2 DEF AsConfigured, Entry, Entries
<1> QED BY <1>1, <1>2, <1>3 DEF Complete, N, IsInjective, Range

\* A list whose places are moved about is still complete.
Moves(g, n) ==
  /\ \A k \in 1 .. n : g[k] \in 1 .. n
  /\ \A k, l \in 1 .. n : g[k] = g[l] => k = l
  /\ \A i \in 1 .. n : \E k \in 1 .. n : g[k] = i
MovedBy(t, s, g, n) == IsList(t, n) /\ \A k \in 1 .. n : t[k] = s[g[k]]

\* Moving the entries of a complete list about keeps it complete.
LEMMA MovedComplete ==
  ASSUME NEW c \in Settings, NEW s, Complete(s, c), NEW n, n = Len(c.parents),
         NEW g, Moves(g, n), NEW t, MovedBy(t, s, g, n)
  PROVE  Complete(t, c)
<1>1. n \in Nat
  BY SettingFacts
<1>2. /\ s \in Seq(Entries(c)) /\ Len(s) = n
      /\ \A i, j \in 1 .. n : s[i].parent = s[j].parent => i = j
      /\ \A p \in Range(c.parents) : \E i \in 1 .. n : s[i].parent = p
  BY DEF Complete
<1>3. \A i \in 1 .. n : s[i] \in Entries(c)
  BY <1>1, <1>2
<1>4. \A k \in 1 .. n : t[k] = s[g[k]] /\ g[k] \in 1 .. n
  BY DEF Moves, MovedBy
<1>5. t \in Seq(Entries(c)) /\ Len(t) = n
  <2>1. ListOf(t, n, Entries(c))
    BY <1>3, <1>4 DEF MovedBy, ListOf
  <2> QED BY <1>1, <2>1, SequenceOf
<1>6. ASSUME NEW i \in 1 .. n, NEW j \in 1 .. n, t[i].parent = t[j].parent PROVE i = j
  <2>1. PICK x \in 1 .. n, y \in 1 .. n : x = g[i] /\ y = g[j]
    BY <1>4
  <2>2. s[x].parent = s[y].parent
    BY <1>4, <1>6, <2>1
  <2>3. x = y
    BY <1>2, <2>2
  <2> QED BY <2>1, <2>3 DEF Moves
<1>7. ASSUME NEW p \in Range(c.parents) PROVE \E i \in 1 .. n : t[i].parent = p
  <2>1. PICK i \in 1 .. n : s[i].parent = p
    BY <1>2
  <2>2. PICK k \in 1 .. n : g[k] = i
    BY DEF Moves
  <2>3. t[k].parent = p
    BY <1>4, <2>1, <2>2
  <2> QED BY <2>3
<1> QED BY <1>5, <1>6, <1>7 DEF Complete

\* setLatency and a measurement change no parent's place.
LEMMA NotedComplete ==
  ASSUME NEW c \in Settings, NEW s, Complete(s, c), NEW p \in Range(c.parents), NEW l \in Nat,
         NEW t, t = [i \in DOMAIN s |-> IF s[i].parent = p THEN Entry(p, l) ELSE s[i]]
  PROVE  Complete(t, c) /\ SameParents(s, t, c)
<1>1. Len(c.parents) \in Nat /\ s \in Seq(Entries(c)) /\ Len(s) = Len(c.parents)
  BY SettingFacts DEF Complete
<1>2. Entry(p, l) \in Entries(c) /\ Entry(p, l).parent = p
  BY DEF Entry, Entries
<1>3. DOMAIN s = 1 .. Len(c.parents)
  BY <1>1
<1>4. \A i \in 1 .. Len(c.parents) : t[i] \in Entries(c) /\ t[i].parent = s[i].parent
  BY <1>1, <1>2, <1>3
<1>5. IsList(t, Len(c.parents))
  BY <1>3 DEF IsList
<1>6. t \in Seq(Entries(c)) /\ Len(t) = Len(c.parents)
  <2>1. ListOf(t, Len(c.parents), Entries(c))
    BY <1>4, <1>5 DEF ListOf
  <2> QED BY <1>1, <2>1, SequenceOf
<1> QED BY <1>4, <1>6 DEF Complete, SameParents

\* A new latency of an entry keeps the list complete.
LEMMA MeasuredComplete ==
  ASSUME NEW c \in Settings, NEW s, Complete(s, c), NEW d \in 1 .. Len(c.parents), NEW l \in Nat,
         NEW t, t = [s EXCEPT ![d] = Entry(s[d].parent, l)]
  PROVE  Complete(t, c)
<1>1. Len(c.parents) \in Nat /\ s \in Seq(Entries(c)) /\ Len(s) = Len(c.parents)
  BY SettingFacts DEF Complete
<1>2. s[d] \in Entries(c)
  BY <1>1
<1>3. Entry(s[d].parent, l) \in Entries(c) /\ Entry(s[d].parent, l).parent = s[d].parent
  BY <1>2 DEF Entry, Entries
<1>4. t \in Seq(Entries(c)) /\ Len(t) = Len(c.parents)
  BY <1>1, <1>3
<1>5. \A i \in 1 .. Len(c.parents) : t[i].parent = s[i].parent
  BY <1>1, <1>3
<1> QED BY <1>4, <1>5 DEF Complete

\* sort.Stable loses no parent.
LEMMA SortedComplete ==
  ASSUME NEW c \in Settings, NEW s, Complete(s, c)
  PROVE  Complete(Sorted(s), c)
<1>1. PICK n \in Nat : n = Len(c.parents)
  BY SettingFacts
<1>2. s \in Seq(Entries(c)) /\ Len(s) = n /\ DOMAIN s = 1 .. n
  BY <1>1 DEF Complete
<1>3. \A i \in 1 .. n : s[i].latency \in Nat
  <2>1. \A i \in 1 .. n : s[i] \in Entries(c)
    BY <1>2
  <2> QED BY <2>1 DEF Entries
<1>4. IsFiniteSet(1 .. n) /\ Cardinality(1 .. n) = n
  BY FirstNumbers
<1>5. \A i, j \in 1 .. n : <<i, j>> \in Before(s) <=>
         s[i].latency < s[j].latency \/ (s[i].latency = s[j].latency /\ i < j)
  BY <1>2 DEF Before
<1>6. Orders(Before(s), 1 .. n)
  BY <1>3, <1>5 DEF Orders
<1>7. PICK w : w = Sorted(s)
  OBVIOUS
<1>8. w = Arrange(s, 1 .. n, Before(s))
  BY <1>2, <1>7 DEF Sorted
<1>9. PICK f : Arranges(f, s, 1 .. n, Before(s))
  BY <1>4, <1>6, ArrangeFacts
<1>10. /\ \A k \in 1 .. n : f[k] \in 1 .. n /\ w[k] = s[f[k]]
       /\ \A k, l \in 1 .. n : f[k] = f[l] => k = l
       /\ \A i \in 1 .. n : \E k \in 1 .. n : f[k] = i
  BY <1>4, <1>8, <1>9 DEF Arranges
<1>11. IsList(w, n)
  BY <1>4, <1>8 DEF Arrange, IsList
<1>12. Moves(f, n)
  BY <1>10 DEF Moves
<1>13. MovedBy(w, s, f, n)
  BY <1>10, <1>11 DEF MovedBy
<1> QED BY <1>1, <1>7, <1>12, <1>13, MovedComplete

\* Starting at any parent and going around meets every one.
LEMMA Turned ==
  ASSUME NEW n \in Nat, NEW x \in Nat, x < 2 * n
  PROVE  x % n = IF x < n THEN x ELSE x - n
OBVIOUS

\* To begin at another place and go round moves each place to one of its own.
LEMMA TurnMoves ==
  ASSUME NEW n \in Nat, NEW s \in Nat, s = 0 \/ s < n
  PROVE  Moves([i \in 1 .. n |-> ((i - 1 + s) % n) + 1], n)
<1>1. PICK g : g = [i \in 1 .. n |-> ((i - 1 + s) % n) + 1]
  OBVIOUS
<1>2. ASSUME NEW i \in 1 .. n
      PROVE  /\ g[i] = ((i - 1 + s) % n) + 1
             /\ i + s <= n => g[i] = i + s
             /\ ~(i + s <= n) => g[i] = i + s - n
  <2>1. PICK x \in Nat : x = i - 1 + s
    OBVIOUS
  <2>2. x < 2 * n
    BY <2>1
  <2>3. x % n = IF x < n THEN x ELSE x - n
    BY <2>2, Turned
  <2>4. g[i] = (x % n) + 1
    BY <1>1, <2>1
  <2>5. CASE x < n
    <3>1. g[i] = x + 1
      BY <2>3, <2>4, <2>5
    <3> QED BY <1>1, <2>1, <2>5, <3>1
  <2>6. CASE ~(x < n)
    <3>1. g[i] = x - n + 1
      BY <2>3, <2>4, <2>6
    <3> QED BY <1>1, <2>1, <2>6, <3>1
  <2> QED BY <2>5, <2>6
<1>3. ASSUME NEW i \in 1 .. n PROVE g[i] \in 1 .. n
  <2>1. CASE i + s <= n
    BY <1>2, <2>1
  <2>2. CASE ~(i + s <= n)
    BY <1>2, <2>2
  <2> QED BY <2>1, <2>2
<1>4. ASSUME NEW i \in 1 .. n, NEW j \in 1 .. n, g[i] = g[j] PROVE i = j
  BY <1>2, <1>4
<1>5. ASSUME NEW i \in 1 .. n PROVE \E k \in 1 .. n : g[k] = i
  <2>1. CASE i > s
    <3>1. PICK k \in 1 .. n : k + s = i
      BY <2>1
    <3>2. g[k] = i
      BY <1>2, <3>1
    <3> QED BY <3>2
  <2>2. CASE ~(i > s)
    <3>1. PICK k \in 1 .. n : k = i - s + n
      BY <2>2
    <3>2. ~(k + s <= n) /\ k + s - n = i
      BY <3>1
    <3> QED BY <1>2, <3>2
  <2> QED BY <2>1, <2>2
<1> QED BY <1>1, <1>3, <1>4, <1>5 DEF Moves

\* The list that the hash strategy walks is complete.
LEMMA TurnedComplete ==
  ASSUME cfg \in Settings, NEW s \in Nat, s = 0 \/ s < N,
         NEW t, t = [i \in 1 .. N |-> AsConfigured[((i - 1 + s) % N) + 1]]
  PROVE  Complete(t, cfg)
<1>1. Complete(AsConfigured, cfg) /\ N \in Nat /\ N = Len(cfg.parents)
  BY ConfiguredComplete DEF N
<1>2. PICK n \in Nat : n = N
  BY <1>1
<1>a. PICK a : a = AsConfigured
  OBVIOUS
<1>3. PICK g : g = [i \in 1 .. n |-> ((i - 1 + s) % n) + 1]
  OBVIOUS
<1>4. Moves(g, n)
  BY <1>2, <1>3, TurnMoves
<1>5. \A i \in 1 .. n : t[i] = a[((i - 1 + s) % n) + 1]
  BY <1>2, <1>a
<1>6. \A i \in 1 .. n : t[i] = a[g[i]]
  BY <1>3, <1>5
<1>7. MovedBy(t, a, g, n)
  BY <1>2, <1>6 DEF IsList, MovedBy
<1>8. n = Len(cfg.parents) /\ Complete(a, cfg)
  BY <1>1, <1>2, <1>a
<1> QED BY <1>4, <1>7, <1>8, MovedComplete

-----------------------------------------------------------------------------
(* A call of connect                                                       *)

AskingHTTP == {"snapshot", "snapshot2", "probe", "http", "mark"}
Dialling == {"dial", "note"}
Walking == {"walk"} \cup Dialling \cup AskingHTTP
NotHTTP(c) == Range(c.parents) \ c.http
Calls(c) ==
  [pc : Walking \cup {"idle", "connected", "failed"}, calls : Nat,
   by : {"backup", "hash", "latency"}, own : Seq(Entries(c)),
   i : 1 .. Len(c.parents) + 1, skipped : Seq(NotHTTP(c)), triedHTTP : BOOLEAN,
   nodes : Seq(c.http), tried : Seq(NotHTTP(c))]

\* The skipped parents that the call q has still to dial, and how far it has
\* gone through its list.
Left(q, c) == IF q.pc \in Dialling /\ q.i > Len(c.parents) THEN Tail(q.skipped) ELSE q.skipped
Seen(q, c) == IF q.pc \in Dialling /\ q.i <= Len(c.parents) THEN q.i ELSE q.i - 1

\* Each parent that q has gone past in its list s was dialled or is left to be
\* dialled, and not both; the HTTP pool was asked when one of its parents was
\* met.
WalkInv(q, s, c) ==
  q.pc \in Walking =>
    /\ IsInjective(q.skipped)
    /\ \A p \in Range(q.tried) : p \notin Range(Left(q, c))
    /\ \A p \in NotHTTP(c) : p \in Range(q.tried) \cup Range(Left(q, c)) <=>
                               \E k \in 1 .. Seen(q, c) : s[k].parent = p
    /\ q.triedHTTP => c.http # {}
    /\ \A k \in 1 .. (q.i - 1) : s[k].parent \in c.http => q.triedHTTP
    /\ q.pc \in AskingHTTP =>
         q.i <= Len(c.parents) /\ s[q.i].parent \in c.http /\ q.triedHTTP
    /\ q.pc \in Dialling => IF q.i <= Len(c.parents) THEN s[q.i].parent \notin c.http
                            ELSE q.skipped # << >>
    /\ q.pc \in {"http", "mark"} => q.nodes # << >>

\* TriesAll for one call.
TriedInv(q, c) ==
  /\ IsInjective(q.tried)
  /\ q.pc = "failed" => Range(q.tried) = NotHTTP(c) /\ q.triedHTTP = (c.http # {})

CallInv(q, s, c) == WalkInv(q, s, c) /\ TriedInv(q, c)

\* What Append does to the elements of a sequence.
LEMMA AppendRange ==
  ASSUME NEW S, NEW s \in Seq(S), NEW x \in S
  PROVE  /\ Append(s, x) \in Seq(S) /\ Range(Append(s, x)) = Range(s) \cup {x}
         /\ IsInjective(s) /\ x \notin Range(s) => IsInjective(Append(s, x))
<1>1. PICK t : t = Append(s, x)
  OBVIOUS
<1>2. PICK n \in Nat : n = Len(s)
  OBVIOUS
<1>3. /\ t \in Seq(S) /\ DOMAIN t = 1 .. n + 1 /\ DOMAIN s = 1 .. n
      /\ t[n + 1] = x /\ \A k \in 1 .. n : t[k] = s[k]
  BY <1>1, <1>2
<1>4. Range(t) = Range(s) \cup {x}
  <2>1. ASSUME NEW y \in Range(t) PROVE y \in Range(s) \cup {x}
    <3>1. PICK k \in 1 .. n + 1 : y = t[k]
      BY <1>3 DEF Range
    <3>2. CASE k = n + 1
      BY <1>3, <3>1, <3>2
    <3>3. CASE k # n + 1
      BY <1>3, <3>1, <3>3 DEF Range
    <3> QED BY <3>2, <3>3
  <2>2. ASSUME NEW y \in Range(s) PROVE y \in Range(t)
    <3>1. PICK k \in 1 .. n : y = s[k]
      BY <1>3 DEF Range
    <3>2. k \in 1 .. n + 1 /\ y = t[k]
      BY <1>3, <3>1
    <3> QED BY <1>3, <3>2 DEF Range
  <2>3. n + 1 \in DOMAIN t
    BY <1>3
  <2>4. x \in Range(t)
    BY <1>3, <2>3 DEF Range
  <2> QED BY <2>1, <2>2, <2>4
<1>5. ASSUME IsInjective(s), x \notin Range(s) PROVE IsInjective(t)
  <2> SUFFICES ASSUME NEW a \in 1 .. n + 1, NEW b \in 1 .. n + 1, t[a] = t[b] PROVE a = b
    BY <1>3 DEF IsInjective
  <2>1. \A k \in 1 .. n : t[k] # x
    BY <1>3, <1>5 DEF Range
  <2>2. CASE a \in 1 .. n /\ b \in 1 .. n
    BY <1>3, <1>5, <2>2 DEF IsInjective
  <2> QED BY <1>3, <2>1, <2>2
<1> QED BY <1>1, <1>3, <1>4, <1>5

\* What Tail does to the elements of a sequence.
LEMMA TailRange ==
  ASSUME NEW S, NEW s \in Seq(S), s # << >>
  PROVE  /\ Tail(s) \in Seq(S) /\ Head(s) \in S /\ Head(s) \in Range(s)
         /\ Range(s) = Range(Tail(s)) \cup {Head(s)}
         /\ IsInjective(s) => Head(s) \notin Range(Tail(s)) /\ IsInjective(Tail(s))
<1>1. PICK t : t = Tail(s)
  OBVIOUS
<1>2. PICK n \in Nat : n = Len(s) - 1
  OBVIOUS
<1>3. /\ t \in Seq(S) /\ DOMAIN t = 1 .. n /\ DOMAIN s = 1 .. n + 1
      /\ Head(s) = s[1] /\ \A k \in 1 .. n : t[k] = s[k + 1]
  BY <1>1, <1>2
<1>4. s[1] \in S /\ s[1] \in Range(s)
  <2>1. 1 \in DOMAIN s
    BY <1>3
  <2> QED BY <2>1 DEF Range
<1>5. ASSUME NEW y \in Range(s) PROVE y \in Range(t) \cup {s[1]}
  <2>1. PICK k \in 1 .. n + 1 : y = s[k]
    BY <1>3 DEF Range
  <2>2. CASE k # 1
    <3>1. PICK l \in 1 .. n : l + 1 = k
      BY <2>2
    <3>2. t[l] = y
      BY <1>3, <2>1, <3>1
    <3> QED BY <1>3, <3>2 DEF Range
  <2> QED BY <2>1, <2>2
<1>6. ASSUME NEW y \in Range(t) PROVE \E k \in 1 .. n : y = s[k + 1] /\ k + 1 \in DOMAIN s
  BY <1>3 DEF Range
<1>7. Range(s) = Range(t) \cup {s[1]}
  BY <1>4, <1>5, <1>6 DEF Range
<1>8. ASSUME IsInjective(s) PROVE s[1] \notin Range(t) /\ IsInjective(t)
  <2>1. s[1] \notin Range(t)
    BY <1>3, <1>6, <1>8 DEF IsInjective
  <2>2. ASSUME NEW a \in 1 .. n, NEW b \in 1 .. n, t[a] = t[b] PROVE a = b
    <3>1. a + 1 \in DOMAIN s /\ b + 1 \in DOMAIN s /\ s[a + 1] = s[b + 1]
      BY <1>3, <2>2
    <3>2. a + 1 = b + 1
      BY <1>8, <3>1 DEF IsInjective
    <3> QED BY <3>2
  <2> QED BY <1>3, <2>1, <2>2 DEF IsInjective
<1> QED BY <1>1, <1>3, <1>4, <1>7, <1>8

\* The call depends on the parents of its list and their places only.
LEMMA SameWalk ==
  ASSUME NEW c \in Settings, NEW s, NEW t, SameParents(s, t, c),
         NEW q \in Calls(c), NEW q1 \in Calls(c), CallInv(q, s, c),
         q1.pc = q.pc, q1.i = q.i, q1.skipped = q.skipped, q1.tried = q.tried,
         q1.triedHTTP = q.triedHTTP, q1.nodes = q.nodes
  PROVE  CallInv(q1, t, c)
<1>1. TriedInv(q1, c)
  BY DEF CallInv, TriedInv
<1>2. ASSUME q.pc \in Walking PROVE WalkInv(q1, t, c)
  <2>0. Len(c.parents) \in Nat /\ q.i \in 1 .. Len(c.parents) + 1
    BY SettingFacts DEF Calls
  <2>1. Left(q1, c) = Left(q, c) /\ Seen(q1, c) = Seen(q, c)
    BY DEF Left, Seen
  <2>2. Seen(q, c) \in 0 .. Len(c.parents)
    BY <2>0 DEF Seen
  <2>3. \A k \in 1 .. Seen(q, c) : s[k].parent = t[k].parent
    BY <2>0, <2>2 DEF SameParents
  <2>4. \A k \in 1 .. (q.i - 1) : s[k].parent = t[k].parent
    BY <2>0 DEF SameParents
  <2>5. q.i <= Len(c.parents) => s[q.i].parent = t[q.i].parent
    BY <2>0 DEF SameParents
  <2>6. WalkInv(q, s, c)
    BY DEF CallInv
  <2>7. \A p \in NotHTTP(c) : (\E k \in 1 .. Seen(q, c) : s[k].parent = p) <=>
                              (\E k \in 1 .. Seen(q, c) : t[k].parent = p)
    BY <2>3
  <2> QED BY <1>2, <2>1, <2>4, <2>5, <2>6, <2>7 DEF WalkInv
<1>3. CASE q.pc \notin Walking
  BY <1>1, <1>3 DEF CallInv, WalkInv
<1> QED BY <1>1, <1>2, <1>3 DEF CallInv

\* The next parent of the list was not met before.
LEMMA NextUnseen ==
  ASSUME NEW c \in Settings, NEW s, Complete(s, c), NEW n \in 1 .. Len(c.parents)
  PROVE  /\ s[n].parent \in Range(c.parents)
         /\ \A k \in 1 .. (n - 1) : s[k].parent # s[n].parent
         /\ \A p : (\E k \in 1 .. n : s[k].parent = p) <=>
                     (\E k \in 1 .. (n - 1) : s[k].parent = p) \/ p = s[n].parent
<1>1. Len(c.parents) \in Nat /\ s \in Seq(Entries(c)) /\ Len(s) = Len(c.parents)
  BY SettingFacts DEF Complete
<1>2. s[n] \in Entries(c)
  BY <1>1
<1>3. \A k \in 1 .. (n - 1) : k \in 1 .. Len(c.parents) /\ k # n
  BY <1>1
<1>4. \A k \in 1 .. (n - 1) : s[k].parent # s[n].parent
  BY <1>3 DEF Complete
<1>5. \A k \in 1 .. n : k = n \/ k \in 1 .. (n - 1)
  BY <1>1
<1>6. \A k \in 1 .. (n - 1) : k \in 1 .. n
  BY <1>1
<1>7. n \in 1 .. n
  BY <1>1
<1> QED BY <1>2, <1>4, <1>5, <1>6, <1>7 DEF Entries

\* The moves of a call, in the order of connect's loops.
LEMMA MoveStart ==
  ASSUME NEW c \in Settings, NEW s, NEW q, q.pc = "walk", q.i = 1, q.skipped = << >>,
         q.tried = << >>, q.triedHTTP = FALSE
  PROVE  CallInv(q, s, c)
<1>1. Range(<< >>) = {} /\ IsInjective(<< >>)
  BY DEF Range, IsInjective
<1>2. Left(q, c) = << >> /\ Seen(q, c) = 0
  BY DEF Left, Seen, Dialling
<1>3. TriedInv(q, c)
  BY <1>1 DEF TriedInv
<1>4. WalkInv(q, s, c)
  BY <1>1, <1>2 DEF WalkInv, AskingHTTP, Dialling
<1> QED BY <1>3, <1>4 DEF CallInv

\* A parent that failed often is put aside (connectInOrder).
LEMMA MoveSkip ==
  ASSUME NEW c \in Settings, NEW s, Complete(s, c), NEW q \in Calls(c), NEW q1,
         CallInv(q, s, c), q.pc = "walk", q.i <= Len(c.parents), s[q.i].parent \notin c.http,
         q1.pc = "walk", q1.i = q.i + 1, q1.skipped = Append(q.skipped, s[q.i].parent),
         q1.tried = q.tried, q1.triedHTTP = q.triedHTTP
  PROVE  CallInv(q1, s, c)
<1>1. PICK n \in 1 .. Len(c.parents) : n = q.i
  BY SettingFacts DEF Calls
<1>2. PICK p : p = s[n].parent
  OBVIOUS
<1>3. p \in NotHTTP(c)
  BY <1>1, <1>2, NextUnseen DEF NotHTTP
<1>4. q.skipped \in Seq(NotHTTP(c)) /\ Len(c.parents) \in Nat
  BY SettingFacts DEF Calls
<1>5. /\ Left(q, c) = q.skipped /\ Left(q1, c) = q1.skipped
      /\ Seen(q, c) = n - 1 /\ Seen(q1, c) = n
  BY <1>1, <1>4 DEF Left, Seen, Dialling
<1>6. WalkInv(q, s, c) /\ q.pc \in Walking
  BY DEF CallInv, Walking
<1>7. p \notin Range(q.tried) /\ p \notin Range(q.skipped)
  BY <1>1, <1>2, <1>3, <1>5, <1>6, NextUnseen DEF WalkInv
<1>8. Range(q1.skipped) = Range(q.skipped) \cup {p} /\ IsInjective(q1.skipped)
  BY <1>1, <1>2, <1>3, <1>4, <1>6, <1>7, AppendRange DEF WalkInv
<1>9. \A x \in Range(q1.tried) : x \notin Range(Left(q1, c))
  BY <1>5, <1>6, <1>7, <1>8 DEF WalkInv
<1>10. \A x \in NotHTTP(c) : x \in Range(q1.tried) \cup Range(Left(q1, c)) <=>
                              \E k \in 1 .. Seen(q1, c) : s[k].parent = x
  BY <1>1, <1>2, <1>5, <1>6, <1>8, NextUnseen DEF WalkInv
<1>11. \A k \in 1 .. (q1.i - 1) : s[k].parent \in c.http => q1.triedHTTP
  <2>1. q1.i - 1 = n
    BY <1>1, <1>4
  <2>2. \A k \in 1 .. n : k = n \/ k \in 1 .. (n - 1)
    BY <1>1, <1>4
  <2> QED BY <1>1, <1>6, <2>1, <2>2 DEF WalkInv
<1>12. WalkInv(q1, s, c)
  BY <1>6, <1>8, <1>9, <1>10, <1>11 DEF WalkInv, AskingHTTP, Dialling
<1> QED BY <1>12 DEF CallInv, TriedInv

\* The parent at this place is dialled.
LEMMA MoveDial ==
  ASSUME NEW c \in Settings, NEW s, Complete(s, c), NEW q \in Calls(c), NEW q1,
         CallInv(q, s, c), q.pc = "walk", q.i <= Len(c.parents), s[q.i].parent \notin c.http,
         q1.pc = "dial", q1.i = q.i, q1.skipped = q.skipped,
         q1.tried = Append(q.tried, s[q.i].parent), q1.triedHTTP = q.triedHTTP
  PROVE  CallInv(q1, s, c)
<1>1. PICK n \in 1 .. Len(c.parents) : n = q.i
  BY SettingFacts DEF Calls
<1>2. PICK p : p = s[n].parent
  OBVIOUS
<1>3. p \in NotHTTP(c)
  BY <1>1, <1>2, NextUnseen DEF NotHTTP
<1>4. q.tried \in Seq(NotHTTP(c)) /\ Len(c.parents) \in Nat
  BY SettingFacts DEF Calls
<1>5. /\ Left(q, c) = q.skipped /\ Left(q1, c) = q.skipped
      /\ Seen(q, c) = n - 1 /\ Seen(q1, c) = n
  BY <1>1, <1>4 DEF Left, Seen, Dialling
<1>6. WalkInv(q, s, c) /\ q.pc \in Walking
  BY DEF CallInv, Walking
<1>7. p \notin Range(q.tried) /\ p \notin Range(q.skipped)
  BY <1>1, <1>2, <1>3, <1>5, <1>6, NextUnseen DEF WalkInv
<1>8. Range(q1.tried) = Range(q.tried) \cup {p} /\ IsInjective(q1.tried)
  BY <1>1, <1>2, <1>3, <1>4, <1>7, AppendRange DEF CallInv, TriedInv
<1>9. \A x \in Range(q1.tried) : x \notin Range(Left(q1, c))
  BY <1>5, <1>6, <1>7, <1>8 DEF WalkInv
<1>10. \A x \in NotHTTP(c) : x \in Range(q1.tried) \cup Range(Left(q1, c)) <=>
                              \E k \in 1 .. Seen(q1, c) : s[k].parent = x
  BY <1>1, <1>2, <1>5, <1>6, <1>8, NextUnseen DEF WalkInv
<1>11. WalkInv(q1, s, c)
  BY <1>6, <1>9, <1>10 DEF WalkInv, AskingHTTP, Dialling
<1> QED BY <1>8, <1>11 DEF CallInv, TriedInv

\* The round is over and one that was put aside is dialled.
LEMMA MoveRedial ==
  ASSUME NEW c \in Settings, NEW s, NEW q \in Calls(c), NEW q1,
         CallInv(q, s, c), q.pc = "walk", ~(q.i <= Len(c.parents)), q.skipped # << >>,
         q1.pc = "dial", q1.i = q.i, q1.skipped = q.skipped,
         q1.tried = Append(q.tried, Head(q.skipped)), q1.triedHTTP = q.triedHTTP
  PROVE  CallInv(q1, s, c)
<1>1. /\ q.tried \in Seq(NotHTTP(c)) /\ q.skipped \in Seq(NotHTTP(c)) /\ Len(c.parents) \in Nat
      /\ q.i \in Nat
  BY SettingFacts DEF Calls
<1>2. PICK p : p = Head(q.skipped)
  OBVIOUS
<1>3. PICK t : t = Tail(q.skipped)
  OBVIOUS
<1>4. WalkInv(q, s, c) /\ q.pc \in Walking
  BY DEF CallInv, Walking
<1>5. /\ p \in NotHTTP(c) /\ Range(q.skipped) = Range(t) \cup {p} /\ p \notin Range(t)
  BY <1>1, <1>2, <1>3, <1>4, TailRange DEF WalkInv
<1>6. /\ Left(q, c) = q.skipped /\ Left(q1, c) = t
      /\ Seen(q, c) = q.i - 1 /\ Seen(q1, c) = q.i - 1
  BY <1>1, <1>3 DEF Left, Seen, Dialling
<1>7. p \notin Range(q.tried)
  BY <1>4, <1>5, <1>6 DEF WalkInv
<1>8. Range(q1.tried) = Range(q.tried) \cup {p} /\ IsInjective(q1.tried)
  BY <1>1, <1>2, <1>5, <1>7, AppendRange DEF CallInv, TriedInv
<1>9. \A x \in Range(q1.tried) : x \notin Range(Left(q1, c))
  BY <1>4, <1>5, <1>6, <1>8 DEF WalkInv
<1>10. \A x \in NotHTTP(c) : x \in Range(q1.tried) \cup Range(Left(q1, c)) <=>
                              \E k \in 1 .. Seen(q1, c) : s[k].parent = x
  BY <1>4, <1>5, <1>6, <1>8 DEF WalkInv
<1>11. WalkInv(q1, s, c)
  BY <1>1, <1>4, <1>9, <1>10 DEF WalkInv, AskingHTTP, Dialling
<1> QED BY <1>8, <1>11 DEF CallInv, TriedInv

\* A failed dial is to be noted.
LEMMA MoveNote ==
  ASSUME NEW c \in Settings, NEW s, NEW q, NEW q1,
         CallInv(q, s, c), q.pc = "dial", q1.pc = "note", q1.i = q.i, q1.skipped = q.skipped,
         q1.tried = q.tried, q1.triedHTTP = q.triedHTTP
  PROVE  CallInv(q1, s, c)
<1>1. Left(q1, c) = Left(q, c) /\ Seen(q1, c) = Seen(q, c)
  BY DEF Left, Seen, Dialling
<1>2. WalkInv(q, s, c) /\ q.pc \in Walking
  BY DEF CallInv, Walking, Dialling
<1>3. WalkInv(q1, s, c)
  BY <1>1, <1>2 DEF WalkInv, AskingHTTP, Dialling
<1> QED BY <1>3 DEF CallInv, TriedInv

\* A dial that failed, whether noted or not: on to the next parent.
LEMMA MoveLeave ==
  ASSUME NEW c \in Settings, NEW s, NEW q \in Calls(c), NEW q1,
         CallInv(q, s, c), q.pc \in Dialling, q1.pc = "walk",
         q1.i = IF q.i <= Len(c.parents) THEN q.i + 1 ELSE q.i,
         q1.skipped = IF q.i <= Len(c.parents) THEN q.skipped ELSE Tail(q.skipped),
         q1.tried = q.tried, q1.triedHTTP = q.triedHTTP
  PROVE  CallInv(q1, s, c)
<1>1. q.skipped \in Seq(NotHTTP(c)) /\ Len(c.parents) \in Nat /\ q.i \in Nat
  BY SettingFacts DEF Calls
<1>2. WalkInv(q, s, c) /\ q.pc \in Walking
  BY DEF CallInv, Walking
<1>3. Left(q1, c) = Left(q, c) /\ Seen(q1, c) = Seen(q, c) /\ Left(q1, c) = q1.skipped
  BY <1>1 DEF Left, Seen, Dialling
<1>4. IsInjective(q1.skipped)
  BY <1>1, <1>2, TailRange DEF WalkInv
<1>5. \A k \in 1 .. (q1.i - 1) : s[k].parent \in c.http => q1.triedHTTP
  <2>1. CASE q.i <= Len(c.parents)
    <3>1. \A k \in 1 .. (q1.i - 1) : k = q.i \/ k \in 1 .. (q.i - 1)
      BY <1>1, <2>1
    <3> QED BY <1>2, <2>1, <3>1 DEF WalkInv
  <2>2. CASE ~(q.i <= Len(c.parents))
    BY <1>2, <2>2 DEF WalkInv
  <2> QED BY <2>1, <2>2
<1>6. WalkInv(q1, s, c)
  BY <1>2, <1>3, <1>4, <1>5 DEF WalkInv, AskingHTTP, Dialling
<1> QED BY <1>6 DEF CallInv, TriedInv, Dialling

\* Past an HTTP parent, when the pool of them has been asked.
LEMMA MovePass ==
  ASSUME NEW c \in Settings, NEW s, Complete(s, c), NEW q \in Calls(c), NEW q1,
         CallInv(q, s, c), q.pc \in {"walk"} \cup AskingHTTP, q.i <= Len(c.parents),
         s[q.i].parent \in c.http, q.triedHTTP,
         q1.pc = "walk", q1.i = q.i + 1, q1.skipped = q.skipped, q1.tried = q.tried,
         q1.triedHTTP = q.triedHTTP
  PROVE  CallInv(q1, s, c)
<1>1. PICK n \in 1 .. Len(c.parents) : n = q.i
  BY SettingFacts DEF Calls
<1>2. Len(c.parents) \in Nat
  BY SettingFacts
<1>3. WalkInv(q, s, c) /\ q.pc \in Walking
  BY DEF CallInv, Walking
<1>4. /\ Left(q, c) = q.skipped /\ Left(q1, c) = q.skipped
      /\ Seen(q, c) = n - 1 /\ Seen(q1, c) = n
  BY <1>1, <1>2 DEF Left, Seen, Dialling, AskingHTTP
<1>5. \A x \in NotHTTP(c) : x # s[n].parent
  BY <1>1 DEF NotHTTP
<1>6. \A x \in NotHTTP(c) : x \in Range(q1.tried) \cup Range(Left(q1, c)) <=>
                              \E k \in 1 .. Seen(q1, c) : s[k].parent = x
  BY <1>1, <1>3, <1>4, <1>5, NextUnseen DEF WalkInv
<1>7. WalkInv(q1, s, c)
  BY <1>3, <1>4, <1>6 DEF WalkInv, AskingHTTP, Dialling
<1> QED BY <1>7 DEF CallInv, TriedInv

\* The call asks the pool of HTTP parents.
LEMMA MoveAsk ==
  ASSUME NEW c \in Settings, NEW s, NEW q \in Calls(c), NEW q1,
         CallInv(q, s, c), q.pc \in {"walk"} \cup AskingHTTP, q.i <= Len(c.parents),
         s[q.i].parent \in c.http,
         q1.pc \in AskingHTTP, q1.i = q.i, q1.skipped = q.skipped, q1.tried = q.tried,
         q1.triedHTTP = TRUE, q1.pc \in {"http", "mark"} => q1.nodes # << >>
  PROVE  CallInv(q1, s, c)
<1>1. WalkInv(q, s, c) /\ q.pc \in Walking
  BY DEF CallInv, Walking
<1>2. Left(q1, c) = Left(q, c) /\ Seen(q1, c) = Seen(q, c)
  BY DEF Left, Seen, Dialling, AskingHTTP
<1>3. q1.pc \notin Dialling /\ q1.pc # "failed"
  BY DEF Dialling, AskingHTTP
<1>4. WalkInv(q1, s, c)
  BY <1>1, <1>2, <1>3 DEF WalkInv
<1> QED BY <1>3, <1>4 DEF CallInv, TriedInv

\* The call fails when all have been dialled.
LEMMA MoveFail ==
  ASSUME NEW c \in Settings, NEW s, Complete(s, c), NEW q \in Calls(c), NEW q1,
         CallInv(q, s, c), q.pc = "walk", ~(q.i <= Len(c.parents)), q.skipped = << >>,
         q1.pc = "failed", q1.tried = q.tried, q1.triedHTTP = q.triedHTTP
  PROVE  CallInv(q1, s, c)
<1>0. /\ Len(c.parents) \in Nat /\ q.i \in 1 .. Len(c.parents) + 1
      /\ q.tried \in Seq(NotHTTP(c)) /\ q.triedHTTP \in BOOLEAN
  BY SettingFacts DEF Calls
<1>1. /\ Len(c.parents) \in Nat /\ q.i = Len(c.parents) + 1 /\ q.tried \in Seq(NotHTTP(c))
      /\ c.http \subseteq Range(c.parents) /\ q.triedHTTP \in BOOLEAN
  BY <1>0, SettingFacts
<1>2. WalkInv(q, s, c) /\ q.pc \in Walking
  BY DEF CallInv, Walking
<1>3. Left(q, c) = << >> /\ Seen(q, c) = Len(c.parents) /\ Range(<< >>) = {}
  BY <1>1 DEF Left, Seen, Dialling, Range
<1>4. \A p \in Range(c.parents) : \E k \in 1 .. Len(c.parents) : s[k].parent = p
  BY DEF Complete
<1>5. \A p \in NotHTTP(c) : p \in Range(q.tried)
  BY <1>2, <1>3, <1>4 DEF WalkInv, NotHTTP
<1>6. \A p \in Range(q.tried) : p \in NotHTTP(c)
  BY <1>1 DEF Range
<1>7. c.http # {} => q.triedHTTP
  <2>1. q.i - 1 = Len(c.parents)
    BY <1>1
  <2> QED BY <1>1, <1>2, <1>4, <2>1 DEF WalkInv
<1>8. q.triedHTTP = (c.http # {})
  BY <1>1, <1>2, <1>7 DEF WalkInv
<1>9. Range(q1.tried) = NotHTTP(c)
  BY <1>5, <1>6
<1> QED BY <1>8, <1>9 DEF CallInv, TriedInv, WalkInv, Walking, Dialling, AskingHTTP

\* The call returns a connection, or is over.
LEMMA MoveEnd ==
  ASSUME NEW c \in Settings, NEW s, NEW q, NEW q1, CallInv(q, s, c),
         \/ q1.pc = "connected" /\ q1.tried = q.tried
         \/ q1.pc = "idle" /\ q1.tried = << >>
  PROVE  CallInv(q1, s, c)
<1>1. IsInjective(q1.tried)
  BY DEF CallInv, TriedInv, IsInjective
<1> QED BY <1>1 DEF CallInv, TriedInv, WalkInv, Walking, Dialling, AskingHTTP

-----------------------------------------------------------------------------
(* The invariant of the calls and of the list of the latency pool          *)

\* The slice that the call q walks, when the pool's is l.
SliceOf(q, l) == IF q.own = << >> THEN l ELSE q.own
CallState(q, l, c) ==
  /\ q \in Calls(c)
  /\ q.own # << >> => Complete(q.own, c)
  /\ CallInv(q, SliceOf(q, l), c)

ListInv ==
  /\ cfg \in Settings /\ pool \in {"backup", "hash", "latency"}
  /\ Complete(list, cfg)
  /\ updater = "measure" => Complete(copy.list, cfg) /\ copy.done \in 0 .. N
CallsInv == req = [r \in Requests |-> req[r]] /\ \A r \in Requests : CallState(req[r], list, cfg)
ConnectInv == ListInv /\ CallsInv

\* The slice that a call walks is complete.
LEMMA SliceComplete ==
  ASSUME NEW c \in Settings, NEW l, Complete(l, c), NEW q, CallState(q, l, c)
  PROVE  Complete(SliceOf(q, l), c)
BY DEF CallState, SliceOf

\* An entry of the pool's list gets a new latency, the call itself a new pool.
LEMMA SameCall ==
  ASSUME NEW c \in Settings, NEW l, NEW m, SameParents(l, m, c), NEW q, CallState(q, l, c)
  PROVE  CallState(q, m, c)
<1>1. SameParents(SliceOf(q, l), SliceOf(q, m), c)
  BY DEF SliceOf, SameParents
<1> QED BY <1>1, SameWalk DEF CallState

\* A step of one call that leaves the list alone.
LEMMA OneCall ==
  ASSUME ConnectInv, NEW r \in Requests, NEW q, req' = [req EXCEPT ![r] = q],
         CallState(q, list, cfg), UNCHANGED <<cfg, pool, latencyVars>>
  PROVE  ConnectInv'
<1>1. req' = [x \in Requests |-> req'[x]] /\ \A x \in Requests : req'[x] = IF x = r THEN q ELSE req[x]
  BY DEF ConnectInv, CallsInv
<1>2. CallsInv'
  BY <1>1 DEF ConnectInv, CallsInv, latencyVars
<1>3. ListInv'
  BY DEF ConnectInv, ListInv, latencyVars, N
<1> QED BY <1>2, <1>3 DEF ConnectInv

\* What turning to the next parent does to a call.
LEMMA AdvanceFields ==
  ASSUME cfg \in Settings, NEW r, req[r] \in Calls(cfg),
         req[r].i <= Len(cfg.parents) \/ req[r].skipped # << >>,
         NEW q, q = Advance(r)
  PROVE  /\ q \in Calls(cfg) /\ q.own = req[r].own /\ q.pc = "walk"
         /\ q.i = IF req[r].i <= Len(cfg.parents) THEN req[r].i + 1 ELSE req[r].i
         /\ q.skipped = IF req[r].i <= Len(cfg.parents) THEN req[r].skipped ELSE Tail(req[r].skipped)
         /\ q.tried = req[r].tried /\ q.triedHTTP = req[r].triedHTTP /\ q.nodes = req[r].nodes
<1>1. PICK o \in Calls(cfg) : o = req[r]
  OBVIOUS
<1>2. Len(cfg.parents) \in Nat /\ o.i \in 1 .. Len(cfg.parents) + 1 /\ o.skipped \in Seq(NotHTTP(cfg))
  BY SettingFacts DEF Calls
<1>3. CASE o.i <= Len(cfg.parents)
  <2>1. q = [o EXCEPT !.pc = "walk", !.i = @ + 1]
    BY <1>1, <1>3 DEF Advance, InRound, N
  <2>2. o.i + 1 \in 1 .. Len(cfg.parents) + 1
    BY <1>2, <1>3
  <2>3. q \in Calls(cfg)
    BY <2>1, <2>2 DEF Calls, Walking
  <2> QED BY <1>1, <1>3, <2>1, <2>3 DEF Calls
<1>4. CASE ~(o.i <= Len(cfg.parents))
  <2>1. q = [o EXCEPT !.pc = "walk", !.skipped = Tail(@)]
    BY <1>1, <1>4 DEF Advance, InRound, N
  <2>2. Tail(o.skipped) \in Seq(NotHTTP(cfg))
    BY <1>1, <1>2, <1>4, TailRange
  <2>3. q \in Calls(cfg)
    BY <2>1, <2>2 DEF Calls, Walking
  <2> QED BY <1>1, <1>4, <2>1, <2>3 DEF Calls
<1> QED BY <1>3, <1>4

\* What ConnectInv says of one call.
LEMMA CallFacts ==
  ASSUME ConnectInv, NEW r \in Requests
  PROVE  /\ cfg \in Settings /\ N = Len(cfg.parents) /\ N \in Nat
         /\ req[r] \in Calls(cfg) /\ Slice(r) = SliceOf(req[r], list)
         /\ Complete(Slice(r), cfg) /\ CallInv(req[r], Slice(r), cfg)
         /\ InRound(r) <=> req[r].i <= Len(cfg.parents)
         /\ req[r].own # << >> => Complete(req[r].own, cfg)
<1>1. cfg \in Settings /\ Complete(list, cfg) /\ CallState(req[r], list, cfg)
  BY DEF ConnectInv, ListInv, CallsInv
<1>2. Slice(r) = SliceOf(req[r], list)
  BY DEF Slice, SliceOf
<1>3. Complete(Slice(r), cfg)
  BY <1>1, <1>2, SliceComplete
<1> QED BY <1>1, <1>2, <1>3, SettingFacts DEF CallState, InRound, N

\* A step of a call that goes on in its slice.
LEMMA CallGoesOn ==
  ASSUME ConnectInv, NEW r \in Requests, NEW q \in Calls(cfg), req' = [req EXCEPT ![r] = q],
         q.own = req[r].own, CallInv(q, Slice(r), cfg), UNCHANGED <<cfg, pool, latencyVars>>
  PROVE  ConnectInv'
<1>1. SliceOf(q, list) = Slice(r) /\ (q.own # << >> => Complete(q.own, cfg))
  BY CallFacts DEF SliceOf
<1>2. CallState(q, list, cfg)
  BY <1>1 DEF CallState
<1> QED BY <1>2, OneCall

\* A call of connect begins and keeps ConnectInv.
LEMMA StartStep ==
  ASSUME ConnectInv, NEW r \in Requests, Start(r)
  PROVE  ConnectInv'
<1>1. PICK s \in (IF pool = "hash" THEN 0 .. N - 1 ELSE {0}) :
        req' = [req EXCEPT ![r] =
         [Idle(@.calls + 1) EXCEPT !.pc = "walk",
          !.own = IF pool = "latency" THEN << >>
                  ELSE [i \in 1 .. N |-> AsConfigured[((i - 1 + s) % N) + 1]]]]
  BY DEF Start
<1>2. /\ cfg \in Settings /\ N \in Nat /\ N = Len(cfg.parents) /\ req[r] \in Calls(cfg)
      /\ pool \in {"backup", "hash", "latency"}
  BY CallFacts DEF ConnectInv, ListInv
<1>3. s \in Nat /\ (s = 0 \/ s < N)
  BY <1>2
<1>4. PICK t : t = [i \in 1 .. N |-> AsConfigured[((i - 1 + s) % N) + 1]]
  OBVIOUS
<1>5. Complete(t, cfg)
  BY <1>2, <1>3, <1>4, TurnedComplete
<1>6. PICK o : o = IF pool = "latency" THEN << >> ELSE t
  OBVIOUS
<1>7. o \in Seq(Entries(cfg)) /\ (o # << >> => Complete(o, cfg))
  BY <1>5, <1>6 DEF Complete
<1>8. PICK q : q = [Idle(req[r].calls + 1) EXCEPT !.pc = "walk", !.own = o]
  OBVIOUS
<1>9. q = [pc |-> "walk", calls |-> req[r].calls + 1, by |-> pool, own |-> o, i |-> 1,
           skipped |-> << >>, triedHTTP |-> FALSE, nodes |-> << >>, tried |-> << >>]
  BY <1>8 DEF Idle
<1>10. q \in Calls(cfg)
  <2>1. req[r].calls + 1 \in Nat /\ 1 \in 1 .. Len(cfg.parents) + 1
    BY <1>2 DEF Calls
  <2>2. << >> \in Seq(NotHTTP(cfg)) /\ << >> \in Seq(cfg.http)
    OBVIOUS
  <2> QED BY <1>2, <1>7, <1>9, <2>1, <2>2 DEF Calls, Walking
<1>11. CallInv(q, SliceOf(q, list), cfg)
  BY <1>2, <1>9, MoveStart
<1>12. CallState(q, list, cfg)
  BY <1>7, <1>9, <1>10, <1>11 DEF CallState
<1>13. req' = [req EXCEPT ![r] = q]
  BY <1>1, <1>4, <1>6, <1>8 DEF CallsInv, ConnectInv
<1>14. UNCHANGED <<cfg, pool, latencyVars>>
  BY DEF Start, callVars, envVars, initVars
<1> QED BY <1>12, <1>13, <1>14, OneCall

\* WalkHTTP keeps ConnectInv.
LEMMA WalkHTTPStep ==
  ASSUME ConnectInv, NEW r \in Requests, WalkHTTP(r)
  PROVE  ConnectInv'
<1>1. PICK o \in Calls(cfg) : o = req[r]
  BY CallFacts
<1>2. /\ cfg \in Settings /\ Complete(Slice(r), cfg) /\ CallInv(o, Slice(r), cfg)
      /\ o.pc = "walk" /\ o.i <= Len(cfg.parents) /\ Slice(r)[o.i].parent \in cfg.http
      /\ UNCHANGED <<cfg, pool, latencyVars>>
  BY <1>1, CallFacts DEF WalkHTTP, Current, callVars, envVars, initVars
<1>3. CASE o.triedHTTP
  <2>1. PICK q : q = Advance(r)
    OBVIOUS
  <2>2. req' = [req EXCEPT ![r] = q]
    BY <1>1, <1>3, <2>1 DEF WalkHTTP
  <2>3. /\ q \in Calls(cfg) /\ q.own = o.own /\ q.pc = "walk" /\ q.i = o.i + 1
        /\ q.skipped = o.skipped /\ q.tried = o.tried /\ q.triedHTTP = o.triedHTTP
    BY <1>1, <1>2, <2>1, AdvanceFields
  <2>4. CallInv(q, Slice(r), cfg)
    BY <1>2, <1>3, <2>3, MovePass
  <2> QED BY <1>1, <1>2, <2>2, <2>3, <2>4, CallGoesOn
<1>4. CASE ~o.triedHTTP
  <2>1. PICK q : q = [o EXCEPT !.pc = "snapshot", !.triedHTTP = TRUE]
    OBVIOUS
  <2>2. req' = [req EXCEPT ![r] = q]
    BY <1>1, <1>4, <2>1 DEF WalkHTTP
  <2>3. q \in Calls(cfg)
    BY <2>1 DEF Calls, Walking, AskingHTTP
  <2>4. /\ q.own = o.own /\ q.pc = "snapshot" /\ q.i = o.i
        /\ q.skipped = o.skipped /\ q.tried = o.tried /\ q.triedHTTP = TRUE
    BY <2>1 DEF Calls
  <2>5. q.pc \in AskingHTTP /\ q.pc \notin {"http", "mark"}
    BY <2>4 DEF AskingHTTP
  <2>6. CallInv(q, Slice(r), cfg)
    BY <1>2, <2>4, <2>5, MoveAsk
  <2> QED BY <1>1, <1>2, <2>2, <2>3, <2>4, <2>6, CallGoesOn
<1> QED BY <1>3, <1>4

\* WalkSkip keeps ConnectInv.
LEMMA WalkSkipStep ==
  ASSUME ConnectInv, NEW r \in Requests, WalkSkip(r)
  PROVE  ConnectInv'
<1>1. PICK o \in Calls(cfg) : o = req[r]
  BY CallFacts
<1>2. /\ cfg \in Settings /\ Complete(Slice(r), cfg) /\ CallInv(o, Slice(r), cfg)
      /\ o.pc = "walk" /\ o.i <= Len(cfg.parents) /\ Slice(r)[o.i].parent \notin cfg.http
      /\ Current(r) = Slice(r)[o.i].parent
      /\ UNCHANGED <<cfg, pool, latencyVars>>
  BY <1>1, CallFacts DEF WalkSkip, Current, callVars, envVars, initVars
<1>3. PICK a : a = Advance(r)
  OBVIOUS
<1>4. /\ a \in Calls(cfg) /\ a.own = o.own /\ a.pc = "walk" /\ a.i = o.i + 1
      /\ a.skipped = o.skipped /\ a.tried = o.tried /\ a.triedHTTP = o.triedHTTP
  BY <1>1, <1>2, <1>3, AdvanceFields
<1>5. PICK q : q = [a EXCEPT !.skipped = Append(@, Current(r))]
  OBVIOUS
<1>6. req' = [req EXCEPT ![r] = q]
  BY <1>3, <1>5 DEF WalkSkip
<1>7. o.i \in 1 .. Len(cfg.parents)
  BY <1>2, SettingFacts DEF Calls
<1>8. Current(r) \in NotHTTP(cfg) /\ o.skipped \in Seq(NotHTTP(cfg))
  BY <1>2, <1>7, NextUnseen DEF NotHTTP, Calls
<1>9. Append(a.skipped, Current(r)) \in Seq(NotHTTP(cfg))
  BY <1>4, <1>8, AppendRange
<1>10. /\ q \in Calls(cfg) /\ q.own = o.own /\ q.pc = "walk" /\ q.i = o.i + 1
       /\ q.skipped = Append(o.skipped, Current(r)) /\ q.tried = o.tried
       /\ q.triedHTTP = o.triedHTTP
  BY <1>4, <1>5, <1>9 DEF Calls
<1>11. CallInv(q, Slice(r), cfg)
  BY <1>2, <1>10, MoveSkip
<1> QED BY <1>1, <1>2, <1>6, <1>10, <1>11, CallGoesOn

\* WalkDial keeps ConnectInv.
LEMMA WalkDialStep ==
  ASSUME ConnectInv, NEW r \in Requests, WalkDial(r)
  PROVE  ConnectInv'
<1>1. PICK o \in Calls(cfg) : o = req[r]
  BY CallFacts
<1>2. /\ cfg \in Settings /\ Complete(Slice(r), cfg) /\ CallInv(o, Slice(r), cfg)
      /\ o.pc = "walk" /\ (InRound(r) <=> o.i <= Len(cfg.parents))
      /\ UNCHANGED <<cfg, pool, latencyVars>>
  BY <1>1, CallFacts DEF WalkDial, callVars, envVars, initVars
<1>3. o.i \in 1 .. Len(cfg.parents) + 1 /\ Len(cfg.parents) \in Nat
      /\ o.skipped \in Seq(NotHTTP(cfg)) /\ o.tried \in Seq(NotHTTP(cfg))
  BY <1>2, SettingFacts DEF Calls
<1>4. PICK p : p = Current(r)
  OBVIOUS
<1>5. PICK q : q = [o EXCEPT !.pc = "dial", !.tried = Append(@, p)]
  OBVIOUS
<1>6. req' = [req EXCEPT ![r] = q]
  BY <1>1, <1>4, <1>5 DEF WalkDial, ConnectInv, CallsInv
<1>7. CASE o.i <= Len(cfg.parents)
  <2>0. o.i \in 1 .. Len(cfg.parents)
    BY <1>3, <1>7
  <2>1. p = Slice(r)[o.i].parent /\ p \notin cfg.http /\ o.i \in 1 .. Len(cfg.parents)
    BY <1>1, <1>2, <1>4, <1>7, <2>0 DEF WalkDial, Current
  <2>2. p \in NotHTTP(cfg)
    BY <1>2, <2>1, NextUnseen DEF NotHTTP
  <2>3. Append(o.tried, p) \in Seq(NotHTTP(cfg))
    BY <1>3, <2>2, AppendRange
  <2>4. /\ q \in Calls(cfg) /\ q.own = o.own /\ q.pc = "dial" /\ q.i = o.i
        /\ q.skipped = o.skipped /\ q.tried = Append(o.tried, p) /\ q.triedHTTP = o.triedHTTP
    BY <1>5, <2>3 DEF Calls, Walking, Dialling
  <2>5. CallInv(q, Slice(r), cfg)
    BY <1>2, <1>7, <2>1, <2>4, MoveDial
  <2> QED BY <1>1, <1>2, <1>6, <2>4, <2>5, CallGoesOn
<1>8. CASE ~(o.i <= Len(cfg.parents))
  <2>1. p = Head(o.skipped) /\ o.skipped # << >>
    BY <1>1, <1>2, <1>4, <1>8 DEF WalkDial, Current
  <2>2. p \in NotHTTP(cfg)
    BY <1>3, <2>1, TailRange
  <2>3. Append(o.tried, p) \in Seq(NotHTTP(cfg))
    BY <1>3, <2>2, AppendRange
  <2>4. /\ q \in Calls(cfg) /\ q.own = o.own /\ q.pc = "dial" /\ q.i = o.i
        /\ q.skipped = o.skipped /\ q.tried = Append(o.tried, p) /\ q.triedHTTP = o.triedHTTP
    BY <1>5, <2>3 DEF Calls, Walking, Dialling
  <2>5. CallInv(q, Slice(r), cfg)
    BY <1>2, <1>8, <2>1, <2>4, MoveRedial
  <2> QED BY <1>1, <1>2, <1>6, <2>4, <2>5, CallGoesOn
<1> QED BY <1>7, <1>8

\* The parent that a call is dialling.
LEMMA CurrentFacts ==
  ASSUME ConnectInv, NEW r \in Requests, req[r].pc \in Dialling
  PROVE  /\ Current(r) \in NotHTTP(cfg)
         /\ req[r].i <= Len(cfg.parents) \/ req[r].skipped # << >>
<1>1. PICK o \in Calls(cfg) : o = req[r]
  BY CallFacts
<1>2. /\ cfg \in Settings /\ Complete(Slice(r), cfg) /\ WalkInv(o, Slice(r), cfg)
      /\ o.pc \in Dialling /\ o.pc \in Walking /\ (InRound(r) <=> o.i <= Len(cfg.parents))
  BY <1>1, CallFacts DEF CallInv, Walking
<1>3. o.i \in 1 .. Len(cfg.parents) + 1 /\ Len(cfg.parents) \in Nat
      /\ o.skipped \in Seq(NotHTTP(cfg))
  BY <1>2, SettingFacts DEF Calls
<1>4. CASE o.i <= Len(cfg.parents)
  <2>1. o.i \in 1 .. Len(cfg.parents)
    BY <1>3, <1>4
  <2>2. Slice(r)[o.i].parent \in NotHTTP(cfg)
    BY <1>2, <1>4, <2>1, NextUnseen DEF WalkInv, NotHTTP
  <2> QED BY <1>1, <1>2, <1>4, <2>2 DEF Current
<1>5. CASE ~(o.i <= Len(cfg.parents))
  <2>1. o.skipped # << >>
    BY <1>2, <1>5 DEF WalkInv
  <2>2. Head(o.skipped) \in NotHTTP(cfg)
    BY <1>3, <2>1, TailRange
  <2> QED BY <1>1, <1>2, <1>5, <2>1, <2>2 DEF Current
<1> QED BY <1>4, <1>5

\* DialOK keeps ConnectInv.
LEMMA DialOKStep ==
  ASSUME ConnectInv, NEW r \in Requests, DialOK(r)
  PROVE  ConnectInv'
<1>1. PICK o \in Calls(cfg) : o = req[r]
  BY CallFacts
<1>2. PICK q : q = [o EXCEPT !.pc = "connected"]
  OBVIOUS
<1>3. req' = [req EXCEPT ![r] = q] /\ UNCHANGED <<cfg, pool, latencyVars>>
  BY <1>1, <1>2 DEF DialOK, ConnectInv, CallsInv, callVars, envVars, initVars
<1>4. q \in Calls(cfg) /\ q.own = o.own /\ q.pc = "connected" /\ q.tried = o.tried
  BY <1>2 DEF Calls
<1>5. CallInv(q, Slice(r), cfg)
  BY <1>1, <1>4, CallFacts, MoveEnd
<1> QED BY <1>1, <1>3, <1>4, <1>5, CallGoesOn

\* What the call is after a dial that failed.
LEMMA LeaveFacts ==
  ASSUME ConnectInv, NEW r \in Requests, req[r].pc \in Dialling, NEW q, q = Advance(r)
  PROVE  q \in Calls(cfg) /\ q.own = req[r].own /\ CallInv(q, Slice(r), cfg)
<1>1. PICK o \in Calls(cfg) : o = req[r]
  BY CallFacts
<1>2. /\ cfg \in Settings /\ CallInv(o, Slice(r), cfg) /\ o.pc \in Dialling
      /\ o.i <= Len(cfg.parents) \/ o.skipped # << >>
  BY <1>1, CallFacts, CurrentFacts
<1>3. /\ q \in Calls(cfg) /\ q.own = o.own /\ q.pc = "walk"
      /\ q.i = IF o.i <= Len(cfg.parents) THEN o.i + 1 ELSE o.i
      /\ q.skipped = IF o.i <= Len(cfg.parents) THEN o.skipped ELSE Tail(o.skipped)
      /\ q.tried = o.tried /\ q.triedHTTP = o.triedHTTP
  BY <1>1, <1>2, AdvanceFields
<1>4. CallInv(q, Slice(r), cfg)
  BY <1>2, <1>3, MoveLeave
<1> QED BY <1>1, <1>3, <1>4

\* DialFails keeps ConnectInv.
LEMMA DialFailsStep ==
  ASSUME ConnectInv, NEW r \in Requests, DialFails(r)
  PROVE  ConnectInv'
<1>1. PICK o \in Calls(cfg) : o = req[r]
  BY CallFacts
<1>2. PICK noted \in Noted(r) :
        req' = [req EXCEPT ![r] = IF noted THEN [@ EXCEPT !.pc = "note"] ELSE Advance(r)]
  BY DEF DialFails
<1>3. o.pc = "dial" /\ req[r].pc \in Dialling /\ UNCHANGED <<cfg, pool, latencyVars>>
  BY <1>1 DEF DialFails, callVars, envVars, initVars, Dialling
<1>4. CASE noted
  <2>1. PICK q : q = [o EXCEPT !.pc = "note"]
    OBVIOUS
  <2>2. req' = [req EXCEPT ![r] = q]
    BY <1>1, <1>2, <1>4, <2>1
  <2>3. /\ q \in Calls(cfg) /\ q.own = o.own /\ q.pc = "note" /\ q.i = o.i
        /\ q.skipped = o.skipped /\ q.tried = o.tried /\ q.triedHTTP = o.triedHTTP
    BY <2>1 DEF Calls, Walking, Dialling
  <2>4. CallInv(q, Slice(r), cfg)
    BY <1>1, <1>3, <2>3, CallFacts, MoveNote
  <2> QED BY <1>1, <1>3, <2>2, <2>3, <2>4, CallGoesOn
<1>5. CASE ~noted
  <2>1. PICK q : q = Advance(r)
    OBVIOUS
  <2>2. req' = [req EXCEPT ![r] = q]
    BY <1>2, <1>5, <2>1
  <2>3. q \in Calls(cfg) /\ q.own = req[r].own /\ CallInv(q, Slice(r), cfg)
    BY <1>3, <2>1, LeaveFacts
  <2> QED BY <1>3, <2>2, <2>3, CallGoesOn
<1> QED BY <1>4, <1>5

\* NoteFailure keeps ConnectInv, with its setLatency in the latency pool.
LEMMA NoteFailureStep ==
  ASSUME ConnectInv, NEW r \in Requests, NoteFailure(r)
  PROVE  ConnectInv'
<1>1. PICK q : q = Advance(r)
  OBVIOUS
<1>2. /\ req' = [req EXCEPT ![r] = q] /\ req[r].pc \in Dialling
      /\ UNCHANGED <<cfg, pool, updater, copy>>
  BY <1>1 DEF NoteFailure, callVars, envVars, initVars, Dialling
<1>3. q \in Calls(cfg) /\ q.own = req[r].own /\ CallInv(q, Slice(r), cfg)
  BY <1>1, <1>2, LeaveFacts
<1>4. /\ cfg \in Settings /\ Complete(list, cfg) /\ Slice(r) = SliceOf(req[r], list)
      /\ req[r].own # << >> => Complete(req[r].own, cfg)
  BY CallFacts DEF ConnectInv, ListInv
<1>5. Complete(list', cfg) /\ SameParents(list, list', cfg)
  <2>1. CASE req[r].by # "latency"
    BY <1>4, <2>1 DEF NoteFailure, SameParents
  <2>2. CASE req[r].by = "latency"
    <3>1. Current(r) \in Range(cfg.parents) /\ latencyMax \in Nat
      BY <1>2, <1>4, CurrentFacts, SettingFacts DEF NotHTTP, latencyMax
    <3>2. list' = [i \in DOMAIN list |-> IF list[i].parent = Current(r)
                                         THEN Entry(Current(r), latencyMax) ELSE list[i]]
      BY <2>2 DEF NoteFailure
    <3> QED BY <1>4, <3>1, <3>2, NotedComplete
  <2> QED BY <2>1, <2>2
<1>6. CallState(q, list, cfg)
  BY <1>3, <1>4 DEF CallState, SliceOf
<1>7. \A x \in Requests : req'[x] = IF x = r THEN q ELSE req[x]
  BY <1>2 DEF ConnectInv, CallsInv
<1>8. \A x \in Requests : CallState(req'[x], list, cfg)
  BY <1>6, <1>7 DEF ConnectInv, CallsInv
<1>9. \A x \in Requests : CallState(req'[x], list', cfg)
  BY <1>4, <1>5, <1>8, SameCall
<1>10. req' = [x \in Requests |-> req'[x]]
  BY <1>2 DEF ConnectInv, CallsInv
<1>11. CallsInv'
  BY <1>2, <1>9, <1>10 DEF CallsInv
<1>12. ListInv'
  BY <1>2, <1>5 DEF ConnectInv, ListInv, N
<1> QED BY <1>11, <1>12 DEF ConnectInv

\* GiveUp keeps ConnectInv.
LEMMA GiveUpStep ==
  ASSUME ConnectInv, NEW r \in Requests, GiveUp(r)
  PROVE  ConnectInv'
<1>1. PICK o \in Calls(cfg) : o = req[r]
  BY CallFacts
<1>2. PICK q : q = [o EXCEPT !.pc = "failed"]
  OBVIOUS
<1>3. req' = [req EXCEPT ![r] = q] /\ UNCHANGED <<cfg, pool, latencyVars>>
  BY <1>1, <1>2 DEF GiveUp, ConnectInv, CallsInv, callVars, envVars, initVars
<1>4. /\ q \in Calls(cfg) /\ q.own = o.own /\ q.pc = "failed" /\ q.tried = o.tried
      /\ q.triedHTTP = o.triedHTTP
  BY <1>2 DEF Calls
<1>5. o.pc = "walk" /\ ~(o.i <= Len(cfg.parents)) /\ o.skipped = << >>
  BY <1>1, CallFacts DEF GiveUp
<1>6. cfg \in Settings /\ Complete(Slice(r), cfg) /\ CallInv(o, Slice(r), cfg)
  BY <1>1, CallFacts
<1>7. CallInv(q, Slice(r), cfg)
  BY <1>4, <1>5, <1>6, MoveFail
<1> QED BY <1>1, <1>3, <1>4, <1>7, CallGoesOn

\* Return keeps ConnectInv.
LEMMA ReturnStep ==
  ASSUME ConnectInv, NEW r \in Requests, Return(r)
  PROVE  ConnectInv'
<1>1. PICK o \in Calls(cfg) : o = req[r]
  BY CallFacts
<1>2. PICK q : q = Idle(o.calls)
  OBVIOUS
<1>3. req' = [req EXCEPT ![r] = q] /\ UNCHANGED <<cfg, pool, latencyVars>>
  BY <1>1, <1>2 DEF Return, callVars, envVars, initVars
<1>4. /\ cfg \in Settings /\ Len(cfg.parents) \in Nat /\ pool \in {"backup", "hash", "latency"}
      /\ CallInv(o, Slice(r), cfg)
  BY <1>1, CallFacts, SettingFacts DEF ConnectInv, ListInv
<1>5. q \in Calls(cfg) /\ q.own = << >> /\ q.pc = "idle" /\ q.tried = << >>
  <2>1. o.calls \in Nat /\ 1 \in 1 .. Len(cfg.parents) + 1
    BY <1>4 DEF Calls
  <2>2. << >> \in Seq(NotHTTP(cfg)) /\ << >> \in Seq(cfg.http) /\ << >> \in Seq(Entries(cfg))
    OBVIOUS
  <2> QED BY <1>2, <1>4, <2>1, <2>2 DEF Calls, Idle
<1>6. CallInv(q, list, cfg)
  <2>1. CallInv(q, Slice(r), cfg)
    BY <1>4, <1>5, MoveEnd
  <2> QED BY <1>5, <2>1 DEF CallInv, WalkInv, TriedInv, Walking, Dialling, AskingHTTP
<1>7. CallState(q, list, cfg)
  BY <1>5, <1>6 DEF CallState, SliceOf
<1> QED BY <1>3, <1>7, OneCall

-----------------------------------------------------------------------------
(* The invariant of the HTTP pool                                          *)

ProbeResults == [cfg.http -> {-1, latencyMax} \cup cfg.lats]
NodeTypes ==
  /\ lat \in [cfg.http -> Nat] /\ flag \subseteq cfg.http /\ available \in Seq(cfg.http)
  /\ probe \in [Requests \cup {"prober"} -> ProbeResults]
HTTPInv == NodeTypes /\ ListAgrees

\* A call that has met an HTTP parent.
LEMMA AskFacts ==
  ASSUME ConnectInv, NEW r \in Requests, req[r].pc \in AskingHTTP
  PROVE  /\ req[r].i <= Len(cfg.parents) /\ Slice(r)[req[r].i].parent \in cfg.http
         /\ req[r].triedHTTP /\ req[r].pc \in {"walk"} \cup AskingHTTP
         /\ req[r].pc \in {"http", "mark"} => req[r].nodes # << >>
<1>1. WalkInv(req[r], Slice(r), cfg) /\ req[r].pc \in Walking
  BY CallFacts DEF CallInv, Walking
<1> QED BY <1>1 DEF WalkInv

\* The HTTP pool had nothing that answers: on to the next parent, with any nodes.
LEMMA PassFacts ==
  ASSUME ConnectInv, NEW r \in Requests, req[r].pc \in AskingHTTP,
         NEW a, a = Advance(r), NEW t \in Seq(cfg.http), NEW q, q = a \/ q = [a EXCEPT !.nodes = t]
  PROVE  q \in Calls(cfg) /\ q.own = req[r].own /\ CallInv(q, Slice(r), cfg)
<1>1. PICK o \in Calls(cfg) : o = req[r]
  BY CallFacts
<1>2. /\ cfg \in Settings /\ Complete(Slice(r), cfg) /\ CallInv(o, Slice(r), cfg)
      /\ o.i <= Len(cfg.parents) /\ Slice(r)[o.i].parent \in cfg.http /\ o.triedHTTP
      /\ o.pc \in {"walk"} \cup AskingHTTP
  BY <1>1, CallFacts, AskFacts
<1>3. /\ a \in Calls(cfg) /\ a.own = o.own /\ a.pc = "walk" /\ a.i = o.i + 1
      /\ a.skipped = o.skipped /\ a.tried = o.tried /\ a.triedHTTP = o.triedHTTP
  BY <1>1, <1>2, AdvanceFields
<1>4. /\ q \in Calls(cfg) /\ q.own = o.own /\ q.pc = "walk" /\ q.i = o.i + 1
      /\ q.skipped = o.skipped /\ q.tried = o.tried /\ q.triedHTTP = o.triedHTTP
  BY <1>3 DEF Calls
<1>5. CallInv(q, Slice(r), cfg)
  BY <1>2, <1>4, MovePass
<1> QED BY <1>1, <1>4, <1>5

\* A call that is still at the HTTP pool.
AtPool(q, o, pc, t) == q = [o EXCEPT !.pc = pc, !.nodes = t]

\* A call that is in httpParentPool.connect stays where it is in its slice.
LEMMA StaysAtPool ==
  ASSUME ConnectInv, NEW r \in Requests, req[r].pc \in AskingHTTP, NEW pc \in AskingHTTP,
         NEW t \in Seq(cfg.http), pc \in {"http", "mark"} => t # << >>,
         NEW q, AtPool(q, req[r], pc, t)
  PROVE  q \in Calls(cfg) /\ q.own = req[r].own /\ CallInv(q, Slice(r), cfg)
<1>1. PICK o \in Calls(cfg) : o = req[r]
  BY CallFacts
<1>2. /\ cfg \in Settings /\ CallInv(o, Slice(r), cfg) /\ o.triedHTTP
      /\ o.i <= Len(cfg.parents) /\ Slice(r)[o.i].parent \in cfg.http
      /\ o.pc \in {"walk"} \cup AskingHTTP
  BY <1>1, CallFacts, AskFacts
<1>3. pc \in Walking
  BY DEF Walking
<1>4. q = [o EXCEPT !.pc = pc, !.nodes = t]
  BY <1>1 DEF AtPool
<1>5. /\ q \in Calls(cfg) /\ q.own = o.own /\ q.pc = pc /\ q.i = o.i /\ q.nodes = t
      /\ q.skipped = o.skipped /\ q.tried = o.tried /\ q.triedHTTP = o.triedHTTP
  BY <1>3, <1>4 DEF Calls
<1>6. /\ q.triedHTTP = TRUE /\ q.pc \in AskingHTTP
      /\ q.pc \in {"http", "mark"} => q.nodes # << >>
  BY <1>2, <1>5 DEF Calls
<1>7. CallInv(q, Slice(r), cfg)
  BY <1>2, <1>5, <1>6, MoveAsk
<1> QED BY <1>1, <1>5, <1>7

\* The nodes of a call, when they are not replaced.
LEMMA SameNodes ==
  ASSUME ConnectInv, NEW r \in Requests, NEW pc
  PROVE  /\ req[r].nodes \in Seq(cfg.http)
         /\ AtPool([req[r] EXCEPT !.pc = pc], req[r], pc, req[r].nodes)
<1>1. PICK o \in Calls(cfg) : o = req[r]
  BY CallFacts
<1>2. o.nodes \in Seq(cfg.http)
  BY DEF Calls
<1>3. AtPool([o EXCEPT !.pc = pc], o, pc, o.nodes)
  BY DEF Calls, AtPool
<1> QED BY <1>1, <1>2, <1>3

\* Snapshot keeps ConnectInv.
LEMMA SnapshotStep ==
  ASSUME ConnectInv, NodeTypes, NEW r \in Requests, Snapshot(r)
  PROVE  ConnectInv'
<1>1. /\ req[r].pc \in {"snapshot", "snapshot2"} /\ req[r].pc \in AskingHTTP
      /\ UNCHANGED <<cfg, pool, latencyVars>>
  BY DEF Snapshot, AskingHTTP, callVars, envVars, initVars
<1>2. CASE available # << >>
  <2>1. PICK q : q = [req[r] EXCEPT !.pc = "http", !.nodes = available]
    OBVIOUS
  <2>2. req' = [req EXCEPT ![r] = q]
    BY <1>2, <2>1 DEF Snapshot
  <2>3. /\ "http" \in AskingHTTP /\ available \in Seq(cfg.http)
        /\ AtPool(q, req[r], "http", available)
    BY <2>1 DEF AskingHTTP, NodeTypes, AtPool
  <2>4. q \in Calls(cfg) /\ q.own = req[r].own /\ CallInv(q, Slice(r), cfg)
    BY <1>1, <1>2, <2>1, <2>3, StaysAtPool
  <2> QED BY <1>1, <2>2, <2>4, CallGoesOn
<1>3. CASE available = << >> /\ req[r].pc = "snapshot"
  <2>1. PICK q : q = [req[r] EXCEPT !.pc = "probe"]
    OBVIOUS
  <2>2. req' = [req EXCEPT ![r] = q]
    BY <1>3, <2>1 DEF Snapshot
  <2>3. "probe" \in AskingHTTP /\ "probe" \notin {"http", "mark"}
    BY DEF AskingHTTP
  <2>4. req[r].nodes \in Seq(cfg.http) /\ AtPool(q, req[r], "probe", req[r].nodes)
    BY <2>1, SameNodes
  <2>5. q \in Calls(cfg) /\ q.own = req[r].own /\ CallInv(q, Slice(r), cfg)
    BY <1>1, <2>3, <2>4, StaysAtPool
  <2> QED BY <1>1, <2>2, <2>5, CallGoesOn
<1>4. CASE available = << >> /\ req[r].pc # "snapshot"
  <2>1. PICK q : q = Advance(r)
    OBVIOUS
  <2>2. req' = [req EXCEPT ![r] = q]
    BY <1>4, <2>1 DEF Snapshot
  <2>3. << >> \in Seq(cfg.http)
    OBVIOUS
  <2>4. q \in Calls(cfg) /\ q.own = req[r].own /\ CallInv(q, Slice(r), cfg)
    BY <1>1, <2>1, <2>3, PassFacts
  <2> QED BY <1>1, <2>2, <2>4, CallGoesOn
<1> QED BY <1>2, <1>3, <1>4

\* HTTPDial keeps ConnectInv.
LEMMA HTTPDialStep ==
  ASSUME ConnectInv, NEW r \in Requests, HTTPDial(r)
  PROVE  ConnectInv'
<1>1. req[r].pc = "http" /\ req[r].pc \in AskingHTTP /\ UNCHANGED <<cfg, pool, latencyVars>>
  BY DEF HTTPDial, AskingHTTP, callVars, envVars, initVars
<1>2. CASE Head(req[r].nodes) \in up
  <2>1. PICK o \in Calls(cfg) : o = req[r]
    BY CallFacts
  <2>2. PICK q : q = [o EXCEPT !.pc = "connected"]
    OBVIOUS
  <2>3. req' = [req EXCEPT ![r] = q]
    BY <1>2, <2>1, <2>2 DEF HTTPDial, ConnectInv, CallsInv
  <2>4. q \in Calls(cfg) /\ q.own = o.own /\ q.pc = "connected" /\ q.tried = o.tried
    BY <2>2 DEF Calls
  <2>5. CallInv(q, Slice(r), cfg)
    BY <2>1, <2>4, CallFacts, MoveEnd
  <2> QED BY <1>1, <2>1, <2>3, <2>4, <2>5, CallGoesOn
<1>3. CASE Head(req[r].nodes) \notin up
  <2>1. PICK q : q = [req[r] EXCEPT !.pc = "mark"]
    OBVIOUS
  <2>2. req' = [req EXCEPT ![r] = q]
    BY <1>3, <2>1 DEF HTTPDial, ConnectInv, CallsInv
  <2>3. "mark" \in AskingHTTP /\ req[r].nodes # << >>
    BY <1>1, AskFacts DEF AskingHTTP
  <2>4. req[r].nodes \in Seq(cfg.http) /\ AtPool(q, req[r], "mark", req[r].nodes)
    BY <2>1, SameNodes
  <2>5. q \in Calls(cfg) /\ q.own = req[r].own /\ CallInv(q, Slice(r), cfg)
    BY <1>1, <2>3, <2>4, StaysAtPool
  <2> QED BY <1>1, <2>2, <2>5, CallGoesOn
<1> QED BY <1>2, <1>3

\* HTTPMark keeps ConnectInv.
LEMMA HTTPMarkStep ==
  ASSUME ConnectInv, NEW r \in Requests, HTTPMark(r)
  PROVE  ConnectInv'
<1>1. req[r].pc = "mark" /\ req[r].pc \in AskingHTTP /\ UNCHANGED <<cfg, pool, latencyVars>>
  BY DEF HTTPMark, AskingHTTP, callVars, envVars, initVars
<1>2. PICK t : t = Tail(req[r].nodes)
  OBVIOUS
<1>3. t \in Seq(cfg.http)
  BY <1>1, <1>2, AskFacts, SameNodes, TailRange
<1>4. CASE t = << >>
  <2>1. PICK a : a = Advance(r)
    OBVIOUS
  <2>2. PICK q : q = [a EXCEPT !.nodes = t]
    OBVIOUS
  <2>3. req' = [req EXCEPT ![r] = q]
    BY <1>2, <1>4, <2>1, <2>2 DEF HTTPMark
  <2>4. q \in Calls(cfg) /\ q.own = req[r].own /\ CallInv(q, Slice(r), cfg)
    BY <1>1, <1>3, <2>1, <2>2, PassFacts
  <2> QED BY <1>1, <2>3, <2>4, CallGoesOn
<1>5. CASE t # << >>
  <2>1. PICK q : q = [req[r] EXCEPT !.pc = "http", !.nodes = t]
    OBVIOUS
  <2>2. req' = [req EXCEPT ![r] = q]
    BY <1>2, <1>5, <2>1 DEF HTTPMark
  <2>3. "http" \in AskingHTTP /\ AtPool(q, req[r], "http", t)
    BY <2>1 DEF AskingHTTP, AtPool
  <2>4. q \in Calls(cfg) /\ q.own = req[r].own /\ CallInv(q, Slice(r), cfg)
    BY <1>1, <1>3, <1>5, <2>1, <2>3, StaysAtPool
  <2> QED BY <1>1, <2>2, <2>4, CallGoesOn
<1> QED BY <1>4, <1>5

\* Nothing happens to the calls and the list.
LEMMA SameCalls ==
  ASSUME ConnectInv, UNCHANGED <<cfg, pool, latencyVars, req>>
  PROVE  ConnectInv'
BY DEF ConnectInv, ListInv, CallsInv, latencyVars, N

\* updateAvailable, by the prober or by a call, keeps ConnectInv.
LEMMA ProbesStep ==
  ASSUME ConnectInv, NEW g \in Requests \cup {"prober"}, Probes(g)
  PROVE  ConnectInv'
<1>1. ASSUME NEW n \in cfg.http, ProbeNode(g, n) PROVE ConnectInv'
  BY <1>1, SameCalls DEF ProbeNode, envVars, initVars
<1>2. CASE ProbeEnd(g) /\ g = "prober"
  BY <1>2, SameCalls DEF ProbeEnd, envVars, initVars
<1>3. CASE ProbeEnd(g) /\ g # "prober"
  <2>1. PICK q : q = [req[g] EXCEPT !.pc = "snapshot2"]
    OBVIOUS
  <2>2. /\ req' = [req EXCEPT ![g] = q] /\ g \in Requests
        /\ req[g].pc \in AskingHTTP /\ UNCHANGED <<cfg, pool, latencyVars>>
    BY <1>3, <2>1 DEF ProbeEnd, Probing, ConnectInv, CallsInv, AskingHTTP, envVars, initVars
  <2>3. "snapshot2" \in AskingHTTP /\ "snapshot2" \notin {"http", "mark"}
    BY DEF AskingHTTP
  <2>4. /\ req[g].nodes \in Seq(cfg.http)
        /\ AtPool(q, req[g], "snapshot2", req[g].nodes)
    BY <2>1, <2>2, SameNodes
  <2>5. q \in Calls(cfg) /\ q.own = req[g].own /\ CallInv(q, Slice(g), cfg)
    BY <2>2, <2>3, <2>4, StaysAtPool
  <2> QED BY <2>2, <2>5, CallGoesOn
<1> QED BY <1>1, <1>2, <1>3 DEF Probes

\* The calls that walk the old list take it along.
LEMMA UpdaterStep ==
  ASSUME ConnectInv, Updater
  PROVE  ConnectInv'
<1>1. cfg \in Settings /\ Complete(list, cfg) /\ N = Len(cfg.parents) /\ N \in Nat
  BY SettingFacts DEF ConnectInv, ListInv, N
<1>2. CASE UpdaterBegin
  BY <1>2 DEF UpdaterBegin, ConnectInv, ListInv, CallsInv, N, envVars, initVars
<1>3. CASE UpdaterCopy
  <2>1. copy'.list = list /\ copy'.done = 0 /\ UNCHANGED <<cfg, pool, list, req>>
    BY <1>3 DEF UpdaterCopy, envVars, initVars
  <2>2. ListInv'
    BY <1>1, <2>1 DEF ConnectInv, ListInv, N
  <2> QED BY <2>1, <2>2 DEF ConnectInv, CallsInv
<1>4. CASE UpdaterMeasure
  <2>1. PICK s, d : s = copy.list /\ d = copy.done
    OBVIOUS
  <2>2. Complete(s, cfg) /\ d \in 0 .. N /\ d < N
    BY <1>4, <2>1 DEF UpdaterMeasure, ConnectInv, ListInv
  <2>3. PICK l \in (IF s[d + 1].parent \in up THEN cfg.lats ELSE {Penalty, latencyMax}) :
          copy' = [list |-> [s EXCEPT ![d + 1] = Entry(s[d + 1].parent, l)], done |-> d + 1]
    BY <1>4, <2>1 DEF UpdaterMeasure
  <2>4. l \in Nat /\ d + 1 \in 1 .. N
    BY <1>1, <2>2, SettingFacts DEF Penalty, latencyMax
  <2>5. PICK t : t = [s EXCEPT ![d + 1] = Entry(s[d + 1].parent, l)]
    OBVIOUS
  <2>6. Complete(t, cfg)
    BY <1>1, <2>2, <2>4, <2>5, MeasuredComplete
  <2>7. copy'.list = t /\ copy'.done = d + 1 /\ UNCHANGED <<cfg, pool, list, req>>
    BY <1>4, <2>3, <2>5 DEF UpdaterMeasure, envVars, initVars
  <2>8. d + 1 \in 0 .. N
    BY <1>1, <2>2
  <2>9. ListInv'
    BY <1>1, <2>6, <2>7, <2>8 DEF ConnectInv, ListInv, N
  <2> QED BY <2>7, <2>9 DEF ConnectInv, CallsInv
<1>5. CASE UpdaterReplace
  <2>1. /\ list' = Sorted(copy.list) /\ updater' = "sleep" /\ UNCHANGED <<cfg, pool>>
        /\ Complete(copy.list, cfg)
        /\ req' = [r \in Requests |->
             IF req[r].own = << >> /\ req[r].pc \notin {"idle", "failed", "connected"}
             THEN [req[r] EXCEPT !.own = list] ELSE req[r]]
    BY <1>5 DEF UpdaterReplace, ConnectInv, ListInv, envVars, initVars
  <2>2. ListInv'
    <3>1. Complete(list', cfg)
      BY <1>1, <2>1, SortedComplete
    <3> QED BY <2>1, <3>1 DEF ConnectInv, ListInv
  <2>3. ASSUME NEW r \in Requests PROVE CallState(req'[r], list', cfg)
    <3>1. PICK o \in Calls(cfg) : o = req[r]
      BY CallFacts
    <3>2. CallState(o, list, cfg)
      BY <3>1 DEF ConnectInv, CallsInv
    <3>3. CASE o.own = << >> /\ o.pc \notin {"idle", "failed", "connected"}
      <4>1. PICK q : q = [o EXCEPT !.own = list]
        OBVIOUS
      <4>2. req'[r] = q
        BY <2>1, <3>1, <3>3, <4>1
      <4>3. list \in Seq(Entries(cfg))
        BY <1>1 DEF Complete
      <4>4. /\ q \in Calls(cfg) /\ q.own = list /\ q.pc = o.pc /\ q.i = o.i /\ q.nodes = o.nodes
            /\ q.skipped = o.skipped /\ q.tried = o.tried /\ q.triedHTTP = o.triedHTTP
        BY <4>1, <4>3 DEF Calls
      <4>5. SliceOf(o, list) = list /\ CallInv(o, list, cfg)
        BY <3>2, <3>3 DEF SliceOf, CallState
      <4>6. SameParents(list, SliceOf(q, list'), cfg)
        <5>1. CASE list = << >>
          <6>1. Len(cfg.parents) = 0
            BY <1>1, <5>1 DEF Complete
          <6>2. 1 .. Len(cfg.parents) = {}
            BY <6>1
          <6> QED BY <6>2 DEF SameParents
        <5>2. CASE list # << >>
          BY <4>4, <5>2 DEF SliceOf, SameParents
        <5> QED BY <5>1, <5>2
      <4>7. CallInv(q, SliceOf(q, list'), cfg)
        BY <1>1, <4>4, <4>5, <4>6, SameWalk
      <4> QED BY <1>1, <4>2, <4>4, <4>7 DEF CallState
    <3>4. CASE o.own # << >>
      <4>1. req'[r] = o
        BY <2>1, <3>1, <3>4
      <4>2. SliceOf(o, list') = SliceOf(o, list)
        BY <3>4 DEF SliceOf
      <4> QED BY <3>2, <4>1, <4>2 DEF CallState
    <3>5. CASE o.pc \in {"idle", "failed", "connected"}
      <4>1. req'[r] = o
        BY <2>1, <3>1, <3>5
      <4>2. o.pc \notin Walking
        BY <3>5 DEF Walking, Dialling, AskingHTTP
      <4>3. CallInv(o, SliceOf(o, list'), cfg)
        BY <3>2, <4>2 DEF CallState, CallInv, WalkInv
      <4> QED BY <3>2, <4>1, <4>3 DEF CallState
    <3> QED BY <3>3, <3>4, <3>5
  <2>4. req' = [r \in Requests |-> req'[r]]
    BY <2>1
  <2>5. CallsInv'
    BY <2>1, <2>3, <2>4 DEF CallsInv
  <2> QED BY <2>2, <2>5 DEF ConnectInv
<1> QED BY <1>2, <1>3, <1>4, <1>5 DEF Updater

\* initParentPool keeps ConnectInv.
LEMMA InitPoolStep ==
  ASSUME ConnectInv, InitPool
  PROVE  ConnectInv'
<1>1. CASE InitStart
  BY <1>1 DEF InitStart, ConnectInv, ListInv, CallsInv, N, envVars
<1>2. CASE InitAssign
  <2>1. Strategy \in {"backup", "hash", "latency"}
    BY ParentAssumption DEF Strategy, ConnectInv, ListInv
  <2>2. pool' = Strategy /\ UNCHANGED <<cfg, list, updater, copy, req>>
    BY <1>2 DEF InitAssign, envVars, latencyVars
  <2> QED BY <2>1, <2>2 DEF ConnectInv, ListInv, CallsInv, N
<1> QED BY <1>1, <1>2 DEF InitPool

\* Every step keeps ConnectInv.
LEMMA ConnectStep ==
  ASSUME ConnectInv, NodeTypes, [Next]_vars
  PROVE  ConnectInv'
<1>1. CASE Flip
  BY <1>1, SameCalls DEF Flip, initVars
<1>2. CASE InitPool
  BY <1>2, InitPoolStep
<1>3. CASE Updater
  BY <1>3, UpdaterStep
<1>4. CASE Prober
  <2>1. CASE ProbeTick
    BY <2>1, SameCalls DEF ProbeTick, envVars, initVars
  <2>2. CASE Probes("prober")
    BY <2>2, ProbesStep
  <2> QED BY <1>4, <2>1, <2>2 DEF Prober
<1>5. CASE Quiet \/ UNCHANGED vars
  BY <1>5, SameCalls DEF Quiet, vars, envVars, initVars
<1>6. ASSUME NEW r \in Requests, Call(r) PROVE ConnectInv'
  BY <1>6, StartStep, WalkHTTPStep, WalkSkipStep, WalkDialStep, DialOKStep, DialFailsStep,
     NoteFailureStep, SnapshotStep, ProbesStep, HTTPDialStep, HTTPMarkStep, GiveUpStep,
     ReturnStep DEF Call
<1> QED BY <1>1, <1>2, <1>3, <1>4, <1>5, <1>6 DEF Next

\* A sequence of a set in some order has every element of it once.
LEMMA OrderedSet ==
  ASSUME NEW S, IsFiniteSet(S), NEW s \in SetToSeqs(S)
  PROVE  s \in Seq(S) /\ IsInjective(s) /\ Range(s) = S
<1>1. PICK n \in Nat : n = Cardinality(S)
  BY FS_CardinalityType
<1>2. s \in [1 .. n -> S] /\ \A i, j \in 1 .. n : i # j => s[i] # s[j]
  BY <1>1 DEF SetToSeqs
<1>3. IsInjective(s)
  BY <1>2 DEF IsInjective
<1>4. s \in Injection(1 .. n, S)
  BY <1>2, <1>3 DEF Injection
<1>5. IsFiniteSet(1 .. n) /\ Cardinality(1 .. n) = n
  BY FirstNumbers
<1>6. s \in Surjection(1 .. n, S)
  BY <1>1, <1>4, <1>5, FS_Injection
<1>7. Range(s) = S
  BY <1>2, <1>6 DEF Surjection, Range
<1> QED BY <1>2, <1>3, <1>7

\* Nothing happens to the nodes.
LEMMA SameList ==
  ASSUME HTTPInv, UNCHANGED <<cfg, httpVars, probe>>
  PROVE  HTTPInv'
<1>1. latencyMax' = latencyMax
  BY DEF latencyMax
<1>2. NodeTypes'
  BY <1>1 DEF HTTPInv, NodeTypes, ProbeResults, httpVars
<1>3. ListAgrees'
  BY <1>1 DEF HTTPInv, ListAgrees, httpVars
<1> QED BY <1>2, <1>3 DEF HTTPInv

\* One result of a probe keeps HTTPInv.
LEMMA ProbeNodeList ==
  ASSUME HTTPInv, NEW g \in Requests \cup {"prober"}, NEW n \in cfg.http, ProbeNode(g, n)
  PROVE  HTTPInv'
<1>1. PICK l \in (IF n \in up THEN cfg.lats ELSE {latencyMax}) : probe' = [probe EXCEPT ![g][n] = l]
  BY DEF ProbeNode
<1>2. UNCHANGED <<cfg, lat, flag, available>>
  BY DEF ProbeNode, envVars, httpVars
<1>3. latencyMax' = latencyMax /\ ProbeResults' = ProbeResults
  BY <1>2 DEF latencyMax, ProbeResults
<1>4. probe' \in [Requests \cup {"prober"} -> ProbeResults]
  BY <1>1 DEF HTTPInv, NodeTypes, ProbeResults
<1>5. NodeTypes'
  BY <1>2, <1>3, <1>4 DEF HTTPInv, NodeTypes
<1>6. ListAgrees'
  BY <1>2, <1>3 DEF HTTPInv, ListAgrees
<1> QED BY <1>5, <1>6 DEF HTTPInv

\* When the results are applied, list, flags and latencies change together.
LEMMA ProbeEndList ==
  ASSUME HTTPInv, cfg \in Settings, NEW g \in Requests \cup {"prober"}, ProbeEnd(g)
  PROVE  HTTPInv'
<1>1. PICK f : f = probe[g]
  OBVIOUS
<1>2. /\ f \in ProbeResults /\ \A n \in cfg.http : f[n] # -1
      /\ probe' = [probe EXCEPT ![g] = NoResults] /\ cfg' = cfg /\ Apply(f)
  BY <1>1 DEF HTTPInv, NodeTypes, ProbeEnd, envVars
<1>3. PICK ok : ok = {n \in cfg.http : f[n] < latencyMax}
  OBVIOUS
<1>4. /\ lat' = f /\ flag' = ok /\ available' \in SetToSeqs(ok)
      /\ \A i, j \in DOMAIN available' : i < j => f[available'[i]] <= f[available'[j]]
  BY <1>2, <1>3 DEF Apply
<1>5. IsFiniteSet(ok) /\ ok \subseteq cfg.http
  BY <1>3, SettingFacts, FS_Subset
<1>6. available' \in Seq(ok) /\ IsInjective(available') /\ Range(available') = ok
  BY <1>4, <1>5, OrderedSet
<1>7. latencyMax \in Nat /\ cfg.lats \subseteq Nat /\ \A l \in cfg.lats : l < latencyMax
  BY SettingFacts DEF latencyMax
<1>8. \A n \in cfg.http : f[n] \in cfg.lats \/ f[n] = latencyMax
  BY <1>2 DEF ProbeResults
<1>9. f \in [cfg.http -> Nat]
  BY <1>2, <1>7, <1>8 DEF ProbeResults
<1>10. \A n \in cfg.http \ ok : f[n] = latencyMax
  BY <1>3, <1>7, <1>8
<1>11. latencyMax' = latencyMax /\ ProbeResults' = ProbeResults
  BY <1>2 DEF latencyMax, ProbeResults
<1>12. probe' \in [Requests \cup {"prober"} -> ProbeResults]
  BY <1>2 DEF HTTPInv, NodeTypes, ProbeResults, NoResults
<1>13. available' \in Seq(cfg.http)
  BY <1>5, <1>6
<1>14. NodeTypes'
  BY <1>2, <1>4, <1>5, <1>9, <1>11, <1>12, <1>13 DEF NodeTypes
<1>15. ListAgrees'
  BY <1>2, <1>4, <1>6, <1>10, <1>11 DEF ListAgrees
<1> QED BY <1>14, <1>15 DEF HTTPInv

\* markUnavailable changes list, flag and latency together.
LEMMA HTTPMarkList ==
  ASSUME ConnectInv, HTTPInv, NEW r \in Requests, HTTPMark(r)
  PROVE  HTTPInv'
<1>1. PICK n : n = Head(req[r].nodes)
  OBVIOUS
<1>2. n \in cfg.http
  <2>1. req[r].pc = "mark" /\ req[r].pc \in AskingHTTP
    BY DEF HTTPMark, AskingHTTP
  <2>2. req[r].nodes \in Seq(cfg.http) /\ req[r].nodes # << >>
    BY <2>1, AskFacts, SameNodes
  <2> QED BY <1>1, <2>2, TailRange
<1>3. /\ flag' = flag \ {n} /\ lat' = [lat EXCEPT ![n] = latencyMax]
      /\ available' = Without(available, n) /\ UNCHANGED <<cfg, probe>>
  BY <1>1 DEF HTTPMark, markUnavailable, callVars, envVars, probeVars
<1>4. /\ lat \in [cfg.http -> Nat] /\ flag \subseteq cfg.http /\ available \in Seq(cfg.http)
      /\ Range(available) = flag /\ IsInjective(available)
      /\ \A i, j \in DOMAIN available : i < j => lat[available[i]] <= lat[available[j]]
      /\ \A x \in cfg.http \ flag : lat[x] \in {0, latencyMax}
  BY DEF HTTPInv, NodeTypes, ListAgrees
<1>5. /\ available' \in Seq(cfg.http) /\ IsInjective(available')
      /\ Range(available') = flag \ {n}
      /\ \A k, l \in DOMAIN available' : k < l =>
           \E i, j \in DOMAIN available : i < j /\ available'[k] = available[i]
                                                /\ available'[l] = available[j]
  BY <1>3, <1>4, WithoutFacts
<1>6. latencyMax \in Nat /\ latencyMax' = latencyMax /\ ProbeResults' = ProbeResults
  BY <1>3, SettingFacts DEF latencyMax, ProbeResults, ConnectInv, ListInv
<1>7. lat' \in [cfg.http -> Nat] /\ \A x \in cfg.http : lat'[x] = IF x = n THEN latencyMax ELSE lat[x]
  BY <1>2, <1>3, <1>4, <1>6
<1>8. \A k \in DOMAIN available' : available'[k] \in cfg.http /\ available'[k] # n
  BY <1>4, <1>5 DEF Range
<1>9. \A k, l \in DOMAIN available' : k < l => lat'[available'[k]] <= lat'[available'[l]]
  BY <1>4, <1>5, <1>7, <1>8
<1>10. \A x \in cfg.http \ flag' : lat'[x] \in {0, latencyMax}
  BY <1>3, <1>4, <1>7
<1>11. NodeTypes'
  BY <1>3, <1>4, <1>5, <1>6, <1>7 DEF HTTPInv, NodeTypes
<1>12. ListAgrees'
  BY <1>3, <1>5, <1>6, <1>9, <1>10 DEF ListAgrees
<1> QED BY <1>11, <1>12 DEF HTTPInv

\* Every step keeps HTTPInv.
LEMMA ListStep ==
  ASSUME ConnectInv, HTTPInv, [Next]_vars
  PROVE  HTTPInv'
<1>0. cfg \in Settings
  BY DEF ConnectInv, ListInv
<1>1. CASE Flip
  BY <1>1, SameList DEF Flip, probeVars
<1>2. CASE InitPool
  BY <1>2, SameList DEF InitPool, InitStart, InitAssign, envVars, probeVars
<1>3. CASE Updater
  BY <1>3, SameList
     DEF Updater, UpdaterBegin, UpdaterCopy, UpdaterMeasure, UpdaterReplace, envVars, probeVars
<1>4. ASSUME NEW g \in Requests \cup {"prober"}, Probes(g) PROVE HTTPInv'
  BY <1>0, <1>4, ProbeNodeList, ProbeEndList DEF Probes
<1>5. CASE Prober
  <2>1. CASE ProbeTick
    BY <2>1, SameList DEF ProbeTick, envVars
  <2> QED BY <1>4, <1>5, <2>1 DEF Prober
<1>6. CASE Quiet \/ UNCHANGED vars
  BY <1>6, SameList DEF Quiet, vars, envVars, probeVars
<1>7. ASSUME NEW r \in Requests, Call(r) PROVE HTTPInv'
  <2>1. CASE Start(r) \/ WalkHTTP(r) \/ WalkSkip(r) \/ WalkDial(r)
    BY <2>1, SameList DEF Start, WalkHTTP, WalkSkip, WalkDial, callVars, envVars, probeVars
  <2>2. CASE DialOK(r) \/ DialFails(r) \/ NoteFailure(r)
    BY <2>2, SameList DEF DialOK, DialFails, NoteFailure, callVars, envVars, probeVars
  <2>3. CASE Snapshot(r) \/ HTTPDial(r) \/ GiveUp(r) \/ Return(r)
    BY <2>3, SameList DEF Snapshot, HTTPDial, GiveUp, Return, callVars, envVars, probeVars
  <2> QED BY <1>4, <1>7, <2>1, <2>2, <2>3, HTTPMarkList DEF Call
<1> QED BY <1>1, <1>2, <1>3, <1>5, <1>6, <1>7 DEF Next

-----------------------------------------------------------------------------
(* The theorems                                                            *)

ParentInv == ConnectInv /\ HTTPInv

\* Init establishes ParentInv.
LEMMA ParentInit ==
  ASSUME Init
  PROVE  ParentInv
<1>1. cfg \in Settings /\ Complete(list, cfg) /\ Len(cfg.parents) \in Nat
  BY ConfiguredComplete DEF Init, N
<1>2. ListInv
  BY <1>1 DEF Init, ListInv
<1>3. PICK q : q = Idle(0)
  OBVIOUS
<1>4. q \in Calls(cfg) /\ q.own = << >> /\ q.pc = "idle" /\ q.tried = << >>
  <2>1. 0 \in Nat /\ 1 \in 1 .. Len(cfg.parents) + 1 /\ pool = "backup"
    BY <1>1 DEF Init
  <2>2. << >> \in Seq(NotHTTP(cfg)) /\ << >> \in Seq(cfg.http) /\ << >> \in Seq(Entries(cfg))
    OBVIOUS
  <2> QED BY <1>3, <2>1, <2>2 DEF Calls, Idle
<1>5. CallInv(q, list, cfg)
  BY <1>4 DEF CallInv, WalkInv, TriedInv, Walking, Dialling, AskingHTTP, IsInjective
<1>6. CallState(q, list, cfg)
  BY <1>4, <1>5 DEF CallState, SliceOf
<1>7. CallsInv
  BY <1>3, <1>6 DEF Init, CallsInv
<1>8. NodeTypes
  BY DEF Init, NodeTypes, ProbeResults, NoResults
<1>9. ListAgrees
  BY DEF Init, ListAgrees, Range, IsInjective
<1> QED BY <1>2, <1>7, <1>8, <1>9 DEF ParentInv, ConnectInv, HTTPInv

\* Each call of connect walks a complete list of the parents, which a new
\* measurement never replaces under it, and has dialled or put aside exactly
\* those it has gone past; the HTTP pool's list, flags and latencies agree.
THEOREM ParentInvHolds == Spec => []ParentInv
<1>1. Init => ParentInv
  BY ParentInit
<1>2. ParentInv /\ [Next]_vars => ParentInv'
  BY ConnectStep, ListStep DEF ParentInv, HTTPInv
<1> QED BY <1>1, <1>2, PTL DEF Spec

\* "return nil and error if all parent proxies fail": connectInOrder and
\* latencyParentPool.connect dial no parent twice and fail only when they
\* have dialled all, however many requests and probes there are.
THEOREM FailsAfterAll == Spec => []TriesAll
<1>1. ParentInv => TriesAll
  <2> SUFFICES ASSUME ParentInv PROVE TriesAll
    OBVIOUS
  <2>1. \A r \in Requests : TriedInv(req[r], cfg)
    BY DEF ParentInv, ConnectInv, CallsInv, CallState, CallInv
  <2> QED BY <2>1 DEF TriesAll, TriedInv, Others, NotHTTP, Parents
<1> QED BY <1>1, ParentInvHolds, PTL

\* httpParentPool keeps its list, the flags and the latencies in agreement,
\* for any overlap of updateAvailable and markUnavailable.
THEOREM HTTPListAgrees == Spec => []ListAgrees
<1>1. ParentInv => ListAgrees
  BY DEF ParentInv, HTTPInv
<1> QED BY <1>1, ParentInvHolds, PTL

=============================================================================
