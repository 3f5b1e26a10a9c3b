--------------------------- MODULE KeyspaceProofs ---------------------------
(* Proofs about modules Glob and Keyspace, for any keys, patterns and       *)
(* counts and any number of writes while a client scans.                    *)
EXTENDS Keyspace, DataLemmas

Words == Seq(0 .. 255)

(* The first bytes of a sequence. *)
LEMMA Beginning ==
    ASSUME NEW S, NEW s \in Seq(S), NEW n \in 0 .. Len(s)
    PROVE  /\ SubSeq(s, 1, n) \in Seq(S) /\ Len(SubSeq(s, 1, n)) = n
           /\ \A i \in 1 .. n : SubSeq(s, 1, n)[i] = s[i]
<1>1. Len(s) \in Nat /\ 1 \in Int /\ n \in Int /\ n \in Nat
  BY LenProperties
<1>2. \A i \in 1 .. n : s[i] \in S
  BY <1>1, ElementOfSeq
<1>3. /\ SubSeq(s, 1, n) \in Seq(S)
      /\ Len(SubSeq(s, 1, n)) = IF 1 <= n THEN n - 1 + 1 ELSE 0
      /\ \A i \in 1 .. n - 1 + 1 : SubSeq(s, 1, n)[i] = s[1 + i - 1]
  BY <1>1, <1>2, SubSeqProperties
<1>. QED BY <1>1, <1>3

----------------------------------------------------------------------------
(* The order of keys is total. *)

LEMMA WordType ==
    ASSUME NEW s \in Words
    PROVE  /\ DOMAIN s = 1 .. Len(s) /\ Len(s) \in Nat
           /\ \A i \in 1 .. Len(s) : s[i] \in 0 .. 255
           /\ \A i \in 1 .. Len(s) : s[i] \in Int
<1>1. DOMAIN s = 1 .. Len(s) /\ Len(s) \in Nat
  BY LenProperties DEF Words
<1>2. ASSUME NEW i \in 1 .. Len(s) PROVE s[i] \in 0 .. 255
  BY ElementOfSeq DEF Words
<1>3. ASSUME NEW i \in 1 .. Len(s) PROVE s[i] \in Int
  <2>1. PICK b \in 0 .. 255 : b = s[i]
    BY <1>2
  <2>. QED BY <2>1
<1>. QED BY <1>1, <1>2, <1>3

LEMMA SameWord ==
    ASSUME NEW s \in Words, NEW t \in Words, Len(s) = Len(t),
           \A i \in 1 .. Len(s) : s[i] = t[i]
    PROVE  s = t
BY SeqEqual DEF Words

LEMMA OrderReflexive ==
    ASSUME NEW s \in Words
    PROVE  AtMost(s, s)
BY WordType DEF AtMost, IsPrefix

LEMMA OrderAntisymmetric ==
    ASSUME NEW s \in Words, NEW t \in Words, AtMost(s, t), AtMost(t, s)
    PROVE  s = t
<1>1. IsPrefix(s, t) /\ IsPrefix(t, s)
  <2>. DEFINE Less(x, y, n) == /\ n \in DOMAIN x \cap DOMAIN y /\ x[n] < y[n]
                              /\ \A i \in 1 .. n - 1 : x[i] = y[i]
  <2>1. ASSUME NEW n, Less(s, t, n), IsPrefix(t, s) PROVE FALSE
    BY <2>1, WordType DEF IsPrefix
  <2>2. ASSUME NEW n, Less(t, s, n), IsPrefix(s, t) PROVE FALSE
    BY <2>2, WordType DEF IsPrefix
  <2>3. ASSUME NEW n, Less(s, t, n), NEW m, Less(t, s, m) PROVE FALSE
    <3>1. n \in Nat /\ m \in Nat /\ n >= 1 /\ m >= 1
      BY <2>3, WordType
    <3>2. CASE n < m
      BY <2>3, <3>1, <3>2, WordType
    <3>3. CASE m < n
      BY <2>3, <3>1, <3>3, WordType
    <3>4. CASE m = n
      BY <2>3, <3>1, <3>4, WordType
    <3>. QED BY <3>1, <3>2, <3>3, <3>4
  <2>4. /\ IsPrefix(s, t) \/ \E n : Less(s, t, n)
        /\ IsPrefix(t, s) \/ \E n : Less(t, s, n)
    BY DEF AtMost
  <2>. HIDE DEF Less
  <2>. QED BY <2>1, <2>2, <2>3, <2>4
<1>2. Len(s) = Len(t) /\ \A i \in 1 .. Len(s) : s[i] = t[i]
  BY <1>1, WordType DEF IsPrefix
<1>. QED BY <1>2, SameWord

LEMMA OrderTransitive ==
    ASSUME NEW s \in Words, NEW t \in Words, NEW u \in Words,
           AtMost(s, t), AtMost(t, u)
    PROVE  AtMost(s, u)
<1>1. CASE IsPrefix(s, t) /\ IsPrefix(t, u)
  BY <1>1, WordType DEF AtMost, IsPrefix
<1>2. CASE IsPrefix(s, t) /\ ~IsPrefix(t, u)
  <2>1. PICK n \in DOMAIN t \cap DOMAIN u :
            t[n] < u[n] /\ \A i \in 1 .. n - 1 : t[i] = u[i]
    BY <1>2 DEF AtMost
  <2>2. CASE n <= Len(s)
    <3>1. n \in DOMAIN s \cap DOMAIN u
      BY <2>1, <2>2, WordType
    <3>2. s[n] < u[n] /\ \A i \in 1 .. n - 1 : s[i] = u[i]
      BY <1>2, <2>1, <2>2, WordType DEF IsPrefix
    <3>. QED BY <3>1, <3>2 DEF AtMost
  <2>3. CASE ~ (n <= Len(s))
    <3>1. IsPrefix(s, u)
      BY <1>2, <2>1, <2>3, WordType DEF IsPrefix
    <3>. QED BY <3>1 DEF AtMost
  <2>. QED BY <2>2, <2>3
<1>3. CASE ~IsPrefix(s, t) /\ IsPrefix(t, u)
  <2>1. PICK n \in DOMAIN s \cap DOMAIN t :
            s[n] < t[n] /\ \A i \in 1 .. n - 1 : s[i] = t[i]
    BY <1>3 DEF AtMost
  <2>2. n \in DOMAIN s \cap DOMAIN u
    BY <1>3, <2>1, WordType DEF IsPrefix
  <2>3. s[n] < u[n] /\ \A i \in 1 .. n - 1 : s[i] = u[i]
    BY <1>3, <2>1, WordType DEF IsPrefix
  <2>. QED BY <2>2, <2>3 DEF AtMost
<1>4. CASE ~IsPrefix(s, t) /\ ~IsPrefix(t, u)
  <2>1. PICK n \in DOMAIN s \cap DOMAIN t :
            s[n] < t[n] /\ \A i \in 1 .. n - 1 : s[i] = t[i]
    BY <1>4 DEF AtMost
  <2>2. PICK m \in DOMAIN t \cap DOMAIN u :
            t[m] < u[m] /\ \A i \in 1 .. m - 1 : t[i] = u[i]
    BY <1>4 DEF AtMost
  <2>3. PICK k \in Nat : k = IF n < m THEN n ELSE m
    BY <2>1, <2>2, WordType
  <2>0. /\ DOMAIN s = 1 .. Len(s) /\ Len(s) \in Nat
        /\ DOMAIN t = 1 .. Len(t) /\ Len(t) \in Nat
        /\ DOMAIN u = 1 .. Len(u) /\ Len(u) \in Nat
        /\ \A i \in 1 .. Len(s) : s[i] \in Int
        /\ \A i \in 1 .. Len(t) : t[i] \in Int
        /\ \A i \in 1 .. Len(u) : u[i] \in Int
    BY WordType
  <2>4. k \in DOMAIN s \cap DOMAIN u
    BY <2>0, <2>1, <2>2, <2>3
  <2>5. ASSUME NEW i \in 1 .. k - 1 PROVE s[i] = u[i]
    <3>1. i \in 1 .. n - 1 /\ i \in 1 .. m - 1
      BY <2>0, <2>1, <2>2, <2>3
    <3>. QED BY <2>1, <2>2, <3>1
  <2>6. s[k] < u[k]
    <3>1. CASE n < m
      <4>1. k = n /\ k \in 1 .. m - 1
        BY <2>0, <2>1, <2>2, <2>3, <3>1
      <4>. QED BY <2>1, <2>2, <4>1
    <3>2. CASE n = m
      <4>1. /\ k = n /\ k = m /\ s[k] \in Int /\ t[k] \in Int /\ u[k] \in Int
            /\ s[k] < t[k] /\ t[k] < u[k]
        BY <2>0, <2>1, <2>2, <2>3, <3>2
      <4>. QED BY <4>1
    <3>3. CASE m < n
      <4>1. k = m /\ k \in 1 .. n - 1
        BY <2>0, <2>1, <2>2, <2>3, <3>3
      <4>. QED BY <2>1, <2>2, <4>1
    <3>. QED BY <2>0, <2>1, <2>2, <3>1, <3>2, <3>3
  <2>. QED BY <2>4, <2>5, <2>6 DEF AtMost
<1>. QED BY <1>1, <1>2, <1>3, <1>4

LEMMA OrderTotal ==
    ASSUME NEW s \in Words, NEW t \in Words
    PROVE  AtMost(s, t) \/ AtMost(t, s)
<1>. DEFINE D == {n \in DOMAIN s \cap DOMAIN t : s[n] # t[n]}
<1>1. CASE D = {}
  <2>1. IsPrefix(s, t) \/ IsPrefix(t, s)
    BY <1>1, WordType DEF IsPrefix
  <2>. QED BY <2>1 DEF AtMost
<1>2. CASE D # {}
  <2>1. D \in SUBSET Nat
    BY WordType
  <2>2. PICK n \in D : \A m \in D : n <= m
    <3>. HIDE DEF D
    <3>. QED BY <1>2, <2>1, LeastNumber
  <2>3. n \in DOMAIN s \cap DOMAIN t /\ (s[n] < t[n] \/ t[n] < s[n])
    BY WordType
  <2>4. \A i \in 1 .. n - 1 : s[i] = t[i]
    BY <2>2, WordType
  <2>. QED BY <2>3, <2>4 DEF AtMost
<1>. QED BY <1>1, <1>2

(* The empty word is before every other, and one bounds itself from above. *)
LEMMA OrderOfEmpty ==
    ASSUME NEW s \in Words
    PROVE  /\ AtMost(<<>>, s)
           /\ AtMost(s, <<>>) => s = <<>>
BY WordType DEF AtMost, IsPrefix, Words

----------------------------------------------------------------------------
(* Ranks: the keys of a finite set are numbered in their order. *)

LEMMA RankType ==
    ASSUME NEW S \in SUBSET Words, IsFiniteSet(S), NEW k \in S
    PROVE  Rank(S, k) \in 1 .. Cardinality(S)
<1>. DEFINE B == {l \in S : AtMost(l, k)}
<1>1. IsFiniteSet(B) /\ Cardinality(B) <= Cardinality(S)
  BY FS_Subset
<1>2. k \in B
  BY OrderReflexive
<1>3. Cardinality(B) \in Nat /\ Cardinality(S) \in Nat /\ Cardinality(B) # 0
  BY <1>1, <1>2, FS_CardinalityType, FS_EmptySet
<1>. QED BY <1>1, <1>3 DEF Rank

LEMMA RankOfLater ==
    ASSUME NEW S \in SUBSET Words, IsFiniteSet(S), NEW k \in S, NEW l \in S,
           AtMost(k, l), k # l
    PROVE  Rank(S, k) < Rank(S, l)
<1>. DEFINE B == {x \in S : AtMost(x, k)}
            C == {x \in S : AtMost(x, l)}
<1>1. B \subseteq C
  BY OrderTransitive DEF Words
<1>2. l \in C /\ l \notin B
  BY OrderReflexive, OrderAntisymmetric
<1>3. IsFiniteSet(C)
  BY FS_Subset
<1>4. /\ Cardinality(B) <= Cardinality(C) /\ B # C
      /\ Cardinality(C) = Cardinality(B) => C = B
  BY <1>1, <1>2, <1>3, FS_Subset
<1>5. Cardinality(B) \in Nat /\ Cardinality(C) \in Nat
  BY <1>1, <1>3, FS_Subset, FS_CardinalityType
<1>. QED BY <1>4, <1>5 DEF Rank

LEMMA OrderByRank ==
    ASSUME NEW S \in SUBSET Words, IsFiniteSet(S), NEW k \in S, NEW l \in S,
           Rank(S, k) <= Rank(S, l)
    PROVE  AtMost(k, l)
<1>1. SUFFICES ASSUME ~AtMost(k, l) PROVE FALSE
  OBVIOUS
<1>2. AtMost(l, k) /\ k # l
  BY <1>1, OrderTotal, OrderReflexive
<1>3. Rank(S, l) < Rank(S, k)
  BY <1>2, RankOfLater
<1>4. Rank(S, l) \in Nat /\ Rank(S, k) \in Nat
  BY RankType
<1>. QED BY <1>3, <1>4

LEMMA RankSurjective ==
    ASSUME NEW S \in SUBSET Words, IsFiniteSet(S), NEW i \in 1 .. Cardinality(S)
    PROVE  \E k \in S : Rank(S, k) = i
<1>. DEFINE r == [k \in S |-> Rank(S, k)]
            T == 1 .. Cardinality(S)
<1>1. r \in [S -> T]
  BY RankType
<1>2. \A k, l \in S : r[k] = r[l] => k = l
  <2>1. SUFFICES ASSUME NEW k \in S, NEW l \in S, Rank(S, k) = Rank(S, l)
                 PROVE  k = l
    OBVIOUS
  <2>2. Rank(S, k) <= Rank(S, l) /\ Rank(S, l) <= Rank(S, k)
    BY <2>1, RankType
  <2>3. AtMost(k, l) /\ AtMost(l, k)
    BY <2>2, OrderByRank
  <2>. QED BY <2>3, OrderAntisymmetric
<1>3. r \in Injection(S, T)
  <2>. HIDE DEF r, T
  <2>. QED BY <1>1, <1>2 DEF Injection, IsInjective
<1>4. IsFiniteSet(T) /\ Cardinality(T) = Cardinality(S)
  BY FS_CardinalityType, FS_Interval
<1>5. r \in Surjection(S, T)
  <2>. HIDE DEF r, T
  <2>. QED BY <1>3, <1>4, FS_Injection
<1>6. \E k \in S : r[k] = i
  <2>1. i \in T
    OBVIOUS
  <2>. HIDE DEF r, T
  <2>. QED BY <1>5, <2>1 DEF Surjection
<1>. QED BY <1>6

(* Ordered lists each key of the set once, in the order of keys. *)
LEMMA OrderedKeys ==
    ASSUME NEW S \in SUBSET Words, IsFiniteSet(S)
    PROVE  /\ Ordered(S) \in Seq(S) /\ Len(Ordered(S)) = Cardinality(S)
           /\ \A i \in 1 .. Cardinality(S) : Rank(S, Ordered(S)[i]) = i
           /\ \A k \in S : \E i \in 1 .. Cardinality(S) : Ordered(S)[i] = k
<1>1. Cardinality(S) \in Nat
  BY FS_CardinalityType
<1>2. ASSUME NEW i \in 1 .. Cardinality(S)
      PROVE  Ordered(S)[i] \in S /\ Rank(S, Ordered(S)[i]) = i
  BY RankSurjective DEF Ordered
<1>3. Ordered(S) \in [1 .. Cardinality(S) -> S]
  BY <1>2 DEF Ordered
<1>4. Ordered(S) \in Seq(S) /\ Len(Ordered(S)) = Cardinality(S)
  BY <1>1, <1>3
<1>5. ASSUME NEW k \in S
      PROVE  \E i \in 1 .. Cardinality(S) : Ordered(S)[i] = k
  <2>1. PICK i \in 1 .. Cardinality(S) : Rank(S, k) = i
    BY RankType
  <2>2. Ordered(S)[i] \in S /\ Rank(S, Ordered(S)[i]) = i
    BY <1>2
  <2>3. PICK l \in S : l = Ordered(S)[i]
    BY <2>2
  <2>4. Rank(S, k) <= Rank(S, l) /\ Rank(S, l) <= Rank(S, k)
    BY <2>1, <2>2, <2>3
  <2>5. AtMost(k, l) /\ AtMost(l, k)
    BY <2>4, OrderByRank
  <2>. QED BY <2>3, <2>5, OrderAntisymmetric
<1>. QED BY <1>2, <1>4, <1>5

(* The first of them is before all others, the last behind them.            *)
LEMMA FirstAndLast ==
    ASSUME NEW S \in SUBSET Words, IsFiniteSet(S), S # {}
    PROVE  /\ Ordered(S)[1] \in S
           /\ \A k \in S : AtMost(Ordered(S)[1], k)
           /\ Ordered(S)[Cardinality(S)] \in S
           /\ \A k \in S : AtMost(k, Ordered(S)[Cardinality(S)])
<1>1. /\ Cardinality(S) \in Nat /\ Cardinality(S) # 0
  BY FS_CardinalityType, FS_EmptySet
<1>2. PICK n \in Nat : n = Cardinality(S) /\ n # 0
  BY <1>1
<1>3. /\ Ordered(S)[1] \in S /\ Rank(S, Ordered(S)[1]) = 1
      /\ Ordered(S)[n] \in S /\ Rank(S, Ordered(S)[n]) = n
  <2>1. 1 \in 1 .. n /\ n \in 1 .. n
    BY <1>2
  <2>2. \A i \in 1 .. n : Ordered(S)[i] \in S /\ Rank(S, Ordered(S)[i]) = i
    <3>1. /\ Ordered(S) \in Seq(S) /\ Len(Ordered(S)) = n
          /\ \A i \in 1 .. n : Rank(S, Ordered(S)[i]) = i
      BY <1>2, OrderedKeys
    <3>. QED BY <3>1, ElementOfSeq
  <2>. QED BY <2>1, <2>2
<1>4. \A k \in S : Rank(S, k) \in 1 .. n
  BY <1>2, RankType
<1>5. PICK x \in S, y \in S : x = Ordered(S)[1] /\ y = Ordered(S)[n]
  BY <1>3
<1>6. ASSUME NEW k \in S PROVE AtMost(x, k) /\ AtMost(k, y)
  <2>1. Rank(S, x) <= Rank(S, k) /\ Rank(S, k) <= Rank(S, y)
    BY <1>2, <1>3, <1>4, <1>5
  <2>. QED BY <2>1, OrderByRank
<1>. QED BY <1>2, <1>5, <1>6

----------------------------------------------------------------------------
(* What one call of SCAN fetches and takes. *)

LEMMA FetchedFirst ==
    ASSUME store \in SUBSET Words, IsFiniteSet(store),
           NEW low, NEW high, NEW n \in Nat,
           NEW k \in RangeQuery(low, high, n), NEW l \in Between(low, high),
           AtMost(l, k)
    PROVE  l \in RangeQuery(low, high, n)
<1>. DEFINE B == Between(low, high)
<1>1. B \in SUBSET Words /\ IsFiniteSet(B)
  <2>1. B \in SUBSET store
    BY DEF Between
  <2>. QED BY <2>1, FS_Subset
<1>2. k \in B /\ l \in B /\ Rank(B, k) <= n
  BY DEF RangeQuery
<1>. HIDE DEF B
<1>3. Rank(B, k) \in 1 .. Cardinality(B) /\ Rank(B, l) \in 1 .. Cardinality(B)
  BY <1>1, <1>2, RankType
<1>4. Cardinality(B) \in Nat
  BY <1>1, FS_CardinalityType
<1>5. Rank(B, l) <= Rank(B, k)
  <2>1. CASE k = l
    BY <2>1, <1>3, <1>4
  <2>2. CASE k # l
    <3>1. Rank(B, l) < Rank(B, k)
      BY <1>1, <1>2, <2>2, RankOfLater
    <3>. QED BY <3>1, <1>3, <1>4
  <2>. QED BY <2>1, <2>2
<1>6. Rank(B, l) <= n
  BY <1>2, <1>3, <1>4, <1>5
<1>. QED BY <1>2, <1>6 DEF RangeQuery, B

(* What has been taken before a key was taken too. *)
LEMMA TakenFirst ==
    ASSUME NEW F \in SUBSET Words, IsFiniteSet(F), NEW p, NEW count \in Nat,
           NEW k \in Taken(p, count, F), NEW l \in F, AtMost(l, k)
    PROVE  l \in Taken(p, count, F)
<1>. DEFINE Earlier(x) == {y \in F : Wanted(p, y) /\ AtMost(y, x) /\ y # x}
<1>1. k \in F /\ Cardinality(Earlier(k)) < count
  BY DEF Taken
<1>2. Earlier(l) \subseteq Earlier(k)
  <2>1. SUFFICES ASSUME NEW y \in F, AtMost(y, l), y # l
                 PROVE  AtMost(y, k) /\ y # k
    OBVIOUS
  <2>2. AtMost(y, k)
    BY <1>1, <2>1, OrderTransitive
  <2>3. y = k => AtMost(k, l)
    BY <2>1
  <2>4. AtMost(k, l) => k = l
    BY <1>1, OrderAntisymmetric
  <2>. QED BY <2>1, <2>2, <2>3, <2>4
<1>3. Earlier(k) \in SUBSET F
  OBVIOUS
<1>. HIDE DEF Earlier
<1>4. IsFiniteSet(Earlier(k))
  BY <1>3, FS_Subset
<1>5. /\ Cardinality(Earlier(l)) <= Cardinality(Earlier(k))
      /\ IsFiniteSet(Earlier(l))
  BY <1>2, <1>4, FS_Subset
<1>6. Cardinality(Earlier(l)) \in Nat /\ Cardinality(Earlier(k)) \in Nat
  BY <1>4, <1>5, FS_CardinalityType
<1>7. Cardinality(Earlier(l)) < count
  BY <1>1, <1>5, <1>6
<1>. QED BY <1>7 DEF Taken, Earlier

(* Without a pattern, one key more than count is fetched and not taken.     *)
LEMMA OneMoreFetched ==
    ASSUME store \in SUBSET Words, IsFiniteSet(store),
           NEW low, NEW high, NEW count \in Nat,
           NEW k \in Between(low, high),
           k \notin RangeQuery(low, high, count + 1)
    PROVE  \E x \in RangeQuery(low, high, count + 1) :
               x \notin Taken(NoPattern, count, RangeQuery(low, high, count + 1))
<1>. DEFINE B == Between(low, high)
            F == RangeQuery(low, high, count + 1)
<1>1. B \in SUBSET Words /\ IsFiniteSet(B)
  <2>1. B \in SUBSET store
    BY DEF Between
  <2>. QED BY <2>1, FS_Subset
<1>2. F \subseteq B /\ k \in B /\ \A y \in B : y \in F <=> Rank(B, y) <= count + 1
  BY DEF RangeQuery
<1>3. Cardinality(B) \in Nat /\ Rank(B, k) \in 1 .. Cardinality(B)
  <2>1. k \in B
    OBVIOUS
  <2>. HIDE DEF B
  <2>. QED BY <1>1, <2>1, FS_CardinalityType, RankType
<1>4. count + 1 \in 1 .. Cardinality(B)
  <2>1. ~ (Rank(B, k) <= count + 1)
    BY <1>2
  <2>. HIDE DEF B
  <2>. QED BY <1>3, <2>1
<1>5. PICK x \in B : Rank(B, x) = count + 1
  <2>. HIDE DEF B
  <2>. QED BY <1>1, <1>4, RankSurjective
<1>6. x \in F
  BY <1>2, <1>5
<1>. DEFINE Upto == {y \in B : AtMost(y, x)}
            Earlier == {y \in F : Wanted(NoPattern, y) /\ AtMost(y, x) /\ y # x}
<1>7. Earlier = Upto \ {x}
  <2>1. ASSUME NEW y \in B, AtMost(y, x) PROVE y \in F
    <3>1. count + 1 \in Nat
      OBVIOUS
    <3>. QED BY <1>6, <2>1, <3>1, FetchedFirst
  <2>2. \A y : Wanted(NoPattern, y)
    BY DEF Wanted
  <2>. HIDE DEF B, F
  <2>. QED BY <1>2, <2>1, <2>2
<1>8. Upto \in SUBSET B /\ x \in Upto
  BY <1>1, OrderReflexive
<1>9. Cardinality(Upto) = count + 1
  BY <1>5 DEF Rank
<1>10. Cardinality(Earlier) = count
  <2>. HIDE DEF B, F, Upto, Earlier
  <2>1. IsFiniteSet(Upto)
    BY <1>1, <1>8, FS_Subset
  <2>2. Cardinality(Upto \ {x}) = Cardinality(Upto) - 1
    BY <1>8, <2>1, FS_RemoveElement
  <2>. QED BY <1>7, <1>9, <2>2
<1>11. x \notin Taken(NoPattern, count, F)
  <2>1. x \in Taken(NoPattern, count, F) => Cardinality(Earlier) < count
    BY DEF Taken
  <2>. HIDE DEF B, F, Earlier
  <2>. QED BY <1>10, <2>1
<1>. QED BY <1>6, <1>11

(* A call's range, what it fetches and returns. *)
Fetched(p, count, cursor) ==
    RangeQuery(ScanStart(p, cursor), ScanEnd(p), FetchLimit(p, count))

Range0(p, cursor) == Between(ScanStart(p, cursor), ScanEnd(p))

Found(p, count, cursor) ==
    {k \in Taken(p, count, Fetched(p, count, cursor)) : Wanted(p, k)}

(* The reply: it has the keys found in the range; a cursor is the key after *)
(* the last that was taken; without one all that is wanted has been found,  *)
(* but for what the end cuts off.                                           *)
ReplyIsRight(p, count, cursor) ==
    LET r == Reply(p, count, cursor)
        S == Found(p, count, cursor)
        B == Range0(p, cursor)
    IN  /\ r.keys = Ordered(S) /\ S \subseteq B
        /\ r.cursor \in B \cup {Zero}
        /\ r.cursor # Zero =>
              /\ \A k \in S : Before(k, r.cursor)
              /\ \A k \in B : Wanted(p, k) /\ Before(k, r.cursor) => k \in S
        /\ r.cursor = Zero =>
              \A k \in B : Wanted(p, k) =>
                  \/ k \in S
                  \/ r.more /\ AtMost(Zero, k)
                  \/ p # NoPattern /\ ~AtMost(k, r.reach)

LEMMA ZeroIsWord == Zero \in Words /\ Zero # <<>>
BY DEF Zero, Words

LEMMA ReplyOfScan ==
    ASSUME store \in SUBSET (Words \ {<<>>}), IsFiniteSet(store),
           NEW p, NEW count \in Nat, NEW cursor
    PROVE  ReplyIsRight(p, count, cursor)
<1>. DEFINE low  == ScanStart(p, cursor)
            high == ScanEnd(p)
            n == FetchLimit(p, count)
            B == Between(low, high)
            F == RangeQuery(low, high, n)
            T == Taken(p, count, F)
            R == F \ T
            S == {k \in T : Wanted(p, k)}
            r == Reply(p, count, cursor)
<1>1. /\ r.keys = Ordered(S)
      /\ r.cursor = IF R = {} THEN Zero ELSE Ordered(R)[1]
      /\ r.reach = IF F = B THEN Last
                   ELSE IF F = {} THEN <<>> ELSE Ordered(F)[Cardinality(F)]
      /\ r.more = (F # T)
  BY DEF Reply, NextCursor
<1>2. n \in Nat /\ (p = NoPattern => n = count + 1)
  BY DEF FetchLimit
<1>3. /\ B \subseteq store /\ F \subseteq B /\ T \subseteq F
      /\ S \subseteq T /\ R \subseteq F /\ F = T \cup R /\ T \cap R = {}
      /\ \A k \in T : Wanted(p, k) => k \in S
  BY DEF Between, RangeQuery, Taken
<1>4. /\ B \in SUBSET Words /\ F \in SUBSET Words /\ R \in SUBSET Words
      /\ IsFiniteSet(F) /\ IsFiniteSet(R) /\ <<>> \notin B
  <2>. HIDE DEF B, F, R, T
  <2>1. IsFiniteSet(F) /\ IsFiniteSet(R)
    BY <1>3, FS_Subset
  <2>. QED BY <1>3, <2>1
<1>5. ASSUME NEW k \in F, NEW l \in B, AtMost(l, k) PROVE l \in F
  <2>1. store \in SUBSET Words
    OBVIOUS
  <2>. QED BY <1>2, <1>5, <2>1, FetchedFirst
<1>6. ASSUME NEW k \in T, NEW l \in F, AtMost(l, k) PROVE l \in T
  <2>. HIDE DEF F
  <2>. QED BY <1>4, <1>6, TakenFirst
<1>7. ASSUME p = NoPattern, NEW k \in B, k \notin F PROVE R # {}
  <2>1. store \in SUBSET Words
    OBVIOUS
  <2>2. n = count + 1
    BY <1>2, <1>7
  <2>3. \E x \in RangeQuery(low, high, count + 1) :
            x \notin Taken(NoPattern, count, RangeQuery(low, high, count + 1))
    <3>1. k \in Between(low, high) /\ k \notin RangeQuery(low, high, count + 1)
      BY <1>7, <2>2
    <3>. HIDE DEF low, high
    <3>. QED BY <2>1, <3>1, OneMoreFetched
  <2>. QED BY <1>7, <2>2, <2>3
<1>. HIDE DEF low, high, n, B, F, T, R, S, r
<1>8. CASE R = {}
  <2>1. r.cursor = Zero /\ T = F
    BY <1>1, <1>3, <1>8
  <2>2. ASSUME NEW k \in B, Wanted(p, k), k \notin S
        PROVE  p # NoPattern /\ ~AtMost(k, r.reach)
    <3>1. k \notin F
      BY <1>3, <2>1, <2>2
    <3>2. p # NoPattern
      BY <1>7, <1>8, <2>2, <3>1
    <3>3. CASE F = {}
      <4>1. r.reach = <<>>
        BY <1>1, <2>2, <3>1, <3>3
      <4>2. k \in Words /\ k # <<>>
        BY <1>4
      <4>. QED BY <3>2, <4>1, <4>2, OrderOfEmpty
    <3>4. CASE F # {}
      <4>1. r.reach = Ordered(F)[Cardinality(F)]
        BY <1>1, <2>2, <3>1, <3>4
      <4>2. r.reach \in F
        BY <1>4, <3>4, <4>1, FirstAndLast
      <4>. QED BY <1>5, <2>2, <3>1, <3>2, <4>2
    <3>. QED BY <3>3, <3>4
  <2>. QED BY <1>1, <1>3, <2>1, <2>2
           DEF ReplyIsRight, Found, Fetched, Range0, S, T, F, B, low, high, n, r
<1>9. CASE R # {}
  <2>1. r.cursor = Ordered(R)[1] /\ r.more
    BY <1>1, <1>3, <1>9
  <2>2. PICK c \in R : c = r.cursor /\ \A k \in R : AtMost(c, k)
    BY <1>4, <1>9, <2>1, FirstAndLast
  <2>3. c \in F /\ c \in B /\ c \in Words /\ c \notin T
    BY <1>3, <1>4, <2>2
  <2>4. ASSUME NEW k \in S PROVE Before(k, c)
    <3>1. k \in T /\ k \in Words /\ k # c
      BY <1>3, <1>4, <2>3
    <3>2. ~AtMost(c, k)
      BY <1>6, <2>3, <3>1
    <3>. QED BY <2>3, <3>1, <3>2, OrderTotal DEF Before
  <2>5. ASSUME NEW k \in B, Wanted(p, k), Before(k, c) PROVE k \in S
    <3>1. k \in F
      BY <1>5, <2>3, <2>5 DEF Before
    <3>2. k \notin R
      <4>1. k \in Words /\ AtMost(k, c) /\ k # c
        BY <1>4, <2>5 DEF Before
      <4>2. AtMost(c, k) => k = c
        BY <2>3, <4>1, OrderAntisymmetric
      <4>. QED BY <2>2, <4>1, <4>2
    <3>. QED BY <1>3, <2>5, <3>1, <3>2
  <2>6. ASSUME c = Zero, NEW k \in B, Wanted(p, k), k \notin S
        PROVE  r.more /\ AtMost(Zero, k)
    <3>1. k \in Words
      BY <1>4
    <3>2. CASE k \in F
      BY <1>3, <2>1, <2>2, <2>6, <3>2
    <3>3. CASE k \notin F
      <4>1. ~AtMost(k, c)
        BY <1>5, <2>3, <3>3
      <4>. QED BY <2>1, <2>3, <2>6, <3>1, <4>1, OrderTotal
    <3>. QED BY <3>2, <3>3
  <2>. QED BY <1>1, <1>3, <2>2, <2>3, <2>4, <2>5, <2>6
           DEF ReplyIsRight, Found, Fetched, Range0, S, T, F, B, low, high, n, r
<1>. QED BY <1>8, <1>9

----------------------------------------------------------------------------
(* The prefix of a pattern. *)

Wild == {Star, Question, Open}

LEMMA LengthBeforeWild ==
    ASSUME NEW p \in Words, NEW wild
    PROVE  /\ LengthBefore(p, wild) \in 0 .. Len(p)
           /\ \A i \in 1 .. LengthBefore(p, wild) : p[i] \notin wild
           /\ LengthBefore(p, wild) < Len(p)
                  => p[LengthBefore(p, wild) + 1] \in wild
<1>1. \E n \in 0 .. Len(p) : /\ \A i \in 1 .. n : p[i] \notin wild
                             /\ n < Len(p) => p[n + 1] \in wild
  <2>. DEFINE D == {i \in 1 .. Len(p) : p[i] \in wild}
  <2>0. Len(p) \in Nat
    BY WordType
  <2>1. CASE D = {}
    BY <2>0, <2>1
  <2>2. CASE D # {}
    <3>1. D \in SUBSET Nat
      BY <2>0
    <3>2. PICK m \in D : \A i \in D : m <= i
      <4>. HIDE DEF D
      <4>. QED BY <2>2, <3>1, LeastNumber
    <3>3. m \in 1 .. Len(p) /\ p[m] \in wild
      OBVIOUS
    <3>4. \A i \in 1 .. m - 1 : p[i] \notin wild
      BY <2>0, <3>2, <3>3
    <3>5. PICK n \in 0 .. Len(p) : n = m - 1
      BY <2>0, <3>3
    <3>6. n + 1 = m
      BY <3>3, <3>5
    <3>. QED BY <3>3, <3>4, <3>5, <3>6
  <2>. QED BY <2>1, <2>2
<1>. QED BY <1>1 DEF LengthBefore

LEMMA PrefixFacts ==
    ASSUME NEW p \in Words
    PROVE  /\ ExtractPrefix(p) \in Words /\ Len(ExtractPrefix(p)) <= Len(p)
           /\ \A i \in 1 .. Len(ExtractPrefix(p)) :
                  ExtractPrefix(p)[i] = p[i] /\ p[i] \notin Wild
           /\ Len(ExtractPrefix(p)) < Len(p)
                  => p[Len(ExtractPrefix(p)) + 1] \in Wild
<1>1. PICK n \in 0 .. Len(p) :
          /\ n = LengthBefore(p, Wild)
          /\ \A i \in 1 .. n : p[i] \notin Wild
          /\ n < Len(p) => p[n + 1] \in Wild
  BY LengthBeforeWild
<1>2. Len(p) \in Nat /\ \A i \in 1 .. Len(p) : p[i] \in 0 .. 255
  BY WordType
<1>3. PICK q \in Words : /\ q = SubSeq(p, 1, n) /\ Len(q) = n
                         /\ \A i \in 1 .. n : q[i] = p[i]
  <2>1. /\ SubSeq(p, 1, n) \in Words /\ Len(SubSeq(p, 1, n)) = n
        /\ \A i \in 1 .. n : SubSeq(p, 1, n)[i] = p[i]
    BY Beginning DEF Words
  <2>. QED BY <2>1
<1>4. q = ExtractPrefix(p)
  BY <1>1, <1>3 DEF ExtractPrefix, Wild
<1>5. /\ q \in Words /\ Len(q) <= Len(p)
      /\ \A i \in 1 .. Len(q) : q[i] = p[i] /\ p[i] \notin Wild
      /\ Len(q) < Len(p) => p[Len(q) + 1] \in Wild
  BY <1>1, <1>2, <1>3
<1>. QED BY <1>4, <1>5

LEMMA BoundIsWord ==
    ASSUME NEW p \in Words
    PROVE  Bound(p) \in Words
<1>1. ExtractPrefix(p) \in Words /\ Tilde \in 0 .. 255
  BY PrefixFacts DEF Tilde
<1>. QED BY <1>1 DEF Bound, Words

(* The pattern is laid on the text: its byte i at place at[i]. *)
Laid(at, p, t) ==
    /\ at \in [1 .. Len(p) + 1 -> 1 .. Len(t) + 1]
    /\ at[1] = 1 /\ at[Len(p) + 1] = Len(t) + 1
    /\ \A i \in DOMAIN p :
          \/ p[i] = Star /\ at[i] <= at[i + 1]
          \/ at[i + 1] = at[i] + 1 /\ p[i] \in {Question, t[at[i]]}

LEMMA MatchesLaid ==
    ASSUME NEW p, NEW t
    PROVE  Matches(p, t) <=> \E at : Laid(at, p, t)
BY Zenon DEF Matches, Laid

(* Its prefix lies on the same places of the text. *)
LEMMA PrefixLaid ==
    ASSUME NEW p \in Words, NEW t \in Words, NEW at, Laid(at, p, t),
           NEW n \in Nat, n <= Len(p), \A i \in 1 .. n : p[i] # Star
    PROVE  \A m \in 0 .. n : at[m + 1] = m + 1
<1>. DEFINE T == {m \in Nat : m <= n => at[m + 1] = m + 1}
<1>1. 0 \in T
  BY DEF Laid
<1>2. ASSUME NEW m \in Nat, m \in T PROVE m + 1 \in T
  <2>1. SUFFICES ASSUME m + 1 <= n PROVE at[(m + 1) + 1] = (m + 1) + 1
    OBVIOUS
  <2>2. at[m + 1] = m + 1
    BY <1>2, <2>1
  <2>3. m + 1 \in DOMAIN p /\ p[m + 1] # Star
    BY <2>1, WordType
  <2>4. at[(m + 1) + 1] = at[m + 1] + 1
    BY <2>3 DEF Laid
  <2>. QED BY <2>2, <2>4
<1>3. \A m \in Nat : m \in T => m + 1 \in T
  BY <1>2
<1>4. \A m \in Nat : m \in T
  <2>. HIDE DEF T
  <2>. QED BY <1>1, <1>3, InductionOnNat
<1>. QED BY <1>4

(* A word that matches the pattern starts with its prefix. *)
LEMMA MatchesPrefix ==
    ASSUME NEW p \in Words, NEW t \in Words, Matches(p, t)
    PROVE  IsPrefix(ExtractPrefix(p), t)
<1>1. PICK at : Laid(at, p, t)
  BY MatchesLaid
<1>2. PICK q \in Words : q = ExtractPrefix(p)
  BY PrefixFacts
<1>3. PICK n \in Nat : n = Len(q)
  BY WordType
<1>4. /\ Len(p) \in Nat /\ n <= Len(p) /\ Len(t) \in Nat
      /\ DOMAIN p = 1 .. Len(p) /\ DOMAIN q = 1 .. n
      /\ \A i \in 1 .. n : q[i] = p[i] /\ p[i] # Star /\ p[i] # Question
  BY <1>2, <1>3, PrefixFacts, WordType DEF Wild
<1>5. \A m \in 0 .. n : at[m + 1] = m + 1
  BY <1>1, <1>4, PrefixLaid
<1>6. n <= Len(t)
  <2>1. at[n + 1] = n + 1 /\ n + 1 \in 1 .. Len(p) + 1
    BY <1>4, <1>5
  <2>2. at[n + 1] \in 1 .. Len(t) + 1
    BY <1>1, <2>1 DEF Laid
  <2>. QED BY <1>4, <2>1, <2>2
<1>7. ASSUME NEW i \in 1 .. n PROVE q[i] = t[i]
  <2>1. i - 1 \in 0 .. n /\ i \in DOMAIN p /\ (i - 1) + 1 = i
    BY <1>4
  <2>2. at[i] = i
    BY <1>5, <2>1
  <2>3. p[i] = t[at[i]]
    BY <1>1, <1>4, <2>1 DEF Laid
  <2>. QED BY <1>4, <2>2, <2>3
<1>. QED BY <1>2, <1>3, <1>4, <1>6, <1>7 DEF IsPrefix

(* A pattern without wildcards matches itself only. *)
LEMMA PlainMatchesItself ==
    ASSUME NEW p \in Words, ExtractPrefix(p) = p, NEW t \in Words
    PROVE  Matches(p, t) <=> t = p
<1>1. /\ Len(p) \in Nat /\ Len(t) \in Nat /\ DOMAIN p = 1 .. Len(p)
      /\ \A i \in 1 .. Len(p) : p[i] # Star /\ p[i] # Question
  BY PrefixFacts, WordType DEF Wild
<1>2. ASSUME Matches(p, t) PROVE t = p
  <2>1. PICK at : Laid(at, p, t)
    BY <1>2, MatchesLaid
  <2>2. IsPrefix(p, t)
    BY <1>2, MatchesPrefix
  <2>3. \A m \in 0 .. Len(p) : at[m + 1] = m + 1
    <3>1. Len(p) <= Len(p)
      BY <1>1
    <3>. QED BY <1>1, <2>1, <3>1, PrefixLaid
  <2>4. Len(p) = Len(t)
    <3>1. at[Len(p) + 1] = Len(p) + 1
      BY <1>1, <2>3
    <3>2. at[Len(p) + 1] = Len(t) + 1
      BY <2>1 DEF Laid
    <3>. QED BY <1>1, <3>1, <3>2
  <2>5. \A i \in 1 .. Len(p) : p[i] = t[i]
    BY <1>1, <2>2 DEF IsPrefix
  <2>. QED BY <2>4, <2>5, SameWord
<1>3. ASSUME t = p PROVE Matches(p, t)
  <2>. DEFINE at == [i \in 1 .. Len(p) + 1 |-> i]
  <2>1. at \in [1 .. Len(p) + 1 -> 1 .. Len(t) + 1]
    BY <1>3
  <2>2. at[1] = 1 /\ at[Len(p) + 1] = Len(t) + 1
    BY <1>1, <1>3
  <2>3. ASSUME NEW i \in DOMAIN p
        PROVE  at[i + 1] = at[i] + 1 /\ p[i] \in {Question, t[at[i]]}
    BY <1>1, <1>3
  <2>. QED BY <2>1, <2>2, <2>3, MatchesLaid DEF Laid
<1>. QED BY <1>2, <1>3

----------------------------------------------------------------------------
(* A loop that moves from place to place comes to an end when a number      *)
(* falls with each move; so there is the function that the recursive        *)
(* definition asks for.                                                     *)

LoopStep(g, S, ends, v, n) ==
    [s \in S |-> IF s \in ends THEN v[s]
                 ELSE IF n[s] = s THEN FALSE ELSE g[n[s]]]

LEMMA LoopExists ==
    ASSUME NEW S, NEW ends, NEW v, NEW n, NEW r \in [S -> Nat],
           \A s \in S \ ends : n[s] \in S /\ (n[s] = s \/ r[n[s]] < r[s])
    PROVE  \E g : g = LoopStep(g, S, ends, v, n)
<1>. DEFINE Small(k) == {s \in S : r[s] < k}
            Body(g, s) == IF s \in ends THEN v[s]
                          ELSE IF n[s] = s THEN FALSE ELSE g[n[s]]
            D(k) == \E g : g = [s \in Small(k) |-> Body(g, s)]
<1>1. ASSUME NEW k \in Nat, D(k) PROVE D(k + 1)
  <2>1. PICK g : g = [s \in Small(k) |-> Body(g, s)]
    BY <1>1
  <2>. DEFINE h == [s \in Small(k + 1) |-> IF s \in Small(k) THEN g[s] ELSE Body(g, s)]
  <2>2. ASSUME NEW s \in Small(k + 1) PROVE h[s] = Body(g, s)
    BY <2>1
  <2>3. ASSUME NEW s \in Small(k + 1) PROVE Body(h, s) = Body(g, s)
    <3>1. CASE s \in ends \/ n[s] = s
      BY <3>1
    <3>2. CASE ~ (s \in ends \/ n[s] = s)
      <4>1. n[s] \in S /\ r[n[s]] < r[s] /\ r[s] < k + 1
        BY <3>2
      <4>2. r[n[s]] \in Nat /\ r[s] \in Nat
        BY <4>1
      <4>3. n[s] \in Small(k) /\ n[s] \in Small(k + 1)
        BY <4>1, <4>2
      <4>4. h[n[s]] = g[n[s]]
        BY <4>3
      <4>. QED BY <3>2, <4>4
    <3>. QED BY <3>1, <3>2
  <2>4. \A s \in Small(k + 1) : h[s] = Body(h, s)
    BY <2>2, <2>3
  <2>5. PICK f : f = h
    OBVIOUS
  <2>6. f = [s \in Small(k + 1) |-> f[s]]
    BY <2>5
  <2>. HIDE DEF Small, Body, h
  <2>. QED BY <2>4, <2>5, <2>6
<1>2. D(0)
  <2>1. Small(0) = {}
    OBVIOUS
  <2>2. \E g : g = [s \in {} |-> Body(g, s)]
    <3>1. [s \in {} |-> 0] = [s \in {} |-> Body([x \in {} |-> 0], s)]
      OBVIOUS
    <3>. QED BY <3>1
  <2>. QED BY <2>1, <2>2
<1>3. \A k \in Nat : D(k)
  <2>. DEFINE E == {k \in Nat : D(k)}
  <2>. HIDE DEF D
  <2>1. 0 \in E /\ \A k \in Nat : k \in E => k + 1 \in E
    BY <1>1, <1>2
  <2>2. \A k \in Nat : k \in E
    <3>. HIDE DEF E
    <3>. QED BY <2>1, InductionOnNat
  <2>. QED BY <2>2
(* The functions for all the numbers agree, so they are put together.       *)
<1>4. ASSUME NEW k \in Nat, NEW m \in Nat, NEW g, NEW h,
             g = [s \in Small(k) |-> Body(g, s)],
             h = [s \in Small(m) |-> Body(h, s)]
      PROVE  \A s \in Small(k) \cap Small(m) : g[s] = h[s]
  <2>. DEFINE E == {b \in Nat : \A s \in Small(k) \cap Small(m) : r[s] < b => g[s] = h[s]}
  <2>1. 0 \in E
    OBVIOUS
  <2>2. ASSUME NEW b \in Nat, b \in E PROVE b + 1 \in E
    <3>1. SUFFICES ASSUME NEW s \in Small(k) \cap Small(m), r[s] < b + 1
                   PROVE  g[s] = h[s]
      OBVIOUS
    <3>2. g[s] = Body(g, s) /\ h[s] = Body(h, s)
      BY <1>4
    <3>3. CASE s \in ends \/ n[s] = s
      BY <3>2, <3>3
    <3>4. CASE ~ (s \in ends \/ n[s] = s)
      <4>1. n[s] \in S /\ r[n[s]] < r[s]
        BY <3>4
      <4>2. r[n[s]] \in Nat /\ r[s] \in Nat /\ r[s] < k /\ r[s] < m
        BY <4>1
      <4>3. n[s] \in Small(k) \cap Small(m) /\ r[n[s]] < b
        BY <3>1, <4>1, <4>2
      <4>4. g[n[s]] = h[n[s]]
        BY <2>2, <4>3
      <4>. QED BY <3>2, <3>4, <4>4
    <3>. QED BY <3>3, <3>4
  <2>3. \A b \in Nat : b \in E
    <3>1. \A b \in Nat : b \in E => b + 1 \in E
      BY <2>2
    <3>. HIDE DEF E
    <3>. QED BY <2>1, <3>1, InductionOnNat
  <2>4. ASSUME NEW s \in Small(k) \cap Small(m) PROVE g[s] = h[s]
    <3>1. k \in E /\ r[s] < k
      BY <2>3
    <3>. QED BY <3>1
  <2>. QED BY <2>4
<1>. DEFINE F(k) == CHOOSE g : g = [s \in Small(k) |-> Body(g, s)]
            G == [s \in S |-> F(r[s] + 1)[s]]
<1>5. ASSUME NEW k \in Nat PROVE F(k) = [s \in Small(k) |-> Body(F(k), s)]
  BY <1>3
<1>6. ASSUME NEW k \in Nat, NEW s \in Small(k) PROVE G[s] = F(k)[s]
  <2>1. r[s] + 1 \in Nat /\ s \in Small(r[s] + 1) /\ s \in S
    OBVIOUS
  <2>2. G[s] = F(r[s] + 1)[s]
    BY <2>1
  <2>3. PICK g : g = F(k)
    OBVIOUS
  <2>4. PICK h : h = F(r[s] + 1)
    OBVIOUS
  <2>5. g = [x \in Small(k) |-> Body(g, x)] /\ h = [x \in Small(r[s] + 1) |-> Body(h, x)]
    <3>. HIDE DEF F, Small, Body
    <3>. QED BY <1>5, <2>1, <2>3, <2>4
  <2>6. g[s] = h[s]
    <3>. HIDE DEF F, Small, Body, G
    <3>. QED BY <1>4, <2>1, <2>5
  <2>. QED BY <2>2, <2>3, <2>4, <2>6
<1>7. ASSUME NEW s \in S PROVE G[s] = Body(G, s)
  <2>1. r[s] + 1 \in Nat /\ s \in Small(r[s] + 1)
    OBVIOUS
  <2>2. PICK k \in Nat : k = r[s] + 1
    BY <2>1
  <2>3. G[s] = F(k)[s] /\ F(k)[s] = Body(F(k), s)
    <3>1. s \in Small(k)
      BY <2>1, <2>2
    <3>2. F(k)[s] = Body(F(k), s)
      <4>. HIDE DEF F, Small, Body
      <4>. QED BY <1>5, <3>1
    <3>. QED BY <1>6, <3>1, <3>2
  <2>4. CASE s \in ends \/ n[s] = s
    BY <2>3, <2>4
  <2>5. CASE ~ (s \in ends \/ n[s] = s)
    <3>1. n[s] \in S /\ r[n[s]] < r[s]
      BY <2>5
    <3>2. n[s] \in Small(k)
      <4>1. r[n[s]] \in Nat /\ r[s] \in Nat
        BY <3>1
      <4>. QED BY <2>2, <3>1, <4>1
    <3>3. G[n[s]] = F(k)[n[s]]
      BY <1>6, <3>2
    <3>4. Body(F(k), s) = F(k)[n[s]] /\ Body(G, s) = G[n[s]]
      BY <2>5
    <3>. QED BY <2>3, <3>3, <3>4
  <2>. QED BY <2>4, <2>5
<1>8. PICK f : f = G
  OBVIOUS
<1>9. f = [s \in S |-> f[s]]
  BY <1>8
<1>10. f = [s \in S |-> Body(f, s)]
  <2>. HIDE DEF Body, G
  <2>. QED BY <1>7, <1>8, <1>9
<1>. QED BY <1>10, Zenon DEF LoopStep

----------------------------------------------------------------------------
(* What is left of a pattern, from byte i on, matches what is left of a     *)
(* text, from j on.                                                         *)
LaidFrom(at, p, t, i, j) ==
    /\ at \in [i .. Len(p) + 1 -> 1 .. Len(t) + 1]
    /\ at[i] = j /\ at[Len(p) + 1] = Len(t) + 1
    /\ \A k \in i .. Len(p) :
          \/ p[k] = Star /\ at[k] <= at[k + 1]
          \/ at[k + 1] = at[k] + 1 /\ p[k] \in {Question, t[at[k]]}

Fits(p, t, i, j) == \E at : LaidFrom(at, p, t, i, j)

LEMMA FitsFromStart ==
    ASSUME NEW p \in Words, NEW t
    PROVE  Matches(p, t) <=> Fits(p, t, 1, 1)
<1>1. DOMAIN p = 1 .. Len(p)
  BY WordType
<1>2. \A at : Laid(at, p, t) <=> LaidFrom(at, p, t, 1, 1)
  BY <1>1, Zenon DEF Laid, LaidFrom
<1>. QED BY <1>2, MatchesLaid DEF Fits

LEMMA FitsAtEnd ==
    ASSUME NEW p \in Words, NEW t \in Words, NEW j \in 1 .. Len(t) + 1
    PROVE  Fits(p, t, Len(p) + 1, j) <=> j = Len(t) + 1
<1>1. Len(p) \in Nat /\ Len(t) \in Nat
  BY WordType
<1>2. Fits(p, t, Len(p) + 1, j) => j = Len(t) + 1
  BY DEF Fits, LaidFrom
<1>3. ASSUME j = Len(t) + 1 PROVE Fits(p, t, Len(p) + 1, j)
  <2>. DEFINE at == [k \in Len(p) + 1 .. Len(p) + 1 |-> j]
  <2>1. /\ at \in [Len(p) + 1 .. Len(p) + 1 -> 1 .. Len(t) + 1]
        /\ at[Len(p) + 1] = j /\ at[Len(p) + 1] = Len(t) + 1
    BY <1>1, <1>3
  <2>2. \A k \in Len(p) + 1 .. Len(p) : FALSE
    BY <1>1
  <2>. HIDE DEF at
  <2>. QED BY <2>1, <2>2 DEF Fits, LaidFrom
<1>. QED BY <1>2, <1>3

(* One byte of the pattern. *)
ByteFits(p, t, i, j, m) ==
    \/ p[i] = Star /\ j <= m
    \/ m = j + 1 /\ p[i] \in {Question, t[j]}

LEMMA FitsNext ==
    ASSUME NEW p \in Words, NEW t \in Words,
           NEW i \in 1 .. Len(p), NEW j \in 1 .. Len(t) + 1
    PROVE  Fits(p, t, i, j) <=> \E m \in 1 .. Len(t) + 1 :
               ByteFits(p, t, i, j, m) /\ Fits(p, t, i + 1, m)
<1>0. Len(p) \in Nat /\ Len(t) \in Nat /\ i \in Nat /\ i <= Len(p)
  BY WordType
<1>1. ASSUME NEW at, LaidFrom(at, p, t, i, j)
      PROVE  \E m \in 1 .. Len(t) + 1 :
                 ByteFits(p, t, i, j, m) /\ Fits(p, t, i + 1, m)
  <2>. DEFINE bt == [k \in i + 1 .. Len(p) + 1 |-> at[k]]
  <2>1. PICK m \in 1 .. Len(t) + 1 : m = at[i + 1]
    BY <1>0, <1>1 DEF LaidFrom
  <2>2. ByteFits(p, t, i, j, m)
    BY <1>0, <1>1, <2>1 DEF LaidFrom, ByteFits
  <2>3. /\ bt \in [i + 1 .. Len(p) + 1 -> 1 .. Len(t) + 1]
        /\ \A k \in i + 1 .. Len(p) + 1 : bt[k] = at[k]
    BY <1>0, <1>1 DEF LaidFrom
  <2>4. bt[i + 1] = m /\ bt[Len(p) + 1] = Len(t) + 1
    BY <1>0, <1>1, <2>1 DEF LaidFrom
  <2>5. ASSUME NEW k \in i + 1 .. Len(p)
        PROVE  \/ p[k] = Star /\ bt[k] <= bt[k + 1]
               \/ bt[k + 1] = bt[k] + 1 /\ p[k] \in {Question, t[bt[k]]}
    <3>1. k \in i .. Len(p) /\ bt[k] = at[k] /\ bt[k + 1] = at[k + 1]
      BY <1>0, <2>3
    <3>. HIDE DEF bt
    <3>. QED BY <1>1, <3>1 DEF LaidFrom
  <2>6. LaidFrom(bt, p, t, i + 1, m)
    <3>. HIDE DEF bt
    <3>. QED BY <2>3, <2>4, <2>5 DEF LaidFrom
  <2>. QED BY <2>2, <2>6 DEF Fits
<1>2. ASSUME NEW m \in 1 .. Len(t) + 1, ByteFits(p, t, i, j, m),
             NEW bt, LaidFrom(bt, p, t, i + 1, m)
      PROVE  Fits(p, t, i, j)
  <2>. DEFINE at == [k \in i .. Len(p) + 1 |-> IF k = i THEN j ELSE bt[k]]
  <2>1. \A k \in i .. Len(p) + 1 : k # i => k \in i + 1 .. Len(p) + 1
    BY <1>0
  <2>2. /\ at \in [i .. Len(p) + 1 -> 1 .. Len(t) + 1]
        /\ \A k \in i + 1 .. Len(p) + 1 : at[k] = bt[k]
        /\ at[i] = j
    BY <1>0, <1>2, <2>1 DEF LaidFrom
  <2>3. at[Len(p) + 1] = Len(t) + 1 /\ at[i + 1] = m
    BY <1>0, <1>2, <2>2 DEF LaidFrom
  <2>4. ASSUME NEW k \in i .. Len(p)
        PROVE  \/ p[k] = Star /\ at[k] <= at[k + 1]
               \/ at[k + 1] = at[k] + 1 /\ p[k] \in {Question, t[at[k]]}
    <3>. HIDE DEF at
    <3>1. CASE k = i
      BY <1>2, <2>2, <2>3, <3>1 DEF ByteFits
    <3>2. CASE k # i
      <4>1. /\ k \in i + 1 .. Len(p) /\ k + 1 \in i + 1 .. Len(p) + 1
            /\ k \in i + 1 .. Len(p) + 1
        BY <1>0, <3>2
      <4>2. at[k] = bt[k] /\ at[k + 1] = bt[k + 1]
        BY <2>2, <4>1
      <4>. QED BY <1>2, <4>1, <4>2 DEF LaidFrom
    <3>. QED BY <3>1, <3>2
  <2>5. LaidFrom(at, p, t, i, j)
    <3>. HIDE DEF at
    <3>. QED BY <2>2, <2>3, <2>4 DEF LaidFrom
  <2>. QED BY <2>5 DEF Fits
<1>. QED BY <1>1, <1>2 DEF Fits

(* A star takes any number of bytes; another byte takes one. *)
LEMMA FitsStar ==
    ASSUME NEW p \in Words, NEW t \in Words,
           NEW i \in 1 .. Len(p), NEW j \in 1 .. Len(t) + 1, p[i] = Star
    PROVE  Fits(p, t, i, j) <=> \E m \in j .. Len(t) + 1 : Fits(p, t, i + 1, m)
<1>1. Len(t) \in Nat
  BY WordType
<1>2. \A m \in 1 .. Len(t) + 1 : ByteFits(p, t, i, j, m) <=> m \in j .. Len(t) + 1
  BY <1>1 DEF ByteFits
<1>3. \A m \in j .. Len(t) + 1 : m \in 1 .. Len(t) + 1
  BY <1>1
<1>. QED BY <1>2, <1>3, FitsNext

LEMMA FitsByte ==
    ASSUME NEW p \in Words, NEW t \in Words,
           NEW i \in 1 .. Len(p), NEW j \in 1 .. Len(t) + 1, p[i] # Star
    PROVE  Fits(p, t, i, j) <=>
               j <= Len(t) /\ p[i] \in {Question, t[j]} /\ Fits(p, t, i + 1, j + 1)
<1>1. Len(t) \in Nat
  BY WordType
<1>2. \A m \in 1 .. Len(t) + 1 : ByteFits(p, t, i, j, m) <=>
          m = j + 1 /\ p[i] \in {Question, t[j]}
  BY DEF ByteFits
<1>3. j + 1 \in 1 .. Len(t) + 1 <=> j <= Len(t)
  BY <1>1
<1>. QED BY <1>2, <1>3, FitsNext

(* At the end of the text only stars fit. *)
LEMMA FitsOnlyStars ==
    ASSUME NEW p \in Words, NEW t \in Words, NEW i \in 1 .. Len(p) + 1
    PROVE  Fits(p, t, i, Len(t) + 1) <=> OnlyStars(From(p, i))
<1>0. Len(p) \in Nat /\ Len(t) \in Nat /\ Len(t) + 1 \in 1 .. Len(t) + 1
  BY WordType
<1>. DEFINE C(k) == Fits(p, t, k, Len(t) + 1) <=> \A x \in k .. Len(p) : p[x] = Star
            T == {d \in Nat : d <= Len(p) => C(Len(p) + 1 - d)}
<1>1. 0 \in T
  <2>1. Fits(p, t, Len(p) + 1, Len(t) + 1)
    BY <1>0, FitsAtEnd
  <2>2. \A x \in Len(p) + 1 .. Len(p) : FALSE
    BY <1>0
  <2>3. Len(p) + 1 - 0 = Len(p) + 1
    BY <1>0
  <2>. QED BY <2>1, <2>2, <2>3
<1>2. ASSUME NEW d \in Nat, d \in T PROVE d + 1 \in T
  <2>1. SUFFICES ASSUME d + 1 <= Len(p) PROVE C(Len(p) + 1 - (d + 1))
    OBVIOUS
  <2>2. C(Len(p) + 1 - d)
    BY <1>0, <1>2, <2>1
  <2>3. PICK k \in 1 .. Len(p) : k = Len(p) - d
    <3>1. Len(p) - d \in 1 .. Len(p)
      <4>. HIDE DEF C, T
      <4>. QED BY <1>0, <2>1
    <3>. QED BY <3>1
  <2>4. Len(p) + 1 - (d + 1) = k /\ Len(p) + 1 - d = k + 1
    BY <1>0, <2>3
  <2>5. Fits(p, t, k, Len(t) + 1) <=>
            p[k] = Star /\ Fits(p, t, k + 1, Len(t) + 1)
    <3>1. CASE p[k] = Star
      <4>1. Len(t) + 1 .. Len(t) + 1 = {Len(t) + 1}
        BY <1>0
      <4>. QED BY <1>0, <3>1, <4>1, FitsStar
    <3>2. CASE p[k] # Star
      <4>1. ~ (Len(t) + 1 <= Len(t))
        BY <1>0
      <4>. QED BY <1>0, <3>2, <4>1, FitsByte
    <3>. QED BY <3>1, <3>2
  <2>6. (\A x \in k .. Len(p) : p[x] = Star)
            <=> p[k] = Star /\ \A x \in k + 1 .. Len(p) : p[x] = Star
    <3>1. k .. Len(p) = {k} \cup (k + 1 .. Len(p))
      BY <1>0
    <3>. QED BY <3>1
  <2>7. C(k + 1)
    BY <2>2, <2>4
  <2>8. C(k)
    BY <2>5, <2>6, <2>7
  <2>. QED BY <2>4, <2>8
<1>3. \A d \in Nat : d \in T
  <2>1. \A d \in Nat : d \in T => d + 1 \in T
    BY <1>2
  <2>. HIDE DEF T
  <2>. QED BY <1>1, <2>1, InductionOnNat
<1>4. C(i)
  <2>0. Len(p) + 1 - i \in Nat
    BY <1>0
  <2>1. PICK d \in Nat : d = Len(p) + 1 - i
    BY <2>0
  <2>2. d <= Len(p) /\ Len(p) + 1 - d = i
    BY <1>0, <2>1
  <2>. QED BY <1>3, <2>2
<1>5. OnlyStars(From(p, i)) <=> \A x \in i .. Len(p) : p[x] = Star
  <2>1. PICK k \in 0 .. Len(p) : k + 1 = i
    BY <1>0
  <2>2. /\ From(p, i) \in Seq(0 .. 255)
        /\ Len(From(p, i)) = Len(p) - k
        /\ \A x \in 1 .. Len(p) - k : From(p, i)[x] = p[k + x]
    <3>1. From(p, i) = SubSeq(p, k + 1, Len(p))
      BY <2>1 DEF From
    <3>2. p \in Seq(0 .. 255)
      BY DEF Words
    <3>3. /\ SubSeq(p, k + 1, Len(p)) \in Seq(0 .. 255)
          /\ Len(SubSeq(p, k + 1, Len(p))) = Len(p) - k
          /\ \A x \in 1 .. Len(p) - k : SubSeq(p, k + 1, Len(p))[x] = p[k + x]
      BY <3>2, Rest
    <3>. QED BY <3>1, <3>3
  <2>3. DOMAIN From(p, i) = 1 .. Len(p) - k
    BY <2>2, LenProperties
  <2>4. ASSUME \A x \in 1 .. Len(p) - k : p[k + x] = Star, NEW y \in i .. Len(p)
        PROVE  p[y] = Star
    <3>1. y - k \in 1 .. Len(p) - k /\ k + (y - k) = y
      BY <1>0, <2>1
    <3>. QED BY <2>4, <3>1
  <2>5. ASSUME \A y \in i .. Len(p) : p[y] = Star, NEW x \in 1 .. Len(p) - k
        PROVE  p[k + x] = Star
    BY <1>0, <2>1, <2>5
  <2>. QED BY <2>2, <2>3, <2>4, <2>5 DEF OnlyStars
<1>. QED BY <1>4, <1>5

(* Bytes that are no stars lie one behind the other. *)
LEMMA FitsThrough ==
    ASSUME NEW p \in Words, NEW t \in Words, NEW i \in 1 .. Len(p) + 1,
           NEW e \in Nat, i + e <= Len(p) + 1,
           \A k \in i .. i + e - 1 : p[k] # Star,
           NEW j \in 1 .. Len(t) + 1, Fits(p, t, i, j)
    PROVE  j + e <= Len(t) + 1 /\ Fits(p, t, i + e, j + e)
<1>0. Len(p) \in Nat /\ Len(t) \in Nat
  BY WordType
<1>. DEFINE C(d) == j + d <= Len(t) + 1 /\ Fits(p, t, i + d, j + d)
            T == {d \in Nat : d <= e => C(d)}
<1>1. 0 \in T
  <2>1. j + 0 = j /\ i + 0 = i /\ j <= Len(t) + 1
    BY <1>0
  <2>. QED BY <2>1
<1>2. ASSUME NEW d \in Nat, d \in T PROVE d + 1 \in T
  <2>1. SUFFICES ASSUME d + 1 <= e PROVE C(d + 1)
    OBVIOUS
  <2>2. C(d)
    BY <1>2, <2>1
  <2>3. PICK k \in 1 .. Len(p), m \in 1 .. Len(t) + 1 : k = i + d /\ m = j + d
    BY <1>0, <2>1, <2>2
  <2>4. p[k] # Star
    BY <2>1, <2>3
  <2>5. Fits(p, t, k, m)
    BY <2>2, <2>3
  <2>6. m <= Len(t) /\ Fits(p, t, k + 1, m + 1)
    BY <2>4, <2>5, FitsByte
  <2>7. k + 1 = i + (d + 1) /\ m + 1 = j + (d + 1)
    BY <1>0, <2>3
  <2>8. j + (d + 1) <= Len(t) + 1
    BY <1>0, <2>6, <2>7
  <2>. QED BY <2>6, <2>7, <2>8
<1>3. \A d \in Nat : d \in T
  <2>1. \A d \in Nat : d \in T => d + 1 \in T
    BY <1>2
  <2>. HIDE DEF T
  <2>. QED BY <1>1, <2>1, InductionOnNat
<1>4. e \in T /\ e <= e
  BY <1>3
<1>. QED BY <1>4

----------------------------------------------------------------------------
(* The loop of the executor's matcher.  When it has taken a star, the bytes *)
(* behind the star lie one behind the other on the text from mark on.       *)
LoopInv(p, t, s) ==
    /\ s \in Places(p, t)
    /\ s.star # 0 =>
          /\ p[s.star] = Star /\ s.j - s.mark = s.i - s.star - 1
          /\ \A k \in s.star + 1 .. s.i - 1 : p[k] # Star

(* What the loop still has to find: that the rest of the pattern fits here, *)
(* or the bytes behind the last star do further on.                         *)
Remains(p, t, s) ==
    \/ Fits(p, t, s.i, s.j)
    \/ /\ s.star # 0
       /\ \E m \in s.mark + 1 .. Len(t) + 1 : Fits(p, t, s.star + 1, m)

LEMMA PlaceFields ==
    ASSUME NEW p \in Words, NEW t \in Words, NEW s \in Places(p, t)
    PROVE  /\ Len(p) \in Nat /\ Len(t) \in Nat
           /\ s.i \in 1 .. Len(p) + 1 /\ s.j \in 1 .. Len(t) + 1
           /\ s.star \in 0 .. Len(p) /\ s.mark \in 1 .. Len(t) + 1
           /\ s.star < s.i /\ s.mark <= s.j
BY WordType DEF Places

LEMMA Gaps ==
    ASSUME NEW a \in Nat, NEW b \in Nat, 1 <= b, b <= a + 1
    PROVE  a + 1 - b \in Nat /\ a + 1 - b < a + 2 /\ a + 2 \in Nat
OBVIOUS

LEMMA PlaceGaps ==
    ASSUME NEW p \in Words, NEW t \in Words, NEW s \in Places(p, t)
    PROVE  /\ Len(p) - s.star \in Nat /\ Len(t) + 1 - s.mark \in Nat
           /\ Len(t) + 1 - s.j \in Nat /\ Len(t) + 2 \in Nat
           /\ Len(t) + 1 - s.mark < Len(t) + 2 /\ Len(t) + 1 - s.j < Len(t) + 2
<1>1. Len(p) - s.star \in Nat
  <2>1. Len(p) \in Nat /\ s.star \in 0 .. Len(p)
    BY PlaceFields
  <2>. QED BY <2>1
<1>2. /\ Len(t) \in Nat /\ s.j \in Nat /\ s.mark \in Nat
      /\ 1 <= s.j /\ s.j <= Len(t) + 1 /\ 1 <= s.mark /\ s.mark <= Len(t) + 1
  <2>1. /\ Len(t) \in Nat /\ s.j \in 1 .. Len(t) + 1
        /\ s.mark \in 1 .. Len(t) + 1
    BY PlaceFields
  <2>. QED BY <2>1
<1>. QED BY <1>1, <1>2, Gaps

Records == [i : Nat, j : Nat, star : Nat, mark : Nat]

Has(n, i, j, star, mark) ==
    n \in Records /\ n.i = i /\ n.j = j /\ n.star = star /\ n.mark = mark

LEMMA NewPlace ==
    ASSUME NEW p, NEW t, NEW n,
           NEW i \in 1 .. Len(p) + 1, NEW j \in 1 .. Len(t) + 1,
           NEW star \in 0 .. Len(p), NEW mark \in 1 .. Len(t) + 1,
           star < i, mark <= j, Has(n, i, j, star, mark)
    PROVE  n \in Places(p, t)
BY DEF Has, Records, Places

LEMMA MovedPlace ==
    ASSUME NEW p \in Words, NEW t \in Words, NEW s \in Places(p, t)
    PROVE  /\ Has(TakeStar(s), s.i + 1, s.j, s.i, s.j)
           /\ Has(TakeByte(s), s.i + 1, s.j + 1, s.star, s.mark)
           /\ s.star # 0 =>
                 Has(GoBack(s), s.star + 1, s.mark + 1, s.star, s.mark + 1)
<1>1. s \in Records
  BY WordType DEF Places, Records
<1>2. ASSUME NEW a \in Nat, NEW b \in Nat, NEW c \in Nat
      PROVE  /\ Has([s EXCEPT !.i = a, !.star = b, !.mark = c], a, s.j, b, c)
             /\ Has([s EXCEPT !.i = a, !.j = b], a, b, s.star, s.mark)
             /\ Has([s EXCEPT !.i = a, !.j = b, !.mark = c], a, b, s.star, c)
  BY <1>1 DEF Has, Records
<1>3. /\ s.i + 1 \in Nat /\ s.j + 1 \in Nat /\ s.star + 1 \in Nat
      /\ s.mark + 1 \in Nat /\ s.i \in Nat /\ s.j \in Nat
  BY <1>1 DEF Records
<1>4. Has(TakeStar(s), s.i + 1, s.j, s.i, s.j)
  BY <1>2, <1>3 DEF TakeStar
<1>5. Has(TakeByte(s), s.i + 1, s.j + 1, s.star, s.mark)
  BY <1>2, <1>3 DEF TakeByte
<1>6. ASSUME s.star # 0
      PROVE  Has(GoBack(s), s.star + 1, s.mark + 1, s.star, s.mark + 1)
  <2>1. GoBack(s) =
            [s EXCEPT !.i = s.star + 1, !.j = s.mark + 1, !.mark = s.mark + 1]
    BY <1>6 DEF GoBack
  <2>2. PICK g : /\ g = [s EXCEPT !.i = s.star + 1, !.j = s.mark + 1,
                                   !.mark = s.mark + 1]
                 /\ Has(g, s.star + 1, s.mark + 1, s.star, s.mark + 1)
    BY <1>2, <1>3
  <2>. QED BY <2>1, <2>2
<1>. QED BY <1>4, <1>5, <1>6

(* The steps of the loop, case by case. *)
AtStar(p, t, s) == s.i <= Len(p) /\ p[s.i] = Star

AtByte(p, t, s) ==
    s.i <= Len(p) /\ p[s.i] # Star /\ p[s.i] \in {Question, t[s.j]}

IsStuck(p, t, s) == ~AtStar(p, t, s) /\ ~AtByte(p, t, s)

LEMMA StarTaken ==
    ASSUME NEW p \in Words, NEW t \in Words, NEW s \in Places(p, t),
           s.j <= Len(t), AtStar(p, t, s)
    PROVE  /\ GlobStep(p, t, s) \in Places(p, t) /\ GlobStep(p, t, s) # s
           /\ GlobStep(p, t, s).i = s.i + 1 /\ GlobStep(p, t, s).j = s.j
           /\ GlobStep(p, t, s).star = s.i /\ GlobStep(p, t, s).mark = s.j
<1>1. Has(GlobStep(p, t, s), s.i + 1, s.j, s.i, s.j)
  BY MovedPlace DEF GlobStep, AtStar
<1>2. /\ s.i + 1 \in 1 .. Len(p) + 1 /\ s.j \in 1 .. Len(t) + 1
      /\ s.i \in 0 .. Len(p) /\ s.i < s.i + 1 /\ s.j <= s.j
      /\ s.i + 1 # s.i
  BY PlaceFields DEF AtStar
<1>3. GlobStep(p, t, s) \in Places(p, t)
  BY <1>1, <1>2, PlaceFields, NewPlace
<1>. QED BY <1>1, <1>2, <1>3 DEF Has

LEMMA ByteTaken ==
    ASSUME NEW p \in Words, NEW t \in Words, NEW s \in Places(p, t),
           s.j <= Len(t), AtByte(p, t, s)
    PROVE  /\ GlobStep(p, t, s) \in Places(p, t) /\ GlobStep(p, t, s) # s
           /\ GlobStep(p, t, s).i = s.i + 1 /\ GlobStep(p, t, s).j = s.j + 1
           /\ GlobStep(p, t, s).star = s.star
           /\ GlobStep(p, t, s).mark = s.mark
<1>1. Has(GlobStep(p, t, s), s.i + 1, s.j + 1, s.star, s.mark)
  BY MovedPlace DEF GlobStep, AtByte
<1>2. /\ s.i + 1 \in 1 .. Len(p) + 1 /\ s.j + 1 \in 1 .. Len(t) + 1
      /\ s.star \in 0 .. Len(p) /\ s.mark \in 1 .. Len(t) + 1
      /\ s.star < s.i + 1 /\ s.mark <= s.j + 1 /\ s.i + 1 # s.i
  <2>1. s.i \in 1 .. Len(p)
    BY PlaceFields DEF AtByte
  <2>2. s.j \in 1 .. Len(t)
    BY PlaceFields
  <2>. QED BY <2>1, <2>2, PlaceFields
<1>3. GlobStep(p, t, s) \in Places(p, t)
  BY <1>1, <1>2, PlaceFields, NewPlace
<1>. QED BY <1>1, <1>2, <1>3 DEF Has

LEMMA WentBack ==
    ASSUME NEW p \in Words, NEW t \in Words, NEW s \in Places(p, t),
           s.j <= Len(t), IsStuck(p, t, s), s.star # 0
    PROVE  /\ GlobStep(p, t, s) \in Places(p, t) /\ GlobStep(p, t, s) # s
           /\ GlobStep(p, t, s).i = s.star + 1
           /\ GlobStep(p, t, s).j = s.mark + 1
           /\ GlobStep(p, t, s).star = s.star
           /\ GlobStep(p, t, s).mark = s.mark + 1
<1>1. Has(GlobStep(p, t, s), s.star + 1, s.mark + 1, s.star, s.mark + 1)
  <2>1. GlobStep(p, t, s) = GoBack(s)
    BY DEF GlobStep, IsStuck, AtStar, AtByte
  <2>. QED BY <2>1, MovedPlace
<1>2. /\ s.star + 1 \in 1 .. Len(p) + 1 /\ s.mark + 1 \in 1 .. Len(t) + 1
      /\ s.star \in 0 .. Len(p)
      /\ s.star < s.star + 1 /\ s.mark + 1 <= s.mark + 1 /\ s.mark + 1 # s.mark
  BY PlaceFields
<1>3. GlobStep(p, t, s) \in Places(p, t)
  BY <1>1, <1>2, PlaceFields, NewPlace
<1>. QED BY <1>1, <1>2, <1>3 DEF Has

LEMMA StayedStuck ==
    ASSUME NEW p \in Words, NEW t \in Words, NEW s \in Places(p, t),
           IsStuck(p, t, s), s.star = 0
    PROVE  GlobStep(p, t, s) = s
BY DEF GlobStep, IsStuck, AtStar, AtByte, GoBack

(* A number that falls: the star moves on, or else the mark, or else the    *)
(* place in the text.                                                       *)
Weight(a, b, c, w) == a * (w * w) + b * w + c

LEMMA Multiples ==
    ASSUME NEW a \in Nat, NEW b \in Nat, NEW c \in Nat, a < b
    PROVE  a * c + c <= b * c /\ a * c \in Nat /\ b * c \in Nat
<1>1. PICK d \in Nat : b = a + 1 + d
  <2>1. b - a - 1 \in Nat /\ b = a + 1 + (b - a - 1)
    OBVIOUS
  <2>. QED BY <2>1
<1>2. b * c = a * c + c + d * c
  BY <1>1
<1>3. d * c \in Nat /\ a * c \in Nat
  OBVIOUS
<1>. QED BY <1>2, <1>3

LEMMA WeightFalls ==
    ASSUME NEW a1 \in Nat, NEW b1 \in Nat, NEW c1 \in Nat,
           NEW a2 \in Nat, NEW b2 \in Nat, NEW c2 \in Nat,
           NEW w \in Nat, b1 < w, c1 < w, b2 < w, c2 < w,
           a2 < a1 \/ (a2 = a1 /\ (b2 < b1 \/ (b2 = b1 /\ c2 < c1)))
    PROVE  /\ Weight(a1, b1, c1, w) \in Nat /\ Weight(a2, b2, c2, w) \in Nat
           /\ Weight(a2, b2, c2, w) < Weight(a1, b1, c1, w)
<1>1. PICK x \in Nat : x = w * w
  OBVIOUS
<1>2. PICK y1 \in Nat, y2 \in Nat : y1 = b1 * w /\ y2 = b2 * w
  OBVIOUS
<1>3. PICK z1 \in Nat, z2 \in Nat : z1 = a1 * x /\ z2 = a2 * x
  OBVIOUS
<1>4. y2 + w <= x
  BY <1>1, <1>2, Multiples
<1>5. /\ Weight(a1, b1, c1, w) = z1 + y1 + c1
      /\ Weight(a2, b2, c2, w) = z2 + y2 + c2
  BY <1>1, <1>2, <1>3 DEF Weight
<1>6. CASE a2 < a1
  <2>1. z2 + x <= z1
    BY <1>3, <1>6, Multiples
  <2>. QED BY <1>4, <1>5, <2>1
<1>7. CASE a2 = a1 /\ b2 < b1
  <2>1. y2 + w <= y1
    BY <1>2, <1>7, Multiples
  <2>2. z2 = z1
    BY <1>3, <1>7
  <2>. QED BY <1>5, <2>1, <2>2
<1>8. CASE a2 = a1 /\ b2 = b1 /\ c2 < c1
  <2>1. z2 = z1 /\ y2 = y1
    BY <1>2, <1>3, <1>8
  <2>. QED BY <1>5, <1>8, <2>1
<1>. QED BY <1>6, <1>7, <1>8

Measure(p, t, s) ==
    Weight(Len(p) - s.star, Len(t) + 1 - s.mark, Len(t) + 1 - s.j, Len(t) + 2)

LEMMA MeasureFalls ==
    ASSUME NEW p \in Words, NEW t \in Words, NEW s \in Places(p, t),
           s.j <= Len(t)
    PROVE  /\ GlobStep(p, t, s) \in Places(p, t)
           /\ \/ GlobStep(p, t, s) = s
              \/ Measure(p, t, GlobStep(p, t, s)) < Measure(p, t, s)
<1>1. CASE IsStuck(p, t, s) /\ s.star = 0
  BY <1>1, StayedStuck
<1>2. CASE ~ (IsStuck(p, t, s) /\ s.star = 0)
  <2>1. PICK n \in Places(p, t) :
            /\ n = GlobStep(p, t, s)
            /\ \/ n.star = s.i
               \/ n.star = s.star /\ n.mark = s.mark /\ n.j = s.j + 1
               \/ n.star = s.star /\ n.mark = s.mark + 1
    <3>1. CASE AtStar(p, t, s)
      BY <3>1, StarTaken
    <3>2. CASE AtByte(p, t, s)
      BY <3>2, ByteTaken
    <3>3. CASE IsStuck(p, t, s)
      BY <1>2, <3>3, WentBack
    <3>. QED BY <3>1, <3>2, <3>3 DEF IsStuck
  <2>2. PICK a1 \in Nat, b1 \in Nat, c1 \in Nat, w \in Nat :
            /\ a1 = Len(p) - s.star /\ b1 = Len(t) + 1 - s.mark
            /\ c1 = Len(t) + 1 - s.j /\ w = Len(t) + 2 /\ b1 < w /\ c1 < w
    <3>1. /\ Len(p) - s.star \in Nat /\ Len(t) + 1 - s.mark \in Nat
          /\ Len(t) + 1 - s.j \in Nat /\ Len(t) + 2 \in Nat
          /\ Len(t) + 1 - s.mark < Len(t) + 2 /\ Len(t) + 1 - s.j < Len(t) + 2
      BY PlaceGaps
    <3>. QED BY <3>1
  <2>3. PICK a2 \in Nat, b2 \in Nat, c2 \in Nat :
            /\ a2 = Len(p) - n.star /\ b2 = Len(t) + 1 - n.mark
            /\ c2 = Len(t) + 1 - n.j /\ b2 < w /\ c2 < w
    <3>1. /\ Len(p) - n.star \in Nat /\ Len(t) + 1 - n.mark \in Nat
          /\ Len(t) + 1 - n.j \in Nat
          /\ Len(t) + 1 - n.mark < Len(t) + 2 /\ Len(t) + 1 - n.j < Len(t) + 2
      BY PlaceGaps
    <3>. QED BY <2>2, <3>1
  <2>4. a2 < a1 \/ (a2 = a1 /\ (b2 < b1 \/ (b2 = b1 /\ c2 < c1)))
    <3>1. PICK lp \in Nat, lt \in Nat, si \in Nat, ss \in Nat, sm \in Nat, sj \in Nat :
              /\ lp = Len(p) /\ lt = Len(t) /\ si = s.i /\ ss = s.star
              /\ sm = s.mark /\ sj = s.j /\ ss < si
      <4>1. /\ Len(p) \in Nat /\ Len(t) \in Nat /\ s.i \in Nat /\ s.star \in Nat
            /\ s.mark \in Nat /\ s.j \in Nat /\ s.star < s.i
        BY PlaceFields
      <4>. QED BY <4>1
    <3>2. a1 = lp - ss /\ b1 = lt + 1 - sm /\ c1 = lt + 1 - sj
      BY <2>2, <3>1
    <3>3. CASE n.star = s.i
      <4>1. a2 = lp - si
        BY <2>3, <3>1, <3>3
      <4>2. lp - si < lp - ss
        BY <3>1
      <4>. QED BY <3>2, <4>1, <4>2
    <3>4. CASE n.star = s.star /\ n.mark = s.mark /\ n.j = s.j + 1
      <4>1. a2 = lp - ss /\ b2 = lt + 1 - sm /\ c2 = lt + 1 - (sj + 1)
        BY <2>3, <3>1, <3>4
      <4>. QED BY <3>2, <4>1
    <3>5. CASE n.star = s.star /\ n.mark = s.mark + 1
      <4>1. a2 = lp - ss /\ b2 = lt + 1 - (sm + 1)
        BY <2>3, <3>1, <3>5
      <4>. QED BY <3>2, <4>1
    <3>. QED BY <2>1, <3>3, <3>4, <3>5
  <2>5. Weight(a2, b2, c2, w) < Weight(a1, b1, c1, w)
    BY <2>2, <2>3, <2>4, WeightFalls
  <2>6. Measure(p, t, n) < Measure(p, t, s)
    BY <2>2, <2>3, <2>5 DEF Measure
  <2>. QED BY <2>1, <2>6
<1>. QED BY <1>1, <1>2

LEMMA MeasureType ==
    ASSUME NEW p \in Words, NEW t \in Words, NEW s \in Places(p, t)
    PROVE  Measure(p, t, s) \in Nat
<1>1. PICK a \in Nat, b \in Nat, c \in Nat, w \in Nat :
          /\ a = Len(p) - s.star /\ b = Len(t) + 1 - s.mark
          /\ c = Len(t) + 1 - s.j /\ w = Len(t) + 2
  <2>1. /\ Len(p) - s.star \in Nat /\ Len(t) + 1 - s.mark \in Nat
        /\ Len(t) + 1 - s.j \in Nat /\ Len(t) + 2 \in Nat
    BY PlaceGaps
  <2>. QED BY <2>1
<1>2. a * (w * w) \in Nat /\ b * w \in Nat
  <2>1. w * w \in Nat /\ b * w \in Nat
    OBVIOUS
  <2>2. PICK x \in Nat : x = w * w
    BY <2>1
  <2>3. a * x \in Nat
    OBVIOUS
  <2>. QED BY <2>1, <2>2, <2>3
<1>3. Weight(a, b, c, w) \in Nat
  BY <1>2 DEF Weight
<1>. QED BY <1>1, <1>3 DEF Measure

LEMMA StarRemains ==
    ASSUME NEW p \in Words, NEW t \in Words, NEW s, LoopInv(p, t, s),
           s.j <= Len(t), AtStar(p, t, s)
    PROVE  /\ LoopInv(p, t, GlobStep(p, t, s))
           /\ Remains(p, t, s) <=> Remains(p, t, GlobStep(p, t, s))
<1>1. s \in Places(p, t)
  BY DEF LoopInv
<1>2. PICK n \in Places(p, t) : n = GlobStep(p, t, s)
  BY <1>1, StarTaken
<1>3. n.i = s.i + 1 /\ n.j = s.j /\ n.star = s.i /\ n.mark = s.j
  BY <1>1, <1>2, StarTaken
<1>4. PICK i \in 1 .. Len(p), j \in 1 .. Len(t) + 1, star \in 0 .. Len(p),
           mark \in 1 .. Len(t) + 1 :
          s.i = i /\ s.j = j /\ s.star = star /\ s.mark = mark /\ star < i
  BY <1>1, PlaceFields DEF AtStar
<1>5. Len(p) \in Nat /\ Len(t) \in Nat /\ j <= Len(t) /\ p[i] = Star
  BY <1>4, WordType DEF AtStar
<1>6. LoopInv(p, t, n)
  <2>1. n.j - n.mark = n.i - n.star - 1
    BY <1>3, <1>4
  <2>2. \A k \in n.star + 1 .. n.i - 1 : FALSE
    BY <1>3, <1>4
  <2>. QED BY <1>2, <1>3, <1>4, <1>5, <2>1, <2>2 DEF LoopInv
<1>7. Fits(p, t, i, j) <=> \E m \in j .. Len(t) + 1 : Fits(p, t, i + 1, m)
  BY <1>5, FitsStar
<1>8. Remains(p, t, n) <=> Fits(p, t, i, j)
  <2>1. Remains(p, t, n) <=>
            Fits(p, t, i + 1, j)
                \/ \E m \in j + 1 .. Len(t) + 1 : Fits(p, t, i + 1, m)
    <3>1. i # 0
      OBVIOUS
    <3>. QED BY <1>3, <1>4, <3>1 DEF Remains
  <2>2. j .. Len(t) + 1 = {j} \cup (j + 1 .. Len(t) + 1)
    BY <1>5
  <2>. QED BY <1>7, <2>1, <2>2
<1>9. ASSUME star # 0, NEW m \in mark + 1 .. Len(t) + 1, Fits(p, t, star + 1, m)
      PROVE  Fits(p, t, i, j)
  <2>1. /\ star + 1 \in 1 .. Len(p) + 1 /\ i - star - 1 \in Nat
        /\ (star + 1) + (i - star - 1) = i /\ m \in 1 .. Len(t) + 1
        /\ i <= Len(p) + 1
    BY <1>4, <1>5
  <2>2. j - mark = i - star - 1 /\ \A k \in star + 1 .. i - 1 : p[k] # Star
    BY <1>4, <1>9 DEF LoopInv
  <2>3. PICK e \in Nat : e = i - star - 1
    BY <2>1
  <2>4. /\ star + 1 + e <= Len(p) + 1 /\ star + 1 + e = i
        /\ star + 1 + e - 1 = i - 1
    BY <1>4, <2>1, <2>3
  <2>5. m + e <= Len(t) + 1 /\ Fits(p, t, i, m + e)
    <3>1. \A k \in star + 1 .. star + 1 + e - 1 : p[k] # Star
      BY <2>2, <2>4
    <3>2. m + e <= Len(t) + 1 /\ Fits(p, t, star + 1 + e, m + e)
      BY <1>9, <2>1, <2>4, <3>1, FitsThrough
    <3>. QED BY <2>4, <3>2
  <2>6. m + e \in 1 .. Len(t) + 1 /\ m + e > j
    BY <1>4, <1>5, <2>1, <2>2, <2>3, <2>5
  <2>7. PICK x \in m + e .. Len(t) + 1 : Fits(p, t, i + 1, x)
    BY <1>5, <2>5, <2>6, FitsStar
  <2>8. x \in j .. Len(t) + 1
    BY <1>5, <2>6
  <2>. QED BY <1>7, <2>7, <2>8
<1>10. Remains(p, t, s) <=> Fits(p, t, i, j)
  BY <1>4, <1>9 DEF Remains
<1>. QED BY <1>2, <1>6, <1>8, <1>10

LEMMA ByteRemains ==
    ASSUME NEW p \in Words, NEW t \in Words, NEW s, LoopInv(p, t, s),
           s.j <= Len(t), AtByte(p, t, s)
    PROVE  /\ LoopInv(p, t, GlobStep(p, t, s))
           /\ Remains(p, t, s) <=> Remains(p, t, GlobStep(p, t, s))
<1>1. s \in Places(p, t)
  BY DEF LoopInv
<1>2. PICK n \in Places(p, t) : n = GlobStep(p, t, s)
  BY <1>1, ByteTaken
<1>3. n.i = s.i + 1 /\ n.j = s.j + 1 /\ n.star = s.star /\ n.mark = s.mark
  BY <1>1, <1>2, ByteTaken
<1>4. PICK i \in 1 .. Len(p), j \in 1 .. Len(t) + 1, star \in 0 .. Len(p),
           mark \in 1 .. Len(t) + 1 :
          s.i = i /\ s.j = j /\ s.star = star /\ s.mark = mark /\ star < i
  BY <1>1, PlaceFields DEF AtByte
<1>5. /\ Len(p) \in Nat /\ Len(t) \in Nat /\ j <= Len(t) /\ p[i] # Star
      /\ p[i] \in {Question, t[j]}
  BY <1>4, WordType DEF AtByte
<1>6. ASSUME star # 0
      PROVE  /\ p[star] = Star /\ n.j - n.mark = n.i - n.star - 1
             /\ \A k \in n.star + 1 .. n.i - 1 : p[k] # Star
  <2>1. /\ p[star] = Star /\ j - mark = i - star - 1
        /\ \A k \in star + 1 .. i - 1 : p[k] # Star
    BY <1>4, <1>6 DEF LoopInv
  <2>2. n.j - n.mark = n.i - n.star - 1
    BY <1>3, <1>4, <2>1
  <2>3. \A k \in star + 1 .. i : p[k] # Star
    <3>1. \A k \in star + 1 .. i : k = i \/ k \in star + 1 .. i - 1
      BY <1>4
    <3>. QED BY <1>5, <2>1, <3>1
  <2>4. n.star + 1 .. n.i - 1 = star + 1 .. i
    BY <1>3, <1>4
  <2>. QED BY <2>1, <2>2, <2>3, <2>4
<1>7. LoopInv(p, t, n)
  BY <1>2, <1>3, <1>4, <1>6 DEF LoopInv
<1>8. Fits(p, t, i, j) <=> Fits(p, t, i + 1, j + 1)
  BY <1>5, FitsByte
<1>9. Remains(p, t, s) <=> Remains(p, t, n)
  BY <1>3, <1>4, <1>8 DEF Remains
<1>. QED BY <1>2, <1>7, <1>9

LEMMA StuckFits ==
    ASSUME NEW p \in Words, NEW t \in Words, NEW s \in Places(p, t),
           s.j <= Len(t), IsStuck(p, t, s)
    PROVE  ~Fits(p, t, s.i, s.j)
<1>1. PICK i \in 1 .. Len(p) + 1, j \in 1 .. Len(t) + 1 : s.i = i /\ s.j = j
  BY PlaceFields
<1>2. Len(p) \in Nat /\ Len(t) \in Nat /\ j <= Len(t) /\ j # Len(t) + 1
  BY <1>1, WordType
<1>3. CASE i <= Len(p)
  <2>1. i \in 1 .. Len(p) /\ p[i] # Star /\ p[i] \notin {Question, t[j]}
    BY <1>1, <1>2, <1>3 DEF IsStuck, AtStar, AtByte
  <2>. QED BY <1>1, <2>1, FitsByte
<1>4. CASE ~ (i <= Len(p))
  <2>1. i = Len(p) + 1
    BY <1>2, <1>4
  <2>. QED BY <1>1, <1>2, <2>1, FitsAtEnd
<1>. QED BY <1>3, <1>4

LEMMA BackRemains ==
    ASSUME NEW p \in Words, NEW t \in Words, NEW s, LoopInv(p, t, s),
           s.j <= Len(t), IsStuck(p, t, s), s.star # 0
    PROVE  /\ LoopInv(p, t, GlobStep(p, t, s))
           /\ Remains(p, t, s) <=> Remains(p, t, GlobStep(p, t, s))
<1>1. s \in Places(p, t)
  BY DEF LoopInv
<1>2. PICK n \in Places(p, t) : n = GlobStep(p, t, s)
  BY <1>1, WentBack
<1>3. /\ n.i = s.star + 1 /\ n.j = s.mark + 1 /\ n.star = s.star
      /\ n.mark = s.mark + 1
  BY <1>1, <1>2, WentBack
<1>4. PICK star \in 0 .. Len(p), mark \in 1 .. Len(t) + 1 :
          s.star = star /\ s.mark = mark /\ star # 0 /\ mark <= Len(t)
  BY <1>1, PlaceFields
<1>5. Len(p) \in Nat /\ Len(t) \in Nat
  BY WordType
<1>6. LoopInv(p, t, n)
  <2>1. n.j - n.mark = n.i - n.star - 1
    BY <1>3, <1>4
  <2>2. \A k \in n.star + 1 .. n.i - 1 : FALSE
    BY <1>3, <1>4
  <2>3. p[n.star] = Star
    BY <1>3, <1>4 DEF LoopInv
  <2>. QED BY <1>2, <2>1, <2>2, <2>3 DEF LoopInv
<1>7. Remains(p, t, s) <=>
          \E m \in mark + 1 .. Len(t) + 1 : Fits(p, t, star + 1, m)
  BY <1>1, <1>4, StuckFits DEF Remains
<1>8. Remains(p, t, n) <=>
          Fits(p, t, star + 1, mark + 1)
              \/ \E m \in mark + 1 + 1 .. Len(t) + 1 : Fits(p, t, star + 1, m)
  BY <1>3, <1>4 DEF Remains
<1>9. mark + 1 .. Len(t) + 1 = {mark + 1} \cup (mark + 1 + 1 .. Len(t) + 1)
  BY <1>4, <1>5
<1>. QED BY <1>2, <1>6, <1>7, <1>8, <1>9

(* At the end of the text the star cannot go on: what lies behind it would  *)
(* not have room.                                                           *)
LEMMA EndRemains ==
    ASSUME NEW p \in Words, NEW t \in Words, NEW s, LoopInv(p, t, s),
           s.j > Len(t)
    PROVE  Remains(p, t, s) <=> OnlyStars(From(p, s.i))
<1>1. s \in Places(p, t)
  BY DEF LoopInv
<1>2. PICK i \in 1 .. Len(p) + 1, star \in 0 .. Len(p), mark \in 1 .. Len(t) + 1 :
          s.i = i /\ s.star = star /\ s.mark = mark /\ star < i
  BY <1>1, PlaceFields
<1>3. Len(p) \in Nat /\ Len(t) \in Nat /\ s.j = Len(t) + 1
  BY <1>1, PlaceFields
<1>4. Fits(p, t, i, Len(t) + 1) <=> OnlyStars(From(p, i))
  BY FitsOnlyStars
<1>5. ASSUME star # 0, NEW m \in mark + 1 .. Len(t) + 1, Fits(p, t, star + 1, m)
      PROVE  FALSE
  <2>1. /\ s.j - mark = i - star - 1
        /\ \A k \in star + 1 .. i - 1 : p[k] # Star
    BY <1>2, <1>5 DEF LoopInv
  <2>2. PICK e \in Nat : e = i - star - 1
    <3>1. i - star - 1 \in Nat
      BY <1>2, <1>3
    <3>. QED BY <3>1
  <2>3. /\ star + 1 + e <= Len(p) + 1 /\ star + 1 + e - 1 = i - 1
        /\ star + 1 \in 1 .. Len(p) + 1 /\ m \in 1 .. Len(t) + 1
    BY <1>2, <1>3, <2>2
  <2>4. m + e <= Len(t) + 1
    <3>1. \A k \in star + 1 .. star + 1 + e - 1 : p[k] # Star
      BY <2>1, <2>3
    <3>. QED BY <1>5, <2>3, <3>1, FitsThrough
  <2>. QED BY <1>3, <2>1, <2>2, <2>3, <2>4
<1>6. Remains(p, t, s) <=> Fits(p, t, i, Len(t) + 1)
  BY <1>2, <1>3, <1>5 DEF Remains
<1>. QED BY <1>2, <1>4, <1>6

(* The function that the loop computes. *)
LoopBody(g, p, t) ==
    [s \in Places(p, t) |->
        IF s.j > Len(t) THEN OnlyStars(From(p, s.i))
        ELSE LET next == GlobStep(p, t, s)
             IN  IF next = s THEN FALSE ELSE g[next]]

LEMMA LoopIsFunction ==
    ASSUME NEW p \in Words, NEW t \in Words
    PROVE  \E g : g = LoopBody(g, p, t)
<1>. DEFINE S == Places(p, t)
            ends == {s \in S : s.j > Len(t)}
            v == [s \in S |-> OnlyStars(From(p, s.i))]
            n == [s \in S |-> GlobStep(p, t, s)]
            r == [s \in S |-> Measure(p, t, s)]
<1>1. r \in [S -> Nat]
  BY MeasureType
<1>2. ASSUME NEW s \in S \ ends PROVE n[s] \in S /\ (n[s] = s \/ r[n[s]] < r[s])
  <2>1. s \in S /\ s.j <= Len(t)
    BY PlaceFields
  <2>2. /\ GlobStep(p, t, s) \in S
        /\ \/ GlobStep(p, t, s) = s
           \/ Measure(p, t, GlobStep(p, t, s)) < Measure(p, t, s)
    BY <2>1, MeasureFalls
  <2>. QED BY <2>1, <2>2
<1>3. \E g : g = LoopStep(g, S, ends, v, n)
  <2>. HIDE DEF S, ends, v, n, r
  <2>. QED BY <1>1, <1>2, LoopExists
<1>4. ASSUME NEW g PROVE LoopStep(g, S, ends, v, n) = LoopBody(g, p, t)
  <2>1. ASSUME NEW s \in S
        PROVE  (IF s \in ends THEN v[s] ELSE IF n[s] = s THEN FALSE ELSE g[n[s]])
                   = (IF s.j > Len(t) THEN OnlyStars(From(p, s.i))
                      ELSE IF GlobStep(p, t, s) = s THEN FALSE
                      ELSE g[GlobStep(p, t, s)])
    OBVIOUS
  <2>. HIDE DEF ends, v, n
  <2>. QED BY <2>1 DEF LoopStep, LoopBody, S
<1>5. PICK g : g = LoopStep(g, S, ends, v, n)
  BY <1>3
<1>. HIDE DEF S, ends, v, n
<1>. QED BY <1>4, <1>5

(* From every place the loop finds out what remains to be found.            *)
LEMMA LoopDecides ==
    ASSUME NEW p \in Words, NEW t \in Words, NEW g, g = LoopBody(g, p, t),
           NEW s, LoopInv(p, t, s)
    PROVE  g[s] <=> Remains(p, t, s)
<1>. DEFINE T == {k \in Nat : \A x \in Places(p, t) :
                      LoopInv(p, t, x) /\ Measure(p, t, x) < k
                          => (g[x] <=> Remains(p, t, x))}
<1>1. 0 \in T
  BY MeasureType
<1>2. ASSUME NEW k \in Nat, k \in T PROVE k + 1 \in T
  <2>1. SUFFICES ASSUME NEW x \in Places(p, t), LoopInv(p, t, x),
                        Measure(p, t, x) < k + 1
                 PROVE  g[x] <=> Remains(p, t, x)
    OBVIOUS
  <2>2. g[x] = IF x.j > Len(t) THEN OnlyStars(From(p, x.i))
               ELSE IF GlobStep(p, t, x) = x THEN FALSE
               ELSE g[GlobStep(p, t, x)]
    BY DEF LoopBody
  <2>3. CASE x.j > Len(t)
    <3>1. g[x] = OnlyStars(From(p, x.i))
      BY <2>2, <2>3
    <3>. QED BY <2>1, <2>3, <3>1, EndRemains
  <2>4. CASE x.j <= Len(t) /\ IsStuck(p, t, x) /\ x.star = 0
    <3>1. GlobStep(p, t, x) = x
      BY <2>4, StayedStuck
    <3>2. ~ (x.j > Len(t))
      BY <2>4, PlaceFields
    <3>3. g[x] = FALSE
      BY <2>2, <3>1, <3>2
    <3>4. ~Remains(p, t, x)
      BY <2>4, StuckFits DEF Remains
    <3>. QED BY <3>3, <3>4
  <2>5. CASE x.j <= Len(t) /\ ~ (IsStuck(p, t, x) /\ x.star = 0)
    <3>1. PICK n : n = GlobStep(p, t, x)
      OBVIOUS
    <3>2. /\ LoopInv(p, t, n)
          /\ Remains(p, t, x) <=> Remains(p, t, n)
          /\ n # x
      <4>1. CASE AtStar(p, t, x)
        BY <2>1, <2>5, <3>1, <4>1, StarRemains, StarTaken
      <4>2. CASE AtByte(p, t, x)
        BY <2>1, <2>5, <3>1, <4>2, ByteRemains, ByteTaken
      <4>3. CASE IsStuck(p, t, x)
        BY <2>1, <2>5, <3>1, <4>3, BackRemains, WentBack
      <4>. QED BY <4>1, <4>2, <4>3 DEF IsStuck
    <3>3. n \in Places(p, t)
      BY <3>2 DEF LoopInv
    <3>4. Measure(p, t, n) < k
      <4>1. Measure(p, t, n) < Measure(p, t, x)
        BY <2>5, <3>1, <3>2, MeasureFalls
      <4>2. Measure(p, t, n) \in Nat /\ Measure(p, t, x) \in Nat
        BY <3>3, MeasureType
      <4>. QED BY <2>1, <4>1, <4>2
    <3>5. g[n] <=> Remains(p, t, n)
      BY <1>2, <3>2, <3>3, <3>4
    <3>6. ~ (x.j > Len(t))
      BY <2>5, PlaceFields
    <3>7. g[x] = g[n]
      BY <2>2, <3>1, <3>2, <3>6
    <3>. QED BY <3>2, <3>5, <3>7
  <2>6. x.j > Len(t) \/ x.j <= Len(t)
    BY PlaceFields
  <2>. QED BY <2>3, <2>4, <2>5, <2>6
<1>3. \A k \in Nat : k \in T
  <2>1. \A k \in Nat : k \in T => k + 1 \in T
    BY <1>2
  <2>. HIDE DEF T
  <2>. QED BY <1>1, <2>1, InductionOnNat
<1>4. s \in Places(p, t)
  BY DEF LoopInv
<1>5. PICK k \in Nat : Measure(p, t, s) < k
  <2>1. Measure(p, t, s) \in Nat
    BY <1>4, MeasureType
  <2>2. Measure(p, t, s) + 1 \in Nat /\ Measure(p, t, s) < Measure(p, t, s) + 1
    BY <2>1
  <2>. QED BY <2>2
<1>6. k \in T
  BY <1>3
<1>. QED BY <1>4, <1>5, <1>6

LEMMA BeginRemains ==
    ASSUME NEW p \in Words, NEW t \in Words
    PROVE  /\ LoopInv(p, t, Begin)
           /\ Remains(p, t, Begin) <=> Matches(p, t)
<1>1. Begin \in Places(p, t)
  BY WordType DEF Begin, Places
<1>2. Begin.i = 1 /\ Begin.j = 1 /\ Begin.star = 0
  BY DEF Begin
<1>3. LoopInv(p, t, Begin)
  BY <1>1, <1>2 DEF LoopInv
<1>4. Remains(p, t, Begin) <=> Fits(p, t, 1, 1)
  BY <1>2 DEF Remains
<1>. QED BY <1>3, <1>4, FitsFromStart

(* The matcher of the executor does what a glob means, for every pattern    *)
(* and every text: going back to the last star only, never to one before    *)
(* it, misses nothing (glob_match of executor.rs).                          *)
THEOREM GlobMatcherIsRight ==
    \A p, t \in Words : GlobMatch(p, t) <=> Matches(p, t)
<1>1. SUFFICES ASSUME NEW p \in Words, NEW t \in Words
               PROVE  GlobMatch(p, t) <=> Matches(p, t)
  OBVIOUS
<1>. DEFINE g == CHOOSE g : g = LoopBody(g, p, t)
<1>2. GlobMatch(p, t) = g[Begin]
  BY DEF GlobMatch, LoopBody
<1>3. g = LoopBody(g, p, t)
  BY LoopIsFunction, Zenon
<1>. HIDE DEF g
<1>4. g[Begin] <=> Remains(p, t, Begin)
  BY <1>3, BeginRemains, LoopDecides
<1>. QED BY <1>2, <1>4, BeginRemains

(* On a text without a star the registry's matcher takes the same steps.    *)
LEMMA RegistrySteps ==
    ASSUME NEW p \in Words, NEW t \in Words, \A i \in DOMAIN t : t[i] # Star,
           NEW s \in Places(p, t), s.j <= Len(t)
    PROVE  RegistryStep(p, t, s) = GlobStep(p, t, s)
<1>1. s.j \in DOMAIN t /\ Star # Question
  BY PlaceFields, WordType DEF Star, Question
<1>2. p[s.i] = Star => p[s.i] \notin {Question, t[s.j]}
  BY <1>1
<1>. QED BY <1>2 DEF RegistryStep, GlobStep

RegistryBody(g, p, t) ==
    [s \in Places(p, t) |->
        IF s.j > Len(t) THEN OnlyStars(From(p, s.i))
        ELSE LET next == RegistryStep(p, t, s)
             IN  IF next = s THEN FALSE ELSE g[next]]

(* The matcher of the registry, which counts the receivers of a PUBLISH and *)
(* answers PUBSUB CHANNELS, does what a glob means when the channel's name  *)
(* has no star in it (GlobalRegistry::glob_match).                          *)
THEOREM RegistryMatcherIsRight ==
    \A p, t \in Words :
        (\A i \in DOMAIN t : t[i] # Star) => (RegistryMatch(p, t) <=> Matches(p, t))
<1>1. SUFFICES ASSUME NEW p \in Words, NEW t \in Words,
                      \A i \in DOMAIN t : t[i] # Star
               PROVE  RegistryMatch(p, t) <=> Matches(p, t)
  OBVIOUS
<1>. DEFINE g == CHOOSE g : g = RegistryBody(g, p, t)
<1>2. RegistryMatch(p, t) = g[Begin]
  BY DEF RegistryMatch, RegistryBody
<1>3. ASSUME NEW h PROVE RegistryBody(h, p, t) = LoopBody(h, p, t)
  <2>1. ASSUME NEW s \in Places(p, t)
        PROVE  (IF s.j > Len(t) THEN OnlyStars(From(p, s.i))
                ELSE IF RegistryStep(p, t, s) = s THEN FALSE
                ELSE h[RegistryStep(p, t, s)])
                   = (IF s.j > Len(t) THEN OnlyStars(From(p, s.i))
                      ELSE IF GlobStep(p, t, s) = s THEN FALSE
                      ELSE h[GlobStep(p, t, s)])
    <3>1. s.j > Len(t) \/ s.j <= Len(t)
      BY PlaceFields
    <3>2. s.j <= Len(t) => RegistryStep(p, t, s) = GlobStep(p, t, s)
      BY <1>1, RegistrySteps
    <3>. QED BY <3>1, <3>2
  <2>. QED BY <2>1 DEF RegistryBody, LoopBody
<1>4. \E h : h = RegistryBody(h, p, t)
  <2>1. PICK h : h = LoopBody(h, p, t)
    BY LoopIsFunction
  <2>. QED BY <1>3, <2>1
<1>5. g = RegistryBody(g, p, t)
  BY <1>4, Zenon
<1>. HIDE DEF g
<1>6. g = LoopBody(g, p, t)
  BY <1>3, <1>5
<1>7. g[Begin] <=> Remains(p, t, Begin)
  BY <1>6, BeginRemains, LoopDecides
<1>. QED BY <1>2, <1>7, BeginRemains

----------------------------------------------------------------------------
(* KEYS and SCAN. *)

StoreInv == store \in SUBSET Keys /\ IsFiniteSet(store) /\ lasting \subseteq store

LEMMA KeyFacts ==
    ASSUME NEW k \in Keys
    PROVE  k \in Words /\ k # <<>> /\ AtMost(k, Last) /\ AtMost(<<>>, k)
<1>1. k \in Seq(0 .. 254) /\ k # <<>>
  BY KeyspaceBoundsAssumption
<1>2. /\ Len(k) \in Nat /\ DOMAIN k = 1 .. Len(k) /\ Len(k) # 0
      /\ \A i \in 1 .. Len(k) : k[i] \in 0 .. 254
  BY <1>1, LenProperties, ElementOfSeq, EmptySeq
<1>3. k \in Words
  <2>1. 0 .. 254 \subseteq 0 .. 255
    OBVIOUS
  <2>. QED BY <1>1, <2>1, SeqMonotonic DEF Words
<1>4. AtMost(k, Last)
  <2>1. 1 \in DOMAIN k /\ k[1] \in 0 .. 254
    BY <1>2
  <2>2. 1 \in DOMAIN Last /\ Last[1] = 255
    BY DEF Last
  <2>3. k[1] < Last[1] /\ \A i \in 1 .. 1 - 1 : k[i] = Last[i]
    BY <2>1, <2>2
  <2>. QED BY <2>1, <2>2, <2>3 DEF AtMost
<1>. QED BY <1>1, <1>3, <1>4, OrderOfEmpty

(* The text of a key is a word too. *)
Read(f, s) ==
    [n \in 0 .. Len(s) |-> IF n = 0 THEN <<>> ELSE f[n - 1] \o Reading(s, n)]

LEMMA ReadExists ==
    ASSUME NEW s \in Words
    PROVE  \E f : f = Read(f, s)
<1>. DEFINE Body(f, n) == IF n = 0 THEN <<>> ELSE f[n - 1] \o Reading(s, n)
            D(m) == \E f : f = [n \in 0 .. m |-> Body(f, n)]
            T == {m \in Nat : D(m)}
<1>1. D(0)
  <2>1. PICK f : f = [n \in 0 .. 0 |-> <<>>]
    OBVIOUS
  <2>2. \A n \in 0 .. 0 : f[n] = Body(f, n)
    BY <2>1
  <2>3. f = [n \in 0 .. 0 |-> Body(f, n)]
    <3>. HIDE DEF Body
    <3>. QED BY <2>1, <2>2
  <2>. QED BY <2>3
<1>2. ASSUME NEW m \in Nat, D(m) PROVE D(m + 1)
  <2>1. PICK g : g = [n \in 0 .. m |-> Body(g, n)]
    BY <1>2
  <2>2. PICK f : f = [n \in 0 .. m + 1 |->
                          IF n = m + 1 THEN g[m] \o Reading(s, n) ELSE g[n]]
    OBVIOUS
  <2>3. ASSUME NEW n \in 0 .. m + 1 PROVE f[n] = Body(f, n)
    <3>1. CASE n = 0
      <4>1. 0 \in 0 .. m /\ 0 # m + 1 /\ n \in 0 .. m + 1
        BY <3>1
      <4>2. f[n] = g[0] /\ g[0] = Body(g, 0)
        BY <2>1, <2>2, <3>1, <4>1
      <4>. QED BY <3>1, <4>2
    <3>2. CASE n # 0
      <4>1. n - 1 \in 0 .. m /\ n - 1 \in 0 .. m + 1 /\ n - 1 # m + 1
        BY <3>2
      <4>2. f[n - 1] = g[n - 1]
        BY <2>2, <4>1
      <4>3. CASE n = m + 1
        <5>1. n - 1 = m
          BY <4>3
        <5>2. f[n] = g[m] \o Reading(s, n)
          BY <2>2, <4>3, Zenon
        <5>. QED BY <3>2, <4>2, <5>1, <5>2
      <4>4. CASE n # m + 1
        <5>1. n \in 0 .. m /\ f[n] = g[n]
          BY <2>2, <4>4
        <5>2. g[n] = Body(g, n)
          <6>. HIDE DEF Body
          <6>. QED BY <2>1, <5>1
        <5>. QED BY <3>2, <4>2, <5>1, <5>2
      <4>. QED BY <4>3, <4>4
    <3>. QED BY <3>1, <3>2
  <2>4. f = [n \in 0 .. m + 1 |-> Body(f, n)]
    <3>. HIDE DEF Body
    <3>. QED BY <2>2, <2>3
  <2>. QED BY <2>4
<1>3. 0 \in T /\ \A m \in Nat : m \in T => m + 1 \in T
  <2>. HIDE DEF D
  <2>. QED BY <1>1, <1>2
<1>4. \A m \in Nat : m \in T
  <2>. HIDE DEF T
  <2>. QED BY <1>3, InductionOnNat
<1>5. Len(s) \in Nat
  BY WordType
<1>6. PICK f : f = [n \in 0 .. Len(s) |-> Body(f, n)]
  BY <1>4, <1>5
<1>. QED BY <1>6 DEF Read

LEMMA ReadingType ==
    ASSUME NEW s \in Words, NEW n \in 1 .. Len(s)
    PROVE  Reading(s, n) \in Words
<1>1. PICK b \in 0 .. 255 : b = s[n]
  BY WordType
<1>2. <<b>> \in Words /\ <<>> \in Words /\ Replacement \in Words
  BY DEF Words, Replacement
<1>3. Reading(s, n) \in {<<b>>, <<>>, Replacement}
  BY <1>1 DEF Reading
<1>. QED BY <1>2, <1>3

LEMMA TextType ==
    ASSUME NEW s \in Words
    PROVE  FromUtf8Lossy(s) \in Words
<1>. DEFINE f == CHOOSE f : f = Read(f, s)
            T == {n \in Nat : n <= Len(s) => f[n] \in Words}
<1>1. FromUtf8Lossy(s) = f[Len(s)]
  BY DEF FromUtf8Lossy, Read
<1>2. f = Read(f, s)
  BY ReadExists, Zenon
<1>. HIDE DEF f
<1>3. Len(s) \in Nat
  BY WordType
<1>4. \A n \in 0 .. Len(s) :
          f[n] = IF n = 0 THEN <<>> ELSE f[n - 1] \o Reading(s, n)
  BY <1>2 DEF Read
<1>5. 0 \in T
  <2>1. <<>> \in Words
    BY DEF Words
  <2>2. f[0] = <<>>
    BY <1>3, <1>4
  <2>. QED BY <2>1, <2>2
<1>6. ASSUME NEW n \in Nat, n \in T PROVE n + 1 \in T
  <2>1. SUFFICES ASSUME n + 1 <= Len(s) PROVE f[n + 1] \in Words
    BY <1>3
  <2>2. f[n] \in Words /\ Reading(s, n + 1) \in Words
    BY <1>3, <1>6, <2>1, ReadingType
  <2>3. f[n + 1] = f[n] \o Reading(s, n + 1)
    <3>1. n + 1 \in 0 .. Len(s) /\ n + 1 # 0 /\ (n + 1) - 1 = n
      BY <1>3, <2>1
    <3>2. f[n + 1] = f[(n + 1) - 1] \o Reading(s, n + 1)
      BY <1>4, <3>1
    <3>. QED BY <3>1, <3>2
  <2>. QED BY <2>2, <2>3, ConcatProperties DEF Words
<1>7. Len(s) \in T
  <2>. HIDE DEF T
  <2>. QED BY <1>3, <1>5, <1>6, InductionOnNat
<1>. QED BY <1>1, <1>3, <1>7

LEMMA MatchOfKey ==
    ASSUME NEW p \in Patterns, NEW k \in Keys
    PROVE  /\ p \in Words /\ FromUtf8Lossy(p) = p
           /\ MatchPattern(k, p) <=> KeyMatches(p, k)
           /\ KeyMatches(p, k) /\ FromUtf8Lossy(k) = k
                  => AtMost(ExtractPrefix(p), k)
<1>1. p \in Words /\ FromUtf8Lossy(p) = p
  BY KeyspaceBoundsAssumption, PatternsAreTextAssumption DEF Words
<1>2. PICK t \in Words : t = FromUtf8Lossy(k)
  BY KeyFacts, TextType
<1>3. GlobMatch(p, t) <=> Matches(p, t)
  BY <1>1, GlobMatcherIsRight
<1>4. Matches(p, t) => AtMost(ExtractPrefix(p), t)
  BY <1>1, MatchesPrefix DEF AtMost
<1>. QED BY <1>1, <1>2, <1>3, <1>4 DEF MatchPattern, KeyMatches

LEMMA KeysAreRight == StoreInv => KeysAnswersMatches
<1>1. SUFFICES ASSUME StoreInv, NEW p \in Patterns, NEW k \in store
               PROVE  /\ k \in KeysReply(p) => KeyMatches(p, k)
                      /\ k \notin KeysReply(p) /\ KeyMatches(p, k)
                             => Overlooked(p, k)
  <2>1. ASSUME NEW p \in Patterns PROVE KeysReply(p) \subseteq store
    BY DEF KeysReply, RangeQuery, Between
  <2>. QED BY <2>1 DEF KeysAnswersMatches
<1>2. k \in Keys /\ k \in Words /\ AtMost(k, Last) /\ AtMost(<<>>, k)
  BY <1>1, KeyFacts DEF StoreInv
<1>3. /\ p \in Words /\ FromUtf8Lossy(p) = p
      /\ MatchPattern(k, p) <=> KeyMatches(p, k)
  BY <1>2, MatchOfKey
<1>4. CASE ExtractPrefix(p) # <<>> /\ p = ExtractPrefix(p)
  <2>1. k \in KeysReply(p) <=> k = p
    BY <1>1, <1>4 DEF KeysReply
  <2>2. PICK t \in Words : t = FromUtf8Lossy(k)
    BY <1>2, TextType
  <2>3. KeyMatches(p, k) <=> t = p
    BY <1>3, <1>4, <2>2, PlainMatchesItself DEF KeyMatches
  <2>4. t # k => Overlooked(p, k)
    BY <1>4, <2>2 DEF Overlooked
  <2>. QED BY <1>3, <2>1, <2>2, <2>3, <2>4
<1>5. CASE ~ (ExtractPrefix(p) # <<>> /\ p = ExtractPrefix(p))
  <2>. DEFINE B == Between(ExtractPrefix(p), KeysEnd(p))
  <2>1. k \in KeysReply(p) <=>
            k \in B /\ Rank(B, k) <= KeysLimit /\ MatchPattern(k, p)
    BY <1>1, <1>5 DEF KeysReply, RangeQuery
  <2>2. SUFFICES ASSUME KeyMatches(p, k), ~Overlooked(p, k)
                 PROVE  k \in B /\ Rank(B, k) <= KeysLimit
    BY <1>3, <2>1
  <2>3. k \in B
    <3>1. CASE ExtractPrefix(p) = <<>>
      BY <1>1, <1>2, <3>1 DEF Between, KeysEnd
    <3>2. CASE ExtractPrefix(p) # <<>>
      <4>1. FromUtf8Lossy(k) = k /\ AtMost(k, Bound(p))
        BY <1>5, <2>2, <3>2 DEF Overlooked
      <4>2. AtMost(ExtractPrefix(p), k)
        BY <1>2, <2>2, <4>1, MatchOfKey
      <4>. QED BY <1>1, <3>2, <4>1, <4>2 DEF Between, KeysEnd
    <3>. QED BY <3>1, <3>2
  <2>4. Rank(B, k) <= KeysLimit
    <3>1. ~ (Rank(B, k) > KeysLimit)
      BY <1>5, <2>2 DEF Overlooked
    <3>2. B \in SUBSET Words /\ IsFiniteSet(B)
      <4>1. B \in SUBSET store
        BY DEF Between
      <4>. QED BY <1>1, <4>1, KeyFacts, FS_Subset DEF StoreInv
    <3>. HIDE DEF B
    <3>3. Rank(B, k) \in 1 .. Cardinality(B) /\ Cardinality(B) \in Nat
      BY <2>3, <3>2, RankType, FS_CardinalityType
    <3>4. KeysLimit \in Nat
      BY KeyspaceBoundsAssumption
    <3>. QED BY <3>1, <3>3, <3>4
  <2>. QED BY <2>3, <2>4
<1>. QED BY <1>4, <1>5

(* The keys that the client is due: those that match, and neither beyond    *)
(* the bound nor other bytes than their text.                               *)
IsDue(p, k) ==
    /\ p = NoPattern \/ KeyMatches(p, k)
    /\ Narrowed(p) => AtMost(k, Bound(p)) /\ FromUtf8Lossy(k) = k

LEMMA WantedMatches ==
    ASSUME NEW p \in Patterns \cup {NoPattern}, NEW k \in Keys
    PROVE  Wanted(p, k) <=> p = NoPattern \/ KeyMatches(p, k)
BY MatchOfKey DEF Wanted

(* The range of a call goes on from the cursor, and has every key due.      *)
LEMMA RangeOfCall ==
    ASSUME StoreInv, NEW p \in Patterns \cup {NoPattern},
           NEW cursor \in Words \ {<<>>}, NEW k \in store
    PROVE  /\ k \in Range0(p, cursor) /\ cursor # Zero => AtMost(cursor, k)
           /\ IsDue(p, k) /\ (cursor = Zero \/ AtMost(cursor, k))
                  => k \in Range0(p, cursor)
<1>1. k \in Keys /\ AtMost(k, Last) /\ AtMost(<<>>, k)
  BY KeyFacts DEF StoreInv
<1>2. cursor # Zero => ScanStart(p, cursor) = cursor
  BY DEF ScanStart, Start
<1>3. k \in Range0(p, cursor) <=>
          AtMost(ScanStart(p, cursor), k) /\ AtMost(k, ScanEnd(p))
  BY DEF Range0, Between
<1>4. IsDue(p, k) => AtMost(k, ScanEnd(p))
  BY <1>1 DEF IsDue, ScanEnd
<1>5. ASSUME IsDue(p, k), cursor = Zero PROVE AtMost(ScanStart(p, cursor), k)
  <2>1. CASE Narrowed(p)
    <3>1. /\ p # NoPattern /\ p \in Patterns /\ KeyMatches(p, k)
          /\ FromUtf8Lossy(k) = k
      BY <1>5, <2>1 DEF Narrowed, IsDue
    <3>2. ScanStart(p, cursor) = ExtractPrefix(p)
      BY <1>5, <2>1 DEF ScanStart, Start
    <3>. QED BY <1>1, <3>1, <3>2, MatchOfKey
  <2>2. CASE ~Narrowed(p)
    <3>1. ScanStart(p, cursor) = <<>>
      BY <1>5, <2>2 DEF ScanStart, Start
    <3>. QED BY <1>1, <3>1
  <2>. QED BY <2>1, <2>2
<1>. QED BY <1>2, <1>3, <1>4, <1>5

(* The keys of a reply continue those returned before, if they come after   *)
(* them.                                                                    *)
Ascends(s) == \A i \in 2 .. Len(s) : Before(s[i - 1], s[i])

LEMMA OrderedAscends ==
    ASSUME NEW S \in SUBSET Words, IsFiniteSet(S)
    PROVE  Ascends(Ordered(S)) /\ Range(Ordered(S)) = S
<1>1. PICK n \in Nat : n = Cardinality(S)
  BY FS_CardinalityType
<1>2. PICK s \in Seq(S) : s = Ordered(S)
  BY OrderedKeys
<1>3. /\ Len(s) = n /\ DOMAIN s = 1 .. n
      /\ \A i \in 1 .. n : s[i] \in S /\ Rank(S, s[i]) = i
      /\ \A k \in S : \E i \in 1 .. n : s[i] = k
  <2>1. /\ Len(s) = n /\ \A i \in 1 .. n : Rank(S, s[i]) = i
        /\ \A k \in S : \E i \in 1 .. n : s[i] = k
    BY <1>1, <1>2, OrderedKeys
  <2>. QED BY <2>1, LenProperties, ElementOfSeq
<1>4. ASSUME NEW i \in 2 .. n PROVE Before(s[i - 1], s[i])
  <2>1. i - 1 \in 1 .. n /\ i \in 1 .. n /\ i - 1 <= i /\ i - 1 # i
    OBVIOUS
  <2>2. PICK k \in S, l \in S : k = s[i - 1] /\ l = s[i]
    BY <1>3, <2>1
  <2>3. Rank(S, k) = i - 1 /\ Rank(S, l) = i
    BY <1>3, <2>1, <2>2
  <2>4. AtMost(k, l)
    BY <2>1, <2>3, OrderByRank
  <2>. QED BY <2>1, <2>2, <2>3, <2>4 DEF Before
<1>5. Range(s) = S
  BY <1>3 DEF Range
<1>. QED BY <1>2, <1>3, <1>4, <1>5 DEF Ascends

LEMMA AppendedKeys ==
    ASSUME NEW r \in Seq(Keys), Ascends(r),
           NEW S \in SUBSET Keys, IsFiniteSet(S),
           \A x \in Range(r) : \A k \in S : Before(x, k)
    PROVE  /\ r \o Ordered(S) \in Seq(Keys)
           /\ Ascends(r \o Ordered(S))
           /\ Range(r \o Ordered(S)) = Range(r) \cup S
<1>1. S \in SUBSET Words
  BY KeyFacts
<1>2. PICK s \in Seq(Keys) : s = Ordered(S)
  <2>1. Ordered(S) \in Seq(S)
    BY <1>1, OrderedKeys
  <2>. QED BY <2>1, SeqMonotonic
<1>3. Ascends(s) /\ Range(s) = S
  BY <1>1, <1>2, OrderedAscends
<1>4. /\ r \o s \in Seq(Keys) /\ Len(r \o s) = Len(r) + Len(s)
      /\ \A i \in 1 .. Len(r) + Len(s) :
             (r \o s)[i] = IF i <= Len(r) THEN r[i] ELSE s[i - Len(r)]
  BY ConcatProperties
<1>5. PICK m \in Nat, n \in Nat : m = Len(r) /\ n = Len(s)
  BY LenProperties
<1>6. PICK q : q = r \o s
  OBVIOUS
<1>7. /\ q \in Seq(Keys) /\ Len(q) = m + n
      /\ \A i \in 1 .. m : q[i] = r[i]
      /\ \A i \in 1 .. m + n : i > m => q[i] = s[i - m]
  BY <1>4, <1>5, <1>6
<1>8. /\ DOMAIN r = 1 .. m /\ DOMAIN s = 1 .. n /\ DOMAIN q = 1 .. m + n
  BY <1>5, <1>7, LenProperties
<1>9. ASSUME NEW i \in 2 .. m + n PROVE Before(q[i - 1], q[i])
  <2>1. CASE i <= m
    <3>1. q[i - 1] = r[i - 1] /\ q[i] = r[i] /\ i \in 2 .. m
      BY <1>7, <2>1
    <3>. QED BY <1>5, <3>1 DEF Ascends
  <2>2. CASE i = m + 1
    <3>1. i - 1 \in 1 .. m /\ 1 \in 1 .. n /\ i > m /\ i - m = 1
      BY <2>2
    <3>2. q[i - 1] = r[i - 1] /\ q[i] = s[1]
      BY <1>7, <3>1
    <3>3. q[i - 1] \in Range(r) /\ q[i] \in S
      BY <1>3, <1>8, <3>1, <3>2 DEF Range
    <3>. QED BY <3>3
  <2>3. CASE i > m + 1
    <3>1. /\ i - m \in 2 .. n /\ i - 1 \in 1 .. m + n /\ i - 1 > m /\ i > m
          /\ (i - 1) - m = (i - m) - 1
      BY <2>3
    <3>2. q[i - 1] = s[(i - m) - 1] /\ q[i] = s[i - m]
      <4>1. q[i - 1] = s[(i - 1) - m] /\ q[i] = s[i - m]
        BY <1>7, <3>1
      <4>. QED BY <3>1, <4>1
    <3>. QED BY <1>3, <1>5, <3>1, <3>2 DEF Ascends
  <2>. QED BY <2>1, <2>2, <2>3
<1>10. Range(q) = Range(r) \cup Range(s)
  <2>1. ASSUME NEW i \in 1 .. m + n PROVE q[i] \in Range(r) \cup Range(s)
    <3>1. CASE i <= m
      <4>1. i \in DOMAIN r /\ q[i] = r[i]
        BY <1>7, <1>8, <3>1
      <4>. QED BY <4>1 DEF Range
    <3>2. CASE ~ (i <= m)
      <4>1. i - m \in 1 .. n /\ q[i] = s[i - m]
        BY <1>7, <3>2
      <4>. QED BY <1>8, <4>1 DEF Range
    <3>. QED BY <3>1, <3>2
  <2>2. ASSUME NEW i \in 1 .. m PROVE r[i] \in Range(q)
    <3>1. i \in 1 .. m + n /\ q[i] = r[i]
      BY <1>7
    <3>. QED BY <1>8, <3>1 DEF Range
  <2>3. ASSUME NEW i \in 1 .. n PROVE s[i] \in Range(q)
    <3>1. m + i \in 1 .. m + n /\ m + i > m /\ (m + i) - m = i
      OBVIOUS
    <3>2. q[m + i] = s[i]
      BY <1>7, <3>1
    <3>. QED BY <1>8, <3>1, <3>2 DEF Range
  <2>. QED BY <1>8, <2>1, <2>2, <2>3 DEF Range
<1>11. Ascends(q)
  BY <1>7, <1>9 DEF Ascends
<1>. QED BY <1>2, <1>3, <1>6, <1>7, <1>10, <1>11

LEMMA ReplyTypes ==
    ASSUME StoreInv, NEW p, NEW count, NEW cursor
    PROVE  /\ Reply(p, count, cursor).more \in BOOLEAN
           /\ Reply(p, count, cursor).reach \in Words
<1>. DEFINE low == ScanStart(p, cursor)
            B == Between(low, ScanEnd(p))
            F == RangeQuery(low, ScanEnd(p), FetchLimit(p, count))
            r == Reply(p, count, cursor)
<1>1. r.more \in BOOLEAN
  BY DEF Reply
<1>2. r.reach = IF F = B THEN Last
                ELSE IF F = {} THEN <<>> ELSE Ordered(F)[Cardinality(F)]
  BY DEF Reply
<1>3. F \in SUBSET store
  BY DEF RangeQuery, Between
<1>4. Last \in Words /\ <<>> \in Words
  BY DEF Last, Words
<1>5. F \in SUBSET Words /\ IsFiniteSet(F)
  <2>. HIDE DEF F
  <2>. QED BY <1>3, FS_Subset, KeyFacts DEF StoreInv
<1>6. F # {} => Ordered(F)[Cardinality(F)] \in Words
  <2>. HIDE DEF F
  <2>. QED BY <1>5, FirstAndLast
<1>. HIDE DEF F, B, r
<1>7. r.reach \in Words
  BY <1>2, <1>4, <1>6
<1>. QED BY <1>1, <1>7 DEF r

----------------------------------------------------------------------------
(* The walk of the client. *)

Scans == [pattern : Patterns \cup {NoPattern}, count : Counts,
          cursor : Words \ {<<>>}, done : BOOLEAN,
          reach : Words, more : BOOLEAN]

(* Before the first reply nothing has been returned; from then on the       *)
(* client has every key that it is due and that the cursor has passed.      *)
ScanInv ==
    /\ scan \in Scans
    /\ returned \in Seq(Keys)
    /\ ~scan.done /\ scan.cursor = Zero => returned = <<>>
    /\ ~scan.done /\ scan.cursor # Zero =>
          \A k \in lasting : IsDue(scan.pattern, k) /\ Before(k, scan.cursor)
                                 => k \in Range(returned)

KeyInv == StoreInv /\ ScanInv /\ ScanOnce /\ ScanComplete

LEMMA InitKeys == Init => KeyInv
<1>1. SUFFICES ASSUME Init PROVE KeyInv
  OBVIOUS
<1>2. StoreInv
  BY <1>1 DEF Init, StoreInv
<1>3. PICK p \in Patterns \cup {NoPattern}, count \in Counts :
          scan = [pattern |-> p, count |-> count, cursor |-> Zero,
                  done |-> FALSE, reach |-> <<>>, more |-> FALSE]
  BY <1>1 DEF Init
<1>4. scan \in Scans /\ ~scan.done /\ scan.cursor = Zero
  <2>1. <<>> \in Words
    BY DEF Words
  <2>. QED BY <1>3, <2>1, ZeroIsWord DEF Scans
<1>5. returned = <<>> /\ returned \in Seq(Keys) /\ Len(returned) = 0
      /\ Range(returned) = {}
  BY <1>1 DEF Init, Range
<1>6. ScanOnce
  BY <1>5 DEF ScanOnce
<1>. QED BY <1>2, <1>4, <1>5, <1>6 DEF KeyInv, ScanInv, ScanComplete

LEMMA ScanKeeps == KeyInv /\ Scan => KeyInv'
<1>1. SUFFICES ASSUME KeyInv, Scan PROVE KeyInv'
  OBVIOUS
<1>2. StoreInv /\ StoreInv'
  BY <1>1 DEF KeyInv, Scan, StoreInv
<1>3. PICK p \in Patterns \cup {NoPattern}, count \in Counts,
           cursor \in Words \ {<<>>} :
          scan.pattern = p /\ scan.count = count /\ scan.cursor = cursor
  BY <1>1 DEF KeyInv, ScanInv, Scans
<1>. DEFINE S == Found(p, count, cursor)
            B == Range0(p, cursor)
<1>4. PICK r : r = Reply(p, count, cursor)
  OBVIOUS
<1>5. /\ ~scan.done
      /\ scan' = [scan EXCEPT !.cursor = r.cursor, !.done = (r.cursor = Zero),
                              !.reach = r.reach, !.more = r.more]
      /\ returned' = returned \o r.keys
      /\ store' = store /\ lasting' = lasting
  BY <1>1, <1>3, <1>4 DEF Scan
<1>6. /\ r.keys = Ordered(S) /\ S \subseteq B
      /\ r.cursor \in B \cup {Zero}
      /\ r.cursor # Zero =>
            /\ \A k \in S : Before(k, r.cursor)
            /\ \A k \in B : Wanted(p, k) /\ Before(k, r.cursor) => k \in S
      /\ r.cursor = Zero =>
            \A k \in B : Wanted(p, k) =>
                \/ k \in S
                \/ r.more /\ AtMost(Zero, k)
                \/ p # NoPattern /\ ~AtMost(k, r.reach)
  <2>1. store \in SUBSET (Words \ {<<>>}) /\ IsFiniteSet(store)
    BY <1>2, KeyFacts DEF StoreInv
  <2>2. count \in Nat
    BY KeyspaceBoundsAssumption
  <2>3. ReplyIsRight(p, count, cursor)
    BY <2>1, <2>2, ReplyOfScan
  <2>. QED BY <1>4, <2>3 DEF ReplyIsRight
<1>7. /\ B \subseteq store /\ store \subseteq Keys /\ IsFiniteSet(S)
      /\ \A k \in S : Wanted(p, k)
  <2>1. B \subseteq store /\ store \subseteq Keys /\ IsFiniteSet(store)
    BY <1>2 DEF Range0, Between, StoreInv
  <2>2. IsFiniteSet(S)
    <3>. HIDE DEF S, B
    <3>. QED BY <1>6, <2>1, FS_Subset
  <2>3. \A k \in S : Wanted(p, k)
    BY DEF Found
  <2>. HIDE DEF S, B
  <2>. QED BY <2>1, <2>2, <2>3
<1>. HIDE DEF S, B
<1>8. r.cursor \in Words \ {<<>>} /\ r.more \in BOOLEAN /\ r.reach \in Words
  <2>1. r.cursor \in Words \ {<<>>}
    BY <1>6, <1>7, KeyFacts, ZeroIsWord
  <2>. QED BY <1>2, <1>4, <2>1, ReplyTypes
<1>9. PICK c \in Words \ {<<>>} : c = r.cursor
  BY <1>8
<1>10. /\ scan' \in Scans /\ scan'.pattern = p /\ scan'.cursor = c
       /\ scan'.done = (c = Zero) /\ scan'.reach = r.reach /\ scan'.more = r.more
  <2>1. scan \in Scans
    BY <1>1 DEF KeyInv, ScanInv
  <2>2. (r.cursor = Zero) \in BOOLEAN
    OBVIOUS
  <2>. QED BY <1>3, <1>5, <1>8, <1>9, <2>1, <2>2 DEF Scans
<1>11. ASSUME NEW x \in Range(returned)
       PROVE  /\ x \in Keys /\ Before(x, cursor) /\ cursor # Zero
              /\ p = NoPattern \/ KeyMatches(p, x)
  <2>1. returned \in Seq(Keys) /\ ~scan.done
    BY <1>1, <1>5 DEF KeyInv, ScanInv
  <2>2. x \in Keys
    <3>1. PICK i \in DOMAIN returned : x = returned[i]
      BY DEF Range
    <3>2. i \in 1 .. Len(returned)
      BY <2>1, LenProperties
    <3>. QED BY <2>1, <3>1, <3>2, ElementOfSeq
  <2>3. Before(x, cursor) /\ (p = NoPattern \/ KeyMatches(p, x))
    BY <1>1, <1>3, <2>1 DEF KeyInv, ScanOnce
  <2>4. cursor # Zero
    <3>1. returned # <<>>
      BY DEF Range
    <3>. QED BY <1>1, <1>3, <2>1, <3>1 DEF KeyInv, ScanInv
  <2>. QED BY <2>2, <2>3, <2>4
<1>12. ASSUME NEW x \in Range(returned), NEW k \in Words, AtMost(cursor, k)
       PROVE  Before(x, k)
  <2>1. x \in Words /\ AtMost(x, cursor) /\ x # cursor
    BY <1>11, KeyFacts DEF Before
  <2>2. AtMost(x, k)
    BY <1>12, <2>1, OrderTransitive
  <2>3. x # k
    BY <1>12, <2>1, OrderAntisymmetric
  <2>. QED BY <2>2, <2>3 DEF Before
<1>13. ASSUME NEW k \in store
       PROVE  /\ k \in Words /\ (Wanted(p, k) <=> p = NoPattern \/ KeyMatches(p, k))
              /\ k \in B /\ cursor # Zero => AtMost(cursor, k)
              /\ IsDue(p, k) /\ (cursor = Zero \/ AtMost(cursor, k)) => k \in B
  <2>1. k \in Keys
    BY <1>7
  <2>2. k \in Words /\ (Wanted(p, k) <=> p = NoPattern \/ KeyMatches(p, k))
    BY <2>1, KeyFacts, WantedMatches
  <2>. QED BY <1>2, <2>2, RangeOfCall DEF B
<1>14. ASSUME NEW x \in Range(returned), NEW k \in S PROVE Before(x, k)
  <2>1. k \in store /\ k \in B
    BY <1>6, <1>7
  <2>2. k \in Words /\ AtMost(cursor, k)
    BY <1>11, <1>13, <2>1
  <2>. QED BY <1>12, <2>2
<1>15. /\ returned' \in Seq(Keys) /\ Ascends(returned')
       /\ Range(returned') = Range(returned) \cup S
  <2>1. returned \in Seq(Keys) /\ Ascends(returned)
    BY <1>1 DEF KeyInv, ScanInv, ScanOnce, Ascends
  <2>2. S \in SUBSET Keys /\ IsFiniteSet(S)
    BY <1>6, <1>7
  <2>3. returned' = returned \o Ordered(S)
    BY <1>5, <1>6
  <2>. QED BY <1>14, <2>1, <2>2, <2>3, AppendedKeys
<1>16. ASSUME NEW k \in Range(returned')
       PROVE  /\ p = NoPattern \/ KeyMatches(p, k)
              /\ c = Zero \/ Before(k, c)
  <2>1. CASE k \in S
    <3>1. k \in store
      BY <1>6, <1>7, <2>1
    <3>2. p = NoPattern \/ KeyMatches(p, k)
      BY <1>7, <1>13, <2>1, <3>1
    <3>. QED BY <1>6, <1>9, <2>1, <3>2
  <2>2. CASE k \in Range(returned)
    <3>1. ASSUME c # Zero PROVE Before(k, c)
      <4>1. c \in B /\ c \in store
        BY <1>6, <1>7, <1>9, <3>1
      <4>2. AtMost(cursor, c)
        BY <1>11, <1>13, <2>2, <4>1
      <4>. QED BY <1>12, <2>2, <4>2
    <3>. QED BY <1>11, <2>2, <3>1
  <2>. QED BY <1>15, <2>1, <2>2
<1>17. ScanOnce'
  BY <1>10, <1>15, <1>16 DEF ScanOnce, Ascends
<1>18. ASSUME NEW k \in lasting, IsDue(p, k), k \notin Range(returned)
       PROVE  k \in B /\ Wanted(p, k)
  <2>1. k \in store
    BY <1>2 DEF StoreInv
  <2>2. cursor = Zero \/ AtMost(cursor, k)
    <3>1. SUFFICES ASSUME cursor # Zero, ~AtMost(cursor, k) PROVE FALSE
      OBVIOUS
    <3>2. k \in Words
      BY <1>13, <2>1
    <3>3. AtMost(k, cursor) /\ k # cursor
      BY <3>1, <3>2, OrderTotal, OrderReflexive
    <3>4. k \in Range(returned)
      BY <1>1, <1>3, <1>5, <1>18, <3>1, <3>3 DEF KeyInv, ScanInv, Before
    <3>. QED BY <1>18, <3>4
  <2>. QED BY <1>13, <1>18, <2>1, <2>2 DEF IsDue
<1>19. ScanInv'
  <2>1. ASSUME c # Zero, NEW k \in lasting, IsDue(p, k), Before(k, c)
        PROVE  k \in Range(returned')
    BY <1>6, <1>9, <1>15, <1>18, <2>1
  <2>2. ~scan'.done => c # Zero
    BY <1>10
  <2>3. ~scan'.done => \A k \in lasting' :
            IsDue(p, k) /\ Before(k, c) => k \in Range(returned')
    BY <1>5, <2>1, <2>2
  <2>. QED BY <1>10, <1>15, <2>2, <2>3 DEF ScanInv, IsDue, Narrowed
<1>20. ScanComplete'
  <2>1. ASSUME c = Zero, NEW k \in lasting, k \notin Range(returned'), IsDue(p, k)
        PROVE  \/ r.more /\ AtMost(Zero, k)
               \/ p # NoPattern /\ ~AtMost(k, r.reach)
    <3>1. k \notin Range(returned) /\ k \notin S
      BY <1>15, <2>1
    <3>2. k \in B /\ Wanted(p, k)
      BY <1>18, <2>1, <3>1
    <3>. QED BY <1>6, <1>9, <2>1, <3>1, <3>2
  <2>2. \A k : CutOff(k)' <=> \/ r.more /\ AtMost(Zero, k)
                              \/ p # NoPattern /\ ~AtMost(k, r.reach)
    BY <1>10 DEF CutOff
  <2>3. \A k : \/ IsDue(p, k)
               \/ p # NoPattern /\ ~KeyMatches(p, k)
               \/ /\ Narrowed(p)
                  /\ ~AtMost(k, Bound(p)) \/ FromUtf8Lossy(k) # k
    BY DEF IsDue
  <2>. QED BY <1>5, <1>10, <2>1, <2>2, <2>3 DEF ScanComplete
<1>. QED BY <1>2, <1>17, <1>19, <1>20 DEF KeyInv

LEMMA WriteKeeps ==
    KeyInv /\ (\E k \in Keys : Set(k) \/ Del(k)) => KeyInv'
<1>1. SUFFICES ASSUME KeyInv, NEW k \in Keys, Set(k) \/ Del(k) PROVE KeyInv'
  OBVIOUS
<1>2. /\ scan' = scan /\ returned' = returned /\ lasting' \subseteq lasting
  BY <1>1 DEF Set, Del
<1>3. StoreInv'
  <2>1. CASE Set(k)
    <3>1. store' = store \cup {k} /\ lasting' = lasting
      BY <2>1 DEF Set
    <3>2. IsFiniteSet(store')
      BY <1>1, <3>1, FS_AddElement DEF KeyInv, StoreInv
    <3>. QED BY <1>1, <3>1, <3>2 DEF KeyInv, StoreInv
  <2>2. CASE Del(k)
    <3>1. store' = store \ {k} /\ lasting' = lasting \ {k}
      BY <2>2 DEF Del
    <3>2. IsFiniteSet(store')
      BY <1>1, <3>1, FS_RemoveElement DEF KeyInv, StoreInv
    <3>. QED BY <1>1, <3>1, <3>2 DEF KeyInv, StoreInv
  <2>. QED BY <1>1, <2>1, <2>2
<1>4. ScanInv'
  BY <1>1, <1>2 DEF KeyInv, ScanInv, IsDue, Narrowed
<1>5. ScanOnce'
  BY <1>1, <1>2 DEF KeyInv, ScanOnce
<1>6. ScanComplete'
  BY <1>1, <1>2 DEF KeyInv, ScanComplete, CutOff
<1>. QED BY <1>3, <1>4, <1>5, <1>6 DEF KeyInv

LEMMA KeyInvHolds == Spec => []KeyInv
<1>1. KeyInv /\ [Next]_vars => KeyInv'
  <2>1. KeyInv /\ UNCHANGED vars => KeyInv'
    BY DEF KeyInv, StoreInv, ScanInv, ScanOnce, ScanComplete, CutOff, IsDue,
           Narrowed, vars
  <2>. QED BY <2>1, ScanKeeps, WriteKeeps DEF Next
<1>. QED BY <1>1, InitKeys, PTL DEF Spec

(* KEYS answers with keys that match its pattern, and with all of them but  *)
(* those beyond the bound '~' of the pattern's prefix, those after as many  *)
(* keys as it looks at, and those whose bytes are not UTF-8 if the pattern  *)
(* has a prefix (the arm of Command::Keys of executor.rs).                  *)
THEOREM KeysAreMatches == Spec => []KeysAnswersMatches
<1>1. KeyInv => KeysAnswersMatches
  BY KeysAreRight DEF KeyInv
<1>. QED BY <1>1, KeyInvHolds, PTL

(* A walk with SCAN that has come to its end has returned every matching    *)
(* key that was there all the time, whatever others set and deleted between *)
(* its calls, but for those cut off by the key "0", by the limit of keys    *)
(* fetched for MATCH, by the bound '~' or, in the range of a prefix, by     *)
(* their not being UTF-8 (the arm of Command::Scan of executor.rs).         *)
THEOREM WalkIsComplete == Spec => []ScanComplete
<1>1. KeyInv => ScanComplete
  BY DEF KeyInv
<1>. QED BY <1>1, KeyInvHolds, PTL

(* SCAN returns keys in ascending order across its calls, so none twice,    *)
(* only matching ones, and its cursor is beyond all of them.                *)
THEOREM WalkIsOrdered == Spec => []ScanOnce
<1>1. KeyInv => ScanOnce
  BY DEF KeyInv
<1>. QED BY <1>1, KeyInvHolds, PTL
=============================================================================
