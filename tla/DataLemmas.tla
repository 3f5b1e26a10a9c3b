----------------------------- MODULE DataLemmas -----------------------------
(* Facts about sequences and finite sets that the proofs about message      *)
(* queues, lists and output buffers share: what is at which place after the *)
(* elementary operations on a sequence, when a set has one element or two,  *)
(* induction over numbers, and sums.                                        *)
EXTENDS Integers, Sequences, FiniteSets, Functions, FiniteSetTheorems,
        SequenceTheorems, WellFoundedInduction, TLAPS

(* The elements of a concatenation and of an append, by their places. *)
LEMMA Concatenated ==
    ASSUME NEW S, NEW s \in Seq(S), NEW m \in Seq(S)
    PROVE  /\ s \o m \in Seq(S)
           /\ \A i \in DOMAIN (s \o m) :
                 \/ i \in DOMAIN s /\ (s \o m)[i] = s[i]
                 \/ /\ i > Len(s) /\ i - Len(s) \in DOMAIN m
                    /\ (s \o m)[i] = m[i - Len(s)]
<1>1. /\ s \o m \in Seq(S) /\ Len(s \o m) = Len(s) + Len(m)
      /\ \A i \in 1 .. Len(s) + Len(m) : (s \o m)[i] =
             IF i <= Len(s) THEN s[i] ELSE m[i - Len(s)]
  BY ConcatProperties
<1>2. /\ DOMAIN s = 1 .. Len(s) /\ DOMAIN m = 1 .. Len(m)
      /\ DOMAIN (s \o m) = 1 .. Len(s) + Len(m)
      /\ Len(s) \in Nat /\ Len(m) \in Nat
  BY <1>1, LenProperties
<1>. QED BY <1>1, <1>2

LEMMA ConcatenationKeeps ==
    ASSUME NEW S, NEW s \in Seq(S), NEW m \in Seq(S)
    PROVE  /\ \A i \in DOMAIN s : i \in DOMAIN (s \o m) /\ (s \o m)[i] = s[i]
           /\ \A j \in DOMAIN m : /\ Len(s) + j \in DOMAIN (s \o m)
                                  /\ (s \o m)[Len(s) + j] = m[j]
<1>1. /\ s \o m \in Seq(S) /\ Len(s \o m) = Len(s) + Len(m)
      /\ \A i \in 1 .. Len(s) + Len(m) : (s \o m)[i] =
             IF i <= Len(s) THEN s[i] ELSE m[i - Len(s)]
  BY ConcatProperties
<1>2. /\ DOMAIN s = 1 .. Len(s) /\ DOMAIN m = 1 .. Len(m)
      /\ DOMAIN (s \o m) = 1 .. Len(s) + Len(m)
      /\ Len(s) \in Nat /\ Len(m) \in Nat
  BY <1>1, LenProperties
<1>3. ASSUME NEW j \in DOMAIN m
      PROVE  Len(s) + j \in DOMAIN (s \o m) /\ (s \o m)[Len(s) + j] = m[j]
  <2>1. Len(s) + j \in 1 .. Len(s) + Len(m) /\ ~ (Len(s) + j <= Len(s))
    BY <1>2
  <2>2. (Len(s) + j) - Len(s) = j
    BY <1>2
  <2>. QED BY <1>1, <1>2, <2>1, <2>2
<1>. QED BY <1>1, <1>2, <1>3

LEMMA Appended ==
    ASSUME NEW S, NEW s \in Seq(S), NEW e \in S
    PROVE  /\ Append(s, e) \in Seq(S)
           /\ DOMAIN Append(s, e) = DOMAIN s \cup {Len(s) + 1}
           /\ Append(s, e)[Len(s) + 1] = e
           /\ \A i \in DOMAIN s : Append(s, e)[i] = s[i] /\ i < Len(s) + 1
           /\ Len(s) + 1 \notin DOMAIN s
BY LenProperties, AppendProperties

(* Dropping the first element moves the others down. *)
LEMMA Shifted ==
    ASSUME NEW S, NEW s \in Seq(S), s # <<>>
    PROVE  /\ Tail(s) \in Seq(S)
           /\ 1 \in DOMAIN s /\ Head(s) = s[1] /\ Head(s) \in S
           /\ \A i \in DOMAIN Tail(s) : i + 1 \in DOMAIN s /\ Tail(s)[i] = s[i + 1]
           /\ \A i \in DOMAIN s : i = 1 \/ /\ i - 1 \in DOMAIN Tail(s)
                                           /\ Tail(s)[i - 1] = s[i]
<1>1. /\ Head(s) \in S /\ Tail(s) \in Seq(S) /\ Len(Tail(s)) = Len(s) - 1
      /\ \A i \in 1 .. Len(Tail(s)) : Tail(s)[i] = s[i + 1]
  BY HeadTailProperties
<1>2. /\ Len(s) \in Nat \ {0} /\ DOMAIN s = 1 .. Len(s)
      /\ DOMAIN Tail(s) = 1 .. Len(s) - 1
  BY <1>1, LenProperties, EmptySeq
<1>3. Head(s) = s[1]
  OBVIOUS
<1>. QED BY <1>1, <1>2, <1>3

(* Appending to the second of two sequences appends to both together.       *)
LEMMA AppendedToSecond ==
    ASSUME NEW S, NEW s \in Seq(S), NEW m \in Seq(S), NEW e \in S
    PROVE  /\ s \o Append(m, e) = Append(s \o m, e)
           /\ (s \o m) \o <<e>> = Append(s \o m, e)
<1>1. s \o m \in Seq(S) /\ <<e>> \in Seq(S)
  BY ConcatProperties
<1>2. Append(m, e) = m \o <<e>> /\ Append(s \o m, e) = (s \o m) \o <<e>>
  BY <1>1, AppendIsConcat
<1>3. (s \o m) \o <<e>> = s \o (m \o <<e>>)
  BY <1>1, ConcatAssociative
<1>. QED BY <1>2, <1>3

(* What is left of a sequence after its first k elements: more elements at  *)
(* the end are more elements left, and the next n of them can be split off. *)
LEMMA Rest ==
    ASSUME NEW S, NEW s \in Seq(S), NEW k \in 0 .. Len(s)
    PROVE  /\ SubSeq(s, k + 1, Len(s)) \in Seq(S)
           /\ Len(SubSeq(s, k + 1, Len(s))) = Len(s) - k
           /\ \A i \in 1 .. Len(s) - k : SubSeq(s, k + 1, Len(s))[i] = s[k + i]
<1>1. Len(s) \in Nat /\ k \in Nat /\ k + 1 \in Int /\ Len(s) \in Int
  BY LenProperties
<1>2. \A i \in k + 1 .. Len(s) : s[i] \in S
  BY <1>1, ElementOfSeq
<1>3. /\ SubSeq(s, k + 1, Len(s)) \in Seq(S)
      /\ Len(SubSeq(s, k + 1, Len(s))) =
             IF k + 1 <= Len(s) THEN Len(s) - (k + 1) + 1 ELSE 0
      /\ \A i \in 1 .. Len(s) - (k + 1) + 1 :
             SubSeq(s, k + 1, Len(s))[i] = s[k + 1 + i - 1]
  BY <1>1, <1>2, SubSeqProperties
<1>. QED BY <1>1, <1>3

LEMMA RestOfConcatenation ==
    ASSUME NEW S, NEW s \in Seq(S), NEW m \in Seq(S), NEW k \in 0 .. Len(s)
    PROVE  SubSeq(s \o m, k + 1, Len(s \o m)) = SubSeq(s, k + 1, Len(s)) \o m
<1>1. Len(s) \in Nat /\ Len(m) \in Nat
  BY LenProperties
<1>2. /\ s \o m \in Seq(S) /\ Len(s \o m) = Len(s) + Len(m)
      /\ \A i \in 1 .. Len(s) + Len(m) : (s \o m)[i] =
             IF i <= Len(s) THEN s[i] ELSE m[i - Len(s)]
  BY ConcatProperties
<1>3. PICK t \in Seq(S), r \in Seq(S), u \in Seq(S) :
          /\ t = s \o m /\ r = SubSeq(s, k + 1, Len(s))
          /\ u = SubSeq(t, k + 1, Len(t))
  <2>1. k \in 0 .. Len(s \o m)
    BY <1>1, <1>2
  <2>. QED BY <1>2, <2>1, Rest
<1>4. /\ Len(r) = Len(s) - k
      /\ \A i \in 1 .. Len(s) - k : r[i] = s[k + i]
  BY <1>3, Rest
<1>5. /\ Len(u) = Len(t) - k
      /\ \A i \in 1 .. Len(t) - k : u[i] = t[k + i]
  <2>1. k \in 0 .. Len(t)
    BY <1>1, <1>2, <1>3
  <2>. QED BY <1>3, <2>1, Rest
<1>6. /\ r \o m \in Seq(S) /\ Len(r \o m) = Len(r) + Len(m)
      /\ \A i \in 1 .. Len(r) + Len(m) : (r \o m)[i] =
             IF i <= Len(r) THEN r[i] ELSE m[i - Len(r)]
  BY ConcatProperties
<1>7. Len(u) = Len(r \o m)
  BY <1>1, <1>2, <1>3, <1>4, <1>5, <1>6
<1>8. ASSUME NEW i \in 1 .. Len(u) PROVE u[i] = (r \o m)[i]
  <2>1. u[i] = t[k + i] /\ i \in 1 .. Len(s) + Len(m) - k
    BY <1>1, <1>2, <1>3, <1>5
  <2>2. k + i \in 1 .. Len(s) + Len(m)
    BY <1>1, <2>1
  <2>3. CASE i <= Len(s) - k
    BY <1>1, <1>2, <1>3, <1>4, <1>6, <2>1, <2>2, <2>3
  <2>4. CASE ~ (i <= Len(s) - k)
    <3>1. u[i] = m[k + i - Len(s)]
      BY <1>1, <1>2, <1>3, <2>1, <2>2, <2>4
    <3>2. (r \o m)[i] = m[i - (Len(s) - k)]
      BY <1>1, <1>4, <1>6, <2>1, <2>4
    <3>3. k + i - Len(s) = i - (Len(s) - k)
      BY <1>1
    <3>. QED BY <3>1, <3>2, <3>3
  <2>. QED BY <2>3, <2>4
<1>9. u = r \o m
  BY <1>6, <1>7, <1>8, SeqEqual
<1>. QED BY <1>3, <1>9

LEMMA RestSplit ==
    ASSUME NEW S, NEW s \in Seq(S), NEW k \in 0 .. Len(s), NEW n \in 0 .. Len(s) - k
    PROVE  /\ SubSeq(s, k + 1, k + n) \o SubSeq(s, k + n + 1, Len(s))
                 = SubSeq(s, k + 1, Len(s))
           /\ SubSeq(SubSeq(s, k + 1, Len(s)), 1, n) = SubSeq(s, k + 1, k + n)
           /\ SubSeq(s, k + 1, k + n) \in Seq(S)
           /\ Len(SubSeq(s, k + 1, k + n)) = n
<1>1. Len(s) \in Nat /\ k \in Nat /\ n \in Nat
  BY LenProperties
<1>2. /\ k + 1 \in 1 .. Len(s) + 1 /\ k + n \in (k + 1) - 1 .. Len(s)
      /\ Len(s) \in k + n .. Len(s)
  BY <1>1
<1>3. SubSeq(s, k + 1, k + n) \o SubSeq(s, (k + n) + 1, Len(s))
        = SubSeq(s, k + 1, Len(s))
  BY <1>2, ConcatAdjacentSubSeq
<1>4. /\ SubSeq(s, k + 1, k + n) \in Seq(S)
      /\ Len(SubSeq(s, k + 1, k + n)) = n
      /\ \A i \in 1 .. n : SubSeq(s, k + 1, k + n)[i] = s[k + i]
  <2>1. \A i \in k + 1 .. k + n : s[i] \in S
    BY <1>1, ElementOfSeq
  <2>2. k + 1 \in Int /\ k + n \in Int
    BY <1>1
  <2>3. /\ SubSeq(s, k + 1, k + n) \in Seq(S)
        /\ Len(SubSeq(s, k + 1, k + n)) =
               IF k + 1 <= k + n THEN k + n - (k + 1) + 1 ELSE 0
        /\ \A i \in 1 .. k + n - (k + 1) + 1 :
               SubSeq(s, k + 1, k + n)[i] = s[k + 1 + i - 1]
    BY <2>1, <2>2, SubSeqProperties
  <2>. QED BY <1>1, <2>3
<1>r. PICK r \in Seq(S) : r = SubSeq(s, k + 1, Len(s))
  BY Rest
<1>5. Len(r) = Len(s) - k /\ \A i \in 1 .. Len(s) - k : r[i] = s[k + i]
  BY <1>r, Rest
<1>6. /\ SubSeq(r, 1, n) \in Seq(S)
      /\ Len(SubSeq(r, 1, n)) = n
      /\ \A i \in 1 .. n : SubSeq(r, 1, n)[i] = r[i]
  <2>1. \A i \in 1 .. n : r[i] \in S
    BY <1>1, <1>5, ElementOfSeq
  <2>2. 1 \in Int /\ n \in Int
    BY <1>1
  <2>3. /\ SubSeq(r, 1, n) \in Seq(S)
        /\ Len(SubSeq(r, 1, n)) = IF 1 <= n THEN n - 1 + 1 ELSE 0
        /\ \A i \in 1 .. n - 1 + 1 : SubSeq(r, 1, n)[i] = r[1 + i - 1]
    BY <2>1, <2>2, SubSeqProperties
  <2>. QED BY <1>1, <2>3
<1>7. SubSeq(r, 1, n) = SubSeq(s, k + 1, k + n)
  <2>1. \A i \in 1 .. n : SubSeq(r, 1, n)[i] = SubSeq(s, k + 1, k + n)[i]
    BY <1>1, <1>4, <1>5, <1>6
  <2>. QED BY <1>4, <1>6, <2>1, SeqEqual
<1>. QED BY <1>3, <1>4, <1>r, <1>7

(* Concatenation, what is left of a sequence behind its first k elements,   *)
(* and its first n elements, under names of their own: a step about several *)
(* sequences cites the facts below, and the provers see no other.           *)
Joined(x, y) == x \o y

Left(s, k) == SubSeq(s, k + 1, Len(s))

Leading(s, n) == SubSeq(s, 1, n)

LEMMA JoinedType ==
    ASSUME NEW S, NEW s \in Seq(S), NEW t \in Seq(S)
    PROVE  Joined(s, t) \in Seq(S)
BY ConcatProperties DEF Joined

LEMMA JoinedAssociative ==
    ASSUME NEW S, NEW s \in Seq(S), NEW t \in Seq(S), NEW u \in Seq(S)
    PROVE  Joined(Joined(s, t), u) = Joined(s, Joined(t, u))
BY ConcatAssociative DEF Joined

LEMMA AppendedToJoined ==
    ASSUME NEW S, NEW s \in Seq(S), NEW m \in Seq(S), NEW e \in S
    PROVE  Joined(s, Append(m, e)) = Append(Joined(s, m), e)
BY AppendedToSecond DEF Joined

(* One more element at the end is one more element left.                    *)
LEMMA RestOfAppended ==
    ASSUME NEW S, NEW s \in Seq(S), NEW e \in S, NEW k \in 0 .. Len(s)
    PROVE  /\ Append(s, e) \in Seq(S) /\ k \in 0 .. Len(Append(s, e))
           /\ Left(Append(s, e), k) = Append(Left(s, k), e)
<1>1. <<e>> \in Seq(S)
  OBVIOUS
<1>2. PICK r \in Seq(S) : r = SubSeq(s, k + 1, Len(s))
  BY Rest
<1>3. Append(s, e) = s \o <<e>> /\ Append(r, e) = r \o <<e>>
  BY AppendIsConcat
<1>4. SubSeq(s \o <<e>>, k + 1, Len(s \o <<e>>)) = r \o <<e>>
  BY <1>1, <1>2, RestOfConcatenation
<1>5. Append(s, e) \in Seq(S) /\ Len(Append(s, e)) = Len(s) + 1 /\ Len(s) \in Nat
  BY AppendProperties, LenProperties
<1>6. k \in 0 .. Len(Append(s, e))
  BY <1>5
<1>. QED BY <1>2, <1>3, <1>4, <1>5, <1>6 DEF Left

(* The next n elements of what is left move to the end of another sequence. *)
LEMMA RestMoved ==
    ASSUME NEW S, NEW s \in Seq(S), NEW b \in Seq(S),
           NEW k \in 0 .. Len(b), NEW n \in 0 .. Len(b) - k
    PROVE  LET w == Leading(Left(b, k), n)
           IN  /\ Joined(s, w) \in Seq(S) /\ Len(Joined(s, w)) = Len(s) + n
               /\ Joined(Joined(s, w), Left(b, k + n)) = Joined(s, Left(b, k))
<1> DEFINE w == SubSeq(SubSeq(b, k + 1, Len(b)), 1, n)
           q == SubSeq(b, k + n + 1, Len(b))
<1>1. /\ w = SubSeq(b, k + 1, k + n) /\ w \in Seq(S) /\ Len(w) = n
      /\ SubSeq(b, k + 1, k + n) \o q = SubSeq(b, k + 1, Len(b))
  <2>1. /\ SubSeq(b, k + 1, k + n) \o SubSeq(b, k + n + 1, Len(b))
               = SubSeq(b, k + 1, Len(b))
        /\ SubSeq(SubSeq(b, k + 1, Len(b)), 1, n) = SubSeq(b, k + 1, k + n)
        /\ SubSeq(b, k + 1, k + n) \in Seq(S)
        /\ Len(SubSeq(b, k + 1, k + n)) = n
    BY RestSplit, Zenon
  <2>. QED BY <2>1, Zenon
<1>2. k + n \in 0 .. Len(b)
  BY LenProperties
<1>3. q \in Seq(S)
  BY <1>2, Rest
<1>4. w \o q = SubSeq(b, k + 1, Len(b))
  BY <1>1
<1>. HIDE DEF w, q
<1>5. s \o w \in Seq(S) /\ Len(s \o w) = Len(s) + n
  BY <1>1, ConcatProperties
<1>6. (s \o w) \o q = s \o (w \o q)
  <2>1. w \in Seq(S)
    BY <1>1
  <2>2. Joined(Joined(s, w), q) = Joined(s, Joined(w, q))
    BY <1>3, <2>1, JoinedAssociative
  <2>. QED BY <2>2 DEF Joined
<1>7. (s \o w) \o q = s \o SubSeq(b, k + 1, Len(b))
  BY <1>4, <1>6
<1>. QED BY <1>5, <1>7, Zenon DEF w, q, Joined, Left, Leading

LEMMA MovedBehind ==
    ASSUME NEW S, NEW r \in Seq(S), NEW s \in Seq(S), NEW p \in Seq(S),
           NEW t \in Seq(S), NEW q \in Seq(S)
    PROVE  Joined(s, p) = Joined(t, q)
               => Joined(Joined(r, s), p) = Joined(Joined(r, t), q)
<1>1. Joined(Joined(r, s), p) = Joined(r, Joined(s, p))
  BY JoinedAssociative
<1>2. Joined(Joined(r, t), q) = Joined(r, Joined(t, q))
  BY JoinedAssociative
<1>. QED BY <1>1, <1>2

(* The head of one sequence moved to the end of the one before it.          *)
LEMMA HeadMoved ==
    ASSUME NEW S, NEW r \in Seq(S), NEW s \in Seq(S), s # <<>>
    PROVE  Append(r, Head(s)) \o Tail(s) = r \o s
<1>1. /\ Head(s) \in S /\ Tail(s) \in Seq(S) /\ Len(Tail(s)) = Len(s) - 1
      /\ <<Head(s)>> \in Seq(S)
  BY HeadTailProperties
<1>2. Append(r, Head(s)) = r \o <<Head(s)>>
  BY <1>1, AppendIsConcat
<1>3. (r \o <<Head(s)>>) \o Tail(s) = r \o (<<Head(s)>> \o Tail(s))
  BY <1>1, ConcatAssociative
<1>4. <<Head(s)>> \o Tail(s) = s
  <2>1. Len(s) \in Nat \ {0}
    BY EmptySeq
  <2>2. SubSeq(s, 1, Len(s)) = <<s[1]>> \o SubSeq(s, 1 + 1, Len(s))
    BY <2>1, SubSeqRecursiveFirst
  <2>3. SubSeq(s, 1, Len(s)) = s /\ Tail(s) = SubSeq(s, 2, Len(s)) /\ Head(s) = s[1]
    BY SubSeqFull, TailIsSubSeq
  <2>. QED BY <2>2, <2>3
<1>. QED BY <1>2, <1>3, <1>4

(* A set whose elements are all equal, and one without three different      *)
(* elements.                                                                *)
LEMMA AtMostOne ==
    ASSUME NEW S, \A i, j \in S : i = j
    PROVE  IsFiniteSet(S) /\ Cardinality(S) <= 1
<1>1. CASE S = {}
  BY <1>1, FS_EmptySet
<1>2. CASE S # {}
  <2>1. PICK i : i \in S
    BY <1>2
  <2>2. S = {i}
    BY <2>1
  <2>3. IsFiniteSet({i}) /\ Cardinality({i}) = 1
    BY FS_Singleton
  <2>4. IsFiniteSet(S) /\ Cardinality(S) = 1
    BY <2>2, <2>3, Zenon
  <2>. QED BY <2>4
<1>. QED BY <1>1, <1>2

----------------------------------------------------------------------------
(* Induction over numbers, for a set instead of a predicate: a set of       *)
(* numbers has a least one, so one that has 0 and the successor of each of  *)
(* its numbers has them all.                                                *)
LEMMA LeastNumber ==
    ASSUME NEW T \in SUBSET Nat, T # {}
    PROVE  \E n \in T : \A m \in T : n <= m
<1>. DEFINE R == {ss \in Nat \X Nat : ss[1] < ss[2]}
<1>1. IsWellFoundedOn(R, Nat)
  BY NatLessThanWellFounded DEF OpToRel
<1>2. \A x, y \in Nat : y < x => <<y, x>> \in R
  OBVIOUS
<1>. HIDE DEF R
<1>3. PICK x \in T : \A y \in T : ~ (<<y, x>> \in R)
  BY <1>1, WFMin
<1>4. \A y \in T : ~ (y < x)
  BY <1>2, <1>3
<1>. QED BY <1>4

LEMMA InductionOnNat ==
    ASSUME NEW T, 0 \in T, \A n \in Nat : n \in T => n + 1 \in T
    PROVE  \A n \in Nat : n \in T
<1>1. SUFFICES ASSUME Nat \ T # {} PROVE FALSE
  OBVIOUS
<1>2. PICK n \in Nat \ T : \A m \in Nat \ T : n <= m
  BY <1>1, LeastNumber
<1>3. n # 0 /\ n - 1 \in Nat /\ n - 1 \in T
  BY <1>2
<1>. QED BY <1>2, <1>3

(* The sum of a function's values.  The library defines it by recursion over *)
(* the subsets of the domain, taking out one element after the other; that   *)
(* there is such a function is shown by induction over their cardinality.    *)
Picked(s) == CHOOSE x \in s : TRUE

SumStep(f, S, g) ==
    [s \in SUBSET S |->
        IF s = {} THEN 0
        ELSE f[Picked(s)] + g[s \ {Picked(s)}]]

LEMMA SumUnfolds ==
    ASSUME NEW f, NEW S
    PROVE  SumFunctionOnSet(f, S) = (CHOOSE g : g = SumStep(f, S, g))[S]
BY DEF SumFunctionOnSet, FoldFunctionOnSet, MapThenFoldSet, SumStep, Picked

LEMMA SumExists ==
    ASSUME NEW f, NEW S, IsFiniteSet(S)
    PROVE  \E g : g = SumStep(f, S, g)
<1>. DEFINE Small(n) == {s \in SUBSET S : Cardinality(s) <= n}
            Body(g, s) == IF s = {} THEN 0
                          ELSE f[Picked(s)] + g[s \ {Picked(s)}]
            T == {n \in Nat : \E g : g = [s \in Small(n) |-> Body(g, s)]}
<1>0. \A s \in SUBSET S : IsFiniteSet(s) /\ Cardinality(s) \in Nat /\ Cardinality(s) <= Cardinality(S)
  BY FS_Subset, FS_CardinalityType
<1>1. \A s \in SUBSET S : s # {} =>
         /\ s \ {Picked(s)} \in SUBSET S
         /\ Cardinality(s \ {Picked(s)}) = Cardinality(s) - 1
  <2>1. SUFFICES ASSUME NEW s \in SUBSET S, s # {}
                 PROVE  Cardinality(s \ {Picked(s)}) = Cardinality(s) - 1
    OBVIOUS
  <2>2. Picked(s) \in s
    BY <2>1 DEF Picked
  <2>. QED BY <1>0, <2>2, FS_RemoveElement
<1>2. 0 \in T
  <2>1. \A s \in Small(0) : s = {}
    BY <1>0, FS_EmptySet
  <2>2. [s \in Small(0) |-> 0] = [s \in Small(0) |-> Body([r \in Small(0) |-> 0], s)]
    BY <2>1
  <2>. QED BY <2>2
<1>3. ASSUME NEW n \in Nat, n \in T PROVE n + 1 \in T
  <2>1. PICK g : g = [s \in Small(n) |-> Body(g, s)]
    BY <1>3
  <2>. DEFINE h == [s \in Small(n + 1) |-> IF s \in Small(n) THEN g[s] ELSE Body(g, s)]
  <2>2. ASSUME NEW s \in Small(n + 1) PROVE h[s] = Body(g, s)
    BY <2>1
  <2>3. ASSUME NEW s \in Small(n + 1) PROVE Body(h, s) = Body(g, s)
    <3>1. CASE s = {}
      BY <3>1
    <3>2. CASE s # {}
      <4>1. s \ {Picked(s)} \in Small(n)
        BY <1>0, <1>1, <3>2
      <4>2. s \ {Picked(s)} \in Small(n + 1)
        BY <4>1, <1>0
      <4>3. h[s \ {Picked(s)}] = g[s \ {Picked(s)}]
        BY <4>1, <4>2
      <4>. QED BY <3>2, <4>3
    <3>. QED BY <3>1, <3>2
  <2>4. \A s \in Small(n + 1) : h[s] = Body(h, s)
    BY <2>2, <2>3
  <2>5. PICK k : k = h
    OBVIOUS
  <2>6. k = [s \in Small(n + 1) |-> k[s]]
    BY <2>5
  <2>7. k = [s \in Small(n + 1) |-> Body(k, s)]
    <3>. HIDE DEF Small, Body, h
    <3>. QED BY <2>4, <2>5, <2>6
  <2>8. n + 1 \in Nat
    OBVIOUS
  <2>. HIDE DEF Small, Body
  <2>. QED BY <2>7, <2>8
<1>4. Cardinality(S) \in T
  <2>1. Cardinality(S) \in Nat
    BY FS_CardinalityType
  <2>2. \A n \in Nat : n \in T => n + 1 \in T
    BY <1>3
  <2>. HIDE DEF T
  <2>3. \A n \in Nat : n \in T
    BY <1>2, <2>2, InductionOnNat
  <2>. QED BY <2>1, <2>3
<1>5. PICK g : g = [s \in Small(Cardinality(S)) |-> Body(g, s)]
  BY <1>4
<1>6. Small(Cardinality(S)) = SUBSET S
  BY <1>0
<1>7. g = [s \in SUBSET S |-> Body(g, s)]
  BY <1>5, <1>6
<1>. QED BY <1>7, Zenon DEF SumStep

SumsUp(g, f, S) ==
    /\ g[S] = SumFunctionOnSet(f, S)
    /\ g[{}] = 0
    /\ \A s \in SUBSET S : s # {} => g[s] = f[Picked(s)] + g[s \ {Picked(s)}]

LEMMA SumRecursive ==
    ASSUME NEW f, NEW S, IsFiniteSet(S)
    PROVE  \E g : SumsUp(g, f, S)
<1>. DEFINE g == CHOOSE g : g = SumStep(f, S, g)
<1>1. g = SumStep(f, S, g)
  BY SumExists, Zenon
<1>2. g[S] = SumFunctionOnSet(f, S)
  BY SumUnfolds
<1>. HIDE DEF g
<1>3. g[{}] = 0
  BY <1>1 DEF SumStep
<1>4. ASSUME NEW s \in SUBSET S, s # {} PROVE g[s] = f[Picked(s)] + g[s \ {Picked(s)}]
  <2>1. SumStep(f, S, g)[s] = f[Picked(s)] + g[s \ {Picked(s)}]
    BY <1>4 DEF SumStep
  <2>. QED BY <1>1, <2>1
<1>5. SumsUp(g, f, S)
  BY <1>2, <1>3, <1>4, Zenon DEF SumsUp
<1>. QED BY <1>5

(* A sum with one term changed. *)
LEMMA SumChanged ==
    ASSUME NEW S, IsFiniteSet(S), NEW w \in S,
           NEW f \in [S -> Int], NEW h \in [S -> Int],
           \A v \in S \ {w} : h[v] = f[v]
    PROVE  /\ SumFunctionOnSet(f, S) \in Int
           /\ SumFunctionOnSet(h, S) = SumFunctionOnSet(f, S) + h[w] - f[w]
<1>1. PICK g : SumsUp(g, f, S)
  BY SumRecursive
<1>2. PICK k : SumsUp(k, h, S)
  BY SumRecursive
<1>. DEFINE Delta(s) == IF w \in s THEN h[w] - f[w] ELSE 0
            T == {n \in Nat : \A s \in SUBSET S : Cardinality(s) <= n =>
                                  g[s] \in Int /\ k[s] = g[s] + Delta(s)}
<1>3. 0 \in T
  <2>1. \A s \in SUBSET S : Cardinality(s) <= 0 => s = {}
    BY FS_Subset, FS_CardinalityType, FS_EmptySet
  <2>2. g[{}] = 0 /\ k[{}] = 0
    BY <1>1, <1>2 DEF SumsUp
  <2>3. w \notin {} /\ 0 \in Int /\ 0 \in Nat
    OBVIOUS
  <2>4. \A s \in SUBSET S : Cardinality(s) <= 0 => g[s] \in Int /\ k[s] = g[s] + Delta(s)
    BY <2>1, <2>2
  <2>. QED BY <2>4
<1>4. ASSUME NEW n \in Nat, n \in T PROVE n + 1 \in T
  <2>e. g[{}] = 0 /\ k[{}] = 0
    BY <1>1, <1>2 DEF SumsUp
  <2>0. SUFFICES ASSUME NEW s \in SUBSET S, Cardinality(s) <= n + 1
                 PROVE  g[s] \in Int /\ k[s] = g[s] + Delta(s)
    BY <1>4
  <2>1. SUFFICES ASSUME s # {}
                 PROVE  g[s] \in Int /\ k[s] = g[s] + Delta(s)
    <3>1. s = {} => Delta(s) = 0
      OBVIOUS
    <3>2. s = {} => g[s] \in Int /\ k[s] = g[s] + Delta(s)
      <4>. HIDE DEF Delta
      <4>. QED BY <2>e, <3>1
    <3>. QED BY <3>2
  <2>2. PICK x \in s : x = Picked(s)
    BY <2>1 DEF Picked
  <2>3. /\ IsFiniteSet(s) /\ Cardinality(s) \in Nat
        /\ Cardinality(s \ {x}) = Cardinality(s) - 1
    BY FS_Subset, FS_CardinalityType, FS_RemoveElement
  <2>4. g[s \ {x}] \in Int /\ k[s \ {x}] = g[s \ {x}] + Delta(s \ {x})
    BY <1>4, <2>0, <2>3
  <2>5. g[s] = f[x] + g[s \ {x}] /\ k[s] = h[x] + k[s \ {x}]
    BY <1>1, <1>2, <2>1, <2>2 DEF SumsUp
  <2>6. f[x] \in Int /\ h[x] \in Int /\ f[w] \in Int /\ h[w] \in Int
    OBVIOUS
  <2>7. CASE x = w
    <3>1. Delta(s \ {x}) = 0 /\ Delta(s) = h[w] - f[w]
      BY <2>7
    <3>. HIDE DEF Delta
    <3>. QED BY <2>4, <2>5, <2>6, <2>7, <3>1
  <2>8. CASE x # w
    <3>1. Delta(s \ {x}) = Delta(s) /\ Delta(s) \in Int /\ h[x] = f[x]
      BY <2>6, <2>8
    <3>. HIDE DEF Delta
    <3>. QED BY <2>4, <2>5, <2>6, <3>1
  <2>. QED BY <2>7, <2>8
<1>5. Cardinality(S) \in T
  <2>1. Cardinality(S) \in Nat
    BY FS_CardinalityType
  <2>2. \A n \in Nat : n \in T => n + 1 \in T
    BY <1>4
  <2>. HIDE DEF T
  <2>3. \A n \in Nat : n \in T
    BY <1>3, <2>2, InductionOnNat
  <2>. QED BY <2>1, <2>3
<1>6. Cardinality(S) <= Cardinality(S)
  BY FS_CardinalityType
<1>7. g[S] \in Int /\ k[S] = g[S] + (h[w] - f[w])
  BY <1>5, <1>6
<1>. QED BY <1>1, <1>2, <1>7 DEF SumsUp

(* A sum of zeros. *)
LEMMA SumOfZeros ==
    ASSUME NEW S, IsFiniteSet(S), NEW f \in [S -> {0}]
    PROVE  SumFunctionOnSet(f, S) = 0
<1>1. PICK g : SumsUp(g, f, S)
  BY SumRecursive
<1>. DEFINE T == {n \in Nat : \A s \in SUBSET S : Cardinality(s) <= n => g[s] = 0}
<1>2. g[{}] = 0
  BY <1>1 DEF SumsUp
<1>3. 0 \in T
  <2>1. \A s \in SUBSET S : Cardinality(s) <= 0 => s = {}
    BY FS_Subset, FS_CardinalityType, FS_EmptySet
  <2>. QED BY <1>2, <2>1
<1>4. ASSUME NEW n \in Nat, n \in T PROVE n + 1 \in T
  <2>1. SUFFICES ASSUME NEW s \in SUBSET S, Cardinality(s) <= n + 1, s # {}
                 PROVE  g[s] = 0
    BY <1>2
  <2>2. PICK x \in s : x = Picked(s)
    BY <2>1 DEF Picked
  <2>3. /\ Cardinality(s) \in Nat
        /\ Cardinality(s \ {x}) = Cardinality(s) - 1
    BY FS_Subset, FS_CardinalityType, FS_RemoveElement
  <2>4. g[s \ {x}] = 0
    BY <1>4, <2>1, <2>3
  <2>5. g[s] = f[x] + g[s \ {x}]
    BY <1>1, <2>1, <2>2 DEF SumsUp
  <2>6. f[x] = 0
    OBVIOUS
  <2>. QED BY <2>4, <2>5, <2>6
<1>5. Cardinality(S) \in T
  <2>1. Cardinality(S) \in Nat
    BY FS_CardinalityType
  <2>2. \A n \in Nat : n \in T => n + 1 \in T
    BY <1>4
  <2>. HIDE DEF T
  <2>3. \A n \in Nat : n \in T
    BY <1>3, <2>2, InductionOnNat
  <2>. QED BY <2>1, <2>3
<1>6. Cardinality(S) <= Cardinality(S)
  BY FS_CardinalityType
<1>7. g[S] = 0
  BY <1>5, <1>6
<1>. QED BY <1>1, <1>7 DEF SumsUp
=============================================================================
