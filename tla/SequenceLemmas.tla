--------------------------- MODULE SequenceLemmas ---------------------------
(***************************************************************************)
(* Lemmas about the operators on numbers and sequences that the model is   *)
(* built from: the least element of a set, division, SelectInSeq,          *)
(* RemoveFirst, FlattenSeq and SubSeq.  What needs an induction is proved  *)
(* from the least counterexample.                                          *)
(***************************************************************************)
EXTENDS Integers, SequencesExt, SequenceTheorems, NaturalsInduction, WellFoundedInduction,
        TLAPS

\* A set of natural numbers has a least element.
LEMMA LeastExists ==
  ASSUME NEW S \in SUBSET Nat, S # {}
  PROVE  \E n \in S : \A m \in S : n <= m
<1> DEFINE R == {p \in Nat \X Nat : p[1] < p[2]}
<1>1. IsWellFoundedOn(R, Nat)
  BY NatLessThanWellFounded DEF OpToRel
<1>2. \A m, n \in Nat : m < n => <<m, n>> \in R
  OBVIOUS
<1> HIDE DEF R
<1>3. PICK n \in S : \A m \in S : ~(<<m, n>> \in R)
  BY <1>1, WFMin
<1>4. \A m \in S : ~(m < n)
  BY <1>2, <1>3
<1>5. \A m \in S : n <= m
  BY <1>4
<1> QED  BY <1>5

\* Induction up to a bound: a set of numbers that holds 0, and with each
\* number below N the next one, holds every number up to N.
LEMMA BoundedInduction ==
  ASSUME NEW N \in Nat, NEW P, 0 \in P, \A n \in 0..N - 1 : n \in P => n + 1 \in P
  PROVE  0..N \subseteq P
<1> SUFFICES ASSUME 0..N \ P # {} PROVE FALSE
  OBVIOUS
<1>1. PICK n \in 0..N \ P : \A m \in 0..N \ P : n <= m
  <2>1. 0..N \ P \in SUBSET Nat
    OBVIOUS
  <2> QED  BY <2>1, LeastExists
<1>2. n # 0 /\ n - 1 \in 0..N - 1 /\ n - 1 \in P
  BY <1>1
<1> QED  BY <1>1, <1>2

\* Quotient and remainder of a multiple and a rest.
LEMMA Division ==
  ASSUME NEW b \in Nat \ {0}, NEW q \in Nat, NEW r \in 0..b - 1
  PROVE  (q * b + r) \div b = q /\ (q * b + r) % b = r
  OBVIOUS

-----------------------------------------------------------------------------
\* SelectInSeq gives the first place where the test holds, if there is one.
LEMMA MinIsLeast ==
  ASSUME NEW S \in SUBSET Nat, S # {}
  PROVE  Min(S) \in S /\ \A m \in S : Min(S) <= m
  BY LeastExists DEF Min

\* Taking one occurrence out of a sequence.
LEMMA RemoveAtProperties ==
  ASSUME NEW S, NEW s \in Seq(S), NEW i \in 1..Len(s)
  PROVE  /\ RemoveAt(s, i) \in Seq(S)
         /\ Len(RemoveAt(s, i)) = Len(s) - 1
         /\ \A j \in 1..Len(s) - 1 : RemoveAt(s, i)[j] = IF j < i THEN s[j] ELSE s[j + 1]
<1> DEFINE a == SubSeq(s, 1, i - 1)
           b == SubSeq(s, i + 1, Len(s))
<1>1. /\ a \in Seq(S) /\ Len(a) = i - 1 /\ \A j \in 1..i - 1 : a[j] = s[j]
  <2>1. \A j \in 1..i - 1 : s[j] \in S
    BY ElementOfSeq
  <2> QED  BY <2>1, SubSeqProperties
<1>2. /\ b \in Seq(S) /\ Len(b) = Len(s) - i /\ \A j \in 1..Len(s) - i : b[j] = s[i + j]
  <2>1. \A j \in i + 1..Len(s) : s[j] \in S
    BY ElementOfSeq
  <2> QED  BY <2>1, SubSeqProperties
<1>3. RemoveAt(s, i) = a \o b
  BY DEF RemoveAt
<1> HIDE DEF a, b
<1>4. /\ a \o b \in Seq(S) /\ Len(a \o b) = Len(s) - 1
      /\ \A j \in 1..Len(a) + Len(b) : (a \o b)[j] = IF j <= Len(a) THEN a[j] ELSE b[j - Len(a)]
  <2>1. /\ a \o b \in Seq(S) /\ Len(a \o b) = Len(a) + Len(b)
        /\ \A j \in 1..Len(a) + Len(b) : (a \o b)[j] = IF j <= Len(a) THEN a[j] ELSE b[j - Len(a)]
    BY ONLY <1>1, <1>2, ConcatProperties
  <2> QED  BY ONLY <2>1, <1>1, <1>2, Len(s) \in Nat, i \in 1..Len(s)
<1> SUFFICES ASSUME NEW j \in 1..Len(s) - 1
             PROVE  (a \o b)[j] = IF j < i THEN s[j] ELSE s[j + 1]
  BY <1>3, <1>4
<1>5. (a \o b)[j] = IF j <= Len(a) THEN a[j] ELSE b[j - Len(a)]
  BY <1>1, <1>2, <1>4
<1>6. CASE j < i
  BY <1>1, <1>5, <1>6
<1>7. CASE ~(j < i)
  <2>1. j - Len(a) = j - i + 1 /\ j - i + 1 \in 1..Len(s) - i /\ i + (j - i + 1) = j + 1
    BY <1>1, <1>7
  <2> QED  BY <1>1, <1>2, <1>5, <1>7, <2>1
<1> QED  BY <1>6, <1>7

\* A sequence without its only occurrence of an element: what is left of it
\* does not repeat, lacks the element and keeps the others.
LEMMA RemoveFirstProperties ==
  ASSUME NEW S, NEW s \in Seq(S), NEW e,
         \A i, j \in 1..Len(s) : s[i] = s[j] => i = j
  PROVE  /\ RemoveFirst(s, e) \in Seq(S)
         /\ {RemoveFirst(s, e)[i] : i \in 1..Len(RemoveFirst(s, e))}
              = {s[i] : i \in 1..Len(s)} \ {e}
         /\ \A i, j \in 1..Len(RemoveFirst(s, e)) :
              RemoveFirst(s, e)[i] = RemoveFirst(s, e)[j] => i = j
<1>1. CASE ~\E i \in 1..Len(s) : s[i] = e
  BY <1>1 DEF RemoveFirst
<1>2. CASE \E i \in 1..Len(s) : s[i] = e
  <2> DEFINE places == {i \in 1..Len(s) : s[i] = e}
             k == Min(places)
  <2>1. k \in 1..Len(s) /\ s[k] = e
    <3>1. places # {} /\ places \in SUBSET Nat
      BY <1>2
    <3> QED  BY <3>1, MinIsLeast
  <2>2. SelectInSeq(s, LAMBDA v : v = e) = k
    BY <1>2 DEF SelectInSeq
  <2> DEFINE r == RemoveFirst(s, e)
  <2>3. r = RemoveAt(s, k)
    BY <1>2, <2>2 DEF RemoveFirst
  <2> HIDE DEF k, places, r
  <2>4. /\ r \in Seq(S) /\ Len(r) = Len(s) - 1
        /\ \A j \in 1..Len(s) - 1 : r[j] = IF j < k THEN s[j] ELSE s[j + 1]
    <3>1. /\ RemoveAt(s, k) \in Seq(S) /\ Len(RemoveAt(s, k)) = Len(s) - 1
          /\ \A j \in 1..Len(s) - 1 : RemoveAt(s, k)[j] = IF j < k THEN s[j] ELSE s[j + 1]
      BY <2>1, RemoveAtProperties
    <3> QED  BY <2>3, <3>1
  <2>5. \A i \in 1..Len(s) : s[i] = e => i = k
    BY <2>1
  <2>6. {r[i] : i \in 1..Len(r)} \subseteq {s[i] : i \in 1..Len(s)} \ {e}
    <3> SUFFICES ASSUME NEW i \in 1..Len(s) - 1
                 PROVE  r[i] \in {s[j] : j \in 1..Len(s)} \ {e}
      BY <2>4
    <3>2. CASE i < k
      BY <2>4, <2>5, <3>2
    <3>3. CASE ~(i < k)
      <4>1. r[i] = s[i + 1] /\ i + 1 \in 1..Len(s) /\ i + 1 # k
        BY <2>1, <2>4, <3>3
      <4> QED  BY <2>5, <4>1
    <3> QED  BY <3>2, <3>3
  <2>7. {s[i] : i \in 1..Len(s)} \ {e} \subseteq {r[i] : i \in 1..Len(r)}
    <3> SUFFICES ASSUME NEW i \in 1..Len(s), s[i] # e
                 PROVE  \E j \in 1..Len(s) - 1 : r[j] = s[i]
      BY <2>4
    <3>1. i # k
      BY <2>1
    <3>2. CASE i < k
      <4>1. i \in 1..Len(s) - 1 /\ r[i] = s[i]
        BY <2>1, <2>4, <3>2
      <4> QED  BY <4>1
    <3>3. CASE i > k
      <4>1. i - 1 \in 1..Len(s) - 1 /\ ~(i - 1 < k) /\ (i - 1) + 1 = i
        BY <2>1, <3>3
      <4>2. r[i - 1] = s[i]
        BY <2>4, <4>1
      <4> QED  BY <4>1, <4>2
    <3> QED  BY <2>1, <3>1, <3>2, <3>3
  <2>8. ASSUME NEW i \in 1..Len(r), NEW j \in 1..Len(r), r[i] = r[j]
        PROVE  i = j
    <3> DEFINE at(m) == IF m < k THEN m ELSE m + 1
    <3>1. r[i] = s[at(i)] /\ r[j] = s[at(j)]
      BY <2>4
    <3>2. at(i) \in 1..Len(s) /\ at(j) \in 1..Len(s)
      BY <2>4
    <3>3. at(i) = at(j)
      BY <2>8, <3>1, <3>2
    <3> QED  BY <2>1, <2>4, <3>3
  <2>9. /\ r \in Seq(S)
         /\ {r[i] : i \in 1..Len(r)} = {s[i] : i \in 1..Len(s)} \ {e}
         /\ \A i, j \in 1..Len(r) : r[i] = r[j] => i = j
    <3>1. {r[i] : i \in 1..Len(r)} = {s[i] : i \in 1..Len(s)} \ {e}
      BY ONLY <2>6, <2>7
    <3>2. \A i, j \in 1..Len(r) : r[i] = r[j] => i = j
      BY ONLY <2>8
    <3> QED  BY ONLY <2>4, <3>1, <3>2
  <2> QED  BY <2>9 DEF r
<1> QED  BY <1>1, <1>2
-----------------------------------------------------------------------------
\* The second part of a concatenation.
LEMMA SecondPart ==
  ASSUME NEW S, NEW r \in Seq(S), NEW t \in Seq(S)
  PROVE  /\ Len(t) = Len(r \o t) - Len(r)
         /\ \A j \in 1..Len(t) : t[j] = (r \o t)[Len(r) + j]
<1>1. Len(r \o t) = Len(r) + Len(t) /\ Len(r) \in Nat /\ Len(t) \in Nat
  OBVIOUS
<1>2. ASSUME NEW j \in 1..Len(t)
      PROVE  t[j] = (r \o t)[Len(r) + j]
  OBVIOUS
<1> QED  BY <1>1, <1>2

\* The function that FlattenSeq is defined with exists, and gives sequences.
LEMMA FlattenExists ==
  ASSUME NEW S, NEW s \in Seq(Seq(S))
  PROVE  \E f \in [1..Len(s) -> Seq(S)] :
           \A i \in 1..Len(s) : f[i] = IF i = 1 THEN s[i] ELSE f[i - 1] \o s[i]
<1> DEFINE N == Len(s)
           Up(n, f) == \A i \in 1..n : f[i] = IF i = 1 THEN s[i] ELSE f[i - 1] \o s[i]
           P == {n \in 0..N : \E f \in [1..n -> Seq(S)] : Up(n, f)}
<1>1. N \in Nat /\ \A i \in 1..N : s[i] \in Seq(S)
  OBVIOUS
<1> HIDE DEF N
<1>2. 0 \in P
  <2> DEFINE f == [i \in 1..0 |-> s[i]]
  <2>1. f \in [1..0 -> Seq(S)] /\ Up(0, f)
    OBVIOUS
  <2> HIDE DEF f
  <2>2. \E h \in [1..0 -> Seq(S)] : Up(0, h)
    BY ONLY <2>1
  <2>3. 0 \in 0..N
    BY <1>1
  <2> HIDE DEF Up
  <2> QED  BY ONLY <2>2, <2>3, Zenon
<1>3. ASSUME NEW n \in 0..N - 1, n \in P
      PROVE  n + 1 \in P
  <2>1. PICK f \in [1..n -> Seq(S)] : Up(n, f)
    BY <1>3
  <2> DEFINE last == IF n = 0 THEN s[1] ELSE f[n] \o s[n + 1]
             g == [i \in 1..n + 1 |-> IF i = n + 1 THEN last ELSE f[i]]
  <2>2. last \in Seq(S)
    <3>1. CASE n = 0
      BY <1>1, <3>1
    <3>2. CASE n # 0
      <4>1. f[n] \in Seq(S) /\ s[n + 1] \in Seq(S)
        BY <1>1, <3>2
      <4> QED  BY <4>1, <3>2, ConcatProperties
    <3> QED  BY <3>1, <3>2
  <2> HIDE DEF last
  <2>3. g \in [1..n + 1 -> Seq(S)]
    BY <2>2
  <2>4. ASSUME NEW i \in 1..n + 1
        PROVE  g[i] = IF i = 1 THEN s[i] ELSE g[i - 1] \o s[i]
    <3>1. CASE i = n + 1
      BY <3>1 DEF last
    <3>2. CASE i # n + 1
      <4>1. i \in 1..n /\ g[i] = f[i] /\ (i # 1 => i - 1 \in 1..n /\ g[i - 1] = f[i - 1])
        BY <3>2
      <4>2. f[i] = IF i = 1 THEN s[i] ELSE f[i - 1] \o s[i]
        BY <2>1, <4>1
      <4> QED  BY <4>1, <4>2
    <3> QED  BY <3>1, <3>2
  <2> HIDE DEF g
  <2>5. \E h \in [1..n + 1 -> Seq(S)] : Up(n + 1, h)
    BY <2>3, <2>4
  <2>6. n + 1 \in 0..N
    BY <1>1
  <2> QED  BY <2>5, <2>6
<1>4. N \in P
  <2> HIDE DEF P
  <2>1. 0..N \subseteq P
    BY <1>1, <1>2, <1>3, BoundedInduction
  <2> QED  BY <1>1, <2>1
<1> QED  BY <1>4 DEF N

\* Flattening of no sequences, and of one more.
LEMMA FlattenAppend ==
  ASSUME NEW S
  PROVE  /\ FlattenSeq(<<>>) = <<>>
         /\ \A s \in Seq(Seq(S)), e \in Seq(S) :
              /\ FlattenSeq(s) \in Seq(S)
              /\ FlattenSeq(Append(s, e)) = FlattenSeq(s) \o e
<1> DEFINE Up(s, f) == f = [i \in 1..Len(s) |-> IF i = 1 THEN s[i] ELSE f[i - 1] \o s[i]]
           Pt(s, f) == \A i \in 1..Len(s) : f[i] = IF i = 1 THEN s[i] ELSE f[i - 1] \o s[i]
           F(s) == CHOOSE f : Up(s, f)
<1>1. \A s : FlattenSeq(s) = IF Len(s) = 0 THEN s ELSE F(s)[Len(s)]
  BY DEF FlattenSeq
<1>2. FlattenSeq(<<>>) = <<>>
  BY <1>1
<1>3. ASSUME NEW s \in Seq(Seq(S))
      PROVE  DOMAIN F(s) = 1..Len(s) /\ Pt(s, F(s)) /\ F(s) = [i \in 1..Len(s) |-> F(s)[i]]
  <2>1. PICK g \in [1..Len(s) -> Seq(S)] : Pt(s, g)
    BY FlattenExists
  <2>2. Up(s, g)
    BY <2>1
  <2>3. Up(s, F(s))
    <3> HIDE DEF Up
    <3> QED  BY <2>2
  <2> HIDE DEF F
  <2> QED  BY <2>3
<1> HIDE DEF F
<1>4. ASSUME NEW s \in Seq(Seq(S)), NEW g \in [1..Len(s) -> Seq(S)], Pt(s, g)
      PROVE  F(s) = g
  <2> DEFINE P == {n \in 0..Len(s) : n # 0 => F(s)[n] = g[n]}
  <2>1. 0 \in P
    OBVIOUS
  <2>2. ASSUME NEW n \in 0..Len(s) - 1, n \in P
        PROVE  n + 1 \in P
    <3>1. n + 1 \in 1..Len(s) /\ (n + 1) - 1 = n /\ (n + 1 = 1 <=> n = 0)
      OBVIOUS
    <3>2. F(s)[n + 1] = IF n = 0 THEN s[n + 1] ELSE F(s)[n] \o s[n + 1]
      BY <1>3, <3>1
    <3>3. g[n + 1] = IF n = 0 THEN s[n + 1] ELSE g[n] \o s[n + 1]
      BY <1>4, <3>1
    <3> QED  BY <2>2, <3>1, <3>2, <3>3
  <2>3. 0..Len(s) \subseteq P
    <3> HIDE DEF P
    <3> QED  BY <2>1, <2>2, BoundedInduction, Len(s) \in Nat
  <2>4. ASSUME NEW n \in 1..Len(s)
        PROVE  F(s)[n] = g[n]
    <3>1. n \in P
      <4> HIDE DEF P
      <4>1. n \in 0..Len(s)
        BY Len(s) \in Nat
      <4> QED  BY <2>3, <4>1
    <3> QED  BY <3>1
  <2>5. F(s) = [i \in 1..Len(s) |-> F(s)[i]] /\ g = [i \in 1..Len(s) |-> g[i]]
    BY <1>3
  <2> QED  BY ONLY <2>4, <2>5
<1>5. ASSUME NEW s \in Seq(Seq(S))
      PROVE  F(s) \in [1..Len(s) -> Seq(S)]
  <2>1. PICK g \in [1..Len(s) -> Seq(S)] : Pt(s, g)
    BY FlattenExists
  <2> QED  BY <1>4, <2>1
<1>6. ASSUME NEW s \in Seq(Seq(S)), NEW e \in Seq(S)
      PROVE  /\ FlattenSeq(s) \in Seq(S)
             /\ FlattenSeq(Append(s, e)) = FlattenSeq(s) \o e
  <2> DEFINE t == Append(s, e)
             n == Len(s)
             g == [i \in 1..n |-> F(t)[i]]
  <2>1. /\ t \in Seq(Seq(S)) /\ Len(t) = n + 1 /\ n \in Nat
        /\ \A i \in 1..n : t[i] = s[i]
        /\ t[n + 1] = e
    BY AppendProperties
  <2> HIDE DEF t, n
  <2>2. F(t) \in [1..n + 1 -> Seq(S)]
    BY <1>5, <2>1
  <2>3. ASSUME NEW i \in 1..n + 1
        PROVE  F(t)[i] = IF i = 1 THEN t[i] ELSE F(t)[i - 1] \o t[i]
    BY <1>3, <2>1
  <2>4. g \in [1..n -> Seq(S)]
    BY <2>1, <2>2
  <2>5. ASSUME NEW i \in 1..n
        PROVE  g[i] = IF i = 1 THEN s[i] ELSE g[i - 1] \o s[i]
    <3>1. F(t)[i] = IF i = 1 THEN t[i] ELSE F(t)[i - 1] \o t[i]
      BY <2>1, <2>3
    <3>2. g[i] = F(t)[i] /\ (i # 1 => g[i - 1] = F(t)[i - 1])
      BY <2>1
    <3> QED  BY <2>1, <3>1, <3>2
  <2> HIDE DEF g
  <2>6. F(s) = g
    <3>1. Pt(s, g)
      BY <2>5 DEF n
    <3> QED  BY <1>4, <2>4, <3>1 DEF n
  <2>7. FlattenSeq(t) = F(t)[n + 1]
    BY <1>1, <2>1
  <2>8. F(t)[n + 1] = IF n = 0 THEN e ELSE F(t)[n] \o e
    <3>1. n + 1 \in 1..n + 1 /\ (n + 1 = 1 <=> n = 0) /\ (n + 1) - 1 = n
      BY <2>1
    <3> QED  BY <2>1, <2>3, <3>1
  <2>9. CASE n = 0
    <3>1. s = <<>>
      BY <2>9 DEF n
    <3>2. FlattenSeq(s) = <<>> /\ <<>> \in Seq(S) /\ <<>> \o e = e
      BY <1>2, <3>1, ConcatEmptySeq
    <3> QED  BY <2>7, <2>8, <2>9, <3>2 DEF t
  <2>10. CASE n # 0
    <3>1. FlattenSeq(s) = F(s)[n]
      BY <1>1, <2>10 DEF n
    <3>2. F(s)[n] = F(t)[n] /\ F(s)[n] \in Seq(S)
      <4>1. n \in 1..n
        BY <2>1, <2>10
      <4>2. g[n] = F(t)[n]
        BY <4>1 DEF g
      <4> QED  BY <2>4, <2>6, <4>1, <4>2
    <3> QED  BY <2>7, <2>8, <2>10, <3>1, <3>2 DEF t
  <2> QED  BY <2>9, <2>10
<1> QED  BY <1>2, <1>6

\* The first elements of a sequence, one more at a time.
LEMMA FirstOnes ==
  ASSUME NEW S, NEW s \in Seq(S)
  PROVE  /\ SubSeq(s, 1, 0) = <<>> /\ SubSeq(s, 1, Len(s)) = s
         /\ \A j \in 0..Len(s) : SubSeq(s, 1, j) \in Seq(S) /\ Len(SubSeq(s, 1, j)) = j
         /\ \A j \in 1..Len(s) : SubSeq(s, 1, j) = Append(SubSeq(s, 1, j - 1), s[j])
<1>1. SubSeq(s, 1, 0) = <<>>
  BY SubSeqEmpty
<1>2. SubSeq(s, 1, Len(s)) = s
  BY SubSeqFull
<1>3. ASSUME NEW j \in 0..Len(s)
      PROVE  SubSeq(s, 1, j) \in Seq(S) /\ Len(SubSeq(s, 1, j)) = j
  <2>1. \A k \in 1..j : s[k] \in S
    BY ElementOfSeq
  <2>2. 1 \in Nat /\ j \in Nat /\ 1 <= j + 1 /\ j - 1 + 1 = j
    OBVIOUS
  <2> QED  BY <2>1, <2>2, SubSeqProperties
<1>4. ASSUME NEW j \in 1..Len(s)
      PROVE  SubSeq(s, 1, j) = Append(SubSeq(s, 1, j - 1), s[j])
  BY SubSeqRecursiveSecond
<1> QED  BY <1>1, <1>2, <1>3, <1>4


\* A sequence from a place on, after something has been appended.
LEMMA SinceAppend ==
  ASSUME NEW S, NEW s \in Seq(S), NEW x \in S, NEW k \in 0..Len(s)
  PROVE  /\ SubSeq(s, k + 1, Len(s)) \in Seq(S)
         /\ SubSeq(Append(s, x), k + 1, Len(Append(s, x))) = Append(SubSeq(s, k + 1, Len(s)), x)
<1> DEFINE t == Append(s, x)
           n == Len(s)
           a == SubSeq(s, k + 1, n)
           b == SubSeq(t, k + 1, n + 1)
           c == Append(a, x)
<1>1. /\ t \in Seq(S) /\ Len(t) = n + 1 /\ n \in Nat /\ t[n + 1] = x
      /\ \A i \in 1..n : t[i] = s[i]
  BY AppendProperties
<1>2. a \in Seq(S) /\ Len(a) = n - k /\ \A i \in 1..n - k : a[i] = s[k + i]
  <2>1. \A i \in k + 1..n : s[i] \in S
    BY ElementOfSeq
  <2>2. n - (k + 1) + 1 = n - k /\ \A i \in 1..n - k : (k + 1) + i - 1 = k + i
    BY <1>1
  <2>3. (k + 1 <= n <=> n - k > 0) /\ n - k \in Nat /\ k + 1 \in Int /\ n \in Int
    BY <1>1
  <2> HIDE DEF n
  <2> QED  BY <2>1, <2>2, <2>3, SubSeqProperties
<1>3. b \in Seq(S) /\ Len(b) = (n - k) + 1 /\ \A i \in 1..(n - k) + 1 : b[i] = t[k + i]
  <2>1. \A i \in k + 1..n + 1 : t[i] \in S
    <3> HIDE DEF t, n
    <3> QED  BY <1>1, ElementOfSeq
  <2>2. (n + 1) - (k + 1) + 1 = (n - k) + 1 /\ \A i \in 1..(n - k) + 1 : (k + 1) + i - 1 = k + i
    BY <1>1
  <2>3. k + 1 <= n + 1 /\ k + 1 \in Int /\ n + 1 \in Int
    BY <1>1
  <2> HIDE DEF n, t
  <2> QED  BY <2>1, <2>2, <2>3, SubSeqProperties
<1> HIDE DEF a, b, t, n
<1>4. /\ c \in Seq(S) /\ Len(c) = (n - k) + 1 /\ c[(n - k) + 1] = x
      /\ \A i \in 1..n - k : c[i] = a[i]
  BY <1>2, AppendProperties
<1> HIDE DEF c
<1>5. ASSUME NEW i \in 1..(n - k) + 1 PROVE b[i] = c[i]
  <2>1. CASE i = (n - k) + 1
    <3>1. k + i = n + 1
      BY <1>1, <2>1
    <3> QED  BY <1>1, <1>3, <1>4, <2>1, <3>1
  <2>2. CASE i # (n - k) + 1
    <3>1. i \in 1..n - k /\ k + i \in 1..n
      BY <1>1, <2>2, k \in 0..Len(s) DEF n
    <3> QED  BY <1>1, <1>2, <1>3, <1>4, <3>1
  <2> QED  BY <2>1, <2>2
<1>6. b = c
  BY ONLY <1>3, <1>4, <1>5, SeqEqual
<1> QED  BY <1>1, <1>2, <1>6 DEF a, b, c, t, n
=============================================================================
