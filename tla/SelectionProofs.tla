-------------------------- MODULE SelectionProofs --------------------------
(***************************************************************************)
(* What Select keeps, for every sequence and every set.  The recursive     *)
(* definition is justified, and its facts are proved, by induction over a  *)
(* set of naturals: the library's induction theorems take an operator,     *)
(* NatSetInduction a set, which the provers can instantiate.               *)
(***************************************************************************)
EXTENDS Selection, SequenceTheorems, WellFoundedInduction, TLAPS

\* Every nonempty set of naturals has a least element.
LEMMA LeastElement ==
    ASSUME NEW T \in SUBSET Nat, T # {}
    PROVE  \E m \in T : \A k \in T : m <= k
<1> DEFINE R == OpToRel(<, Nat)
<1>1. IsWellFoundedOn(R, Nat)
  BY NatLessThanWellFounded
<1>2. \A x, y \in Nat : y < x => <<y, x>> \in R
  BY DEF OpToRel
<1> HIDE DEF R
<1>3. PICK x \in T : \A y \in T : ~ (<<y, x>> \in R)
  BY <1>1, WFMin
<1>4. \A y \in T : ~ (y < x)
  BY <1>2, <1>3
<1> QED
  BY <1>3, <1>4

\* A set that has 0 and the successor of each of its naturals has them all.
LEMMA NatSetInduction ==
    ASSUME NEW S, 0 \in S, \A n \in Nat : n \in S => n + 1 \in S
    PROVE  \A n \in Nat : n \in S
<1> DEFINE T == Nat \ S
<1> SUFFICES ASSUME T # {} PROVE FALSE
  OBVIOUS
<1>1. PICK m \in T : \A k \in T : m <= k
  BY LeastElement
<1>2. m # 0 /\ m - 1 \in Nat /\ m - 1 \notin T
  BY <1>1
<1>3. m - 1 \in S
  BY <1>2
<1> QED
  BY <1>1, <1>2, <1>3

\* The recursive definition of Kept has a solution, so Kept is one.
LEMMA KeptDef ==
    ASSUME NEW s, NEW keep, Len(s) \in Nat
    PROVE  Kept(s, keep) =
             [n \in 0 .. Len(s) |->
                IF n = 0 THEN <<>>
                ELSE IF s[n] \in keep THEN Append(Kept(s, keep)[n - 1], s[n])
                                      ELSE Kept(s, keep)[n - 1]]
<1> DEFINE Rec(g, m) ==
             [n \in 0 .. m |->
                IF n = 0 THEN <<>>
                ELSE IF s[n] \in keep THEN Append(g[n - 1], s[n]) ELSE g[n - 1]]
           S == {m \in Nat : \E g : g = Rec(g, m)}
<1>1. 0 \in S
  <2> DEFINE g == [n \in 0 .. 0 |-> <<>>]
  <2>1. g = Rec(g, 0)
    OBVIOUS
  <2> QED
    BY <2>1
<1>2. ASSUME NEW m \in Nat, m \in S
      PROVE  m + 1 \in S
  <2>1. PICK g : g = Rec(g, m)
    BY <1>2
  <2> DEFINE next == IF s[m + 1] \in keep THEN Append(g[m], s[m + 1]) ELSE g[m]
             h == [n \in 0 .. m + 1 |-> IF n = m + 1 THEN next ELSE g[n]]
  <2>2. \A n \in 0 .. m : h[n] = g[n]
    OBVIOUS
  <2>3. \A n \in 0 .. m : g[n] = Rec(g, m)[n]
    BY <2>1
  <2>4. ASSUME NEW n \in 0 .. m + 1
        PROVE  h[n] = Rec(h, m + 1)[n]
    <3>1. CASE n = 0
      BY <2>2, <2>3, <3>1
    <3>2. CASE n = m + 1
      BY <2>2, <3>2
    <3>3. CASE n \in 1 .. m
      <4>1. n - 1 \in 0 .. m /\ n \in 0 .. m
        BY <3>3
      <4>2. h[n] = g[n] /\ h[n - 1] = g[n - 1]
        BY <2>2, <4>1
      <4> QED
        BY <2>3, <3>3, <4>1, <4>2
    <3> QED
      BY <3>1, <3>2, <3>3
  <2>5. h = Rec(h, m + 1)
    BY <2>4
  <2>6. \E g1 : g1 = Rec(g1, m + 1)
    <3> HIDE DEF h
    <3> QED
      BY <2>5
  <2> QED
    BY <2>6
<1>3. Len(s) \in S
  <2> HIDE DEF S
  <2> QED
    BY <1>1, <1>2, NatSetInduction
<1>4. \E g : g = Rec(g, Len(s))
  BY <1>3
<1>5. Kept(s, keep) = CHOOSE g : g = Rec(g, Len(s))
  BY DEF Kept
<1>6. Kept(s, keep) = Rec(Kept(s, keep), Len(s))
  BY <1>4, <1>5
<1> QED
  BY <1>6

\* The equations of the definition.
LEMMA KeptSteps ==
    ASSUME NEW s, NEW keep, Len(s) \in Nat
    PROVE  /\ Kept(s, keep)[0] = <<>>
           /\ \A n \in 0 .. Len(s) - 1 :
                 Kept(s, keep)[n + 1] =
                    IF s[n + 1] \in keep THEN Append(Kept(s, keep)[n], s[n + 1])
                                         ELSE Kept(s, keep)[n]
<1> DEFINE K == Kept(s, keep)
<1>1. Len(s) \in Nat
  OBVIOUS
<1>2. K = [n \in 0 .. Len(s) |->
             IF n = 0 THEN <<>>
             ELSE IF s[n] \in keep THEN Append(K[n - 1], s[n]) ELSE K[n - 1]]
  BY <1>1, KeptDef
<1> HIDE DEF K
<1>3. K[0] = <<>>
  BY <1>1, <1>2
<1>4. ASSUME NEW n \in 0 .. Len(s) - 1
      PROVE  K[n + 1] = IF s[n + 1] \in keep THEN Append(K[n], s[n + 1]) ELSE K[n]
  <2>1. n + 1 \in 0 .. Len(s) /\ n + 1 # 0 /\ (n + 1) - 1 = n
    BY <1>1
  <2> QED
    BY <1>2, <2>1
<1> QED
  BY <1>3, <1>4 DEF K

\* The same equations as one statement about the function K.
KeptBy(K, s, keep) ==
    /\ K[0] = <<>>
    /\ \A n \in 0 .. Len(s) - 1 :
          K[n + 1] = IF s[n + 1] \in keep THEN Append(K[n], s[n + 1]) ELSE K[n]

LEMMA KeptIsKeptBy ==
    ASSUME NEW s, NEW keep, Len(s) \in Nat
    PROVE  KeptBy(Kept(s, keep), s, keep)
BY KeptSteps DEF KeptBy

\* Induction over the positions of a sequence.
LEMMA PositionInduction ==
    ASSUME NEW N \in Nat, NEW P, 0 \in P,
           \A n \in 0 .. N - 1 : n \in P => n + 1 \in P
    PROVE  \A n \in 0 .. N : n \in P
<1> DEFINE Q == {n \in Nat : n <= N => n \in P}
<1>1. 0 \in Q
  OBVIOUS
<1>2. ASSUME NEW n \in Nat, n \in Q PROVE n + 1 \in Q
  <2>1. CASE n + 1 <= N
    BY <1>2, <2>1
  <2> QED
    BY <2>1
<1>3. \A n \in Nat : n \in Q
  <2> HIDE DEF Q
  <2> QED
    BY <1>1, <1>2, NatSetInduction
<1> QED
  BY <1>3

\* k has elements of the first n of s that are in the set, all of them, in
\* their order.
Keeps(k, s, n, keep) ==
    /\ \A i \in 1 .. Len(k) :
          k[i] \in keep /\ \E a \in 1 .. n : k[i] = s[a]
    /\ \A i, j \in 1 .. Len(k) : i < j =>
          \E a, b \in 1 .. n : a < b /\ k[i] = s[a] /\ k[j] = s[b]
    /\ \A a \in 1 .. n : s[a] \in keep =>
          \E i \in 1 .. Len(k) : k[i] = s[a]

\* What is kept of the first n elements.
LEMMA KeptProperties ==
    ASSUME NEW S, NEW s \in Seq(S), NEW keep
    PROVE  \A n \in 0 .. Len(s) :
              /\ Kept(s, keep)[n] \in Seq(S)
              /\ Keeps(Kept(s, keep)[n], s, n, keep)
<1> DEFINE K == Kept(s, keep)
           Good(k, n) == k \in Seq(S) /\ Keeps(k, s, n, keep)
           P == {n \in 0 .. Len(s) : Good(K[n], n)}
<1> USE DEF Keeps
<1>1. Len(s) \in Nat
  BY LenProperties
<1>2. /\ K[0] = <<>>
      /\ \A n \in 0 .. Len(s) - 1 :
            K[n + 1] = IF s[n + 1] \in keep THEN Append(K[n], s[n + 1]) ELSE K[n]
  <2>1. KeptBy(K, s, keep)
    BY <1>1, KeptIsKeptBy
  <2> HIDE DEF K
  <2> QED
    BY <2>1 DEF KeptBy
<1> HIDE DEF K
<1>3. 0 \in P
  <2>1. Good(<<>>, 0)
    <3>1. <<>> \in Seq(S) /\ Len(<<>>) = 0
      BY EmptySeq
    <3> QED
      BY <3>1
  <2> HIDE DEF Good
  <2> QED
    BY <1>1, <1>2, <2>1
<1>4. ASSUME NEW n \in 0 .. Len(s) - 1, n \in P
      PROVE  n + 1 \in P
  <2>1. Good(K[n], n)
    <3> HIDE DEF Good
    <3> QED
      BY <1>4
  <2>0. n \in Nat /\ n + 1 \in 1 .. Len(s) /\ s[n + 1] \in S
    BY <1>1, ElementOfSeq
  <2>2. CASE s[n + 1] \notin keep
    <3>1. K[n + 1] = K[n]
      BY <1>2, <2>2
    <3>2. Good(K[n], n + 1)
      <4>1. 1 .. n \subseteq 1 .. n + 1 /\ \A a \in 1 .. n + 1 : a \in 1 .. n \/ a = n + 1
        BY <2>0
      <4>2. \A i \in 1 .. Len(K[n]) :
               K[n][i] \in keep /\ \E a \in 1 .. n + 1 : K[n][i] = s[a]
        BY <2>1, <4>1
      <4>3. \A i, j \in 1 .. Len(K[n]) : i < j =>
               \E a, b \in 1 .. n + 1 : a < b /\ K[n][i] = s[a] /\ K[n][j] = s[b]
        BY <2>1, <4>1
      <4>4. \A a \in 1 .. n + 1 : s[a] \in keep =>
               \E i \in 1 .. Len(K[n]) : K[n][i] = s[a]
        BY <2>1, <2>2, <4>1
      <4> QED
        BY <2>1, <4>2, <4>3, <4>4
    <3> HIDE DEF Good
    <3> QED
      BY <2>0, <3>1, <3>2
  <2>3. CASE s[n + 1] \in keep
    <3> DEFINE k == Append(K[n], s[n + 1])
    <3>1. K[n + 1] = k
      BY <1>2, <2>3
    <3>2. /\ k \in Seq(S) /\ Len(k) = Len(K[n]) + 1 /\ Len(K[n]) \in Nat
          /\ \A i \in 1 .. Len(K[n]) : k[i] = K[n][i]
          /\ k[Len(k)] = s[n + 1]
      BY <2>0, <2>1, AppendProperties, LenProperties
    <3> HIDE DEF k
    <3>3. ASSUME NEW i \in 1 .. Len(k)
          PROVE  k[i] \in keep /\ \E a \in 1 .. n + 1 : k[i] = s[a]
      <4>1. CASE i = Len(k)
        BY <2>0, <2>3, <3>2, <4>1
      <4>2. CASE i # Len(k)
        <5>1. i \in 1 .. Len(K[n]) /\ k[i] = K[n][i]
          BY <3>2, <4>2
        <5>2. PICK a \in 1 .. n : K[n][i] = s[a]
          BY <2>1, <5>1
        <5>3. a \in 1 .. n + 1 /\ K[n][i] \in keep
          BY <2>0, <2>1, <5>1
        <5> QED
          BY <5>1, <5>2, <5>3
      <4> QED
        BY <4>1, <4>2
    <3>4. ASSUME NEW i \in 1 .. Len(k), NEW j \in 1 .. Len(k), i < j
          PROVE  \E a, b \in 1 .. n + 1 : a < b /\ k[i] = s[a] /\ k[j] = s[b]
      <4>1. i \in 1 .. Len(K[n]) /\ k[i] = K[n][i]
        BY <3>2, <3>4
      <4>2. CASE j = Len(k)
        <5>1. PICK a \in 1 .. n : k[i] = s[a]
          BY <2>1, <4>1
        <5>2. a \in 1 .. n + 1 /\ n + 1 \in 1 .. n + 1 /\ a < n + 1
          BY <2>0
        <5> QED
          BY <3>2, <4>2, <5>1, <5>2
      <4>3. CASE j # Len(k)
        <5>1. j \in 1 .. Len(K[n]) /\ k[j] = K[n][j]
          BY <3>2, <4>3
        <5>2. PICK a \in 1 .. n, b \in 1 .. n :
                 a < b /\ K[n][i] = s[a] /\ K[n][j] = s[b]
          BY <2>1, <3>4, <4>1, <5>1
        <5>3. a \in 1 .. n + 1 /\ b \in 1 .. n + 1
          BY <2>0
        <5> QED
          BY <4>1, <5>1, <5>2, <5>3
      <4> QED
        BY <4>2, <4>3
    <3>5. ASSUME NEW a \in 1 .. n + 1, s[a] \in keep
          PROVE  \E i \in 1 .. Len(k) : k[i] = s[a]
      <4>1. CASE a = n + 1
        BY <3>2, <4>1
      <4>2. CASE a # n + 1
        <5>1. a \in 1 .. n
          BY <2>0, <4>2
        <5>2. PICK i \in 1 .. Len(K[n]) : K[n][i] = s[a]
          BY <2>1, <3>5, <5>1
        <5> QED
          BY <3>2, <5>2
      <4> QED
        BY <4>1, <4>2
    <3>6. Good(k, n + 1)
      BY <3>2, <3>3, <3>4, <3>5
    <3> HIDE DEF Good
    <3> QED
      BY <2>0, <3>1, <3>6
  <2> QED
    BY <2>2, <2>3
<1>5. \A n \in 0 .. Len(s) : n \in P
  <2> HIDE DEF P
  <2> QED
    BY <1>1, <1>3, <1>4, PositionInduction
<1>6. \A n \in 0 .. Len(s) : Good(K[n], n)
  <2> HIDE DEF Good
  <2> QED
    BY <1>5
<1> HIDE DEF Keeps
<1> QED
  BY <1>6 DEF K

\* What Select keeps.
LEMMA SelectProperties ==
    ASSUME NEW S, NEW s \in Seq(S), NEW keep
    PROVE  /\ Select(s, keep) \in Seq(S)
           /\ Keeps(Select(s, keep), s, Len(s), keep)
<1>1. Len(s) \in 0 .. Len(s)
  BY LenProperties
<1> QED
  BY <1>1, KeptProperties DEF Select
-----------------------------------------------------------------------------
\* Of an empty sequence nothing is kept.
LEMMA SelectEmpty == \A keep : Select(<<>>, keep) = <<>>
<1> TAKE keep
<1>1. Len(<<>>) = 0
  OBVIOUS
<1> QED
  BY <1>1, KeptSteps DEF Select

\* The first N elements of s and t, and which of them are kept, are the same.
Agree(s, keep, t, keep2, N) ==
    /\ Len(s) \in Nat /\ Len(t) \in Nat /\ N \in Nat
    /\ N <= Len(s) /\ N <= Len(t)
    /\ \A n \in 1 .. N : s[n] = t[n] /\ (s[n] \in keep <=> t[n] \in keep2)

\* What is kept of the first elements depends on these only, and on which of
\* them are in the set.
LEMMA KeptAgree ==
    ASSUME NEW s, NEW keep, NEW t, NEW keep2, NEW N, Agree(s, keep, t, keep2, N)
    PROVE  Kept(s, keep)[N] = Kept(t, keep2)[N]
<1> DEFINE K == Kept(s, keep)
           L == Kept(t, keep2)
           P == {n \in 0 .. N : K[n] = L[n]}
<1>1. /\ Len(s) \in Nat /\ Len(t) \in Nat /\ N \in Nat
      /\ N <= Len(s) /\ N <= Len(t)
      /\ \A n \in 1 .. N : s[n] = t[n] /\ (s[n] \in keep <=> t[n] \in keep2)
  BY DEF Agree
<1>2. /\ K[0] = <<>>
      /\ \A n \in 0 .. Len(s) - 1 :
            K[n + 1] = IF s[n + 1] \in keep THEN Append(K[n], s[n + 1]) ELSE K[n]
  <2>1. KeptBy(K, s, keep)
    BY <1>1, KeptIsKeptBy
  <2> HIDE DEF K
  <2> QED
    BY <2>1 DEF KeptBy
<1>3. /\ L[0] = <<>>
      /\ \A n \in 0 .. Len(t) - 1 :
            L[n + 1] = IF t[n + 1] \in keep2 THEN Append(L[n], t[n + 1]) ELSE L[n]
  BY <1>1, KeptSteps
<1> HIDE DEF K, L
<1>4. 0 \in P
  BY <1>1, <1>2, <1>3
<1>5. ASSUME NEW n \in 0 .. N - 1, n \in P PROVE n + 1 \in P
  <2>1. /\ n \in 0 .. Len(s) - 1 /\ n \in 0 .. Len(t) - 1 /\ n + 1 \in 1 .. N
        /\ n + 1 \in 0 .. N /\ K[n] = L[n]
    BY <1>1, <1>5
  <2>2. K[n + 1] = L[n + 1]
    BY <1>1, <1>2, <1>3, <2>1
  <2> QED
    BY <2>1, <2>2
<1>6. \A n \in 0 .. N : n \in P
  <2> HIDE DEF P
  <2> QED
    BY <1>1, <1>4, <1>5, PositionInduction
<1>7. K[N] = L[N]
  BY <1>1, <1>6
<1> QED
  BY <1>7 DEF K, L

\* Only which elements are in the set matters.
LEMMA SelectAgree ==
    ASSUME NEW S, NEW s \in Seq(S), NEW keep, NEW keep2,
           \A n \in 1 .. Len(s) : s[n] \in keep <=> s[n] \in keep2
    PROVE  Select(s, keep) = Select(s, keep2)
<1>1. Len(s) \in Nat /\ Len(s) <= Len(s)
  BY LenProperties
<1>2. Agree(s, keep, s, keep2, Len(s))
  BY <1>1 DEF Agree
<1> QED
  BY <1>2, KeptAgree DEF Select

\* Appending to the second of two sequences is appending to both.  The name
\* keeps the provers from taking the equation apart where it is used.
AppendsLast(a, b, x) == Append(a \o b, x) = a \o Append(b, x)

LEMMA AppendConcat ==
    ASSUME NEW S, NEW a \in Seq(S), NEW b \in Seq(S), NEW x \in S
    PROVE  AppendsLast(a, b, x)
<1>1. a \o b \in Seq(S) /\ Append(b, x) \in Seq(S) /\ <<x>> \in Seq(S)
  BY ConcatProperties, AppendProperties
<1>2. /\ Append(a \o b, x) = (a \o b) \o <<x>>
      /\ Append(b, x) = b \o <<x>>
  BY <1>1, AppendIsConcat
<1> DEFINE e == <<x>>
<1>3. e \in Seq(S)
  BY <1>1
<1> HIDE DEF e
<1>4. (a \o b) \o e = a \o (b \o e)
  BY <1>3, ConcatAssociative
<1> QED
  BY <1>2, <1>4 DEF e, AppendsLast

\* Selecting from two sequences one after the other is selecting from both.
LEMMA SelectConcat ==
    ASSUME NEW S, NEW s \in Seq(S), NEW t \in Seq(S), NEW keep
    PROVE  Select(s \o t, keep) = Select(s, keep) \o Select(t, keep)
<1> DEFINE u == s \o t
           m == Len(s)
           K == Kept(u, keep)
           L == Kept(t, keep)
           k == Select(s, keep)
           P == {n \in 0 .. Len(t) : K[m + n] = k \o L[n]}
<1>1. /\ u \in Seq(S) /\ Len(u) = m + Len(t) /\ m \in Nat /\ Len(t) \in Nat
      /\ \A i \in 1 .. m + Len(t) : u[i] = IF i <= m THEN s[i] ELSE t[i - m]
  BY ConcatProperties, LenProperties
<1> HIDE DEF u
<1>2. K[m] = k
  <2>1. /\ m <= Len(u) /\ m <= Len(s) /\ Len(u) \in Nat
        /\ \A n \in 1 .. m : u[n] = s[n]
    BY <1>1
  <2>2. Agree(u, keep, s, keep, m)
    BY <1>1, <2>1 DEF Agree
  <2>3. Kept(u, keep)[m] = Kept(s, keep)[m]
    BY <2>2, KeptAgree
  <2> QED
    BY <2>3 DEF Select
<1>3. \A n \in 0 .. Len(u) - 1 :
         K[n + 1] = IF u[n + 1] \in keep THEN Append(K[n], u[n + 1]) ELSE K[n]
  <2>1. Len(u) \in Nat
    BY <1>1
  <2> QED
    BY <2>1, KeptSteps
<1>4. /\ L[0] = <<>>
      /\ \A n \in 0 .. Len(t) - 1 :
            L[n + 1] = IF t[n + 1] \in keep THEN Append(L[n], t[n + 1]) ELSE L[n]
  BY <1>1, KeptSteps
<1>5. k \in Seq(S) /\ \A n \in 0 .. Len(t) : L[n] \in Seq(S)
  BY SelectProperties, KeptProperties
<1> HIDE DEF K, L, k
<1>6. 0 \in P
  <2>1. k \o <<>> = k
    BY <1>5, ConcatEmptySeq
  <2>2. m + 0 = m /\ 0 \in 0 .. Len(t)
    BY <1>1
  <2> HIDE DEF m
  <2> QED
    BY <1>2, <1>4, <2>1, <2>2
<1>7. ASSUME NEW n \in 0 .. Len(t) - 1, n \in P PROVE n + 1 \in P
  <2>1. /\ K[m + n] = k \o L[n] /\ L[n] \in Seq(S)
        /\ n + 1 \in 1 .. Len(t) /\ n + 1 \in 0 .. Len(t) /\ n \in Nat
    BY <1>1, <1>5, <1>7
  <2>2. u[m + n + 1] = t[n + 1] /\ m + n \in 0 .. Len(u) - 1
    BY <1>1, <2>1
  <2>3. K[m + n + 1] = IF t[n + 1] \in keep THEN Append(k \o L[n], t[n + 1])
                                            ELSE k \o L[n]
    BY <1>3, <2>1, <2>2
  <2>4. t[n + 1] \in S
    BY <2>1, ElementOfSeq
  <2>5. Append(k \o L[n], t[n + 1]) = k \o Append(L[n], t[n + 1])
    <3>1. AppendsLast(k, L[n], t[n + 1])
      BY <1>5, <2>1, <2>4, AppendConcat
    <3> QED
      BY <3>1 DEF AppendsLast
  <2>6. K[m + n + 1] = k \o L[n + 1]
    BY <1>4, <2>3, <2>5
  <2>7. m + (n + 1) = m + n + 1
    BY <1>1, <2>1
  <2> HIDE DEF m
  <2> QED
    BY <2>1, <2>6, <2>7
<1>8. \A n \in 0 .. Len(t) : n \in P
  <2> HIDE DEF P
  <2> QED
    BY <1>1, <1>6, <1>7, PositionInduction
<1>9. K[Len(u)] = k \o L[Len(t)]
  <2>1. Len(t) \in P
    <3> HIDE DEF P
    <3> QED
      BY <1>1, <1>8
  <2> QED
    BY <1>1, <2>1
<1> QED
  BY <1>9 DEF Select, u, K, L, k

\* Selecting twice is selecting what is in both sets.
LEMMA SelectTwice ==
    ASSUME NEW S, NEW s \in Seq(S), NEW keep, NEW keep2
    PROVE  Select(Select(s, keep), keep2) = Select(s, keep \cap keep2)
<1> DEFINE K == Kept(s, keep)
           L == Kept(s, keep \cap keep2)
           P == {n \in 0 .. Len(s) : Select(K[n], keep2) = L[n]}
<1>1. Len(s) \in Nat
  BY LenProperties
<1>2. /\ K[0] = <<>>
      /\ \A n \in 0 .. Len(s) - 1 :
            K[n + 1] = IF s[n + 1] \in keep THEN Append(K[n], s[n + 1]) ELSE K[n]
  <2>1. KeptBy(K, s, keep)
    BY <1>1, KeptIsKeptBy
  <2> HIDE DEF K
  <2> QED
    BY <2>1 DEF KeptBy
<1>3. /\ L[0] = <<>>
      /\ \A n \in 0 .. Len(s) - 1 :
            L[n + 1] = IF s[n + 1] \in keep \cap keep2
                       THEN Append(L[n], s[n + 1]) ELSE L[n]
  BY <1>1, KeptSteps
<1>4. \A n \in 0 .. Len(s) : K[n] \in Seq(S) /\ L[n] \in Seq(S)
  BY KeptProperties
<1> HIDE DEF K, L
<1>5. 0 \in P
  BY <1>1, <1>2, <1>3, SelectEmpty
<1>6. ASSUME NEW n \in 0 .. Len(s) - 1, n \in P PROVE n + 1 \in P
  <2>1. /\ Select(K[n], keep2) = L[n] /\ K[n] \in Seq(S) /\ L[n] \in Seq(S)
        /\ n + 1 \in 1 .. Len(s) /\ n + 1 \in 0 .. Len(s)
    BY <1>1, <1>4, <1>6
  <2>2. CASE s[n + 1] \notin keep
    BY <1>2, <1>3, <2>1, <2>2
  <2>3. CASE s[n + 1] \in keep
    <3> DEFINE x == s[n + 1]
               e == <<x>>
    <3>1. x \in S
      BY <2>1, ElementOfSeq
    <3>2. K[n + 1] = K[n] \o e
      BY <1>2, <2>1, <2>3, <3>1, AppendIsConcat
    <3>3. Select(e, keep2) = IF x \in keep2 THEN e ELSE <<>>
      <4>1. Len(e) = 1 /\ e[1] = x /\ Append(<<>>, x) = e /\ Len(e) \in Nat
        OBVIOUS
      <4> HIDE DEF e, x
      <4>2. /\ Kept(e, keep2)[0] = <<>>
            /\ Kept(e, keep2)[0 + 1] =
                  IF e[0 + 1] \in keep2 THEN Append(Kept(e, keep2)[0], e[0 + 1])
                                        ELSE Kept(e, keep2)[0]
        BY <4>1, KeptSteps
      <4> QED
        BY <4>1, <4>2 DEF Select
    <3>4. e \in Seq(S)
      BY <3>1
    <3>5. Select(K[n + 1], keep2) = L[n] \o Select(e, keep2)
      <4> HIDE DEF e, x
      <4>1. Select(K[n] \o e, keep2) = Select(K[n], keep2) \o Select(e, keep2)
        <5>1. \A a, b \in Seq(S) :
                 Select(a \o b, keep2) = Select(a, keep2) \o Select(b, keep2)
          BY SelectConcat
        <5> QED
          BY <2>1, <3>4, <5>1
      <4> QED
        BY <2>1, <3>2, <4>1
    <3>6. L[n + 1] = IF x \in keep2 THEN L[n] \o e ELSE L[n] \o <<>>
      BY <1>3, <2>1, <2>3, <3>1, AppendIsConcat, ConcatEmptySeq
    <3>7. Select(K[n + 1], keep2) = L[n + 1]
      BY <3>3, <3>5, <3>6
    <3> QED
      BY <2>1, <3>7
  <2> QED
    BY <2>2, <2>3
<1>7. \A n \in 0 .. Len(s) : n \in P
  <2> HIDE DEF P
  <2> QED
    BY <1>1, <1>5, <1>6, PositionInduction
<1>8. Select(K[Len(s)], keep2) = L[Len(s)]
  BY <1>1, <1>7
<1> QED
  BY <1>8 DEF Select, K, L
-----------------------------------------------------------------------------
\* What is kept is no longer than the sequence.
LEMMA SelectShorter ==
    ASSUME NEW S, NEW s \in Seq(S), NEW keep
    PROVE  Len(Select(s, keep)) <= Len(s)
<1> DEFINE K == Kept(s, keep)
           P == {n \in 0 .. Len(s) : Len(K[n]) <= n}
<1>1. Len(s) \in Nat
  BY LenProperties
<1>2. /\ K[0] = <<>>
      /\ \A n \in 0 .. Len(s) - 1 :
            K[n + 1] = IF s[n + 1] \in keep THEN Append(K[n], s[n + 1]) ELSE K[n]
  <2>1. KeptBy(K, s, keep)
    BY <1>1, KeptIsKeptBy
  <2> HIDE DEF K
  <2> QED
    BY <2>1 DEF KeptBy
<1>3. \A n \in 0 .. Len(s) : K[n] \in Seq(S)
  BY KeptProperties
<1> HIDE DEF K
<1>4. 0 \in P
  <2>1. Len(K[0]) = 0
    BY <1>2
  <2> QED
    BY <1>1, <2>1
<1>5. ASSUME NEW n \in 0 .. Len(s) - 1, n \in P PROVE n + 1 \in P
  <2>1. /\ n \in Nat /\ n \in 0 .. Len(s) /\ n + 1 \in 0 .. Len(s)
        /\ n + 1 \in 1 .. Len(s) /\ Len(K[n]) <= n
    BY <1>1, <1>5
  <2>2. K[n] \in Seq(S) /\ Len(K[n]) \in Nat /\ s[n + 1] \in S
    BY <1>3, <2>1, LenProperties, ElementOfSeq
  <2>3. Len(Append(K[n], s[n + 1])) = Len(K[n]) + 1
    BY <2>2, AppendProperties
  <2>4. Len(K[n + 1]) = Len(K[n]) + 1 \/ Len(K[n + 1]) = Len(K[n])
    BY <1>2, <2>3
  <2>5. Len(K[n + 1]) <= n + 1
    BY <2>1, <2>2, <2>4
  <2> QED
    BY <2>1, <2>5
<1>6. \A n \in 0 .. Len(s) : n \in P
  <2> HIDE DEF P
  <2> QED
    BY <1>1, <1>4, <1>5, PositionInduction
<1>7. Len(K[Len(s)]) <= Len(s)
  BY <1>1, <1>6
<1> QED
  BY <1>7 DEF Select, K
-----------------------------------------------------------------------------
\* Concatenation under a name, which keeps the provers from taking it apart.
Cat(a, b) == a \o b

LEMMA CatProperties ==
    ASSUME NEW S, NEW a \in Seq(S), NEW b \in Seq(S)
    PROVE  /\ Cat(a, b) \in Seq(S)
           /\ Len(Cat(a, b)) = Len(a) + Len(b)
  BY ConcatProperties DEF Cat

LEMMA CatEmpty ==
    ASSUME NEW S, NEW a \in Seq(S)
    PROVE  Cat(a, <<>>) = a /\ Cat(<<>>, a) = a
  BY ConcatEmptySeq DEF Cat

LEMMA CatAssociative ==
    ASSUME NEW S, NEW a \in Seq(S), NEW b \in Seq(S), NEW c \in Seq(S)
    PROVE  Cat(Cat(a, b), c) = Cat(a, Cat(b, c))
  BY ConcatAssociative DEF Cat

\* The recursive definition of Joins has a solution, so Joins is one.
LEMMA JoinsDef ==
    ASSUME NEW q, Len(q) \in Nat
    PROVE  Joins(q) = [n \in 0 .. Len(q) |->
                         IF n = 0 THEN <<>> ELSE Cat(Joins(q)[n - 1], q[n])]
<1> DEFINE Rec(g, m) == [n \in 0 .. m |-> IF n = 0 THEN <<>> ELSE Cat(g[n - 1], q[n])]
           S == {m \in Nat : \E g : g = Rec(g, m)}
<1>1. 0 \in S
  <2> DEFINE g == [n \in 0 .. 0 |-> <<>>]
  <2>1. g = Rec(g, 0)
    OBVIOUS
  <2> QED
    BY <2>1
<1>2. ASSUME NEW m \in Nat, m \in S
      PROVE  m + 1 \in S
  <2>1. PICK g : g = Rec(g, m)
    BY <1>2
  <2> DEFINE next == Cat(g[m], q[m + 1])
             h == [n \in 0 .. m + 1 |-> IF n = m + 1 THEN next ELSE g[n]]
  <2>2. \A n \in 0 .. m : h[n] = g[n]
    OBVIOUS
  <2>3. \A n \in 0 .. m : g[n] = Rec(g, m)[n]
    BY <2>1
  <2>4. ASSUME NEW n \in 0 .. m + 1
        PROVE  h[n] = Rec(h, m + 1)[n]
    <3>1. CASE n = 0
      BY <2>2, <2>3, <3>1
    <3>2. CASE n = m + 1
      <4>1. h[m + 1] = next /\ h[m] = g[m] /\ m + 1 # 0 /\ (m + 1) - 1 = m
        BY <2>2
      <4>2. Rec(h, m + 1)[m + 1] = Cat(h[m], q[m + 1])
        <5> HIDE DEF h
        <5> QED
          BY <4>1
      <4> QED
        BY <3>2, <4>1, <4>2
    <3>3. CASE n \in 1 .. m
      <4>1. n - 1 \in 0 .. m /\ n \in 0 .. m
        BY <3>3
      <4>2. h[n] = g[n] /\ h[n - 1] = g[n - 1]
        BY <2>2, <4>1
      <4> QED
        BY <2>3, <3>3, <4>1, <4>2
    <3> QED
      BY <3>1, <3>2, <3>3
  <2>5. h = Rec(h, m + 1)
    BY <2>4
  <2>6. \E g1 : g1 = Rec(g1, m + 1)
    <3> HIDE DEF h
    <3> QED
      BY <2>5
  <2> HIDE DEF Rec
  <2> QED
    BY <2>6
<1>3. Len(q) \in S
  <2> HIDE DEF S
  <2> QED
    BY <1>1, <1>2, NatSetInduction
<1>4. \E g : g = Rec(g, Len(q))
  BY <1>3
<1>5. Joins(q) = CHOOSE g : g = Rec(g, Len(q))
  BY DEF Joins, Cat
<1>6. Joins(q) = Rec(Joins(q), Len(q))
  BY <1>4, <1>5
<1> QED
  BY <1>6

\* The equations of the definition.
LEMMA JoinsSteps ==
    ASSUME NEW q, Len(q) \in Nat
    PROVE  /\ Joins(q)[0] = <<>>
           /\ \A n \in 0 .. Len(q) - 1 : Joins(q)[n + 1] = Cat(Joins(q)[n], q[n + 1])
<1> DEFINE J == Joins(q)
<1>1. Len(q) \in Nat
  OBVIOUS
<1>2. J = [n \in 0 .. Len(q) |-> IF n = 0 THEN <<>> ELSE Cat(J[n - 1], q[n])]
  BY <1>1, JoinsDef
<1> HIDE DEF J
<1>3. J[0] = <<>>
  BY <1>1, <1>2
<1>4. ASSUME NEW n \in 0 .. Len(q) - 1 PROVE J[n + 1] = Cat(J[n], q[n + 1])
  <2>1. n + 1 \in 0 .. Len(q) /\ n + 1 # 0 /\ (n + 1) - 1 = n
    BY <1>1
  <2> QED
    BY <1>2, <2>1
<1> QED
  BY <1>3, <1>4 DEF J

\* Sequences over S joined are a sequence over S.
LEMMA JoinsType ==
    ASSUME NEW S, NEW q \in Seq(Seq(S))
    PROVE  \A n \in 0 .. Len(q) : Joins(q)[n] \in Seq(S)
<1> DEFINE J == Joins(q)
           P == {n \in 0 .. Len(q) : J[n] \in Seq(S)}
<1>1. Len(q) \in Nat
  BY LenProperties
<1>2. /\ J[0] = <<>>
      /\ \A n \in 0 .. Len(q) - 1 : J[n + 1] = Cat(J[n], q[n + 1])
  BY <1>1, JoinsSteps
<1> HIDE DEF J
<1>3. 0 \in P
  <2>1. 0 \in 0 .. Len(q)
    BY <1>1
  <2>2. J[0] = <<>>
    BY <1>2
  <2>3. J[0] \in Seq(S)
    BY <2>2, EmptySeq
  <2> QED
    BY <2>1, <2>3
<1>4. ASSUME NEW n \in 0 .. Len(q) - 1, n \in P PROVE n + 1 \in P
  <2>1. n + 1 \in 0 .. Len(q) /\ n + 1 \in 1 .. Len(q) /\ J[n] \in Seq(S)
    BY <1>1, <1>4
  <2>2. q[n + 1] \in Seq(S)
    BY <2>1, ElementOfSeq
  <2>3. Cat(J[n], q[n + 1]) \in Seq(S)
    BY <2>1, <2>2, CatProperties
  <2> QED
    BY <1>2, <2>1, <2>3
<1>5. \A n \in 0 .. Len(q) : n \in P
  <2> HIDE DEF P
  <2> QED
    BY <1>1, <1>3, <1>4, PositionInduction
<1>6. \A n \in 0 .. Len(q) : J[n] \in Seq(S)
  BY <1>5
<1> QED
  BY <1>6 DEF J

LEMMA JoinedType ==
    ASSUME NEW S, NEW q \in Seq(Seq(S))
    PROVE  Joined(q) \in Seq(S)
<1>1. Len(q) \in 0 .. Len(q)
  BY LenProperties
<1> QED
  BY <1>1, JoinsType DEF Joined

\* Nothing joined is nothing.
LEMMA JoinedEmpty == Joined(<<>>) = <<>>
<1>1. Len(<<>>) = 0
  OBVIOUS
<1> QED
  BY <1>1, JoinsSteps DEF Joined

\* The last of the joined sequences is the end, and the first the beginning.
JoinsLast(q, b) == Joined(Append(q, b)) = Cat(Joined(q), b)
JoinsFirst(q) == Joined(q) = Cat(Head(q), Joined(Tail(q)))

LEMMA JoinedAppend ==
    ASSUME NEW S, NEW q \in Seq(Seq(S)), NEW b \in Seq(S)
    PROVE  JoinsLast(q, b)
<1> DEFINE r == Append(q, b)
           J == Joins(q)
           K == Joins(r)
           P == {n \in 0 .. Len(q) : K[n] = J[n]}
<1>1. /\ Len(q) \in Nat /\ Len(r) = Len(q) + 1
      /\ \A i \in 1 .. Len(q) : r[i] = q[i]
      /\ r[Len(q) + 1] = b
  BY LenProperties, AppendProperties
<1> HIDE DEF r
<1>2. /\ J[0] = <<>>
      /\ \A n \in 0 .. Len(q) - 1 : J[n + 1] = Cat(J[n], q[n + 1])
  BY <1>1, JoinsSteps
<1>3. /\ K[0] = <<>>
      /\ \A n \in 0 .. Len(r) - 1 : K[n + 1] = Cat(K[n], r[n + 1])
  <2>1. Len(r) \in Nat
    BY <1>1
  <2> QED
    BY <2>1, JoinsSteps
<1> HIDE DEF J, K
<1>4. 0 \in P
  BY <1>1, <1>2, <1>3
<1>5. ASSUME NEW n \in 0 .. Len(q) - 1, n \in P PROVE n + 1 \in P
  <2>1. /\ n + 1 \in 1 .. Len(q) /\ n + 1 \in 0 .. Len(q) /\ n \in 0 .. Len(r) - 1
        /\ K[n] = J[n]
    BY <1>1, <1>5
  <2>2. K[n + 1] = J[n + 1]
    BY <1>1, <1>2, <1>3, <2>1
  <2> QED
    BY <2>1, <2>2
<1>6. \A n \in 0 .. Len(q) : n \in P
  <2> HIDE DEF P
  <2> QED
    BY <1>1, <1>4, <1>5, PositionInduction
<1>7. K[Len(q)] = J[Len(q)]
  BY <1>1, <1>6
<1>8. K[Len(q) + 1] = Cat(J[Len(q)], b)
  <2>1. Len(q) \in 0 .. Len(r) - 1
    BY <1>1
  <2> QED
    BY <1>1, <1>3, <1>7, <2>1
<1> QED
  BY <1>1, <1>8 DEF Joined, JoinsLast, r, J, K

LEMMA JoinedTail ==
    ASSUME NEW S, NEW q \in Seq(Seq(S)), q # <<>>
    PROVE  JoinsFirst(q)
<1> DEFINE h == Head(q)
           t == Tail(q)
           J == Joins(q)
           K == Joins(t)
           P == {n \in 0 .. Len(t) : J[n + 1] = Cat(h, K[n])}
<1>1. /\ h \in Seq(S) /\ t \in Seq(Seq(S)) /\ Len(t) = Len(q) - 1
      /\ \A i \in 1 .. Len(t) : t[i] = q[i + 1]
      /\ h = q[1]
  BY HeadTailProperties
<1>2. Len(q) \in Nat \ {0} /\ Len(t) \in Nat
  BY <1>1, EmptySeq, LenProperties
<1> HIDE DEF h, t
<1>3. /\ J[0] = <<>>
      /\ \A n \in 0 .. Len(q) - 1 : J[n + 1] = Cat(J[n], q[n + 1])
  BY <1>2, JoinsSteps
<1>4. /\ K[0] = <<>>
      /\ \A n \in 0 .. Len(t) - 1 : K[n + 1] = Cat(K[n], t[n + 1])
  BY <1>2, JoinsSteps
<1>5. \A n \in 0 .. Len(t) : K[n] \in Seq(S)
  BY <1>1, JoinsType
<1> HIDE DEF J, K
<1>6. 0 \in P
  <2>1. J[1] = Cat(<<>>, h)
    <3>1. 0 \in 0 .. Len(q) - 1 /\ 0 + 1 = 1
      BY <1>2
    <3> QED
      BY <1>1, <1>3, <3>1
  <2>2. Cat(<<>>, h) = h /\ Cat(h, <<>>) = h
    BY <1>1, CatEmpty
  <2>3. J[0 + 1] = Cat(h, K[0])
    BY <1>4, <2>1, <2>2
  <2> QED
    BY <1>2, <2>3
<1>7. ASSUME NEW n \in 0 .. Len(t) - 1, n \in P PROVE n + 1 \in P
  <2>0. Len(q) - 1 = Len(t)
    BY <1>1, <1>2
  <2>1. /\ n \in Nat /\ n \in 0 .. Len(t) /\ n + 1 \in 0 .. Len(t)
        /\ n + 1 \in 1 .. Len(t) /\ n + 1 \in 0 .. Len(q) - 1
        /\ J[n + 1] = Cat(h, K[n])
    <3>1. J[n + 1] = Cat(h, K[n])
      BY <1>7
    <3> QED
      BY <1>2, <2>0, <3>1
  <2>2. /\ J[(n + 1) + 1] = Cat(J[n + 1], q[(n + 1) + 1])
        /\ t[n + 1] = q[(n + 1) + 1]
        /\ K[n + 1] = Cat(K[n], t[n + 1])
    BY <1>1, <1>3, <1>4, <2>1
  <2>3. K[n] \in Seq(S) /\ t[n + 1] \in Seq(S)
    BY <1>1, <1>5, <2>1, ElementOfSeq
  <2> DEFINE a == K[n]
             b == t[n + 1]
  <2>4. Cat(Cat(h, a), b) = Cat(h, Cat(a, b))
    <3>1. h \in Seq(S) /\ a \in Seq(S) /\ b \in Seq(S)
      BY <1>1, <2>3
    <3> HIDE DEF a, b
    <3> QED
      BY <3>1, CatAssociative
  <2>5. J[(n + 1) + 1] = Cat(h, K[n + 1])
    BY <2>1, <2>2, <2>4
  <2> QED
    BY <2>1, <2>5
<1>8. \A n \in 0 .. Len(t) : n \in P
  <2> HIDE DEF P
  <2> QED
    BY <1>2, <1>6, <1>7, PositionInduction
<1>9. J[Len(t) + 1] = Cat(h, K[Len(t)])
  BY <1>2, <1>8
<1>10. Len(t) + 1 = Len(q)
  BY <1>1, <1>2
<1> QED
  BY <1>9, <1>10 DEF Joined, JoinsFirst, h, t, J, K

\* A sequence begins every sequence that continues it.
LEMMA ConcatPrefix ==
    ASSUME NEW S, NEW a \in Seq(S), NEW b \in Seq(S)
    PROVE  Len(a) <= Len(a \o b) /\ a = SubSeq(a \o b, 1, Len(a))
<1> DEFINE c == a \o b
           d == SubSeq(c, 1, Len(a))
<1>1. /\ c \in Seq(S) /\ Len(c) = Len(a) + Len(b)
      /\ Len(a) \in Nat /\ Len(b) \in Nat
      /\ \A i \in 1 .. Len(a) + Len(b) : c[i] = IF i <= Len(a) THEN a[i] ELSE b[i - Len(a)]
  BY ConcatProperties, LenProperties
<1> HIDE DEF c
<1>2. \A i \in 1 .. Len(a) : c[i] = a[i] /\ c[i] \in S
  BY <1>1, ElementOfSeq
<1>3. d \in Seq(S) /\ Len(d) = Len(a) /\ \A i \in 1 .. Len(a) : d[i] = c[i]
  <2>1. 1 \in Int /\ Len(a) \in Int
    BY <1>1
  <2>2. /\ d \in Seq(S)
        /\ Len(d) = IF 1 <= Len(a) THEN Len(a) - 1 + 1 ELSE 0
        /\ \A i \in 1 .. Len(a) - 1 + 1 : d[i] = c[1 + i - 1]
    BY <1>2, <2>1, SubSeqProperties
  <2>3. \A i \in 1 .. Len(a) : 1 + i - 1 = i /\ i \in 1 .. Len(a) - 1 + 1
    BY <1>1
  <2> HIDE DEF d
  <2> QED
    BY <1>1, <2>2, <2>3
<1> HIDE DEF d
<1>4. a = d
  BY <1>2, <1>3, SeqEqual
<1> QED
  BY <1>1, <1>4 DEF c, d
=============================================================================
