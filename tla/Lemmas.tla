-------------------------------- MODULE Lemmas --------------------------------
(***************************************************************************)
(* What the proofs rest on.  Numbers and sequences come first: the         *)
(* operators that the models are built from are recursive functions, and   *)
(* what they compute for every input is proved by induction over a set of  *)
(* numbers.  Then the operators of LayoutOps, for any number of clients:   *)
(* what they return, keep and change.                                      *)
(***************************************************************************)
EXTENDS LayoutOps, SequenceTheorems, FiniteSetTheorems, WellFoundedInduction, TLAPS

\* A set of numbers that is not empty has a least element.
LEMMA Least ==
  ASSUME NEW S, S \subseteq Nat, S # {}
  PROVE  \E n \in S : \A y \in S : n <= y
<1> DEFINE R == {p \in Nat \X Nat : p[1] < p[2]}
<1>1. R = OpToRel(<, Nat)
  BY Zenon DEF OpToRel
<1>2. IsWellFoundedOn(R, Nat)
  BY <1>1, NatLessThanWellFounded, Zenon
<1>3. PICK n \in S : \A y \in S : ~(<<y, n>> \in R)
  <2> HIDE DEF R
  <2> QED BY <1>2, WFMin, Zenon
<1>4. ASSUME NEW y \in S PROVE ~(y < n)
  <2>1. <<y, n>> \in R <=> y < n
    OBVIOUS
  <2> QED BY <1>3, <2>1
<1>5. \A y \in S : n <= y
  BY <1>4
<1> QED BY <1>5

\* Induction over a set of numbers, without a predicate as a parameter.
LEMMA SetInduction ==
  ASSUME NEW S, 0 \in S, \A n \in Nat : n \in S => n + 1 \in S
  PROVE  Nat \subseteq S
<1> SUFFICES ASSUME Nat \ S # {} PROVE FALSE
  OBVIOUS
<1>1. PICK n \in Nat \ S : \A y \in Nat \ S : n <= y
  BY Least
<1>2. n # 0 /\ n - 1 \in Nat
  BY <1>1
<1>3. n - 1 \in S
  BY <1>1, <1>2
<1> QED BY <1>1, <1>2, <1>3

\* A bounded one has a greatest, which is what Max yields.
LEMMA Greatest ==
  ASSUME NEW S, NEW n \in Nat, S \subseteq 1 .. n, S # {}
  PROVE  Max(S) \in S /\ \A y \in S : y <= Max(S)
<1> DEFINE D == {n - i : i \in S}
<1>1. ASSUME NEW i \in S PROVE i \in 1 .. n /\ n - i \in Nat
  <2>1. i \in 1 .. n
    OBVIOUS
  <2> QED BY <2>1
<1>2. PICK d \in D : \A y \in D : d <= y
  <2>1. D \subseteq Nat /\ D # {}
    BY <1>1
  <2> HIDE DEF D
  <2> QED BY <2>1, Least
<1>3. PICK x \in S : d = n - x
  BY <1>2
<1>4a. ASSUME NEW y \in S PROVE x >= y
  <2>1. n - x <= n - y
    BY <1>2, <1>3
  <2> QED BY <2>1, <1>1
<1>4. \E w \in S : \A y \in S : w >= y
  BY <1>4a
<1>5. Max(S) \in S /\ \A y \in S : Max(S) >= y
  BY <1>4 DEF Max
<1>6. ASSUME NEW y \in S PROVE y <= Max(S)
  BY <1>1, <1>5
<1> QED BY <1>5, <1>6

\* The Max of a set is the element that no other exceeds.
LEMMA MaxIs ==
  ASSUME NEW S, S \subseteq Nat, NEW x \in S, \A y \in S : y <= x
  PROVE  Max(S) = x
<1>1. x \in Nat /\ \A y \in S : x >= y
  OBVIOUS
<1>2. Max(S) \in S /\ \A y \in S : Max(S) >= y
  BY <1>1 DEF Max
<1>3. Max(S) >= x /\ x >= Max(S) /\ Max(S) \in Nat
  BY <1>1, <1>2
<1> QED BY <1>1, <1>3

\* What is first in a concatenation is first in its left part.
LEMMA HeadTailOfConcat ==
  ASSUME NEW S, NEW s \in Seq(S), s # <<>>, NEW t \in Seq(S)
  PROVE  s \o t # <<>> /\ Head(s \o t) = Head(s) /\ Tail(s \o t) = Tail(s) \o t
<1>1. <<Head(s)>> \in Seq(S) /\ Tail(s) \in Seq(S) /\ s = <<Head(s)>> \o Tail(s)
  OBVIOUS
<1>2. s \o t = <<Head(s)>> \o (Tail(s) \o t) /\ Tail(s) \o t \in Seq(S)
  BY <1>1, ConcatAssociative, ConcatProperties
<1>3. ASSUME NEW e \in S, NEW u \in Seq(S)
      PROVE  <<e>> \o u # <<>> /\ Head(<<e>> \o u) = e /\ Tail(<<e>> \o u) = u
  OBVIOUS
<1>4. Head(s) \in S
  OBVIOUS
<1> QED BY <1>2, <1>3, <1>4

\* Two elements appended at once, or one after the other.
LEMMA AppendTwo ==
  ASSUME NEW S, NEW s \in Seq(S), NEW a \in S, NEW b \in S
  PROVE  Append(s, a) \in Seq(S) /\ s \o <<a, b>> = Append(Append(s, a), b)
<1>0. <<a>> \in Seq(S) /\ <<b>> \in Seq(S) /\ <<a, b>> = Append(<<a>>, b)
  OBVIOUS
<1>1. <<a, b>> = <<a>> \o <<b>> /\ <<a>> \in Seq(S) /\ <<b>> \in Seq(S)
  BY <1>0, AppendIsConcat
<1>2. Append(s, a) \in Seq(S) /\ Append(s, a) = s \o <<a>>
  BY AppendProperties, AppendIsConcat
<1>3. Append(Append(s, a), b) = (s \o <<a>>) \o <<b>>
  BY <1>2, AppendIsConcat
<1>4. (s \o <<a>>) \o <<b>> = s \o (<<a>> \o <<b>>)
  BY <1>1, ConcatAssociative
<1> QED BY <1>1, <1>2, <1>3, <1>4, Zenon

\* Appending goes to the right part of a concatenation.
LEMMA AppendConcat ==
  ASSUME NEW S, NEW s \in Seq(S), NEW t \in Seq(S), NEW e \in S
  PROVE  Append(s \o t, e) = s \o Append(t, e)
<1>1. <<e>> \in Seq(S) /\ s \o t \in Seq(S)
  BY ConcatProperties
<1>2. Append(s \o t, e) = (s \o t) \o <<e>> /\ Append(t, e) = t \o <<e>>
  BY <1>1, AppendIsConcat
<1>3. (s \o t) \o <<e>> = s \o (t \o <<e>>)
  BY <1>1, ConcatAssociative
<1> QED BY <1>2, <1>3, Zenon

\* A sequence of one element is its head.
LEMMA OneElement ==
  ASSUME NEW S, NEW s \in Seq(S), Len(s) = 1
  PROVE  s = <<Head(s)>>
  OBVIOUS

\* What was appended is last.
LEMMA LastOfAppend ==
  ASSUME NEW S, NEW s \in Seq(S), NEW e \in S
  PROVE  Last(Append(s, e)) = e
  BY AppendProperties DEF Last

\* The tail of a concatenation whose first element is known.
LEMMA TailOfCons ==
  ASSUME NEW S, NEW s \in Seq(S), NEW t \in Seq(S), NEW e \in S
  PROVE  Tail((<<e>> \o s) \o t) = s \o t
<1>1. <<e>> \in Seq(S) /\ s \o t \in Seq(S)
  BY ConcatProperties
<1>2. (<<e>> \o s) \o t = <<e>> \o (s \o t)
  BY <1>1, ConcatAssociative
<1>3. ASSUME NEW u \in Seq(S) PROVE Tail(<<e>> \o u) = u
  OBVIOUS
<1> QED BY <1>1, <1>2, <1>3

-------------------------------------------------------------------------------
(* The layout: Keep.                                                         *)

\* The next element of KeptUpTo, from the one before.
KeptThen(seq, S, i, before) == IF i = 0 THEN <<>>
                               ELSE IF seq[i] \in S THEN Append(before, seq[i])
                               ELSE before

\* The recursion has a solution for every length, and so for Len(seq).
LEMMA KeptExist ==
  ASSUME NEW seq, NEW S, NEW n \in Nat
  PROVE  \E kept : kept = [i \in 0..n |-> KeptThen(seq, S, i, kept[i - 1])]
<1> DEFINE N == {m \in Nat : \E kept : kept = [i \in 0..m |-> KeptThen(seq, S, i, kept[i - 1])]}
<1>1. 0 \in N
  <2> DEFINE k0 == [i \in 0..0 |-> <<>>]
  <2>1. k0 = [i \in 0..0 |-> KeptThen(seq, S, i, k0[i - 1])]
    BY DEF KeptThen
  <2> QED BY <2>1
<1>2. ASSUME NEW m \in Nat, m \in N PROVE m + 1 \in N
  <2>1. PICK k : k = [i \in 0..m |-> KeptThen(seq, S, i, k[i - 1])]
    BY <1>2
  <2> DEFINE k2 == [i \in 0..(m + 1) |-> KeptThen(seq, S, i, k[i - 1])]
  <2>2. ASSUME NEW i \in 0..(m + 1)
        PROVE KeptThen(seq, S, i, k[i - 1]) = KeptThen(seq, S, i, k2[i - 1])
    <3>1. CASE i = 0
      BY <3>1 DEF KeptThen
    <3>2. CASE i # 0
      <4>1. i - 1 \in 0..m
        BY <3>2
      <4>2. k[i - 1] = KeptThen(seq, S, i - 1, k[i - 2])
        BY <4>1, <2>1
      <4>3. k2[i - 1] = KeptThen(seq, S, i - 1, k[i - 2])
        BY <4>1
      <4> QED BY <4>2, <4>3
    <3> QED BY <3>1, <3>2
  <2>3. k2 = [i \in 0..(m + 1) |-> KeptThen(seq, S, i, k2[i - 1])]
    BY <2>2
  <2> HIDE DEF k2
  <2> QED BY <2>3
<1> HIDE DEF N
<1>3. n \in N
  BY <1>1, <1>2, SetInduction
<1> USE DEF N
<1> QED BY <1>3

\* So it is a solution that KeptUpTo chooses.
LEMMA KeptUpToDef ==
  ASSUME NEW seq, NEW S, Len(seq) \in Nat
  PROVE  KeptUpTo(seq, S) = [i \in 0..Len(seq) |-> KeptThen(seq, S, i, KeptUpTo(seq, S)[i - 1])]
<1> DEFINE Sol(kept) == kept = [i \in 0..Len(seq) |-> KeptThen(seq, S, i, kept[i - 1])]
<1>1. KeptUpTo(seq, S) = CHOOSE kept : Sol(kept)
  BY DEF KeptUpTo, KeptThen
<1>2. \E kept : Sol(kept)
  <2>1. \A n \in Nat : \E kept : kept = [i \in 0..n |-> KeptThen(seq, S, i, kept[i - 1])]
    BY KeptExist
  <2> QED BY <2>1
<1> HIDE DEF Sol
<1>3. Sol(KeptUpTo(seq, S))
  BY <1>1, <1>2
<1> USE DEF Sol
<1> QED BY <1>3

\* The function f says where each of the elements kept stood among the first n.
Stood(seq, S, n, kept, f) ==
  /\ f \in [DOMAIN kept -> 1..n]
  /\ \A k \in DOMAIN kept : kept[k] = seq[f[k]] /\ seq[f[k]] \in S
  /\ \A k, l \in DOMAIN kept : k < l => f[k] < f[l]
  /\ \A i \in 1..n : seq[i] \in S => \E k \in DOMAIN kept : f[k] = i

\* Keep leaves the elements in S, and these in their order.
LEMMA KeepKeepsOrder ==
  ASSUME NEW T, NEW seq \in Seq(T), NEW S
  PROVE  /\ Keep(seq, S) \in Seq(T)
         /\ \E f : Stood(seq, S, Len(seq), Keep(seq, S), f)
<1> DEFINE kept == KeptUpTo(seq, S)
           N == {n \in Nat : n <= Len(seq) =>
                               /\ kept[n] \in Seq(T)
                               /\ \E f : Stood(seq, S, n, kept[n], f)}
<1>1. Len(seq) \in Nat /\ \A i \in 0..Len(seq) : kept[i] = KeptThen(seq, S, i, kept[i - 1])
  BY LenProperties, KeptUpToDef
<1> HIDE DEF kept
<1>2. 0 \in N
  <2>1. kept[0] = <<>>
    BY <1>1 DEF KeptThen
  <2>2. Stood(seq, S, 0, <<>>, <<>>)
    BY DEF Stood
  <2>3. kept[0] \in Seq(T) /\ \E f : Stood(seq, S, 0, kept[0], f)
    BY <2>1, <2>2
  <2> QED BY <2>3
<1>3. ASSUME NEW n \in Nat, n \in N PROVE n + 1 \in N
  <2> SUFFICES ASSUME n + 1 <= Len(seq)
               PROVE  kept[n + 1] \in Seq(T) /\ \E f : Stood(seq, S, n + 1, kept[n + 1], f)
    OBVIOUS
  <2>1. n + 1 \in 0..Len(seq) /\ n + 1 \in 1..Len(seq) /\ (n + 1) - 1 = n /\ n <= Len(seq)
    BY <1>1
  <2>2. kept[n + 1] = KeptThen(seq, S, n + 1, kept[n])
    BY <1>1, <2>1
  <2>3. kept[n] \in Seq(T) /\ \E f : Stood(seq, S, n, kept[n], f)
    BY <1>3, <2>1
  <2>4. PICK f : Stood(seq, S, n, kept[n], f)
    BY <2>3
  <2>5. CASE seq[n + 1] \notin S
    <3>1. kept[n + 1] = kept[n]
      BY <2>2, <2>5 DEF KeptThen
    <3>2. f \in [DOMAIN kept[n] -> 1..(n + 1)]
      BY <2>4 DEF Stood
    <3>3. ASSUME NEW i \in 1..(n + 1), seq[i] \in S PROVE \E k \in DOMAIN kept[n] : f[k] = i
      <4>1. i \in 1..n
        BY <3>3, <2>5
      <4> QED BY <4>1, <3>3, <2>4 DEF Stood
    <3>4. Stood(seq, S, n + 1, kept[n], f)
      BY <2>4, <3>2, <3>3 DEF Stood
    <3> QED BY <2>3, <3>1, <3>4
  <2>6. CASE seq[n + 1] \in S
    <3> DEFINE m == Len(kept[n])
               g == [k \in 1..(m + 1) |-> IF k = m + 1 THEN n + 1 ELSE f[k]]
    <3>1. seq[n + 1] \in T
      BY <2>1, ElementOfSeq
    <3>2. kept[n + 1] = Append(kept[n], seq[n + 1])
      BY <2>2, <2>6 DEF KeptThen
    <3>3. /\ m \in Nat /\ DOMAIN kept[n] = 1..m /\ DOMAIN kept[n + 1] = 1..(m + 1)
          /\ kept[n + 1][m + 1] = seq[n + 1] /\ \A k \in 1..m : kept[n + 1][k] = kept[n][k]
          /\ kept[n + 1] \in Seq(T)
      BY <2>3, <3>1, <3>2, AppendProperties, LenProperties
    <3> HIDE DEF m
    <3>a. f \in [1..m -> 1..n]
      BY <3>3, <2>4 DEF Stood
    <3>4. g[m + 1] = n + 1 /\ \A k \in 1..m : g[k] = f[k] /\ f[k] \in 1..n
      BY <3>3, <3>a
    <3>5. g \in [DOMAIN kept[n + 1] -> 1..(n + 1)]
      <4>1. ASSUME NEW k \in 1..(m + 1) PROVE g[k] \in 1..(n + 1)
        <5>1. k = m + 1 \/ k \in 1..m
          BY <3>3
        <5> QED BY <3>4, <5>1
      <4> QED BY <3>3, <4>1
    <3> HIDE DEF g
    <3>6. \A k \in 1..(m + 1) : k = m + 1 \/ k \in 1..m
      BY <3>3
    <3>7. ASSUME NEW k \in 1..(m + 1)
          PROVE  kept[n + 1][k] = seq[g[k]] /\ seq[g[k]] \in S
      BY <2>4, <2>6, <3>3, <3>4, <3>6 DEF Stood
    <3>8. ASSUME NEW k \in 1..(m + 1), NEW l \in 1..(m + 1), k < l PROVE g[k] < g[l]
      <4>1. k \in 1..m
        BY <3>3, <3>8
      <4>2. CASE l = m + 1
        BY <3>4, <4>1, <4>2
      <4>3. CASE l \in 1..m
        BY <2>4, <3>3, <3>4, <3>8, <4>1, <4>3 DEF Stood
      <4> QED BY <3>6, <4>2, <4>3
    <3>9. ASSUME NEW i \in 1..(n + 1), seq[i] \in S PROVE \E k \in 1..(m + 1) : g[k] = i
      <4>1. CASE i = n + 1
        BY <3>3, <3>4, <4>1
      <4>2. CASE i # n + 1
        <5>1. i \in 1..n
          BY <4>2
        <5>2. PICK k \in 1..m : f[k] = i
          BY <2>4, <3>3, <3>9, <5>1 DEF Stood
        <5>3. g[k] = i /\ k \in 1..(m + 1)
          BY <3>3, <3>4, <5>2
        <5> QED BY <5>3
      <4> QED BY <4>1, <4>2
    <3>10. Stood(seq, S, n + 1, kept[n + 1], g)
      BY <3>3, <3>5, <3>7, <3>8, <3>9 DEF Stood
    <3> QED BY <3>3, <3>10
  <2> QED BY <2>5, <2>6
<1>4. Len(seq) \in N
  <2> HIDE DEF N
  <2> QED BY <1>1, <1>2, <1>3, SetInduction
<1> QED BY <1>4 DEF Keep, kept

-------------------------------------------------------------------------------
(* Looking entries up.                                                       *)

\* The first element that passes a test: 0 stands for none.
LEMMA FirstIndex ==
  ASSUME NEW n \in Nat, NEW I, I \subseteq 1..n, I # {}
  PROVE  Min(I) \in I /\ \A j \in I : Min(I) <= j
<1>1. I \subseteq Nat
  OBVIOUS
<1>2. PICK x \in I : \A y \in I : x <= y
  BY <1>1, Least
<1> QED BY <1>2 DEF Min

\* IndexOf finds the first entry for id, if there is one.
LEMMA IndexOfFinds ==
  ASSUME NEW T, NEW l \in Seq(T), NEW id
  PROVE  /\ IndexOf(l, id) \in 0..Len(l)
         /\ IndexOf(l, id) = 0 <=> id \notin Ids(l)
         /\ IndexOf(l, id) # 0 => /\ IndexOf(l, id) \in 1..Len(l)
                                  /\ l[IndexOf(l, id)].client_id = id
                                  /\ \A j \in 1..Len(l) : l[j].client_id = id => IndexOf(l, id) <= j
<1> DEFINE I == {i \in 1..Len(l) : l[i].client_id = id}
<1>1. Len(l) \in Nat /\ DOMAIN l = 1..Len(l)
  BY LenProperties
<1>2. IndexOf(l, id) = IF I # {} THEN Min(I) ELSE 0
  BY DEF IndexOf, SelectInSeq
<1>3. id \in Ids(l) <=> I # {}
  BY <1>1 DEF Ids
<1>4. CASE I = {}
  BY <1>1, <1>2, <1>3, <1>4
<1>5. CASE I # {}
  <2>1. Min(I) \in I /\ \A j \in I : Min(I) <= j
    BY <1>1, <1>5, FirstIndex
  <2> QED BY <1>1, <1>2, <1>3, <1>5, <2>1
<1> QED BY <1>4, <1>5

\* CheckEdge yields the client of the first entry whose edge the cursor is at.
LEMMA CheckEdgeFinds ==
  ASSUME NEW T, NEW l \in Seq(T), NEW screen, NEW x, NEW y
  PROVE  \/ /\ CheckEdge(l, screen, x, y) = NoClient
            /\ \A j \in 1..Len(l) : ~Hits(screen, l[j].adjacent_edge, x, y)
         \/ \E i \in 1..Len(l) :
              /\ CheckEdge(l, screen, x, y) = l[i].client_id
              /\ Hits(screen, l[i].adjacent_edge, x, y)
              /\ \A j \in 1..Len(l) : Hits(screen, l[j].adjacent_edge, x, y) => i <= j
<1> DEFINE I == {i \in 1..Len(l) : Hits(screen, l[i].adjacent_edge, x, y)}
           first == IF I # {} THEN Min(I) ELSE 0
<1>1. Len(l) \in Nat
  BY LenProperties
<1>2. CheckEdge(l, screen, x, y) = IF first = 0 THEN NoClient ELSE l[first].client_id
  BY DEF CheckEdge, SelectInSeq
<1>3. CASE I = {}
  <2>1. \A j \in 1..Len(l) : ~Hits(screen, l[j].adjacent_edge, x, y)
    BY <1>3
  <2> QED BY <1>2, <1>3, <2>1
<1>4. CASE I # {}
  <2>1. Min(I) \in I /\ \A j \in I : Min(I) <= j
    BY <1>1, <1>4, FirstIndex
  <2>2. first = Min(I) /\ first \in 1..Len(l) /\ first # 0
    BY <1>4, <2>1
  <2>3. /\ Hits(screen, l[first].adjacent_edge, x, y)
        /\ \A j \in 1..Len(l) : Hits(screen, l[j].adjacent_edge, x, y) => first <= j
    BY <2>1, <2>2
  <2>4. CheckEdge(l, screen, x, y) = l[first].client_id
    BY <1>2, <2>2
  <2> HIDE DEF first
  <2> QED BY <2>2, <2>3, <2>4
<1> QED BY <1>3, <1>4

-------------------------------------------------------------------------------
(* Changing the vector.                                                      *)

\* The entries of given clients, with given rects and edges.
Entries(C, R, E) == [client_id : C, rect : R, adjacent_edge : E]

\* No client has two entries.
Once(l) == \A i, j \in DOMAIN l : l[i].client_id = l[j].client_id => i = j

\* Then the vector is as long as the clients are many.
LEMMA OnceCounts ==
  ASSUME NEW T, NEW l \in Seq(T), Once(l)
  PROVE  Cardinality(Ids(l)) = Len(l)
<1> DEFINE f == [i \in 1..Len(l) |-> l[i].client_id]
<1>1. Len(l) \in Nat /\ DOMAIN l = 1..Len(l)
  BY LenProperties
<1>2. f \in Bijection(1..Len(l), Ids(l))
  BY <1>1 DEF Once, Ids, Bijection, Injection, Surjection, IsInjective
<1>3. IsFiniteSet(1..Len(l)) /\ Cardinality(1..Len(l)) = Len(l)
  BY <1>1, FS_Interval
<1> QED BY <1>2, <1>3, FS_Bijection DEF ExistsBijection

\* remove_client leaves the entries of the others.
LEMMA RemoveClientRemoves ==
  ASSUME NEW T, NEW l \in Seq(T), NEW id
  PROVE  /\ RemoveClient(l, id) \in Seq(T)
         /\ Ids(RemoveClient(l, id)) = Ids(l) \ {id}
         /\ Once(l) => Once(RemoveClient(l, id))
<1> DEFINE S == {c \in Range(l) : c.client_id # id}
           r == RemoveClient(l, id)
<1>1. r = Keep(l, S)
  BY DEF RemoveClient
<1>2. r \in Seq(T) /\ \E f : Stood(l, S, Len(l), r, f)
  <2> HIDE DEF S
  <2> QED BY <1>1, KeepKeepsOrder
<1>3. PICK f : Stood(l, S, Len(l), r, f)
  BY <1>2
<1>4. Len(l) \in Nat /\ DOMAIN l = 1..Len(l) /\ Len(r) \in Nat /\ DOMAIN r = 1..Len(r)
  BY <1>2, LenProperties
<1> HIDE DEF r
<1>5. \A i \in 1..Len(l) : l[i] \in S <=> l[i].client_id # id
  BY <1>4 DEF Range
<1> HIDE DEF S
<1>6. ASSUME NEW k \in 1..Len(r)
      PROVE  f[k] \in 1..Len(l) /\ r[k] = l[f[k]] /\ r[k].client_id # id
  BY <1>3, <1>4, <1>5 DEF Stood
<1>7. Ids(r) = Ids(l) \ {id}
  <2>1. ASSUME NEW i \in 1..Len(l), l[i].client_id # id PROVE l[i].client_id \in Ids(r)
    <3>1. PICK k \in 1..Len(r) : f[k] = i
      BY <1>3, <1>4, <1>5, <2>1 DEF Stood
    <3> QED BY <1>4, <1>6, <3>1 DEF Ids
  <2> QED BY <1>4, <1>6, <2>1 DEF Ids
<1>8. ASSUME Once(l), NEW i \in 1..Len(r), NEW j \in 1..Len(r), r[i].client_id = r[j].client_id
      PROVE  i = j
  <2>1. f[i] = f[j]
    BY <1>4, <1>6, <1>8 DEF Once
  <2>2. ~(i < j) /\ ~(j < i)
    BY <1>3, <1>4, <1>6, <2>1 DEF Stood
  <2> QED BY <1>4, <2>2
<1> QED BY <1>2, <1>4, <1>7, <1>8 DEF Once, r

\* add_client leaves one entry for its client, the last.
LEMMA AddClientAdds ==
  ASSUME NEW C, NEW R, NEW E, Edge \subseteq E,
         NEW l \in Seq(Entries(C, R, E)),
         NEW info \in Entries(C, R, E)
  PROVE  /\ AddClient(l, info) \in Seq(Entries(C, R, E))
         /\ Ids(AddClient(l, info)) = Ids(l) \cup {info.client_id}
         /\ Once(l) => Once(AddClient(l, info))
<1> DEFINE T == Entries(C, R, E)
           r == RemoveClient(l, info.client_id)
           n == Len(r)
           a == AddClient(l, info)
<1>1. r \in Seq(T) /\ Ids(r) = Ids(l) \ {info.client_id} /\ (Once(l) => Once(r))
  BY RemoveClientRemoves
<1> HIDE DEF r
<1>2. PICK e \in T : a = Append(r, e) /\ e.client_id = info.client_id
  <2> DEFINE unplaced == info.adjacent_edge = "LEFT" /\ info.rect.x = 0 /\ info.rect.y = 0
  <2>1. CASE unplaced
    <3>1. a = Append(r, [info EXCEPT !.adjacent_edge = "RIGHT"])
      BY <2>1 DEF AddClient, r
    <3>2. [info EXCEPT !.adjacent_edge = "RIGHT"] \in T
      BY DEF Edge, Entries
    <3> QED BY <3>1, <3>2 DEF Entries
  <2>2. CASE ~unplaced
    <3>1. a = Append(r, [info EXCEPT !.adjacent_edge = info.adjacent_edge])
      BY <2>2 DEF AddClient, r
    <3>2. [info EXCEPT !.adjacent_edge = info.adjacent_edge] \in T
      BY DEF Entries
    <3> QED BY <3>1, <3>2 DEF Entries
  <2> QED BY <2>1, <2>2
<1> HIDE DEF a, T
<1>3. /\ n \in Nat /\ DOMAIN r = 1..n /\ DOMAIN a = 1..(n + 1) /\ a \in Seq(T)
      /\ a[n + 1] = e /\ \A k \in 1..n : a[k] = r[k]
  BY <1>1, <1>2, AppendProperties, LenProperties
<1> HIDE DEF n
<1>4. \A k \in 1..(n + 1) : k = n + 1 \/ k \in 1..n
  BY <1>3
<1>5. Ids(a) = Ids(r) \cup {info.client_id}
  <2>1. \A k \in 1..(n + 1) : a[k].client_id \in Ids(r) \cup {info.client_id}
    BY <1>2, <1>3, <1>4 DEF Ids
  <2>2. info.client_id \in Ids(a) /\ \A k \in 1..n : r[k].client_id \in Ids(a)
    <3>1. n + 1 \in 1..(n + 1) /\ \A k \in 1..n : k \in 1..(n + 1)
      BY <1>3
    <3> QED BY <1>2, <1>3, <3>1 DEF Ids
  <2> QED BY <1>3, <2>1, <2>2 DEF Ids
<1>6. ASSUME Once(r), NEW i \in 1..(n + 1), NEW j \in 1..(n + 1), a[i].client_id = a[j].client_id
      PROVE  i = j
  <2>1. \A k \in 1..n : r[k].client_id # info.client_id
    BY <1>1, <1>3 DEF Ids
  <2> QED BY <1>2, <1>3, <1>4, <1>6, <2>1 DEF Once
<1>7. Once(l) => Once(a)
  BY <1>1, <1>3, <1>6 DEF Once
<1>8. Ids(a) = Ids(l) \cup {info.client_id}
  BY <1>1, <1>5
<1> QED BY <1>3, <1>7, <1>8 DEF a, T

\* set_client_edge changes edges, and nothing else.
LEMMA SetClientEdgeSets ==
  ASSUME NEW C, NEW R, NEW E, NEW l \in Seq(Entries(C, R, E)),
         NEW id, NEW edge \in E
  PROVE  LET s == SetClientEdge(l, id, edge)
         IN  /\ s \in Seq(Entries(C, R, E))
             /\ Len(s) = Len(l) /\ Ids(s) = Ids(l)
             /\ \A k \in 1..Len(l) : /\ s[k].client_id = l[k].client_id /\ s[k].rect = l[k].rect
                                     /\ k # IndexOf(l, id) => s[k] = l[k]
                                     /\ k = IndexOf(l, id) => s[k].adjacent_edge = edge
             /\ Once(l) => Once(s)
<1> DEFINE T == Entries(C, R, E)
           i == IndexOf(l, id)
           s == SetClientEdge(l, id, edge)
<1>1. i \in 0..Len(l) /\ Len(l) \in Nat /\ DOMAIN l = 1..Len(l)
  BY IndexOfFinds, LenProperties
<1> HIDE DEF i
<1>2. CASE i = 0
  <2>1. s = l
    BY <1>2 DEF SetClientEdge, i
  <2> QED BY <1>1, <1>2, <2>1 DEF i
<1>3. CASE i # 0
  <2> DEFINE e == [l[i] EXCEPT !.adjacent_edge = edge]
  <2>1. i \in 1..Len(l) /\ l[i] \in T
    <3>1. i \in 1..Len(l)
      BY <1>1, <1>3
    <3> QED BY <3>1, ElementOfSeq
  <2>2. e \in T /\ e.client_id = l[i].client_id /\ e.rect = l[i].rect /\ e.adjacent_edge = edge
    BY <2>1 DEF Entries
  <2>3. s = [l EXCEPT ![i] = e]
    BY <1>3 DEF SetClientEdge, i
  <2> HIDE DEF e, s, T
  <2>4. s \in Seq(T) /\ Len(s) = Len(l) /\ \A k \in 1..Len(l) : s[k] = IF k = i THEN e ELSE l[k]
    BY <2>1, <2>2, <2>3, ExceptSeq DEF T
  <2>5. \A k \in 1..Len(l) : /\ s[k].client_id = l[k].client_id /\ s[k].rect = l[k].rect
                             /\ k # i => s[k] = l[k]
                             /\ k = i => s[k].adjacent_edge = edge
    BY <2>2, <2>4
  <2>a. \A k \in 1..Len(l) : s[k].client_id = l[k].client_id
    BY <2>5
  <2>6. DOMAIN s = 1..Len(l)
    BY <2>4, LenProperties
  <2>7. Once(l) => Once(s)
    BY <1>1, <2>a, <2>6 DEF Once
  <2>8. Ids(s) = Ids(l)
    <3>1. Ids(l) = {l[k].client_id : k \in 1..Len(l)} /\ Ids(s) = {s[k].client_id : k \in 1..Len(l)}
      BY <1>1, <2>6 DEF Ids
    <3> QED BY <2>a, <3>1
  <2>9. /\ s \in Seq(T) /\ Len(s) = Len(l) /\ Ids(s) = Ids(l)
        /\ \A k \in 1..Len(l) : /\ s[k].client_id = l[k].client_id /\ s[k].rect = l[k].rect
                                /\ k # i => s[k] = l[k]
                                /\ k = i => s[k].adjacent_edge = edge
        /\ Once(l) => Once(s)
    BY <2>4, <2>5, <2>7, <2>8, Zenon
  <2> QED BY <2>9, Zenon DEF s, T, i
<1> QED BY <1>2, <1>3

-------------------------------------------------------------------------------
(* The edge that the vector has for a client, when every client is in it once. *)

EdgeOf(l, id) == l[IndexOf(l, id)].adjacent_edge

\* The place of a client is where its only entry is.
LEMMA PlaceIs ==
  ASSUME NEW T, NEW l \in Seq(T), Once(l), NEW k \in 1..Len(l)
  PROVE  IndexOf(l, l[k].client_id) = k
<1> DEFINE i == IndexOf(l, l[k].client_id)
<1>1. DOMAIN l = 1..Len(l)
  BY LenProperties
<1>2. l[k].client_id \in Ids(l)
  BY <1>1 DEF Ids
<1>3. i \in 1..Len(l) /\ l[i].client_id = l[k].client_id
  BY <1>2, IndexOfFinds
<1> QED BY <1>1, <1>3 DEF Once

\* add_client does not move the others.
LEMMA AddClientKeeps ==
  ASSUME NEW C, NEW R, NEW E, Edge \subseteq E,
         NEW l \in Seq(Entries(C, R, E)), Once(l),
         NEW info \in Entries(C, R, E),
         NEW c \in Ids(l), c # info.client_id
  PROVE  EdgeOf(AddClient(l, info), c) = EdgeOf(l, c)
<1> DEFINE id == info.client_id
           S == {e \in Range(l) : e.client_id # id}
           r == RemoveClient(l, id)
           a == AddClient(l, info)
           i == IndexOf(l, c)
<1>1. Len(l) \in Nat /\ DOMAIN l = 1..Len(l)
  BY LenProperties
<1>2. i \in 1..Len(l) /\ l[i].client_id = c
  BY IndexOfFinds
<1>3. l[i] \in S
  BY <1>1, <1>2 DEF Range
<1>4. r \in Seq(Entries(C, R, E)) /\ \E f : Stood(l, S, Len(l), r, f)
  <2>1. r = Keep(l, S)
    BY DEF RemoveClient
  <2> HIDE DEF S, r
  <2> QED BY <2>1, KeepKeepsOrder
<1>5. PICK k \in DOMAIN r : r[k] = l[i]
  <2> HIDE DEF S, r, i
  <2>1. PICK f : Stood(l, S, Len(l), r, f)
    BY <1>4
  <2> QED BY <1>2, <1>3, <2>1 DEF Stood
<1>6. a \in Seq(Entries(C, R, E)) /\ Once(a)
  BY AddClientAdds
<1>7. \E e \in Entries(C, R, E) : a = Append(r, e)
  <2> DEFINE unplaced == info.adjacent_edge = "LEFT" /\ info.rect.x = 0 /\ info.rect.y = 0
  <2>1. [info EXCEPT !.adjacent_edge = "RIGHT"] \in Entries(C, R, E)
    BY DEF Edge, Entries
  <2>2. [info EXCEPT !.adjacent_edge = info.adjacent_edge] \in Entries(C, R, E)
    BY DEF Entries
  <2>3. CASE unplaced
    <3>1. a = Append(r, [info EXCEPT !.adjacent_edge = "RIGHT"])
      BY <2>3 DEF AddClient
    <3> QED BY <2>1, <3>1
  <2>4. CASE ~unplaced
    <3>1. a = Append(r, [info EXCEPT !.adjacent_edge = info.adjacent_edge])
      BY <2>4 DEF AddClient
    <3> QED BY <2>2, <3>1
  <2> QED BY <2>3, <2>4
<1> HIDE DEF r, a, i, S
<1>8. k \in 1..Len(a) /\ a[k] = l[i]
  <2>1. PICK e \in Entries(C, R, E) : a = Append(r, e)
    BY <1>7
  <2>2. Len(r) \in Nat /\ DOMAIN r = 1..Len(r)
    BY <1>4, LenProperties
  <2> QED BY <1>4, <1>5, <2>1, <2>2, AppendProperties
<1>9. IndexOf(a, c) = k
  BY <1>2, <1>6, <1>8, PlaceIs
<1> QED BY <1>8, <1>9 DEF EdgeOf, a, i

\* set_client_edge moves its client, and none of the others.
LEMMA SetClientEdgeMoves ==
  ASSUME NEW C, NEW R, NEW E, NEW l \in Seq(Entries(C, R, E)), Once(l),
         NEW id, NEW edge \in E, NEW c \in Ids(l)
  PROVE  /\ c = id => EdgeOf(SetClientEdge(l, id, edge), c) = edge
         /\ c # id => EdgeOf(SetClientEdge(l, id, edge), c) = EdgeOf(l, c)
<1> DEFINE s == SetClientEdge(l, id, edge)
           k == IndexOf(l, c)
<1>1. k \in 1..Len(l) /\ l[k].client_id = c
  BY IndexOfFinds
<1>2. /\ s \in Seq(Entries(C, R, E)) /\ Len(s) = Len(l) /\ Once(s)
      /\ \A j \in 1..Len(l) : /\ s[j].client_id = l[j].client_id
                              /\ j # IndexOf(l, id) => s[j] = l[j]
                              /\ j = IndexOf(l, id) => s[j].adjacent_edge = edge
  BY SetClientEdgeSets
<1> HIDE DEF s, k
<1>3. s[k].client_id = c /\ k \in 1..Len(s)
  BY <1>1, <1>2
<1>4. IndexOf(s, c) = k
  BY <1>2, <1>3, PlaceIs
<1>5. c # id => k # IndexOf(l, id)
  BY <1>1, IndexOfFinds
<1>6. c = id => k = IndexOf(l, id)
  BY DEF k
<1> QED BY <1>1, <1>2, <1>4, <1>5, <1>6 DEF EdgeOf, s, k
===============================================================================
