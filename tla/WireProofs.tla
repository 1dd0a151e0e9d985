------------------------------ MODULE WireProofs ------------------------------
(***************************************************************************)
(* Keystrokes arrive in order and nothing is held back, for any number of  *)
(* threads, any messages that a header can announce, and any short writes; *)
(* and the format gives back what it was given, which is what all of that  *)
(* rests on.                                                               *)
(*                                                                         *)
(* From the bottom: byte sequences and their runs; integers in bytes; the  *)
(* payload of every type, field by field; a message with its header, whole *)
(* or cut short; then the connection.  What the socket has taken is the    *)
(* front of one sequence of bytes, the messages of sent one after the      *)
(* other, and the reader is at the start of a message of it or of its      *)
(* payload (Flow).  Only where that sequence ends and what of it is still  *)
(* with the writer depends on the threads: whoever has the lock writes the *)
(* rest of it, and nobody else writes (Taken).                             *)
(***************************************************************************)
EXTENDS Wire, Lemmas

-------------------------------------------------------------------------------
(* Byte sequences kept by their runs.                                        *)

Ends(c) == {i \in 1 .. Len(c) : i = Len(c) \/ c[i] # c[i + 1]}

LEMMA PackIs ==
  ASSUME NEW c \in Seq(Byte)
  PROVE  /\ DOMAIN Pack(c) = Ends(c) /\ Ends(c) \subseteq 1 .. Len(c)
         /\ \A d \in Ends(c) : Pack(c)[d] = c[d]
         /\ Len(c) # 0 => Len(c) \in Ends(c)
<1>1. Len(c) \in Nat
  OBVIOUS
<1> QED BY <1>1 DEF Pack, Ends

\* The run that goes on at k ends with the same byte.
LEMMA ByteAtPack ==
  ASSUME NEW c \in Seq(Byte), NEW k \in 1 .. Len(c)
  PROVE  ByteAt(Pack(c), k) = c[k]
<1> DEFINE D == {d \in Ends(c) : d >= k}
           m == Min(D)
<1>1. D \subseteq 1 .. Len(c) /\ Len(c) \in D /\ Len(c) \in Nat
  BY PackIs
<1>2. m \in D /\ \A d \in D : m <= d
  BY <1>1, FirstIndex
<1> HIDE DEF m
<1>3. c[m] = c[k]
  <2> SUFFICES ASSUME c[m] # c[k] PROVE FALSE
    OBVIOUS
  <2> DEFINE B == {j \in k .. m - 1 : c[j] # c[m]}
             g == Max(B)
  <2>1. B \subseteq 1 .. Len(c) /\ k \in B
    BY <1>1, <1>2
  <2>2. g \in B /\ \A j \in B : j <= g
    BY <1>1, <2>1, Greatest
  <2> HIDE DEF g
  <2>3. g + 1 \notin B
    BY <2>1, <2>2
  <2>4. c[g + 1] = c[m] /\ g \in k .. m - 1 /\ c[g] # c[g + 1]
    BY <1>1, <1>2, <2>2, <2>3
  <2>5. g \in D
    BY <1>1, <1>2, <2>4 DEF Ends
  <2> QED BY <1>1, <1>2, <2>4, <2>5
<1>4. ByteAt(Pack(c), k) = Pack(c)[m]
  BY PackIs DEF ByteAt, m
<1> QED BY <1>2, <1>3, <1>4, PackIs

LEMMA SizePack ==
  ASSUME NEW c \in Seq(Byte)
  PROVE  Size(Pack(c)) = Len(c)
<1>1. CASE Len(c) = 0
  <2>1. DOMAIN Pack(c) = {}
    <3>1. \A k : k \notin 1 .. Len(c)
      BY <1>1
    <3> QED BY <3>1, PackIs, Zenon
  <2> QED BY <1>1, <2>1, Zenon DEF Size
<1>2. CASE Len(c) # 0
  <2>1. Ends(c) \subseteq Nat /\ Len(c) \in Ends(c) /\ \A d \in Ends(c) : d <= Len(c)
    BY <1>2, PackIs
  <2>2. Max(Ends(c)) = Len(c)
    BY <2>1, MaxIs
  <2> QED BY <2>1, <2>2, PackIs DEF Size
<1> QED BY <1>1, <1>2

LEMMA UnpackPack ==
  ASSUME NEW c \in Seq(Byte)
  PROVE  Unpack(Pack(c)) = c
<1>1. \A k \in 1 .. Len(c) : ByteAt(Pack(c), k) = c[k]
  BY ByteAtPack
<1>2. Unpack(Pack(c)) = [k \in 1 .. Len(c) |-> c[k]]
  BY <1>1, SizePack DEF Unpack
<1> QED BY <1>2

\* Whatever is a byte sequence by its shape is one that was packed.
LEMMA PackUnpack ==
  ASSUME NEW s, IsBytes(s)
  PROVE  Unpack(s) \in Seq(Byte) /\ s = Pack(Unpack(s)) /\ Len(Unpack(s)) = Size(s)
<1> DEFINE n == Size(s)
           D(k) == {d \in DOMAIN s : d >= k}
           c == Unpack(s)
<1>1. n \in Nat /\ DOMAIN s \subseteq 1 .. n /\ \A d \in DOMAIN s : s[d] \in Byte
  BY DEF IsBytes
<1>2. n # 0 => n \in DOMAIN s
  <2>1. n # 0 => DOMAIN s # {}
    BY Zenon DEF Size
  <2>2. n = IF DOMAIN s = {} THEN 0 ELSE Max(DOMAIN s)
    BY Zenon DEF Size
  <2>3. n # 0 => Max(DOMAIN s) \in DOMAIN s
    BY <1>1, <2>1, Greatest
  <2> HIDE DEF n
  <2> QED BY <2>1, <2>2, <2>3, Zenon
<1> HIDE DEF n
<1>3. ASSUME NEW k \in 1 .. n
      PROVE  Min(D(k)) \in D(k) /\ (\A d \in D(k) : Min(D(k)) <= d) /\ ByteAt(s, k) = s[Min(D(k))]
  <2>1. D(k) \subseteq 1 .. n /\ D(k) # {}
    BY <1>1, <1>2
  <2>2. ByteAt(s, k) = s[Min(D(k))]
    BY Zenon DEF ByteAt
  <2> HIDE DEF D
  <2> QED BY <1>1, <2>1, <2>2, FirstIndex
<1>4. ASSUME NEW k \in 1 .. n PROVE ByteAt(s, k) \in Byte
  BY <1>1, <1>3
<1>5. c = [k \in 1 .. n |-> ByteAt(s, k)]
  BY DEF Unpack, n
<1>6. c \in Seq(Byte) /\ Len(c) = n
  BY <1>1, <1>4, <1>5
<1>7. ASSUME NEW d \in DOMAIN s PROVE c[d] = s[d]
  <2>1. d \in 1 .. n
    BY <1>1
  <2>2. Min(D(d)) = d
    BY <1>1, <1>3, <2>1
  <2> QED BY <1>3, <1>5, <2>1, <2>2
<1>8. DOMAIN s = Ends(c)
  <2>1. ASSUME NEW d \in DOMAIN s PROVE d \in Ends(c)
    <3>1. d \in 1 .. n
      BY <1>1
    <3>2. CASE d = n
      BY <1>6, <3>1, <3>2 DEF Ends
    <3>3. CASE d # n
      <4>1. s[d] # ByteAt(s, d + 1) /\ d + 1 \in 1 .. n
        BY <1>1, <3>1, <3>3 DEF IsBytes, n
      <4> QED BY <1>5, <1>6, <1>7, <3>1, <4>1 DEF Ends
    <3> QED BY <3>2, <3>3
  <2>2. ASSUME NEW k \in Ends(c), k \notin DOMAIN s PROVE FALSE
    <3>1. k \in 1 .. n /\ k # n /\ c[k] # c[k + 1] /\ k + 1 \in 1 .. n
      BY <1>1, <1>2, <1>6, <2>2 DEF Ends
    <3>2. D(k) = D(k + 1)
      <4>1. \A d \in DOMAIN s : d >= k <=> d >= k + 1
        BY <1>1, <2>2, <3>1
      <4> QED BY <4>1
    <3>3. ByteAt(s, k) = ByteAt(s, k + 1)
      BY <1>3, <3>1, <3>2
    <3> QED BY <1>5, <3>1, <3>3
  <2> QED BY <2>1, <2>2
<1>9. s = [d \in DOMAIN s |-> s[d]]
  BY DEF IsBytes
<1>10. Pack(c) = [d \in Ends(c) |-> c[d]]
  BY DEF Pack, Ends
<1>11. [d \in Ends(c) |-> c[d]] = [d \in DOMAIN s |-> s[d]]
  <2> HIDE DEF c
  <2> QED BY <1>7, <1>8
<1> QED BY <1>6, <1>9, <1>10, <1>11 DEF n

LEMMA PackIsBytes ==
  ASSUME NEW c \in Seq(Byte)
  PROVE  IsBytes(Pack(c))
<1>1. Pack(c) = [d \in DOMAIN Pack(c) |-> Pack(c)[d]]
  BY DEF Pack
<1>2. ASSUME NEW d \in Ends(c), d # Len(c) PROVE Pack(c)[d] # ByteAt(Pack(c), d + 1)
  <2>1. d \in 1 .. Len(c) /\ d + 1 \in 1 .. Len(c) /\ c[d] # c[d + 1]
    BY <1>2 DEF Ends
  <2> QED BY <2>1, ByteAtPack, PackIs
<1>3. \A d \in Ends(c) : Pack(c)[d] \in Byte
  BY PackIs
<1>4. Len(c) \in Nat
  OBVIOUS
<1> QED BY <1>1, <1>2, <1>3, <1>4, PackIs, SizePack DEF IsBytes

LEMMA SlicePack ==
  ASSUME NEW c \in Seq(Byte), NEW first \in Nat \ {0}, NEW last \in Nat,
         first <= last + 1, last <= Len(c)
  PROVE  /\ SubSeq(c, first, last) \in Seq(Byte) /\ Len(SubSeq(c, first, last)) = last - first + 1
         /\ Slice(Pack(c), first, last) = Pack(SubSeq(c, first, last))
<1> DEFINE r == SubSeq(c, first, last)
           ends == {d \in Ends(c) : first <= d /\ d < last} \cup {d \in {last} : first <= d}
           places == {d - first + 1 : d \in ends}
<1>1. /\ r \in Seq(Byte) /\ Len(r) = last - first + 1
      /\ \A e \in 1 .. last - first + 1 : r[e] = c[first + e - 1]
  <2>1. r \in Seq(Byte) /\ Len(r) = last - first + 1
    BY SubSeqProperties
  <2> QED BY <2>1
<1>2. places = Ends(r)
  <2> HIDE DEF r
  <2>1. ASSUME NEW d \in ends PROVE d - first + 1 \in Ends(r)
    <3>1. d \in Nat /\ first <= d /\ d <= last
      BY PackIs
    <3>2. d = last \/ (d < last /\ c[d] # c[d + 1])
      BY <3>1 DEF Ends
    <3> QED BY <1>1, <3>1, <3>2 DEF Ends
  <2>2. ASSUME NEW e \in Ends(r) PROVE e + first - 1 \in ends /\ e = (e + first - 1) - first + 1
    <3>1. e \in 1 .. last - first + 1
      BY <1>1, <2>2 DEF Ends
    <3>2. e + first - 1 = last \/ (e + first - 1 < last /\ c[e + first - 1] # c[e + first])
      <4>1. r[e] = c[e + first - 1]
        <5>1. first + e - 1 = e + first - 1
          BY <3>1
        <5> QED BY <1>1, <3>1, <5>1
      <4>2. e # last - first + 1 => r[e + 1] = c[e + first]
        <5>1. first + (e + 1) - 1 = e + first
          BY <3>1
        <5>2. e # last - first + 1 => e + 1 \in 1 .. last - first + 1
          BY <3>1
        <5> QED BY <1>1, <5>1, <5>2
      <4>3. e = last - first + 1 \/ r[e] # r[e + 1]
        BY <1>1, <2>2, <3>1 DEF Ends
      <4>4. e = last - first + 1 => e + first - 1 = last
        BY <3>1
      <4>5. e # last - first + 1 => e + first - 1 < last
        BY <3>1
      <4> QED BY <4>1, <4>2, <4>3, <4>4, <4>5
    <3>3. e + first - 1 \in 1 .. Len(c) /\ first <= e + first - 1
      BY <3>1
    <3> QED BY <3>1, <3>2, <3>3 DEF Ends
  <2> HIDE DEF ends
  <2> QED BY <2>1, <2>2
<1>3. Slice(Pack(c), first, last) = [e \in places |-> ByteAt(Pack(c), e + first - 1)]
  BY PackIs, Zenon DEF Slice
<1>4. ASSUME NEW e \in Ends(r) PROVE ByteAt(Pack(c), e + first - 1) = r[e]
  <2>1. e \in 1 .. last - first + 1
    BY <1>1 DEF Ends
  <2>2. e + first - 1 \in 1 .. Len(c) /\ e + first - 1 = first + e - 1
    BY <2>1
  <2> QED BY <1>1, <2>1, <2>2, ByteAtPack
<1>5. Pack(r) = [e \in Ends(r) |-> r[e]]
  BY DEF Pack, Ends
<1> HIDE DEF r, places
<1> QED BY <1>1, <1>2, <1>3, <1>4, <1>5 DEF r

LEMMA JoinPack ==
  ASSUME NEW c \in Seq(Byte), NEW d \in Seq(Byte)
  PROVE  c \o d \in Seq(Byte) /\ Join(Pack(c), Pack(d)) = Pack(c \o d)
<1> DEFINE n == Len(c)
           r == c \o d
           goOn == {k \in {n} \cap Ends(c) : Pack(d) # <<>> /\ Pack(c)[k] = ByteAt(Pack(d), 1)}
           places == (Ends(c) \ goOn) \cup {n + e : e \in Ends(d)}
<1>1. /\ r \in Seq(Byte) /\ Len(r) = n + Len(d) /\ n \in Nat /\ Len(d) \in Nat
      /\ \A k \in 1 .. n : r[k] = c[k]
      /\ \A k \in 1 .. Len(d) : r[n + k] = d[k]
  BY ConcatProperties
<1>2. Pack(d) # <<>> <=> Len(d) # 0
  <2>1. DOMAIN Pack(d) = {} <=> Len(d) = 0
    BY PackIs
  <2>2. DOMAIN Pack(d) = {} => Pack(d) = <<>>
    BY DEF Pack
  <2> QED BY <2>1, <2>2
<1>3. ASSUME NEW k \in 1 .. n PROVE k \in Ends(r) <=> k \in Ends(c) \ goOn
  <2>1. CASE k # n
    BY <1>1, <2>1 DEF Ends
  <2>2. CASE k = n /\ Len(d) = 0
    BY <1>1, <1>2, <2>2 DEF Ends
  <2>3. CASE k = n /\ Len(d) # 0
    <3>1. ByteAt(Pack(d), 1) = d[1] /\ Pack(c)[n] = c[n] /\ n \in Ends(c)
      BY <1>1, <2>3, ByteAtPack, PackIs
    <3>2. r[k + 1] = d[1] /\ r[k] = c[n]
      BY <1>1, <2>3
    <3> HIDE DEF r
    <3> QED BY <1>1, <1>2, <2>3, <3>1, <3>2 DEF Ends
  <2> QED BY <2>1, <2>2, <2>3
<1>4. ASSUME NEW e \in 1 .. Len(d) PROVE n + e \in Ends(r) <=> e \in Ends(d)
  <2>1. e # Len(d) => r[(n + e) + 1] = d[e + 1]
    <3>1. e # Len(d) => e + 1 \in 1 .. Len(d) /\ (n + e) + 1 = n + (e + 1)
      BY <1>1
    <3> QED BY <1>1, <3>1
  <2>2. r[n + e] = d[e] /\ n + e \in 1 .. Len(r) /\ (n + e = Len(r) <=> e = Len(d))
    BY <1>1
  <2> HIDE DEF r
  <2>3. n + e \in Ends(r) <=> (n + e = Len(r) \/ r[n + e] # r[(n + e) + 1])
    BY <2>2, Zenon DEF Ends
  <2>4. e \in Ends(d) <=> (e = Len(d) \/ d[e] # d[e + 1])
    BY DEF Ends
  <2> QED BY <2>1, <2>2, <2>3, <2>4, Zenon
<1>5. places = Ends(r)
  <2>1. Ends(r) \subseteq 1 .. n + Len(d) /\ Ends(c) \subseteq 1 .. n /\ Ends(d) \subseteq 1 .. Len(d)
    BY <1>1, PackIs
  <2> HIDE DEF r, goOn
  <2>2. ASSUME NEW k \in Ends(r) PROVE k \in places
    <3>1. CASE k <= n
      BY <1>1, <1>3, <2>1, <3>1
    <3>2. CASE k > n
      <4>1. k - n \in 1 .. Len(d) /\ k = n + (k - n)
        BY <1>1, <2>1, <3>2
      <4> QED BY <1>4, <4>1
    <3> QED BY <1>1, <2>1, <3>1, <3>2
  <2>3. ASSUME NEW k \in places PROVE k \in Ends(r)
    BY <1>3, <1>4, <2>1, <2>3
  <2> QED BY <2>2, <2>3
<1>6. Join(Pack(c), Pack(d)) = [k \in places |-> IF k <= n THEN Pack(c)[k] ELSE Pack(d)[k - n]]
  <2>1. DOMAIN Pack(c) = Ends(c) /\ DOMAIN Pack(d) = Ends(d) /\ Size(Pack(c)) = n
    BY PackIs, SizePack
  <2>2. Join(Pack(c), Pack(d)) =
          [k \in (DOMAIN Pack(c) \ {k \in {Size(Pack(c))} \cap DOMAIN Pack(c) :
                                     Pack(d) # <<>> /\ Pack(c)[k] = ByteAt(Pack(d), 1)})
                 \cup {Size(Pack(c)) + e : e \in DOMAIN Pack(d)}
             |-> IF k <= Size(Pack(c)) THEN Pack(c)[k] ELSE Pack(d)[k - Size(Pack(c))]]
    BY Zenon DEF Join
  <2> QED BY <2>1, <2>2, Zenon
<1>7. ASSUME NEW k \in Ends(r) PROVE (IF k <= n THEN Pack(c)[k] ELSE Pack(d)[k - n]) = r[k]
  <2>1. k \in 1 .. n + Len(d)
    BY <1>1 DEF Ends
  <2>2. CASE k <= n
    <3>1. k \in 1 .. n /\ k \in Ends(c)
      BY <1>1, <1>3, <2>1, <2>2
    <3> QED BY <1>1, <2>2, <3>1, PackIs
  <2>3. CASE ~(k <= n)
    <3>1. k - n \in 1 .. Len(d) /\ k = n + (k - n)
      BY <1>1, <2>1, <2>3
    <3>2. k - n \in Ends(d) /\ r[k] = d[k - n]
      BY <1>1, <1>4, <3>1
    <3> QED BY <2>3, <3>2, PackIs
  <2> QED BY <2>2, <2>3
<1>8. Pack(r) = [k \in Ends(r) |-> r[k]]
  BY DEF Pack, Ends
<1> HIDE DEF r, places
<1>9. Join(Pack(c), Pack(d)) = Pack(r)
  BY <1>5, <1>6, <1>7, <1>8
<1> QED BY <1>1, <1>9 DEF r

LEMMA NoBytes == <<>> \in Seq(Byte) /\ <<>> = Pack(<<>>) /\ IsBytes(<<>>) /\ Size(<<>>) = 0
<1>1. <<>> \in Seq(Byte) /\ Len(<<>>) = 0
  OBVIOUS
<1>2. DOMAIN Pack(<<>>) = {}
  <2>1. \A k : k \notin 1 .. Len(<<>>)
    BY <1>1
  <2> QED BY <1>1, <2>1, PackIs, Zenon
<1>3. <<>> = Pack(<<>>)
  BY <1>2 DEF Pack
<1> QED BY <1>1, <1>3, PackIsBytes, SizePack

-------------------------------------------------------------------------------
(* Integers in bytes.                                                        *)

LEMMA WeightIs ==
  /\ Weight[1] = 1 /\ Weight[2] = TwoTo8 /\ Weight[3] = TwoTo16 /\ Weight[4] = TwoTo24
  /\ TwoTo8 \in Nat \ {0} /\ TwoTo16 \in Nat \ {0} /\ TwoTo24 \in Nat \ {0}
<1>1. Weight[1] = 1 /\ Weight[2] = TwoTo8 /\ Weight[3] = TwoTo16 /\ Weight[4] = TwoTo24
  BY SMT DEF Weight
<1> QED BY <1>1, SMT DEF TwoTo8, TwoTo16, TwoTo24

LEMMA TwoBytes ==
  ASSUME NEW v \in Int
  PROVE  v % TwoTo16 = (v % TwoTo8) + TwoTo8 * ((v \div TwoTo8) % TwoTo8)
BY SMT DEF TwoTo8, TwoTo16

LEMMA QuotientIs ==
  ASSUME NEW low \in Int, NEW q \in Int, 0 <= low, low < TwoTo8,
         0 <= low + TwoTo8 * q, low + TwoTo8 * q < TwoTo16
  PROVE  0 <= q /\ q < TwoTo8
BY SMT DEF TwoTo8, TwoTo16

LEMMA Split ==
  ASSUME NEW v \in Int
  PROVE  /\ v = (v % TwoTo16) + TwoTo16 * (v \div TwoTo16)
         /\ v \div TwoTo16 = ((v \div TwoTo16) % TwoTo8) + TwoTo8 * (v \div TwoTo24)
         /\ v \div TwoTo16 \in 0 .. TwoTo16 - 1 => (v \div TwoTo24) % TwoTo8 = v \div TwoTo24
         /\ v % TwoTo16 \in Int /\ (v \div TwoTo16) % TwoTo8 \in Int /\ v \div TwoTo24 \in Int
<1>1. v = (v % TwoTo16) + TwoTo16 * (v \div TwoTo16)
  BY SMT DEF TwoTo16
<1>2. v \div TwoTo16 = ((v \div TwoTo16) % TwoTo8) + TwoTo8 * (v \div TwoTo24)
  BY SMT DEF TwoTo8, TwoTo16, TwoTo24
<1>3. v \div TwoTo16 \in 0 .. TwoTo16 - 1 => (v \div TwoTo24) % TwoTo8 = v \div TwoTo24
  <2> DEFINE h == v \div TwoTo16
             q == v \div TwoTo24
             low == h % TwoTo8
  <2>1. h \in Int /\ q \in Int /\ low \in Int /\ 0 <= low
    BY SMT DEF TwoTo8, TwoTo16, TwoTo24
  <2>2. h = low + TwoTo8 * q
    BY <1>2, Zenon
  <2> HIDE DEF h, q, low
  <2>3. ASSUME h \in 0 .. TwoTo16 - 1
        PROVE  q % TwoTo8 = q
    <3>1. low < TwoTo8
      BY <2>1, SMT DEF low, TwoTo8
    <3>2. 0 <= q /\ q < TwoTo8
      <4>1. 0 <= low + TwoTo8 * q /\ low + TwoTo8 * q < TwoTo16
        <5>1. h \in Int /\ 0 <= h /\ h < TwoTo16
          BY <2>1, <2>3, WeightIs
        <5> QED BY <2>2, <5>1, Zenon
      <4> QED BY <2>1, <3>1, <4>1, QuotientIs, Zenon
    <3> QED BY <2>1, <3>2, SMT DEF TwoTo8
  <2> QED BY <2>3, Zenon DEF h, q
<1>4. v % TwoTo16 \in Int /\ (v \div TwoTo16) % TwoTo8 \in Int /\ v \div TwoTo24 \in Int
  BY SMT DEF TwoTo8, TwoTo16, TwoTo24
<1> QED BY <1>1, <1>2, <1>3, <1>4, Zenon

\* The bytes of an integer.
LEMMA ByteOfIs ==
  ASSUME NEW v \in Int
  PROVE  /\ \A k \in 1 .. 4 : ByteOf(v, k) \in Byte
         /\ ByteOf(v, 1) = v % TwoTo8
         /\ ByteOf(v, 1) + TwoTo8 * ByteOf(v, 2) = v % TwoTo16
         /\ v \div TwoTo16 \in 0 .. TwoTo16 - 1 =>
              ByteOf(v, 1) + TwoTo8 * ByteOf(v, 2) + TwoTo16 * ByteOf(v, 3) + TwoTo24 * ByteOf(v, 4) = v
<1>1. /\ ByteOf(v, 1) = v % TwoTo8 /\ ByteOf(v, 2) = (v \div TwoTo8) % TwoTo8
      /\ ByteOf(v, 3) = (v \div TwoTo16) % TwoTo8 /\ ByteOf(v, 4) = (v \div TwoTo24) % TwoTo8
  <2>1. v \div 1 = v
    BY SMT
  <2> QED BY <2>1, WeightIs, Zenon DEF ByteOf
<1>2. \A k \in 1 .. 4 : ByteOf(v, k) \in Byte
  <2>1. /\ v % TwoTo8 \in Byte /\ (v \div TwoTo8) % TwoTo8 \in Byte
        /\ (v \div TwoTo16) % TwoTo8 \in Byte /\ (v \div TwoTo24) % TwoTo8 \in Byte
    BY SMT DEF Byte, TwoTo8, TwoTo16, TwoTo24
  <2>2. \A k \in 1 .. 4 : k = 1 \/ k = 2 \/ k = 3 \/ k = 4
    BY SMT
  <2> QED BY <1>1, <2>1, <2>2, Zenon
<1>3. ByteOf(v, 1) + TwoTo8 * ByteOf(v, 2) = v % TwoTo16
  BY <1>1, TwoBytes, Zenon
<1>4. ASSUME v \div TwoTo16 \in 0 .. TwoTo16 - 1
      PROVE  v = (v % TwoTo16) + TwoTo16 * ByteOf(v, 3) + TwoTo24 * ByteOf(v, 4)
  <2>1. v \div TwoTo16 \in Int
    BY SMT DEF TwoTo16
  <2>2. v \div TwoTo16 = ByteOf(v, 3) + TwoTo8 * (v \div TwoTo24)
    BY <1>1, Split, Zenon
  <2>3. ByteOf(v, 4) = v \div TwoTo24
    BY <1>1, <1>4, Split, Zenon
  <2>4. /\ v = (v % TwoTo16) + TwoTo16 * (v \div TwoTo16)
        /\ v % TwoTo16 \in Int /\ ByteOf(v, 3) \in Int /\ v \div TwoTo24 \in Int
    BY <1>1, Split, Zenon
  <2>5. v = (v % TwoTo16) + TwoTo16 * ByteOf(v, 3) + TwoTo24 * (v \div TwoTo24)
    <3> DEFINE c == v \div TwoTo16
               a == v % TwoTo16
               d == ByteOf(v, 3)
               e == v \div TwoTo24
    <3>1. /\ c \in Int /\ a \in Int /\ d \in Int /\ e \in Int
          /\ v = a + TwoTo16 * c /\ c = d + TwoTo8 * e
      BY <2>1, <2>2, <2>4, Zenon
    <3> HIDE DEF a, c, d, e
    <3>2. v = a + TwoTo16 * d + TwoTo24 * e
      BY <3>1, SMT DEF TwoTo8, TwoTo16, TwoTo24
    <3> QED BY <3>2, Zenon DEF a, d, e
  <2> QED BY <2>3, <2>5, Zenon
<1> QED BY <1>1, <1>2, <1>3, <1>4, Zenon

LEMMA BigEndianBytes ==
  ASSUME NEW v \in Int, NEW n \in 0 .. 4
  PROVE  /\ BigEndian(v, n) \in Seq(Byte) /\ Len(BigEndian(v, n)) = n
         /\ \A k \in 1 .. n : BigEndian(v, n)[n + 1 - k] = ByteOf(v, k)
<1>1. \A i \in 1 .. n : n + 1 - i \in 1 .. 4 /\ n + 1 - i \in 1 .. n /\ n + 1 - (n + 1 - i) = i
  OBVIOUS
<1>2. \A i \in 1 .. n : ByteOf(v, n + 1 - i) \in Byte
  BY <1>1, ByteOfIs
<1> QED BY <1>1, <1>2 DEF BigEndian

LEMMA UnsignedIs ==
  ASSUME NEW s
  PROVE  /\ Len(s) = 0 => Unsigned(s) = 0
         /\ Len(s) = 1 /\ s[1] \in Int => Unsigned(s) = s[1]
         /\ Len(s) = 2 /\ s[1] \in Int /\ s[2] \in Int => Unsigned(s) = s[2] + TwoTo8 * s[1]
         /\ Len(s) = 4 /\ s[1] \in Int /\ s[2] \in Int /\ s[3] \in Int /\ s[4] \in Int
              => Unsigned(s) = s[4] + TwoTo8 * s[3] + TwoTo16 * s[2] + TwoTo24 * s[1]
<1> DEFINE counts(k) == IF k <= Len(s) THEN Weight[k] * s[Len(s) + 1 - k] ELSE 0
<1>1. Unsigned(s) = counts(1) + counts(2) + counts(3) + counts(4)
  BY Zenon DEF Unsigned
<1>2. ASSUME NEW k \in Int, Len(s) \in Int
      PROVE  /\ k > Len(s) => counts(k) = 0
             /\ k <= Len(s) => counts(k) = Weight[k] * s[Len(s) + 1 - k]
  BY <1>2
<1> HIDE DEF counts
<1>3. Len(s) = 0 => counts(1) = 0 /\ counts(2) = 0 /\ counts(3) = 0 /\ counts(4) = 0
  BY <1>2
<1>4. Len(s) = 1 /\ s[1] \in Int =>
        counts(1) = s[1] /\ counts(2) = 0 /\ counts(3) = 0 /\ counts(4) = 0
  BY <1>2, WeightIs
<1>5. Len(s) = 2 /\ s[1] \in Int /\ s[2] \in Int =>
        counts(1) = s[2] /\ counts(2) = TwoTo8 * s[1] /\ counts(3) = 0 /\ counts(4) = 0
  BY <1>2, WeightIs
<1>6. Len(s) = 4 /\ s[4] \in Int =>
        /\ counts(1) = s[4] /\ counts(2) = TwoTo8 * s[3]
        /\ counts(3) = TwoTo16 * s[2] /\ counts(4) = TwoTo24 * s[1]
  BY <1>2, WeightIs
<1>7. ASSUME NEW a \in Int PROVE 0 + 0 = 0 /\ a + 0 = a
  OBVIOUS
<1>8. \A a \in Int : TwoTo8 * a \in Int
  BY WeightIs
<1>9. CASE Len(s) = 0
  <2>1. Unsigned(s) = 0 + 0 + 0 + 0
    BY <1>1, <1>3, <1>9, Zenon
  <2> QED BY <1>9, <2>1
<1>10. CASE Len(s) = 1 /\ s[1] \in Int
  <2>1. Unsigned(s) = s[1] + 0 + 0 + 0 /\ Len(s) # 0 /\ Len(s) # 2 /\ Len(s) # 4
    BY <1>1, <1>4, <1>10
  <2> QED BY <1>7, <1>10, <2>1, Zenon
<1>11. CASE Len(s) = 2 /\ s[1] \in Int /\ s[2] \in Int
  <2>1. Unsigned(s) = s[2] + TwoTo8 * s[1] + 0 + 0 /\ Len(s) # 0 /\ Len(s) # 1 /\ Len(s) # 4
    BY <1>1, <1>5, <1>11
  <2>2. s[2] + TwoTo8 * s[1] \in Int
    BY <1>8, <1>11
  <2> QED BY <1>7, <1>11, <2>1, <2>2, Zenon
<1>12. CASE Len(s) = 4 /\ s[1] \in Int /\ s[2] \in Int /\ s[3] \in Int /\ s[4] \in Int
  <2>1. Len(s) # 0 /\ Len(s) # 1 /\ Len(s) # 2
    BY <1>12
  <2> QED BY <1>1, <1>6, <1>12, <2>1, Zenon
<1> QED BY <1>9, <1>10, <1>11, <1>12, Zenon

\* What write_u8, write_u16 and write_u32 leave of an integer, as it is read.
LEMMA ReadsBack ==
  ASSUME NEW v \in Int
  PROVE  /\ Unsigned(BigEndian(v, 0)) = 0
         /\ Unsigned(BigEndian(v, 1)) = v % TwoTo8
         /\ Unsigned(BigEndian(v, 2)) = v % TwoTo16
         /\ v \div TwoTo16 \in 0 .. TwoTo16 - 1 => Unsigned(BigEndian(v, 4)) = v
<1>1. \A k \in 1 .. 4 : ByteOf(v, k) \in Int
  <2>1. \A k \in 1 .. 4 : ByteOf(v, k) \in Byte
    BY ByteOfIs, Zenon
  <2> QED BY <2>1, SMT DEF Byte
<1>2. /\ Len(BigEndian(v, 0)) = 0
      /\ Len(BigEndian(v, 1)) = 1 /\ BigEndian(v, 1)[1] = ByteOf(v, 1)
      /\ Len(BigEndian(v, 2)) = 2 /\ BigEndian(v, 2)[2] = ByteOf(v, 1) /\ BigEndian(v, 2)[1] = ByteOf(v, 2)
      /\ Len(BigEndian(v, 4)) = 4
      /\ BigEndian(v, 4)[4] = ByteOf(v, 1) /\ BigEndian(v, 4)[3] = ByteOf(v, 2)
      /\ BigEndian(v, 4)[2] = ByteOf(v, 3) /\ BigEndian(v, 4)[1] = ByteOf(v, 4)
  BY BigEndianBytes, SMT
<1>3. ByteOf(v, 1) \in Int /\ ByteOf(v, 2) \in Int /\ ByteOf(v, 3) \in Int /\ ByteOf(v, 4) \in Int
  BY <1>1, SMT
<1>4. Unsigned(BigEndian(v, 0)) = 0
  BY <1>2, UnsignedIs, Zenon
<1>5. Unsigned(BigEndian(v, 1)) = ByteOf(v, 1)
  BY <1>2, <1>3, UnsignedIs, Zenon
<1>6. Unsigned(BigEndian(v, 2)) = ByteOf(v, 1) + TwoTo8 * ByteOf(v, 2)
  BY <1>2, <1>3, UnsignedIs, Zenon
<1>7. Unsigned(BigEndian(v, 4)) =
        ByteOf(v, 1) + TwoTo8 * ByteOf(v, 2) + TwoTo16 * ByteOf(v, 3) + TwoTo24 * ByteOf(v, 4)
  BY <1>2, <1>3, UnsignedIs, Zenon
<1> QED BY <1>4, <1>5, <1>6, <1>7, ByteOfIs, Zenon

LEMMA Residues ==
  /\ \A v \in Byte : v % TwoTo8 = v
  /\ \A v \in 0 .. TwoTo16 - 1 : v % TwoTo16 = v
BY SMT DEF Byte, TwoTo8, TwoTo16

LEMMA SignedValue ==
  /\ \A v \in Int : \A u : -TwoTo15 <= v /\ v < 0 /\ u = v % TwoTo16 => u >= TwoTo15 /\ v = u - TwoTo16
  /\ \A v \in Int : \A u : 0 <= v /\ v < TwoTo15 /\ u = v % TwoTo16 => ~(u >= TwoTo15) /\ v = u
<1>1. ASSUME NEW v \in Int, NEW u, -TwoTo15 <= v, v < 0, u = v % TwoTo16
      PROVE  u >= TwoTo15 /\ v = u - TwoTo16
  BY <1>1, SMT DEF TwoTo15, TwoTo16
<1>2. ASSUME NEW v \in Int, NEW u, 0 <= v, v < TwoTo15, u = v % TwoTo16
      PROVE  ~(u >= TwoTo15) /\ v = u
  BY <1>2, SMT DEF TwoTo15, TwoTo16
<1> QED BY <1>1, <1>2, Zenon

LEMMA TwosComplement ==
  ASSUME NEW v, v \in -TwoTo15 .. TwoTo15 - 1, NEW u, u = v % TwoTo16
  PROVE  v = IF u >= TwoTo15 THEN u - TwoTo16 ELSE u
<1>1. TwoTo15 \in Int
  BY SMT DEF TwoTo15
<1>2. v \in Int /\ -TwoTo15 <= v /\ v < TwoTo15 /\ (v < 0 \/ 0 <= v)
  <2>1. -TwoTo15 \in Int /\ TwoTo15 - 1 \in Int
    BY <1>1
  <2>2. v \in Int /\ -TwoTo15 <= v /\ v <= TwoTo15 - 1
    BY <2>1
  <2> QED BY <1>1, <2>2
<1> QED BY <1>2, SignedValue, Zenon

\* A field reads back as it was.
LEMMA FieldReadsBack ==
  ASSUME NEW t, NEW v \in Int, NEW n \in {1, 2, 4}, t \in Signed => n = 2, InRange(v, t, n)
  PROVE  AsField(t, Unsigned(BigEndian(v, n))) = v
<1>1. CASE t \in Signed
  <2>1. v \in -TwoTo15 .. TwoTo15 - 1 /\ n = 2
    BY <1>1, Zenon DEF InRange
  <2>2. Unsigned(BigEndian(v, n)) = v % TwoTo16
    BY <2>1, ReadsBack, Zenon
  <2>3. v = IF v % TwoTo16 >= TwoTo15 THEN (v % TwoTo16) - TwoTo16 ELSE v % TwoTo16
    BY <2>1, TwosComplement, Zenon
  <2> QED BY <1>1, <2>2, <2>3, Zenon DEF AsField
<1>2. CASE t \notin Signed
  <2>1. \/ n = 4 /\ v \div TwoTo16 \in 0 .. TwoTo16 - 1
        \/ n = 2 /\ v \in 0 .. TwoTo16 - 1
        \/ n = 1 /\ v \in Byte
    BY <1>2, Zenon DEF InRange
  <2>2. Unsigned(BigEndian(v, n)) = v
    BY <2>1, ReadsBack, Residues, Zenon
  <2> QED BY <1>2, <2>2, Zenon DEF AsField
<1> QED BY <1>1, <1>2, Zenon

-------------------------------------------------------------------------------
(* Pieces of byte sequences: the bytes of c after the first a, up to b.      *)

Piece(c, a, b) == SubSeq(c, a + 1, b)

LEMMA PieceIs ==
  ASSUME NEW c \in Seq(Byte), NEW a \in Nat, NEW b \in Nat, a <= b, b <= Len(c)
  PROVE  /\ Piece(c, a, b) \in Seq(Byte) /\ Len(Piece(c, a, b)) = b - a
         /\ \A k \in 1 .. b - a : Piece(c, a, b)[k] = c[a + k]
<1>1. \A i \in a + 1 .. b : c[i] \in Byte
  OBVIOUS
<1>2. /\ SubSeq(c, a + 1, b) \in Seq(Byte)
      /\ Len(SubSeq(c, a + 1, b)) = IF a + 1 <= b THEN b - (a + 1) + 1 ELSE 0
      /\ \A k \in 1 .. b - (a + 1) + 1 : SubSeq(c, a + 1, b)[k] = c[(a + 1) + k - 1]
  BY <1>1, SubSeqProperties
<1>3. /\ (IF a + 1 <= b THEN b - (a + 1) + 1 ELSE 0) = b - a /\ b - (a + 1) + 1 = b - a
      /\ \A k \in 1 .. b - a : (a + 1) + k - 1 = a + k
  OBVIOUS
<1> QED BY <1>2, <1>3, Zenon DEF Piece

LEMMA PieceOfPiece ==
  ASSUME NEW c \in Seq(Byte), NEW a \in Nat, NEW b \in Nat, a <= b, b <= Len(c),
         NEW i \in Nat, NEW j \in Nat, i <= j, j <= b - a
  PROVE  Piece(Piece(c, a, b), i, j) = Piece(c, a + i, a + j)
<1> DEFINE p == Piece(c, a, b)
           l == Piece(p, i, j)
           r == Piece(c, a + i, a + j)
<1>1. p \in Seq(Byte) /\ Len(p) = b - a /\ \A k \in 1 .. b - a : p[k] = c[a + k]
  BY PieceIs
<1> HIDE DEF p
<1>2. l \in Seq(Byte) /\ Len(l) = j - i /\ \A k \in 1 .. j - i : l[k] = p[i + k]
  BY <1>1, PieceIs
<1>3. r \in Seq(Byte) /\ Len(r) = j - i /\ \A k \in 1 .. j - i : r[k] = c[a + i + k]
  <2> DEFINE u == a + i
             w == a + j
  <2>1. u \in Nat /\ w \in Nat /\ u <= w /\ w <= Len(c) /\ w - u = j - i
    OBVIOUS
  <2> HIDE DEF u, w, r
  <2>2. /\ Piece(c, u, w) \in Seq(Byte) /\ Len(Piece(c, u, w)) = w - u
        /\ \A k \in 1 .. w - u : Piece(c, u, w)[k] = c[u + k]
    BY <2>1, PieceIs
  <2>3. r = Piece(c, u, w)
    BY DEF r, u, w
  <2>4. /\ r \in Seq(Byte) /\ Len(r) = j - i /\ \A k \in 1 .. j - i : r[k] = c[u + k]
    BY <2>1, <2>2, <2>3
  <2> QED BY <2>4 DEF u
<1> HIDE DEF l, r
<1>4. ASSUME NEW k \in 1 .. j - i PROVE l[k] = r[k]
  <2>1. i + k \in 1 .. b - a /\ a + (i + k) = a + i + k
    OBVIOUS
  <2> QED BY <1>1, <1>2, <1>3, <2>1, Zenon
<1>5. l = r
  BY <1>2, <1>3, <1>4, SeqEqual, Zenon
<1> QED BY <1>5 DEF l, r, p

LEMMA PieceOfFront ==
  ASSUME NEW c \in Seq(Byte), NEW b \in Nat, b <= Len(c),
         NEW i \in Nat, NEW j \in Nat, i <= j, j <= b
  PROVE  Piece(Piece(c, 0, b), i, j) = Piece(c, i, j)
<1> DEFINE a == 0
<1>1. a \in Nat /\ a <= b /\ j <= b - a /\ a + i = i /\ a + j = j
  OBVIOUS
<1> HIDE DEF a
<1>2. Piece(Piece(c, a, b), i, j) = Piece(c, a + i, a + j)
  BY <1>1, PieceOfPiece
<1> QED BY <1>1, <1>2 DEF a

LEMMA PiecesJoin ==
  ASSUME NEW c \in Seq(Byte), NEW a \in Nat, NEW b \in Nat, NEW d \in Nat,
         a <= b, b <= d, d <= Len(c)
  PROVE  Piece(c, a, b) \o Piece(c, b, d) = Piece(c, a, d)
<1>1. a + 1 \in 1 .. Len(c) + 1 /\ b \in (a + 1) - 1 .. Len(c) /\ d \in b .. Len(c)
  OBVIOUS
<1> QED BY <1>1, ConcatAdjacentSubSeq DEF Piece

LEMMA PieceOfConcat ==
  ASSUME NEW c \in Seq(Byte), NEW d \in Seq(Byte)
  PROVE  /\ \A a, b \in Nat : a <= b /\ b <= Len(c) => Piece(c \o d, a, b) = Piece(c, a, b)
         /\ \A a, b \in Nat : a <= b /\ b <= Len(d) =>
              Piece(c \o d, Len(c) + a, Len(c) + b) = Piece(d, a, b)
<1> DEFINE s == c \o d
<1>1. /\ s \in Seq(Byte) /\ Len(s) = Len(c) + Len(d) /\ Len(c) \in Nat /\ Len(d) \in Nat
      /\ \A k \in 1 .. Len(c) : s[k] = c[k]
      /\ \A k \in 1 .. Len(d) : s[Len(c) + k] = d[k]
  BY ConcatProperties
<1> HIDE DEF s
<1>2. ASSUME NEW a \in Nat, NEW b \in Nat, a <= b, b <= Len(c)
      PROVE  Piece(s, a, b) = Piece(c, a, b)
  <2>1. b <= Len(s)
    BY <1>1, <1>2
  <2>2. /\ Piece(s, a, b) \in Seq(Byte) /\ Len(Piece(s, a, b)) = b - a
        /\ \A k \in 1 .. b - a : Piece(s, a, b)[k] = s[a + k]
        /\ Piece(c, a, b) \in Seq(Byte) /\ Len(Piece(c, a, b)) = b - a
        /\ \A k \in 1 .. b - a : Piece(c, a, b)[k] = c[a + k]
    BY <1>1, <1>2, <2>1, PieceIs
  <2>3. \A k \in 1 .. b - a : s[a + k] = c[a + k]
    <3>1. \A k \in 1 .. b - a : a + k \in 1 .. Len(c)
      BY <1>1, <1>2
    <3> QED BY <1>1, <3>1
  <2> QED BY <2>2, <2>3, SeqEqual, Zenon
<1>3. ASSUME NEW a \in Nat, NEW b \in Nat, a <= b, b <= Len(d)
      PROVE  Piece(s, Len(c) + a, Len(c) + b) = Piece(d, a, b)
  <2> DEFINE i == Len(c) + a
             j == Len(c) + b
  <2>1. i \in Nat /\ j \in Nat /\ i <= j /\ j <= Len(s) /\ j - i = b - a
    BY <1>1, <1>3
  <2>2. \A k \in 1 .. b - a : a + k \in 1 .. Len(d) /\ i + k = Len(c) + (a + k)
    BY <1>1, <1>3
  <2> HIDE DEF i, j
  <2>3. /\ Piece(s, i, j) \in Seq(Byte) /\ Len(Piece(s, i, j)) = b - a
        /\ \A k \in 1 .. b - a : Piece(s, i, j)[k] = s[i + k]
    <3>1. /\ Piece(s, i, j) \in Seq(Byte) /\ Len(Piece(s, i, j)) = j - i
          /\ \A k \in 1 .. j - i : Piece(s, i, j)[k] = s[i + k]
      BY <1>1, <2>1, PieceIs
    <3> QED BY <2>1, <3>1
  <2>4. /\ Piece(d, a, b) \in Seq(Byte) /\ Len(Piece(d, a, b)) = b - a
        /\ \A k \in 1 .. b - a : Piece(d, a, b)[k] = d[a + k]
    BY <1>3, PieceIs, Zenon
  <2>5. \A k \in 1 .. b - a : s[i + k] = d[a + k]
    BY <1>1, <2>2, Zenon
  <2>6. Piece(s, i, j) = Piece(d, a, b)
    BY <2>3, <2>4, <2>5, SeqEqual, Zenon
  <2> QED BY <2>6 DEF i, j
<1> QED BY <1>2, <1>3 DEF s

\* What a part of a packed sequence is.
LEMMA UnpackedPiece ==
  ASSUME NEW c \in Seq(Byte), NEW a \in Nat, NEW b \in Nat, a <= b, b <= Len(c)
  PROVE  Unpack(Slice(Pack(c), a + 1, b)) = Piece(c, a, b)
<1>1. a + 1 \in Nat \ {0} /\ a + 1 <= b + 1
  OBVIOUS
<1>2. Slice(Pack(c), a + 1, b) = Pack(Piece(c, a, b))
  BY <1>1, SlicePack DEF Piece
<1> QED BY <1>2, PieceIs, UnpackPack, Zenon

LEMMA PackedPiece ==
  ASSUME NEW c \in Seq(Byte), NEW a \in Nat, NEW b \in Nat, a <= b, b <= Len(c)
  PROVE  /\ Slice(Pack(c), a + 1, b) = Pack(Piece(c, a, b))
         /\ Read(Pack(c), a + 1, b) = Unsigned(Piece(c, a, b))
<1>1. a + 1 \in Nat \ {0} /\ a + 1 <= b + 1
  OBVIOUS
<1>2. Slice(Pack(c), a + 1, b) = Pack(Piece(c, a, b))
  BY <1>1, SlicePack DEF Piece
<1>3. Unpack(Slice(Pack(c), a + 1, b)) = Piece(c, a, b)
  BY UnpackedPiece, Zenon
<1> QED BY <1>2, <1>3, Zenon DEF Read

LEMMA TakeDrop ==
  ASSUME NEW c \in Seq(Byte), NEW n \in Nat, n <= Len(c)
  PROVE  /\ Take(Pack(c), n) = Pack(Piece(c, 0, n)) /\ Drop(Pack(c), n) = Pack(Piece(c, n, Len(c)))
         /\ Piece(c, 0, Len(c)) = c /\ Piece(c, n, n) = <<>>
<1>1. Len(c) \in Nat /\ 0 \in Nat /\ 0 <= n /\ 0 + 1 = 1 /\ Len(c) <= Len(c) /\ n < n + 1
  OBVIOUS
<1>2. Take(Pack(c), n) = Pack(Piece(c, 0, n)) /\ Drop(Pack(c), n) = Pack(Piece(c, n, Len(c)))
  <2>1. Slice(Pack(c), 0 + 1, n) = Pack(Piece(c, 0, n))
    BY <1>1, PackedPiece, Zenon
  <2>2. Slice(Pack(c), n + 1, Len(c)) = Pack(Piece(c, n, Len(c)))
    BY <1>1, PackedPiece, Zenon
  <2> QED BY <1>1, <2>1, <2>2, SizePack, Zenon DEF Take, Drop
<1>3. Piece(c, 0, Len(c)) = c
  BY <1>1, SubSeqFull, Zenon DEF Piece
<1>4. Piece(c, n, n) = <<>>
  BY <1>1, SubSeqEmpty DEF Piece
<1> QED BY <1>2, <1>3, <1>4, Zenon

-------------------------------------------------------------------------------
(* The tables of the format.                                                 *)

\* o is where the fields of a payload are: side by side, from its first byte on.
SideBySide(o) ==
  /\ o \in Seq(Nat) /\ Len(o) \in 1 .. 5 /\ o[1] = 0
  /\ \A i \in 1 .. Len(o) - 1 : o[i] < o[i + 1] /\ o[i + 1] - o[i] \in {1, 2, 4}
  /\ \A i, j \in 1 .. Len(o) : i <= j => o[i] <= o[j]
  /\ \A k \in 1 .. o[Len(o)] : \E i \in 1 .. Len(o) - 1 : o[i] < k /\ k <= o[i + 1]
  /\ o[Len(o)] \in 0 .. 8

Shapes == {<<0>>, <<0, 1>>, <<0, 1, 2>>, <<0, 2, 3>>, <<0, 2, 4>>, <<0, 2, 6>>, <<0, 2, 4, 6>>,
           <<0, 2, 4, 6, 8>>}

LEMMA ShapesAre == \A o \in Shapes : SideBySide(o)
<1>1. SideBySide(<<0>>)
  BY DEF SideBySide
<1>2. SideBySide(<<0, 1>>)
  BY DEF SideBySide
<1>3. SideBySide(<<0, 1, 2>>)
  BY DEF SideBySide
<1>4. SideBySide(<<0, 2, 3>>)
  BY DEF SideBySide
<1>5. SideBySide(<<0, 2, 4>>)
  BY DEF SideBySide
<1>6. SideBySide(<<0, 2, 6>>)
  BY DEF SideBySide
<1>7. SideBySide(<<0, 2, 4, 6>>)
  BY DEF SideBySide
<1>8. SideBySide(<<0, 2, 4, 6, 8>>)
  BY DEF SideBySide
<1> QED BY <1>1, <1>2, <1>3, <1>4, <1>5, <1>6, <1>7, <1>8, Zenon DEF Shapes

LEMMA TypesAre ==
  ASSUME NEW t \in MessageType
  PROVE  /\ Offset[t] \in Shapes /\ (t \in Signed => Offset[t] = <<0, 2, 4>>)
         /\ (t = "CLIPBOARD_UPDATE" => Offset[t] = <<0, 1>>)
         /\ (t = "HELLO" => Offset[t] = <<0, 2, 4, 6>>)
BY DEF MessageType, Code, Offset, Shapes, Signed

LEMMA CodesAre ==
  /\ \A t \in MessageType : Code[t] \in 0 .. 255
  /\ \A t, u \in MessageType : Code[t] = Code[u] => t = u
<1>1. ASSUME NEW t \in MessageType PROVE Code[t] \in 0 .. 255
  BY DEF MessageType, Code
<1>2. ASSUME NEW t \in MessageType, NEW u \in MessageType, Code[t] = Code[u] PROVE t = u
  BY <1>2 DEF MessageType, Code
<1> QED BY <1>1, <1>2

\* What the proofs need of the tables.
LEMMA TableIs ==
  ASSUME NEW t \in MessageType
  PROVE  /\ SideBySide(Offset[t]) /\ FixedSize(t) \in 0 .. 8
         /\ Fields(t) = 1 .. Len(Offset[t]) - 1 /\ FixedSize(t) = Offset[t][Len(Offset[t])]
         /\ \A i \in Fields(t) : Width(t, i) \in {1, 2, 4} /\ (t \in Signed => Width(t, i) = 2)
         /\ TailWidth(t) \in {0, 1, 4}
         /\ t = "CLIPBOARD_UPDATE" => FixedSize(t) = 1 /\ TailWidth(t) = 4
         /\ t = "HELLO" => FixedSize(t) = 6 /\ TailWidth(t) = 1
         /\ t # "CLIPBOARD_UPDATE" /\ t # "HELLO" => TailWidth(t) = 0
<1>1. SideBySide(Offset[t]) /\ (t \in Signed => Offset[t] = <<0, 2, 4>>)
      /\ (t = "CLIPBOARD_UPDATE" => Offset[t] = <<0, 1>>) /\ (t = "HELLO" => Offset[t] = <<0, 2, 4, 6>>)
  BY TypesAre, ShapesAre, Zenon
<1>2. Fields(t) = 1 .. Len(Offset[t]) - 1 /\ FixedSize(t) = Offset[t][Len(Offset[t])]
  BY DEF Fields, FixedSize
<1>3. FixedSize(t) \in 0 .. 8
  BY <1>1, <1>2, Zenon DEF SideBySide
<1>4. \A i \in Fields(t) : Width(t, i) \in {1, 2, 4}
  BY <1>1, <1>2 DEF SideBySide, Width
<1>5. ASSUME t \in Signed, NEW i \in Fields(t) PROVE Width(t, i) = 2
  <2>1. Offset[t] = <<0, 2, 4>>
    BY <1>1, <1>5
  <2>2. i = 1 \/ i = 2
    BY <1>2, <2>1
  <2> QED BY <2>1, <2>2 DEF Width
<1>6. t = "CLIPBOARD_UPDATE" => FixedSize(t) = 1 /\ TailWidth(t) = 4
  <2>1. Len(<<0, 1>>) = 2 /\ <<0, 1>>[2] = 1
    OBVIOUS
  <2> QED BY <1>1, <1>2, <2>1, Zenon DEF TailWidth
<1>7. t = "HELLO" => FixedSize(t) = 6 /\ TailWidth(t) = 1
  <2>1. Len(<<0, 2, 4, 6>>) = 4 /\ <<0, 2, 4, 6>>[4] = 6 /\ "HELLO" # "CLIPBOARD_UPDATE"
    OBVIOUS
  <2> QED BY <1>1, <1>2, <2>1, Zenon DEF TailWidth
<1>8. TailWidth(t) \in {0, 1, 4} /\ (t # "CLIPBOARD_UPDATE" /\ t # "HELLO" => TailWidth(t) = 0)
  BY DEF TailWidth
<1> QED BY <1>1, <1>2, <1>3, <1>4, <1>5, <1>6, <1>7, <1>8, Zenon

-------------------------------------------------------------------------------
(* A payload reads back as it was.                                           *)

\* Every field is at its place, in its bytes.
LEMMA FixedPartIs ==
  ASSUME NEW m, Fits(m)
  PROVE  /\ FixedPart(m) \in Seq(Byte) /\ Len(FixedPart(m)) = FixedSize(m.type)
         /\ \A i \in Fields(m.type) :
              Piece(FixedPart(m), Offset[m.type][i], Offset[m.type][i + 1])
                = BigEndian(m.fields[i], Width(m.type, i))
<1> DEFINE t == m.type
           o == Offset[t]
           F == Fields(t)
           be(i) == BigEndian(m.fields[i], Width(t, i))
           at(k) == CHOOSE j \in F : o[j] < k /\ k <= o[j + 1]
           fp == FixedPart(m)
           n == FixedSize(t)
<1>1. /\ SideBySide(o) /\ n \in 0 .. 8 /\ F = 1 .. Len(o) - 1 /\ n = o[Len(o)]
      /\ \A i \in F : Width(t, i) \in {1, 2, 4} /\ Width(t, i) = o[i + 1] - o[i]
      /\ \A i \in F : m.fields[i] \in Int
  <2>1. t \in MessageType /\ \A i \in F : m.fields[i] \in Int
    BY Zenon DEF Fits
  <2>2. \A i \in F : Width(t, i) = o[i + 1] - o[i]
    BY Zenon DEF Width
  <2> QED BY <2>1, <2>2, TableIs, Zenon
<1>2. fp = [k \in 1 .. n |-> be(at(k))[k - o[at(k)]]]
  BY Zenon DEF FixedPart
<1>3. \A i \in F : be(i) \in Seq(Byte) /\ Len(be(i)) = Width(t, i)
  <2>1. \A w \in {1, 2, 4} : w \in 0 .. 4
    OBVIOUS
  <2> QED BY <1>1, <2>1, BigEndianBytes, Zenon
<1>4. /\ o \in Seq(Nat) /\ Len(o) \in 1 .. 5 /\ o[1] = 0
      /\ \A i, j \in 1 .. Len(o) : i <= j => o[i] <= o[j]
      /\ \A k \in 1 .. n : \E i \in F : o[i] < k /\ k <= o[i + 1]
      /\ \A i \in F : o[i] < o[i + 1]
  BY <1>1, Zenon DEF SideBySide
<1> HIDE DEF o, F, n, be, fp
<1>5. \A i \in F : i \in 1 .. Len(o) /\ i + 1 \in 1 .. Len(o) /\ i \in Int
  BY <1>1, <1>4
<1>6. \A i \in 1 .. Len(o) : o[i] \in Nat
  BY <1>4
<1>7. ASSUME NEW k \in 1 .. n
      PROVE  at(k) \in F /\ o[at(k)] < k /\ k <= o[at(k) + 1]
  BY <1>4, Zenon
<1> HIDE DEF at
<1>8. ASSUME NEW k \in 1 .. n, NEW i \in F, o[i] < k, k <= o[i + 1]
      PROVE  at(k) = i
  <2> DEFINE j == at(k)
  <2>1. j \in F /\ o[j] < k /\ k <= o[j + 1]
    BY <1>7
  <2> HIDE DEF j
  <2>2. /\ i \in Int /\ j \in Int /\ i + 1 \in 1 .. Len(o) /\ j + 1 \in 1 .. Len(o)
        /\ i \in 1 .. Len(o) /\ j \in 1 .. Len(o)
        /\ o[i] \in Nat /\ o[j] \in Nat /\ o[i + 1] \in Nat /\ o[j + 1] \in Nat
    BY <1>5, <1>6, <2>1, Zenon
  <2>3. i + 1 <= j => o[i + 1] <= o[j]
    BY <1>4, <2>2, Zenon
  <2>4. j + 1 <= i => o[j + 1] <= o[i]
    BY <1>4, <2>2, Zenon
  <2>5. ~(i + 1 <= j)
    BY <1>8, <2>1, <2>2, <2>3
  <2>6. ~(j + 1 <= i)
    BY <1>8, <2>1, <2>2, <2>4
  <2>7. j = i
    BY <2>2, <2>5, <2>6
  <2> QED BY <2>7 DEF j
<1>9. ASSUME NEW k \in 1 .. n
      PROVE  fp[k] = be(at(k))[k - o[at(k)]] /\ fp[k] \in Byte
  <2>1. fp[k] = be(at(k))[k - o[at(k)]]
    BY <1>2
  <2> DEFINE j == at(k)
  <2>2. j \in F /\ o[j] < k /\ k <= o[j + 1]
    BY <1>7
  <2> HIDE DEF j
  <2>3. o[j] \in Nat /\ o[j + 1] \in Nat /\ Width(t, j) = o[j + 1] - o[j]
    BY <1>1, <1>5, <1>6, <2>2, Zenon
  <2>4. k - o[j] \in 1 .. Width(t, j)
    BY <2>2, <2>3
  <2>5. be(j)[k - o[j]] \in Byte
    BY <1>3, <2>2, <2>4, ElementOfSeq, Zenon
  <2> QED BY <2>1, <2>5, Zenon DEF j
<1>10. fp \in Seq(Byte) /\ Len(fp) = n
  <2>1. fp \in [1 .. n -> Byte]
    BY <1>2, <1>9
  <2>2. n \in Nat
    BY <1>1
  <2> QED BY <2>1, <2>2
<1>11. ASSUME NEW i \in F
       PROVE  Piece(fp, o[i], o[i + 1]) = be(i)
  <2> DEFINE a == o[i]
             b == o[i + 1]
  <2>1. a \in Nat /\ b \in Nat /\ a < b /\ b <= n /\ Width(t, i) = b - a
    <3>1. o[i] \in Nat /\ o[i + 1] \in Nat /\ o[i] < o[i + 1] /\ Width(t, i) = o[i + 1] - o[i]
      BY <1>1, <1>4, <1>5, <1>6, Zenon
    <3>2. i + 1 \in 1 .. Len(o) /\ Len(o) \in 1 .. Len(o) /\ i + 1 <= Len(o)
      BY <1>4, <1>5
    <3> QED BY <1>1, <1>4, <3>1, <3>2, Zenon
  <2>2. ASSUME NEW k \in 1 .. b - a
        PROVE  fp[a + k] = be(i)[k]
    <3>1. a + k \in 1 .. n /\ a < a + k /\ a + k <= b /\ (a + k) - a = k
      <4> HIDE DEF a, b
      <4>1. n \in Nat
        <5>1. \A l \in 0 .. 8 : l \in Nat
          OBVIOUS
        <5> QED BY <1>1, <5>1, Zenon
      <4> QED BY <2>1, <4>1
    <3>2. ASSUME NEW l \in 1 .. n, a < l, l <= b
          PROVE  fp[l] = be(i)[l - a]
      <4>1. at(l) = i
        BY <1>8, <3>2
      <4>2. fp[l] = be(at(l))[l - o[at(l)]]
        BY <1>9
      <4> QED BY <4>1, <4>2
    <3>3. fp[a + k] = be(i)[(a + k) - a]
      <4> DEFINE l == a + k
      <4>1. l \in 1 .. n /\ a < l /\ l <= b
        BY <3>1
      <4> HIDE DEF a, b, l
      <4>2. fp[l] = be(i)[l - a]
        BY <3>2, <4>1, Zenon
      <4> QED BY <4>2 DEF l
    <3> QED BY <3>1, <3>3
  <2> HIDE DEF a, b
  <2>3. /\ Piece(fp, a, b) \in Seq(Byte) /\ Len(Piece(fp, a, b)) = b - a
        /\ \A k \in 1 .. b - a : Piece(fp, a, b)[k] = fp[a + k]
    <3>1. a <= b /\ b <= Len(fp)
      BY <1>10, <2>1
    <3> QED BY <1>10, <2>1, <3>1, PieceIs, Zenon
  <2>4. Piece(fp, a, b) = be(i)
    BY <1>3, <2>1, <2>2, <2>3, SeqEqual, Zenon
  <2> QED BY <2>4 DEF a, b
<1> QED BY <1>10, <1>11, Zenon DEF t, o, F, n, be, fp

LEMMA TailIs ==
  ASSUME NEW m, FitsHeader(m)
  PROVE  /\ IsBytes(Tail255(m)) /\ Size(Tail255(m)) \in Nat
         /\ TailWidth(m.type) = 0 => Tail255(m) = <<>>
         /\ TailWidth(m.type) = 1 => Size(Tail255(m)) <= LongestName
         /\ TailWidth(m.type) = 4 => Size(Tail255(m)) <= LargestClipboard
<1>1. m.type \in MessageType /\ IsBytes(m.tail) /\ (TailWidth(m.type) = 0 => m.tail = <<>>)
  BY Zenon DEF FitsHeader, Fits
<1>2. Size(m.tail) \in Nat
  BY <1>1, Zenon DEF IsBytes
<1>3. LongestName \in Nat
  BY DEF LongestName
<1>4. TailWidth("HELLO") = 1 /\ \A t : TailWidth(t) = 1 => t = "HELLO"
  BY DEF TailWidth
<1>5. \A t : TailWidth(t) = 4 => t = "CLIPBOARD_UPDATE"
  BY DEF TailWidth
<1>6. CASE m.type = "HELLO" /\ Size(m.tail) > LongestName
  <2> DEFINE c == Unpack(m.tail)
  <2>1. c \in Seq(Byte) /\ m.tail = Pack(c) /\ Len(c) = Size(m.tail)
    BY <1>1, PackUnpack
  <2>2. Tail255(m) = Take(m.tail, LongestName)
    BY <1>6, Zenon DEF Tail255
  <2> HIDE DEF c
  <2>3. LongestName <= Len(c)
    BY <1>2, <1>3, <1>6, <2>1
  <2>4. Tail255(m) = Pack(Piece(c, 0, LongestName))
    BY <1>3, <2>1, <2>2, <2>3, TakeDrop, Zenon
  <2>5. Piece(c, 0, LongestName) \in Seq(Byte) /\ Len(Piece(c, 0, LongestName)) = LongestName
    <3>1. 0 \in Nat /\ 0 <= LongestName /\ LongestName - 0 = LongestName
      BY <1>3
    <3> QED BY <1>3, <2>1, <2>3, <3>1, PieceIs
  <2>6. IsBytes(Tail255(m)) /\ Size(Tail255(m)) = LongestName
    BY <2>4, <2>5, PackIsBytes, SizePack, Zenon
  <2>7. LongestName <= LongestName /\ 0 # 1 /\ 4 # 1
    BY <1>3
  <2>8. TailWidth(m.type) = 1
    BY <1>4, <1>6, Zenon
  <2> QED BY <1>3, <2>6, <2>7, <2>8, Zenon
<1>7. CASE ~(m.type = "HELLO" /\ Size(m.tail) > LongestName)
  <2>1. Tail255(m) = m.tail
    BY <1>7, Zenon DEF Tail255
  <2>2. m.type = "HELLO" => Size(m.tail) <= LongestName
    BY <1>2, <1>3, <1>7
  <2>3. m.type = "CLIPBOARD_UPDATE" => Size(m.tail) <= LargestClipboard
    BY Zenon DEF FitsHeader
  <2> QED BY <1>1, <1>2, <1>4, <1>5, <2>1, <2>2, <2>3, Zenon
<1> QED BY <1>6, <1>7, Zenon

LEMMA SeenIs ==
  ASSUME NEW m, FitsHeader(m)
  PROVE  /\ Seen(m) = [type |-> m.type, fields |-> m.fields, tail |-> Tail255(m)]
         /\ FitsHeader(Seen(m)) /\ Seen(m) # Malformed
<1>1. m = [type |-> m.type, fields |-> m.fields, tail |-> m.tail]
  BY Zenon DEF FitsHeader, Fits
<1>2. Seen(m) = [m EXCEPT !.tail = Tail255(m)]
  BY Zenon DEF Seen, Tail255
<1>3. \A t, f, old, new : [[type |-> t, fields |-> f, tail |-> old] EXCEPT !.tail = new]
                            = [type |-> t, fields |-> f, tail |-> new]
  OBVIOUS
<1>4. Seen(m) = [type |-> m.type, fields |-> m.fields, tail |-> Tail255(m)]
  BY <1>1, <1>2, <1>3, Zenon
<1>5. Seen(m).type = m.type /\ Seen(m).fields = m.fields /\ Seen(m).tail = Tail255(m)
  BY <1>4
<1>6. /\ m.type \in MessageType
      /\ m.fields = [i \in Fields(m.type) |-> m.fields[i]]
      /\ \A i \in Fields(m.type) :
           m.fields[i] \in Int /\ InRange(m.fields[i], m.type, Width(m.type, i))
  BY Zenon DEF FitsHeader, Fits
<1>7. "malformed" \notin MessageType
  BY DEF MessageType, Code
<1>8. Malformed.type = "malformed"
  BY DEF Malformed
<1>9. Fits(Seen(m))
  BY <1>4, <1>5, <1>6, TailIs, Zenon DEF Fits
<1>10. m.type = "CLIPBOARD_UPDATE" => TailWidth(m.type) = 4
  BY DEF TailWidth
<1> QED BY <1>4, <1>5, <1>6, <1>7, <1>8, <1>9, <1>10, TailIs, Zenon DEF FitsHeader

\* The bytes of a payload.
PayloadBytes(m) ==
  (FixedPart(m) \o BigEndian(Size(Tail255(m)), TailWidth(m.type))) \o Unpack(Tail255(m))

LEMMA PayloadIs ==
  ASSUME NEW m, FitsHeader(m)
  PROVE  /\ PayloadBytes(m) \in Seq(Byte) /\ SerializePayload(m) = Pack(PayloadBytes(m))
         /\ Len(PayloadBytes(m)) = FixedSize(m.type) + TailWidth(m.type) + Size(Tail255(m))
         /\ Len(PayloadBytes(m)) \in 0 .. TwoTo16 - 1
<1> DEFINE size == Size(Tail255(m))
           width == TailWidth(m.type)
           fixed == FixedPart(m)
           count == BigEndian(size, width)
           tail == Unpack(Tail255(m))
           n == FixedSize(m.type)
<1>1. Fits(m) /\ m.type \in MessageType
  BY Zenon DEF FitsHeader, Fits
<1>2. n \in 0 .. 8 /\ width \in {0, 1, 4} /\ (width = 4 => n = 1)
  <2>1. TailWidth(m.type) = 4 => m.type = "CLIPBOARD_UPDATE"
    BY DEF TailWidth
  <2> QED BY <1>1, <2>1, TableIs, Zenon
<1>3. fixed \in Seq(Byte) /\ Len(fixed) = n
  BY <1>1, FixedPartIs, Zenon
<1>4. size \in Nat /\ tail \in Seq(Byte) /\ Len(tail) = size /\ Tail255(m) = Pack(tail)
  BY TailIs, PackUnpack, Zenon
<1>5. count \in Seq(Byte) /\ Len(count) = width
  <2>1. width \in 0 .. 4 /\ size \in Int
    BY <1>2, <1>4
  <2> QED BY <2>1, BigEndianBytes, Zenon
<1>6. (width = 0 => size = 0) /\ (width = 1 => size <= LongestName) /\ (width = 4 => size <= LargestClipboard)
  BY TailIs, NoBytes, Zenon
<1>7. SerializePayload(m) = Join(Pack(fixed \o count), Tail255(m))
  BY Zenon DEF SerializePayload
<1>8. PayloadBytes(m) = (fixed \o count) \o tail
  BY Zenon DEF PayloadBytes
<1> HIDE DEF size, width, fixed, count, tail, n
<1>9. fixed \o count \in Seq(Byte) /\ Len(fixed \o count) = n + width
  BY <1>3, <1>5, ConcatProperties
<1>10. /\ PayloadBytes(m) \in Seq(Byte) /\ Len(PayloadBytes(m)) = (n + width) + size
       /\ Join(Pack(fixed \o count), Pack(tail)) = Pack(PayloadBytes(m))
  <2> DEFINE front == fixed \o count
  <2>1. front \in Seq(Byte) /\ Len(front) = n + width /\ PayloadBytes(m) = front \o tail
    BY <1>8, <1>9
  <2> HIDE DEF front
  <2>2. PayloadBytes(m) \in Seq(Byte) /\ Len(PayloadBytes(m)) = Len(front) + Len(tail)
    BY <1>4, <2>1, ConcatProperties
  <2>3. Join(Pack(front), Pack(tail)) = Pack(front \o tail)
    BY <1>4, <2>1, JoinPack
  <2> QED BY <1>4, <2>1, <2>2, <2>3 DEF front
<1>11. SerializePayload(m) = Pack(PayloadBytes(m))
  BY <1>4, <1>7, <1>10, Zenon
<1>12. (n + width) + size \in 0 .. TwoTo16 - 1
  <2>1. /\ n \in Int /\ 0 <= n /\ n <= 8 /\ size \in Int /\ 0 <= size
        /\ \/ width = 0 /\ size = 0
           \/ width = 1 /\ size <= LongestName
           \/ width = 4 /\ n = 1 /\ size <= LargestClipboard
    BY <1>2, <1>4, <1>6
  <2>2. /\ (n + width) + size \in Int /\ 0 <= (n + width) + size
        /\ (n + width) + size < TwoTo16
    BY <2>1, SMT DEF LongestName, LargestClipboard, TwoTo16
  <2>3. TwoTo16 \in Int
    BY SMT DEF TwoTo16
  <2> QED BY <2>2, <2>3
<1> QED BY <1>10, <1>11, <1>12, Zenon DEF n, width, size

\* The three parts of a payload, where Parse looks for them.
LEMMA PartsAre ==
  ASSUME NEW m, FitsHeader(m)
  PROVE  LET t     == m.type
             P     == PayloadBytes(m)
             n     == FixedSize(t)
             start == FixedSize(t) + TailWidth(t)
             size  == Size(Tail255(m))
         IN  /\ \A i \in Fields(t) :
                  Piece(P, Offset[t][i], Offset[t][i + 1]) = BigEndian(m.fields[i], Width(t, i))
             /\ Piece(P, n, start) = BigEndian(size, TailWidth(t))
             /\ Piece(P, start, start + size) = Unpack(Tail255(m))
<1> DEFINE t == m.type
           n == FixedSize(t)
           width == TailWidth(t)
           size == Size(Tail255(m))
           fixed == FixedPart(m)
           count == BigEndian(size, width)
           tail == Unpack(Tail255(m))
           front == fixed \o count
           P == PayloadBytes(m)
           F == Fields(t)
           o == Offset[t]
           be(i) == BigEndian(m.fields[i], Width(t, i))
<1>1. Fits(m) /\ t \in MessageType
  BY Zenon DEF FitsHeader, Fits
<1>2. n \in Nat /\ width \in 0 .. 4 /\ width \in Nat
  <2>1. n \in 0 .. 8 /\ width \in {0, 1, 4}
    BY <1>1, TableIs, Zenon
  <2> QED BY <2>1
<1>3. /\ fixed \in Seq(Byte) /\ Len(fixed) = n
      /\ \A i \in F : Piece(fixed, o[i], o[i + 1]) = be(i)
  BY <1>1, FixedPartIs, Zenon
<1>4. size \in Nat /\ tail \in Seq(Byte) /\ Len(tail) = size
  BY TailIs, PackUnpack, Zenon
<1>5. count \in Seq(Byte) /\ Len(count) = width
  <2>1. size \in Int
    BY <1>4
  <2> QED BY <1>2, <2>1, BigEndianBytes, Zenon
<1>6. P = front \o tail
  BY Zenon DEF PayloadBytes
<1>7. /\ SideBySide(o) /\ F = 1 .. Len(o) - 1 /\ n = o[Len(o)]
  BY <1>1, TableIs, Zenon
<1> HIDE DEF t, n, width, size, fixed, count, tail, P, F, o, be
<1>8. front \in Seq(Byte) /\ Len(front) = n + width
  BY <1>3, <1>5, ConcatProperties
<1>9. ASSUME NEW a \in Nat, NEW b \in Nat, a <= b, b <= n
      PROVE  Piece(P, a, b) = Piece(fixed, a, b)
  <2>1. b <= Len(fixed) /\ b <= Len(front)
    BY <1>2, <1>3, <1>8, <1>9
  <2>2. Piece(front, a, b) = Piece(fixed, a, b)
    BY <1>3, <1>5, <1>9, <2>1, PieceOfConcat, Zenon
  <2> HIDE DEF front
  <2>3. Piece(P, a, b) = Piece(front, a, b)
    <3>1. Piece(front \o tail, a, b) = Piece(front, a, b)
      BY <1>4, <1>8, <1>9, <2>1, PieceOfConcat
    <3> QED BY <1>6, <3>1
  <2> QED BY <2>2, <2>3, Zenon
<1>10. ASSUME NEW i \in F PROVE Piece(P, o[i], o[i + 1]) = be(i)
  <2>1. o \in Seq(Nat) /\ Len(o) \in 1 .. 5 /\ \A k, l \in 1 .. Len(o) : k <= l => o[k] <= o[l]
    BY <1>7, Zenon DEF SideBySide
  <2>2. i \in 1 .. Len(o) /\ i + 1 \in 1 .. Len(o) /\ Len(o) \in 1 .. Len(o) /\ i <= i + 1 /\ i + 1 <= Len(o)
    BY <1>7, <2>1
  <2>3. o[i] \in Nat /\ o[i + 1] \in Nat
    BY <2>1, <2>2, ElementOfSeq
  <2>4. o[i] <= o[i + 1] /\ o[i + 1] <= n
    BY <1>7, <2>1, <2>2, Zenon
  <2> QED BY <1>3, <1>9, <2>3, <2>4, Zenon
<1>11. Piece(P, n, n + width) = count
  <2>1. n + 0 = n /\ 0 \in Nat /\ 0 <= width /\ width <= Len(count) /\ n \in Nat /\ n + width \in Nat
        /\ n <= n + width /\ n + width <= Len(front)
    BY <1>2, <1>5, <1>8
  <2>2. Piece(front, n, n + width) = Piece(count, 0, width)
    <3>1. Piece(front, Len(fixed) + 0, Len(fixed) + width) = Piece(count, 0, width)
      BY <1>2, <1>3, <1>5, <2>1, PieceOfConcat
    <3> QED BY <1>3, <2>1, <3>1
  <2>3. Piece(count, 0, width) = count
    BY <1>2, <1>5, <2>1, TakeDrop, Zenon
  <2> HIDE DEF front
  <2>4. Piece(P, n, n + width) = Piece(front, n, n + width)
    <3>1. Piece(front \o tail, n, n + width) = Piece(front, n, n + width)
      BY <1>4, <1>8, <2>1, PieceOfConcat
    <3> QED BY <1>6, <3>1
  <2> QED BY <2>2, <2>3, <2>4, Zenon
<1>12. Piece(P, n + width, (n + width) + size) = tail
  <2> HIDE DEF front
  <2>1. (n + width) + 0 = n + width /\ 0 \in Nat /\ 0 <= size /\ size <= Len(tail)
    BY <1>2, <1>4
  <2>2. Piece(P, Len(front) + 0, Len(front) + size) = Piece(tail, 0, size)
    BY <1>4, <1>6, <1>8, <2>1, PieceOfConcat, Zenon
  <2>3. Piece(tail, 0, size) = tail
    BY <1>4, <2>1, TakeDrop, Zenon
  <2> QED BY <1>8, <2>1, <2>2, <2>3
<1> QED BY <1>10, <1>11, <1>12, Zenon DEF t, n, width, size, count, tail, P, F, o, be

\* The length of the tail, as it is read.
LEMMA CountReadsBack ==
  ASSUME NEW m, FitsHeader(m)
  PROVE  Unsigned(BigEndian(Size(Tail255(m)), TailWidth(m.type))) = Size(Tail255(m))
<1> DEFINE size == Size(Tail255(m))
           width == TailWidth(m.type)
<1> SUFFICES Unsigned(BigEndian(size, width)) = size
  OBVIOUS
<1>1. width \in {0, 1, 4}
  BY DEF TailWidth
<1>2. /\ size \in Nat /\ (width = 0 => size = 0) /\ (width = 1 => size <= LongestName)
      /\ (width = 4 => size <= LargestClipboard)
  BY TailIs, NoBytes, Zenon
<1> HIDE DEF size, width
<1>3. size \in Int
  BY <1>2
<1>4. CASE width = 0
  <2>1. Unsigned(BigEndian(size, 0)) = 0
    BY <1>3, ReadsBack, Zenon
  <2> QED BY <1>2, <1>4, <2>1, Zenon
<1>5. CASE width = 1
  <2>1. size \in Byte
    BY <1>2, <1>5, SMT DEF LongestName, Byte
  <2>2. Unsigned(BigEndian(size, 1)) = size % TwoTo8
    BY <1>3, ReadsBack, Zenon
  <2>3. size % TwoTo8 = size
    BY <2>1, Residues, Zenon
  <2> QED BY <1>5, <2>2, <2>3, Zenon
<1>6. CASE width = 4
  <2>1. size \div TwoTo16 \in 0 .. TwoTo16 - 1
    <3>1. size \in Int /\ 0 <= size /\ size <= LargestClipboard
      BY <1>2, <1>6
    <3>2. size \div TwoTo16 = 0
      BY <3>1, SMT DEF LargestClipboard, TwoTo16
    <3>3. 0 \in 0 .. TwoTo16 - 1
      BY WeightIs
    <3> QED BY <3>2, <3>3, Zenon
  <2>2. Unsigned(BigEndian(size, 4)) = size
    BY <1>3, <2>1, ReadsBack, Zenon
  <2> QED BY <1>6, <2>2, Zenon
<1> QED BY <1>1, <1>4, <1>5, <1>6, Zenon

\* The length of a clipboard that fits has a 0 in front.
LEMMA CountNeverWraps ==
  ASSUME NEW m, FitsHeader(m)
  PROVE  ~Wraps(m.type, BigEndian(Size(Tail255(m)), TailWidth(m.type)))
<1> DEFINE size == Size(Tail255(m))
<1> SUFFICES ASSUME m.type = "CLIPBOARD_UPDATE", NEW low \in 251 .. 255,
                    BigEndian(size, 4) = <<255, 255, 255, low>>
             PROVE  FALSE
  BY DEF Wraps, TailWidth
<1>0. TailWidth(m.type) = 4
  BY DEF TailWidth
<1>1. size \in Nat /\ size <= LargestClipboard
  BY <1>0, TailIs, Zenon
<1>2. size \div TwoTo24 = 0
  BY <1>1, SMT DEF LargestClipboard, TwoTo16, TwoTo24
<1> HIDE DEF size
<1>3. BigEndian(size, 4)[1] = (size \div TwoTo24) % TwoTo8
  BY DEF BigEndian, ByteOf, Weight
<1>4. BigEndian(size, 4)[1] = 0
  BY <1>2, <1>3, SMT DEF TwoTo8
<1> QED BY <1>4

LEMMA ParsesBack ==
  ASSUME NEW m, FitsHeader(m)
  PROVE  Parse(m.type, Pack(PayloadBytes(m))) = Seen(m)
<1> DEFINE t == m.type
           P == PayloadBytes(m)
           s == Pack(P)
           n == FixedSize(t)
           start == FixedSize(t) + TailWidth(t)
           size == Size(Tail255(m))
           o == Offset[t]
           F == Fields(t)
<1>1. t \in MessageType /\ Fits(m)
  BY Zenon DEF FitsHeader, Fits
<1>2. /\ P \in Seq(Byte) /\ Len(P) = start + size /\ Size(s) = start + size
      /\ size \in Nat /\ IsBytes(Tail255(m))
  BY PayloadIs, TailIs, SizePack, Zenon
<1>3. n \in Nat /\ start \in Nat /\ n <= start
  <2>1. FixedSize(t) \in 0 .. 8 /\ TailWidth(t) \in {0, 1, 4}
    BY <1>1, TableIs, Zenon
  <2> QED BY <2>1
<1>4. /\ \A i \in F : Piece(P, o[i], o[i + 1]) = BigEndian(m.fields[i], Width(t, i))
      /\ Piece(P, n, start) = BigEndian(size, TailWidth(t))
      /\ Piece(P, start, start + size) = Unpack(Tail255(m))
  BY PartsAre, Zenon
<1>5. \A i \in F : /\ o[i] \in Nat /\ o[i + 1] \in Nat /\ o[i] <= o[i + 1] /\ o[i + 1] <= n
  <2>1. SideBySide(o) /\ F = 1 .. Len(o) - 1 /\ n = o[Len(o)]
    BY <1>1, TableIs, Zenon
  <2>2. o \in Seq(Nat) /\ Len(o) \in 1 .. 5 /\ \A k, l \in 1 .. Len(o) : k <= l => o[k] <= o[l]
    BY <2>1, Zenon DEF SideBySide
  <2> SUFFICES ASSUME NEW i \in F
               PROVE  o[i] \in Nat /\ o[i + 1] \in Nat /\ o[i] <= o[i + 1] /\ o[i + 1] <= n
    OBVIOUS
  <2> HIDE DEF o, F, n
  <2>3. i \in 1 .. Len(o) /\ i + 1 \in 1 .. Len(o) /\ Len(o) \in 1 .. Len(o) /\ i <= i + 1 /\ i + 1 <= Len(o)
    BY <2>1, <2>2
  <2>4. o[i] \in Nat /\ o[i + 1] \in Nat
    BY <2>2, <2>3, ElementOfSeq
  <2> QED BY <2>1, <2>2, <2>3, <2>4, Zenon
<1>6. Read(s, n + 1, start) = size
  <2>1. start <= Len(P)
    BY <1>2, <1>3
  <2>2. Read(s, n + 1, start) = Unsigned(Piece(P, n, start))
    <3> HIDE DEF P, n, start
    <3> QED BY <1>2, <1>3, <2>1, PackedPiece, Zenon
  <2> QED BY <1>4, <2>2, CountReadsBack, Zenon
<1>7. Slice(s, start + 1, start + size) = Tail255(m)
  <2>1. start + size \in Nat /\ start <= start + size /\ start + size <= Len(P)
    BY <1>2, <1>3
  <2>2. Slice(s, start + 1, start + size) = Pack(Piece(P, start, start + size))
    <3> HIDE DEF P, start, size
    <3> QED BY <1>2, <1>3, <2>1, PackedPiece, Zenon
  <2> QED BY <1>2, <1>4, <2>2, PackUnpack, Zenon
<1>8. ASSUME NEW i \in F
      PROVE  AsField(t, Read(s, o[i] + 1, o[i + 1])) = m.fields[i]
  <2>1. o[i] \in Nat /\ o[i + 1] \in Nat /\ o[i] <= o[i + 1] /\ o[i + 1] <= n
    BY <1>5, Zenon
  <2>2. o[i + 1] <= Len(P)
    <3> HIDE DEF o, P, n, start, size
    <3> QED BY <1>2, <1>3, <2>1
  <2>3. Read(s, o[i] + 1, o[i + 1]) = Unsigned(Piece(P, o[i], o[i + 1]))
    <3> HIDE DEF o, P
    <3> QED BY <1>2, <2>1, <2>2, PackedPiece, Zenon
  <2>4. /\ m.fields[i] \in Int /\ InRange(m.fields[i], t, Width(t, i))
        /\ Width(t, i) \in {1, 2, 4} /\ (t \in Signed => Width(t, i) = 2)
    BY <1>1, TableIs, Zenon DEF Fits
  <2>5. AsField(t, Unsigned(BigEndian(m.fields[i], Width(t, i)))) = m.fields[i]
    BY <2>4, FieldReadsBack, Zenon
  <2> QED BY <1>4, <2>3, <2>5, Zenon
<1>9. m.fields = [i \in F |-> m.fields[i]]
  BY <1>1, Zenon DEF Fits
<1>10. Parse(t, s) = IF Size(s) < start THEN Malformed
                     ELSE IF Wraps(t, Unpack(Slice(s, n + 1, start))) THEN OverRead
                     ELSE IF Size(s) < start + Read(s, n + 1, start) THEN Malformed
                     ELSE [type |-> t,
                           fields |-> [i \in F |-> AsField(t, Read(s, o[i] + 1, o[i + 1]))],
                           tail |-> Slice(s, start + 1, start + Read(s, n + 1, start))]
  BY Zenon DEF Parse
<1>14. ~Wraps(t, Unpack(Slice(s, n + 1, start)))
  <2>1. start <= Len(P)
    BY <1>2, <1>3
  <2>2. Unpack(Slice(s, n + 1, start)) = Piece(P, n, start)
    <3> HIDE DEF P, n, start
    <3> QED BY <1>2, <1>3, <2>1, UnpackedPiece, Zenon
  <2>3. Unpack(Slice(s, n + 1, start)) = BigEndian(size, TailWidth(t))
    BY <1>4, <2>2, Zenon
  <2> QED BY <2>3, CountNeverWraps, Zenon
<1>11. ~(Size(s) < start) /\ ~(Size(s) < start + size)
  <2> HIDE DEF s, start, size
  <2> QED BY <1>2, <1>3
<1>12. Parse(t, s) = [type |-> t, fields |-> [i \in F |-> AsField(t, Read(s, o[i] + 1, o[i + 1]))],
                      tail |-> Tail255(m)]
  BY <1>6, <1>7, <1>10, <1>11, <1>14, Zenon
<1>13. [i \in F |-> AsField(t, Read(s, o[i] + 1, o[i + 1]))] = m.fields
  BY <1>8, <1>9, Zenon
<1> QED BY <1>12, <1>13, SeenIs, Zenon

-------------------------------------------------------------------------------
(* A message reads back as it was.                                           *)

HeaderBytes(m, n) ==
  (BigEndian(Code[m.type], 2) \o BigEndian(Len(PayloadBytes(m)), 2)) \o BigEndian(n, 4)
MessageBytes(m, n) == HeaderBytes(m, n) \o PayloadBytes(m)

LEMMA TwoBytesReadBack ==
  ASSUME NEW v \in 0 .. TwoTo16 - 1
  PROVE  v \in Int /\ Unsigned(BigEndian(v, 2)) = v
<1>1. v \in Int
  BY WeightIs
<1> QED BY <1>1, ReadsBack, Residues, Zenon

LEMMA HeaderIs ==
  ASSUME NEW m, FitsHeader(m), NEW n \in Int
  PROVE  /\ HeaderBytes(m, n) \in Seq(Byte) /\ Len(HeaderBytes(m, n)) = HeaderSize
         /\ Unsigned(Piece(HeaderBytes(m, n), 0, 2)) = Code[m.type]
         /\ Unsigned(Piece(HeaderBytes(m, n), 2, 4)) = Len(PayloadBytes(m))
<1> DEFINE a == BigEndian(Code[m.type], 2)
           b == BigEndian(Len(PayloadBytes(m)), 2)
           c == BigEndian(n, 4)
           h == HeaderBytes(m, n)
<1>1. Code[m.type] \in 0 .. TwoTo16 - 1 /\ Len(PayloadBytes(m)) \in 0 .. TwoTo16 - 1
  <2>1. Code[m.type] \in 0 .. 255
    BY CodesAre, Zenon DEF FitsHeader, Fits
  <2>2. 0 .. 255 \subseteq 0 .. TwoTo16 - 1
    <3>1. TwoTo16 \in Int /\ 255 < TwoTo16
      BY SMT DEF TwoTo16
    <3> QED BY <3>1
  <2> QED BY <2>1, <2>2, PayloadIs, Zenon
<1>2. Unsigned(a) = Code[m.type] /\ Unsigned(b) = Len(PayloadBytes(m))
  BY <1>1, TwoBytesReadBack, Zenon
<1>3. a \in Seq(Byte) /\ Len(a) = 2 /\ b \in Seq(Byte) /\ Len(b) = 2 /\ c \in Seq(Byte) /\ Len(c) = 4
  <2>1. Code[m.type] \in Int /\ Len(PayloadBytes(m)) \in Int
    BY <1>1, TwoBytesReadBack, Zenon
  <2>2. 2 \in 0 .. 4 /\ 4 \in 0 .. 4
    OBVIOUS
  <2> QED BY <2>1, <2>2, BigEndianBytes, Zenon
<1>4. h = (a \o b) \o c
  BY Zenon DEF HeaderBytes
<1> HIDE DEF a, b, c, h
<1>5. a \o b \in Seq(Byte) /\ Len(a \o b) = 4
  <2>1. a \o b \in Seq(Byte) /\ Len(a \o b) = Len(a) + Len(b)
    BY <1>3, ConcatProperties, Zenon
  <2> QED BY <1>3, <2>1
<1>6. h \in Seq(Byte) /\ Len(h) = 8
  <2> DEFINE front == a \o b
  <2>1. front \in Seq(Byte) /\ Len(front) = 4 /\ h = front \o c
    BY <1>4, <1>5
  <2> HIDE DEF front
  <2>2. front \o c \in Seq(Byte) /\ Len(front \o c) = Len(front) + Len(c)
    BY <1>3, <2>1, ConcatProperties, Zenon
  <2> QED BY <1>3, <2>1, <2>2
<1>7. Piece(h, 0, 2) = a /\ Piece(h, 2, 4) = b
  <2>1. /\ Piece(a \o b, 0, 2) = Piece(a, 0, 2) /\ Piece(a \o b, 2 + 0, 2 + 2) = Piece(b, 0, 2)
        /\ Piece(a, 0, 2) = a /\ Piece(b, 0, 2) = b
    <3>1. 0 \in Nat /\ 2 \in Nat /\ 0 <= 2 /\ 2 <= 2
      OBVIOUS
    <3>2. Piece(a \o b, 0, 2) = Piece(a, 0, 2)
      <4>1. \A i, j \in Nat : i <= j /\ j <= Len(a) => Piece(a \o b, i, j) = Piece(a, i, j)
        BY <1>3, PieceOfConcat, Zenon
      <4> QED BY <1>3, <3>1, <4>1, Zenon
    <3>3. Piece(a \o b, Len(a) + 0, Len(a) + 2) = Piece(b, 0, 2)
      <4>1. \A i, j \in Nat : i <= j /\ j <= Len(b) =>
              Piece(a \o b, Len(a) + i, Len(a) + j) = Piece(b, i, j)
        BY <1>3, PieceOfConcat, Zenon
      <4> QED BY <1>3, <3>1, <4>1, Zenon
    <3>4. Piece(a, 0, Len(a)) = a /\ Piece(b, 0, Len(b)) = b
      BY <1>3, <3>1, TakeDrop, Zenon
    <3> QED BY <1>3, <3>2, <3>3, <3>4, Zenon
  <2>2. /\ Piece((a \o b) \o c, 0, 2) = Piece(a \o b, 0, 2)
        /\ Piece((a \o b) \o c, 2, 4) = Piece(a \o b, 2, 4)
    <3> DEFINE front == a \o b
    <3>1. front \in Seq(Byte) /\ Len(front) = 4
      BY <1>5
    <3> HIDE DEF front
    <3>2. Piece(front \o c, 0, 2) = Piece(front, 0, 2) /\ Piece(front \o c, 2, 4) = Piece(front, 2, 4)
      <4>1. 0 \in Nat /\ 2 \in Nat /\ 4 \in Nat /\ 0 <= 2 /\ 2 <= 4
             /\ 2 <= Len(front) /\ 4 <= Len(front)
        BY <3>1
      <4>2. front \in Seq(Byte) /\ c \in Seq(Byte)
        BY <1>3, <3>1
      <4>3. \A i, j \in Nat : i <= j /\ j <= Len(front) => Piece(front \o c, i, j) = Piece(front, i, j)
        BY <4>2, PieceOfConcat, Zenon
      <4> QED BY <4>1, <4>3, Zenon
    <3> QED BY <3>2 DEF front
  <2>3. 2 + 0 = 2 /\ 2 + 2 = 4
    OBVIOUS
  <2> QED BY <1>4, <2>1, <2>2, <2>3, Zenon
<1> QED BY <1>2, <1>6, <1>7, Zenon DEF a, b, h, HeaderSize

LEMMA MessageIs ==
  ASSUME NEW m, FitsHeader(m), NEW n \in Int
  PROVE  /\ MessageBytes(m, n) \in Seq(Byte)
         /\ Len(MessageBytes(m, n)) = HeaderSize + Len(PayloadBytes(m))
         /\ SerializeMessage(m, n) = Pack(MessageBytes(m, n))
         /\ Piece(MessageBytes(m, n), 0, HeaderSize) = HeaderBytes(m, n)
         /\ Piece(MessageBytes(m, n), HeaderSize, HeaderSize + Len(PayloadBytes(m))) = PayloadBytes(m)
<1> DEFINE h == HeaderBytes(m, n)
           P == PayloadBytes(m)
<1>1. h \in Seq(Byte) /\ Len(h) = HeaderSize /\ P \in Seq(Byte) /\ SerializePayload(m) = Pack(P)
  BY HeaderIs, PayloadIs, Zenon
<1>2. MessageBytes(m, n) = h \o P
  BY Zenon DEF MessageBytes
<1>3. SerializeMessage(m, n) = Join(Pack(h), Pack(P))
  <2>1. SerializeMessage(m, n) = Join(SerializeHeader(m.type, Size(Pack(P)), n), Pack(P))
    BY <1>1, Zenon DEF SerializeMessage
  <2>2. SerializeHeader(m.type, Len(P), n) = Pack(h)
    BY Zenon DEF SerializeHeader, HeaderBytes
  <2> QED BY <1>1, <2>1, <2>2, SizePack, Zenon
<1>4. HeaderSize \in Nat /\ HeaderSize + 0 = HeaderSize /\ 0 \in Nat /\ Len(P) \in Nat
  BY <1>1 DEF HeaderSize
<1> HIDE DEF h, P
<1>5. h \o P \in Seq(Byte) /\ Len(h \o P) = HeaderSize + Len(P)
  BY <1>1, ConcatProperties
<1>6. Join(Pack(h), Pack(P)) = Pack(h \o P)
  BY <1>1, JoinPack, Zenon
<1>7. Piece(h \o P, 0, HeaderSize) = h
  <2>1. Piece(h \o P, 0, HeaderSize) = Piece(h, 0, HeaderSize)
    <3>1. HeaderSize <= Len(h) /\ 0 <= HeaderSize /\ HeaderSize \in Nat /\ 0 \in Nat
      BY <1>1, <1>4
    <3>2. h \in Seq(Byte) /\ P \in Seq(Byte)
      BY <1>1
    <3> QED BY <3>1, <3>2, PieceOfConcat, Zenon
  <2>2. Piece(h, 0, Len(h)) = h
    BY <1>1, <1>4, TakeDrop
  <2> QED BY <1>1, <2>1, <2>2
<1>8. Piece(h \o P, HeaderSize, HeaderSize + Len(P)) = P
  <2>1. Piece(h \o P, Len(h) + 0, Len(h) + Len(P)) = Piece(P, 0, Len(P))
    <3>1. 0 <= Len(P) /\ Len(P) <= Len(P) /\ Len(P) \in Nat /\ 0 \in Nat
      BY <1>1, <1>4
    <3>2. h \in Seq(Byte) /\ P \in Seq(Byte)
      BY <1>1
    <3> QED BY <3>1, <3>2, PieceOfConcat, Zenon
  <2>2. Piece(P, 0, Len(P)) = P
    BY <1>1, <1>4, TakeDrop
  <2> QED BY <1>1, <1>4, <2>1, <2>2
<1> QED BY <1>2, <1>3, <1>5, <1>6, <1>7, <1>8, Zenon DEF h, P

\* What recv_loop reads of a header, at the front of whatever has arrived.
LEMMA HeaderReadsBack ==
  ASSUME NEW m, FitsHeader(m), NEW n \in Int, NEW c \in Seq(Byte), HeaderSize <= Len(c),
         Piece(c, 0, HeaderSize) = HeaderBytes(m, n)
  PROVE  Read(Pack(c), 1, 2) = Code[m.type] /\ PayloadLength(Pack(c)) = Len(PayloadBytes(m))
<1>1. HeaderSize = 8 /\ Len(c) \in Nat
  BY DEF HeaderSize
<1>2. /\ Piece(Piece(c, 0, 8), 0, 2) = Piece(c, 0 + 0, 0 + 2)
      /\ Piece(Piece(c, 0, 8), 2, 4) = Piece(c, 0 + 2, 0 + 4)
  BY <1>1, PieceOfPiece
<1>3. Piece(HeaderBytes(m, n), 0, 2) = Piece(c, 0, 2) /\ Piece(HeaderBytes(m, n), 2, 4) = Piece(c, 2, 4)
  BY <1>1, <1>2
<1>4. Read(Pack(c), 0 + 1, 2) = Unsigned(Piece(c, 0, 2)) /\ Read(Pack(c), 2 + 1, 4) = Unsigned(Piece(c, 2, 4))
  BY <1>1, PackedPiece
<1>5. 0 + 1 = 1 /\ 2 + 1 = 3
  OBVIOUS
<1> QED BY <1>3, <1>4, <1>5, HeaderIs, Zenon DEF PayloadLength

LEMMA PayloadReadsBack ==
  ASSUME NEW m, FitsHeader(m)
  PROVE  DeserializePayload(Code[m.type], Pack(PayloadBytes(m))) = Seen(m)
<1> DEFINE types == {t \in MessageType : Code[t] = Code[m.type]}
<1>1. m.type \in MessageType
  BY Zenon DEF FitsHeader, Fits
<1>2. types = {m.type}
  BY <1>1, CodesAre, Zenon
<1>3. \A x : {x} # {} /\ (CHOOSE t \in {x} : TRUE) = x
  OBVIOUS
<1>4. DeserializePayload(Code[m.type], Pack(PayloadBytes(m))) =
        IF types = {} THEN Malformed ELSE Parse(CHOOSE t \in types : TRUE, Pack(PayloadBytes(m)))
  BY Zenon DEF DeserializePayload
<1> HIDE DEF types
<1>5. DeserializePayload(Code[m.type], Pack(PayloadBytes(m))) = Parse(m.type, Pack(PayloadBytes(m)))
  BY <1>2, <1>3, <1>4
<1> QED BY <1>5, ParsesBack, Zenon

LEMMA Unfolded ==
  ASSUME NEW s
  PROVE  /\ Size(s) < HeaderSize => DeserializeMessage(s) = Malformed
         /\ Size(s) < HeaderSize + PayloadLength(s) => DeserializeMessage(s) = Malformed
         /\ ~(Size(s) < HeaderSize) /\ ~(Size(s) < HeaderSize + PayloadLength(s))
              => DeserializeMessage(s) =
                   DeserializePayload(Read(s, 1, 2), Slice(s, HeaderSize + 1, HeaderSize + PayloadLength(s)))
BY Zenon DEF DeserializeMessage

\* ... followed by anything.
LEMMA MessageReadsBack ==
  ASSUME NEW m, FitsHeader(m), NEW n \in Int, NEW d \in Seq(Byte)
  PROVE  DeserializeMessage(Pack(MessageBytes(m, n) \o d)) = Seen(m)
<1> DEFINE M == MessageBytes(m, n)
           P == PayloadBytes(m)
           L == Len(P)
           c == M \o d
           s == Pack(c)
<1>1. /\ M \in Seq(Byte) /\ Len(M) = HeaderSize + L
      /\ Piece(M, 0, HeaderSize) = HeaderBytes(m, n) /\ Piece(M, HeaderSize, HeaderSize + L) = P
  BY MessageIs, Zenon
<1>2. HeaderSize \in Nat /\ L \in Nat /\ HeaderSize + L \in Nat /\ 0 \in Nat
      /\ 0 <= HeaderSize /\ HeaderSize <= HeaderSize + L
  <2>1. L \in Nat
    BY PayloadIs
  <2> HIDE DEF L
  <2> QED BY <2>1 DEF HeaderSize
<1> HIDE DEF M, P, L
<1>3. c \in Seq(Byte) /\ Len(c) = Len(M) + Len(d) /\ Len(d) \in Nat
  <2>1. Len(d) \in Nat
    OBVIOUS
  <2> QED BY <1>1, <2>1, ConcatProperties, Zenon
<1>4. \A i, j \in Nat : i <= j /\ j <= Len(M) => Piece(c, i, j) = Piece(M, i, j)
  BY <1>1, PieceOfConcat, Zenon
<1> HIDE DEF c
<1>5. /\ HeaderSize <= Len(M) /\ HeaderSize + L <= Len(M)
      /\ HeaderSize <= Len(c) /\ HeaderSize + L <= Len(c)
      /\ ~(Len(c) < HeaderSize) /\ ~(Len(c) < HeaderSize + L)
  BY <1>1, <1>2, <1>3
<1>6. Piece(c, 0, HeaderSize) = HeaderBytes(m, n) /\ Piece(c, HeaderSize, HeaderSize + L) = P
  BY <1>1, <1>2, <1>4, <1>5
<1>7. Read(s, 1, 2) = Code[m.type] /\ PayloadLength(s) = L
  BY <1>3, <1>5, <1>6, HeaderReadsBack, Zenon DEF L, P
<1>8. Slice(s, HeaderSize + 1, HeaderSize + L) = Pack(P)
  BY <1>2, <1>3, <1>5, <1>6, PackedPiece, Zenon
<1>9. Size(s) = Len(c)
  BY <1>3, SizePack, Zenon
<1>10. DeserializeMessage(s) = DeserializePayload(Code[m.type], Pack(P))
  BY <1>5, <1>7, <1>8, <1>9, Unfolded, Zenon
<1> QED BY <1>10, PayloadReadsBack, Zenon DEF s, c, M, P

\* ... and nothing else if a byte is missing.
LEMMA CutShort ==
  ASSUME NEW m, FitsHeader(m), NEW n \in Int, NEW k \in Nat, k < Len(MessageBytes(m, n))
  PROVE  DeserializeMessage(Pack(Piece(MessageBytes(m, n), 0, k))) = Malformed
<1> DEFINE M == MessageBytes(m, n)
           L == Len(PayloadBytes(m))
           c == Piece(M, 0, k)
           s == Pack(c)
<1>1. M \in Seq(Byte) /\ Len(M) = HeaderSize + L /\ Piece(M, 0, HeaderSize) = HeaderBytes(m, n)
  BY MessageIs, Zenon
<1>2. HeaderSize \in Nat /\ L \in Nat
  <2>1. L \in Nat
    BY PayloadIs
  <2> HIDE DEF L
  <2> QED BY <2>1 DEF HeaderSize
<1>3. k < Len(M)
  OBVIOUS
<1> HIDE DEF M, L
<1>4. c \in Seq(Byte) /\ Len(c) = k /\ Size(s) = k
  <2>1. 0 \in Nat /\ 0 <= k /\ k <= Len(M) /\ k - 0 = k
    BY <1>1, <1>2, <1>3
  <2>2. c \in Seq(Byte) /\ Len(c) = k
    BY <1>1, <2>1, PieceIs
  <2> QED BY <2>2, SizePack, Zenon
<1>5. CASE k < HeaderSize
  BY <1>4, <1>5, Unfolded, Zenon DEF s, c, M
<1>6. CASE ~(k < HeaderSize)
  <2>1. Piece(c, 0, HeaderSize) = Piece(M, 0, HeaderSize)
    <3>1. k <= Len(M) /\ 0 \in Nat /\ 0 <= HeaderSize /\ HeaderSize <= k
      <4>1. Len(M) \in Nat /\ HeaderSize \in Nat
        BY <1>1, <1>2
      <4> QED BY <1>3, <1>6, <4>1
    <3> QED BY <1>1, <1>2, <3>1, PieceOfFront, Zenon
  <2>2. HeaderSize <= Len(c)
    BY <1>2, <1>4, <1>6
  <2> HIDE DEF c
  <2>3. PayloadLength(s) = L
    BY <1>1, <1>4, <2>1, <2>2, HeaderReadsBack, Zenon DEF L
  <2>4. k < HeaderSize + L
    BY <1>1, <1>3
  <2> QED BY <1>4, <2>3, <2>4, Unfolded, Zenon DEF s, c, M
<1> QED BY <1>5, <1>6

\* Of what serialize_message makes of a message, deserialize_message makes the message
\* again, a long name apart, whatever the type, the values, the tail and the sequence
\* number; also with a byte too many after it, and of nothing less than all of it.
THEOREM FormatIs ==
  ASSUME NEW m, FitsHeader(m), NEW n \in Int
  PROVE  /\ DeserializeMessage(SerializeMessage(m, n)) = Seen(m)
         /\ \A b \in Byte : DeserializeMessage(Join(SerializeMessage(m, n), Run(b, 1))) = Seen(m)
         /\ \A k \in 0 .. Size(SerializeMessage(m, n)) - 1 :
              DeserializeMessage(Take(SerializeMessage(m, n), k)) = Malformed
<1> DEFINE M == MessageBytes(m, n)
<1>1. M \in Seq(Byte) /\ SerializeMessage(m, n) = Pack(M) /\ Size(Pack(M)) = Len(M) /\ Len(M) \in Nat
  <2>1. M \in Seq(Byte) /\ SerializeMessage(m, n) = Pack(M)
    BY MessageIs, Zenon
  <2> HIDE DEF M
  <2> QED BY <2>1, SizePack
<1>2. DeserializeMessage(Pack(M)) = Seen(m)
  <2>1. M \o <<>> = M
    <3> HIDE DEF M
    <3> QED BY <1>1, ConcatEmptySeq
  <2> QED BY <2>1, NoBytes, MessageReadsBack, Zenon
<1>3. ASSUME NEW b \in Byte
      PROVE  DeserializeMessage(Join(Pack(M), Run(b, 1))) = Seen(m)
  <2>1. <<b>> \in Seq(Byte)
    OBVIOUS
  <2>2. Run(b, 1) = Pack(<<b>>)
    <3>1. Ends(<<b>>) = {1}
      BY DEF Ends
    <3>2. Pack(<<b>>) = [d \in {1} |-> b]
      BY <3>1 DEF Pack, Ends
    <3> QED BY <3>2 DEF Run
  <2>3. Join(Pack(M), Pack(<<b>>)) = Pack(M \o <<b>>)
    BY <1>1, <2>1, JoinPack, Zenon
  <2> QED BY <2>1, <2>2, <2>3, MessageReadsBack, Zenon
<1>4. ASSUME NEW k \in 0 .. Len(M) - 1
      PROVE  DeserializeMessage(Take(Pack(M), k)) = Malformed
  <2>1. k \in Nat /\ k < Len(M) /\ k <= Len(M)
    <3> HIDE DEF M
    <3> QED BY <1>1
  <2>2. Take(Pack(M), k) = Pack(Piece(M, 0, k))
    BY <1>1, <2>1, TakeDrop, Zenon
  <2> QED BY <2>1, <2>2, CutShort, Zenon
<1> QED BY <1>1, <1>2, <1>3, <1>4, Zenon

\* What test_protocol.cpp tests by hand, at the limits of every field of every type:
\* the case of FormatIs that the run looks at.
THEOREM RoundTripHolds == Spec => []RoundTrip
<1>1. RoundTrip
  <2> SUFFICES ASSUME NEW t \in MessageType, NEW m \in AtLimits(t)
               PROVE  LET bytes == SerializeMessage(m, SomeSequence)
                      IN  /\ DeserializeMessage(bytes) = Seen(m)
                          /\ DeserializeMessage(Join(bytes, Run(7, 1))) = Seen(m)
                          /\ \A n \in {0, 1, 7, 8, Size(bytes) - 1} \cap 0 .. Size(bytes) - 1 :
                               DeserializeMessage(Take(bytes, n)) = Malformed
    BY Zenon DEF RoundTrip
  <2>1. FitsHeader(m)
    BY Zenon DEF AtLimits
  <2>2. SomeSequence \in Int /\ 7 \in Byte
    BY SMT DEF SomeSequence, Byte
  <2> QED BY <2>1, <2>2, FormatIs, Zenon
<1> QED BY <1>1, PTL

-------------------------------------------------------------------------------
(* All bytes that were ever meant for the connection, one message after the  *)
(* other: message k + 1 is the bytes after the first at[k], up to at[k + 1]. *)

Framed(total, ms, at) ==
  /\ at[0] = 0 /\ at[Len(ms)] = Len(total)
  /\ \A k \in 0 .. Len(ms) - 1 :
       /\ at[k + 1] = at[k] + (HeaderSize + Len(PayloadBytes(ms[k + 1])))
       /\ \E n \in Int : Piece(total, at[k], at[k + 1]) = MessageBytes(ms[k + 1], n)
  /\ \A i, j \in 0 .. Len(ms) : i <= j => at[i] <= at[j]

FitsAll(S) == \A m \in S : FitsHeader(m)

LEMMA NothingFramed ==
  /\ <<>> \in Seq(Byte) /\ [k \in 0 .. Len(<<>>) |-> 0] \in [0 .. Len(<<>>) -> Nat]
  /\ Framed(<<>>, <<>>, [k \in 0 .. Len(<<>>) |-> 0])
BY DEF Framed

\* Where the reader is to find message k + 1.
Found(total, ms, at, k) ==
  /\ ms[k + 1] \in Messages /\ FitsHeader(ms[k + 1])
  /\ at[k] \in Nat /\ at[k + 1] \in Nat /\ at[k + 1] <= Len(total)
  /\ Len(PayloadBytes(ms[k + 1])) \in Nat
  /\ at[k + 1] = at[k] + (HeaderSize + Len(PayloadBytes(ms[k + 1])))
  /\ Piece(total, at[k] + HeaderSize, at[k + 1]) = PayloadBytes(ms[k + 1])
  /\ \E n \in Int : Piece(total, at[k], at[k] + HeaderSize) = HeaderBytes(ms[k + 1], n)

LEMMA FramedMessage ==
  ASSUME FitsAll(Messages), NEW ms \in Seq(Messages), NEW total \in Seq(Byte),
         NEW at \in [0 .. Len(ms) -> Nat], Framed(total, ms, at), NEW k \in 0 .. Len(ms) - 1
  PROVE  Found(total, ms, at, k)
<1> DEFINE m == ms[k + 1]
           L == Len(PayloadBytes(m))
           a == at[k]
           b == at[k + 1]
<1>1. k \in 0 .. Len(ms) /\ k + 1 \in 0 .. Len(ms) /\ k + 1 \in 1 .. Len(ms)
      /\ Len(ms) \in 0 .. Len(ms) /\ k + 1 <= Len(ms)
  OBVIOUS
<1>2. m \in Messages /\ FitsHeader(m)
  <2>1. m \in Messages
    BY <1>1, ElementOfSeq
  <2> QED BY <2>1, Zenon DEF FitsAll
<1>3. a \in Nat /\ b \in Nat
  BY <1>1
<1>4. b = a + (HeaderSize + L)
  BY Zenon DEF Framed
<1>5. at[Len(ms)] = Len(total) /\ at[k + 1] <= at[Len(ms)]
  BY <1>1, Zenon DEF Framed
<1>6. L \in Nat
  BY <1>2, PayloadIs
<1>7. PICK n \in Int : Piece(total, a, b) = MessageBytes(m, n)
  BY Zenon DEF Framed
<1>8. /\ Piece(MessageBytes(m, n), 0, HeaderSize) = HeaderBytes(m, n)
      /\ Piece(MessageBytes(m, n), HeaderSize, HeaderSize + L) = PayloadBytes(m)
  BY <1>2, MessageIs, Zenon
<1> HIDE DEF m, L, a, b
<1>9. b <= Len(total)
  BY <1>5, Zenon DEF b
<1>10. /\ HeaderSize \in Nat /\ HeaderSize + L \in Nat /\ 0 \in Nat /\ 0 <= HeaderSize
       /\ HeaderSize <= HeaderSize + L /\ a <= b /\ HeaderSize <= b - a /\ HeaderSize + L <= b - a
       /\ a + 0 = a /\ a + (HeaderSize + L) = b
  BY <1>3, <1>4, <1>6 DEF HeaderSize
<1>11. Piece(total, a, a + HeaderSize) = HeaderBytes(m, n)
  <2>1. Piece(Piece(total, a, b), 0, HeaderSize) = Piece(total, a + 0, a + HeaderSize)
    BY <1>3, <1>9, <1>10, PieceOfPiece
  <2> QED BY <1>7, <1>8, <1>10, <2>1, Zenon
<1>12. Piece(total, a + HeaderSize, b) = PayloadBytes(m)
  <2> DEFINE e == HeaderSize + L
  <2>2. HeaderSize \in Nat /\ e \in Nat /\ HeaderSize <= e /\ a <= b /\ e <= b - a
    BY <1>10
  <2> HIDE DEF e
  <2>3. Piece(Piece(total, a, b), HeaderSize, e) = Piece(total, a + HeaderSize, a + e)
    BY <1>3, <1>9, <2>2, PieceOfPiece
  <2>1. Piece(Piece(total, a, b), HeaderSize, HeaderSize + L) = Piece(total, a + HeaderSize, a + (HeaderSize + L))
    BY <2>3 DEF e
  <2> QED BY <1>7, <1>8, <1>10, <2>1, Zenon
<1> QED BY <1>2, <1>3, <1>4, <1>6, <1>9, <1>11, <1>12, Zenon DEF Found, m, L, a, b

\* One message more.
Extends(total, ms, at, m, n) ==
  /\ total \o MessageBytes(m, n) \in Seq(Byte)
  /\ Len(total) <= Len(total \o MessageBytes(m, n))
  /\ Piece(total \o MessageBytes(m, n), Len(total), Len(total \o MessageBytes(m, n)))
       = MessageBytes(m, n)
  /\ \A i, j \in Nat : i <= j /\ j <= Len(total) =>
       Piece(total \o MessageBytes(m, n), i, j) = Piece(total, i, j)
  /\ \E new \in [0 .. Len(ms) + 1 -> Nat] :
       /\ Framed(total \o MessageBytes(m, n), Append(ms, m), new)
       /\ \A k \in 0 .. Len(ms) : new[k] = at[k]

LEMMA FramedAppend ==
  ASSUME NEW S, FitsAll(S), NEW ms \in Seq(S), NEW total \in Seq(Byte),
         NEW at \in [0 .. Len(ms) -> Nat], Framed(total, ms, at), NEW m \in S, NEW n \in Int
  PROVE  Extends(total, ms, at, m, n)
<1> DEFINE M == MessageBytes(m, n)
           all == total \o M
           L == Len(PayloadBytes(m))
           N == Len(ms)
           ms2 == Append(ms, m)
           new == [k \in 0 .. N + 1 |-> IF k <= N THEN at[k] ELSE Len(all)]
<1>1. FitsHeader(m)
  BY Zenon DEF FitsAll
<1>2. M \in Seq(Byte) /\ Len(M) = HeaderSize + L /\ L \in Nat
  BY <1>1, MessageIs, PayloadIs
<1>3. at[N] = Len(total) /\ at[0] = 0 /\ Len(total) \in Nat /\ N \in Nat
  <2>1. Len(total) \in Nat /\ N \in Nat
    OBVIOUS
  <2> QED BY <2>1, Zenon DEF Framed
<1>4. /\ \A k \in 0 .. N - 1 : at[k + 1] = at[k] + (HeaderSize + Len(PayloadBytes(ms[k + 1])))
      /\ \A k \in 0 .. N - 1 : \E l \in Int : Piece(total, at[k], at[k + 1]) = MessageBytes(ms[k + 1], l)
      /\ \A i, j \in 0 .. N : i <= j => at[i] <= at[j]
  BY Zenon DEF Framed
<1>5. /\ Len(ms2) = N + 1 /\ ms2[N + 1] = m /\ \A k \in 0 .. N - 1 : ms2[k + 1] = ms[k + 1]
  BY AppendProperties
<1> HIDE DEF M, L, N, ms2
<1>6. all \in Seq(Byte) /\ Len(all) = Len(total) + Len(M) /\ Len(M) \in Nat /\ HeaderSize \in Nat
  <2>1. Len(M) \in Nat
    BY <1>2
  <2> QED BY <1>2, <2>1, ConcatProperties, Zenon DEF HeaderSize
<1>7. /\ \A i, j \in Nat : i <= j /\ j <= Len(total) => Piece(all, i, j) = Piece(total, i, j)
      /\ Piece(all, Len(total) + 0, Len(total) + Len(M)) = Piece(M, 0, Len(M))
  <2>1. 0 \in Nat /\ 0 <= Len(M) /\ Len(M) <= Len(M) /\ Len(M) \in Nat
    BY <1>6
  <2> QED BY <1>2, <2>1, PieceOfConcat, Zenon
<1> HIDE DEF all
<1>8. Piece(all, Len(total), Len(all)) = M
  <2>1. Piece(M, 0, Len(M)) = M
    <3>1. Len(M) <= Len(M)
      BY <1>6
    <3> QED BY <1>2, <1>6, <3>1, TakeDrop, Zenon
  <2>2. Len(total) + 0 = Len(total)
    BY <1>3
  <2> QED BY <1>6, <1>7, <2>1, <2>2
<1>9. Len(total) <= Len(all) /\ Len(all) \in Nat /\ Len(all) = at[N] + (HeaderSize + L)
  BY <1>2, <1>3, <1>6
<1>10. \A k \in 0 .. N : at[k] \in Nat
  BY DEF N
<1>11. new \in [0 .. N + 1 -> Nat]
  BY <1>3, <1>9, <1>10
<1>12. (\A k \in 0 .. N : new[k] = at[k]) /\ new[N + 1] = Len(all)
  BY <1>3
<1> HIDE DEF new
<1>13. Framed(all, ms2, new)
  <2>1. new[0] = 0 /\ new[Len(ms2)] = Len(all)
    BY <1>3, <1>5, <1>12
  <2>2. ASSUME NEW k \in 0 .. Len(ms2) - 1
        PROVE  /\ new[k + 1] = new[k] + (HeaderSize + Len(PayloadBytes(ms2[k + 1])))
               /\ \E l \in Int : Piece(all, new[k], new[k + 1]) = MessageBytes(ms2[k + 1], l)
    <3>1. CASE k = N
      <4>1. new[k + 1] = Len(all) /\ new[k] = at[N] /\ ms2[k + 1] = m
        BY <1>3, <1>5, <1>12, <3>1
      <4> QED BY <1>3, <1>8, <1>9, <4>1, Zenon DEF M, L
    <3>2. CASE k # N
      <4>1. k \in 0 .. N - 1 /\ k \in 0 .. N /\ k + 1 \in 0 .. N /\ k <= k + 1 /\ k + 1 <= N /\ N \in 0 .. N
        BY <1>3, <1>5, <3>2
      <4>2. new[k] = at[k] /\ new[k + 1] = at[k + 1] /\ ms2[k + 1] = ms[k + 1]
        BY <1>5, <1>12, <4>1, Zenon
      <4>3. at[k] <= at[k + 1] /\ at[k + 1] <= Len(total)
        BY <1>3, <1>4, <4>1, Zenon
      <4>4. Piece(all, at[k], at[k + 1]) = Piece(total, at[k], at[k + 1])
        BY <1>7, <1>10, <4>1, <4>3, Zenon
      <4> QED BY <1>4, <4>1, <4>2, <4>4, Zenon
    <3> QED BY <3>1, <3>2
  <2>3. ASSUME NEW i \in 0 .. Len(ms2), NEW j \in 0 .. Len(ms2), i <= j
        PROVE  new[i] <= new[j]
    <3>1. CASE j <= N
      <4>1. i \in 0 .. N /\ j \in 0 .. N
        BY <1>3, <2>3, <3>1
      <4> QED BY <1>4, <1>12, <2>3, <4>1, Zenon
    <3>2. CASE i <= N /\ ~(j <= N)
      <4>1. i \in 0 .. N /\ j = N + 1 /\ N \in 0 .. N /\ i <= N
        BY <1>3, <1>5, <2>3, <3>2
      <4>2. at[i] <= at[N] /\ new[i] = at[i] /\ new[j] = Len(all) /\ at[i] \in Nat
        BY <1>4, <1>10, <1>12, <4>1, Zenon
      <4> QED BY <1>3, <1>9, <4>2
    <3>3. CASE ~(i <= N)
      <4>1. i = N + 1 /\ j = N + 1
        BY <1>3, <1>5, <2>3, <3>3
      <4> QED BY <1>9, <1>12, <4>1
    <3> QED BY <3>1, <3>2, <3>3
  <2> QED BY <2>1, <2>2, <2>3, Zenon DEF Framed
<1> QED BY <1>6, <1>7, <1>8, <1>9, <1>11, <1>12, <1>13, Zenon DEF Extends, M, all, N, ms2

-------------------------------------------------------------------------------
(* The inductive invariant.  Of all bytes meant for the connection the       *)
(* socket has taken w and the reader has had r.                              *)

\* The messages the threads may send are such as a header can announce: all but a
\* clipboard of more than LargestClipboard bytes, for which the theorems do not hold
\* (protocol.cpp:225 cuts its length to 16 bits).
MessagesFit == FitsAll(Messages)

HeaderOf(m) == [code |-> Code[m.type], length |-> Len(PayloadBytes(m))]

\* What the writer has left is the end of what was meant for the connection.
Taken(total, w) == link = "open" =>
  /\ writer = Free => w = Len(total)
  /\ writer # Free => left[writer] = Pack(Piece(total, w, Len(total)))

Carried(total, r, w) == r <= w /\ w <= Len(total) /\ stream = Pack(Piece(total, r, w))

\* The reader is at the start of a message or of its payload.
Reads(at, r) ==
  /\ Len(delivered) <= Len(sent)
  /\ reading = AtHeader => r = at[Len(delivered)]
  /\ reading # AtHeader => /\ Len(delivered) < Len(sent)
                           /\ r = at[Len(delivered)] + HeaderSize
                           /\ reading = HeaderOf(sent[Len(delivered) + 1])

Flow(total, at, r, w) ==
  Framed(total, sent, at) /\ Taken(total, w) /\ Carried(total, r, w) /\ Reads(at, r)

Flows ==
  \E total \in Seq(Byte), at \in [0 .. Len(sent) -> Nat], r \in Nat, w \in Nat : Flow(total, at, r, w)

\* Whoever waits for the lock has its message whole; whoever has it, has a message.
Ready ==
  /\ \A t \in Sender : Waits(t) => \E n \in Int : left[t] = SerializeMessage(outgoing[t], n)
  /\ writer # Free => outgoing[writer] # Nothing

Inv == TypeOK /\ Ready /\ Flows /\ InOrder

LEMMA Serialized ==
  ASSUME MessagesFit, NEW m \in Messages, NEW n \in Int
  PROVE  FitsHeader(m) /\ IsBytes(SerializeMessage(m, n))
<1>1. FitsHeader(m)
  BY Zenon DEF MessagesFit, FitsAll
<1> QED BY <1>1, MessageIs, PackIsBytes, Zenon

\* A step that leaves what was sent and read alone, and the bytes on their way.
LEMMA FlowStays ==
  ASSUME NEW total, NEW at, NEW r, NEW w, Flow(total, at, r, w),
         UNCHANGED <<sent, delivered, reading, stream>>, Taken(total, w)'
  PROVE  Flow(total, at, r, w)'
BY Zenon DEF Flow, Carried, Reads

LEMMA InOrderStays ==
  ASSUME InOrder, UNCHANGED <<sent, delivered>>
  PROVE  InOrder'
BY Zenon DEF InOrder

LEMMA InitInv == Init => Inv
<1> SUFFICES ASSUME Init PROVE Inv
  OBVIOUS
<1>1. /\ sequence = 0 /\ shorts = 0 /\ writer = Free
      /\ outgoing = [t \in Sender |-> Nothing] /\ left = [t \in Sender |-> <<>>]
      /\ sent = <<>> /\ link = "open" /\ stream = <<>>
      /\ reading = AtHeader /\ connected = TRUE /\ delivered = <<>>
  BY Zenon DEF Init
<1>2. TypeOK
  <2>1. sequence \in 0 .. MaxSent /\ shorts \in 0 .. MaxShort
    BY <1>1, BoundsAssumption
  <2>2. writer \in Sender \cup {Free} /\ outgoing \in [Sender -> Messages \cup {Nothing}]
    BY <1>1
  <2>3. left = [t \in Sender |-> left[t]] /\ \A t \in Sender : IsBytes(left[t])
    BY <1>1, NoBytes
  <2>4. sent \in Seq(Messages) /\ link \in {"open", "cut"} /\ connected \in BOOLEAN
    BY <1>1
  <2>5. IsBytes(stream)
    BY <1>1, NoBytes
  <2>6. reading \in [code : -1 .. TwoTo16 - 1, length : 0 .. TwoTo16 - 1]
    <3>1. -1 \in -1 .. TwoTo16 - 1 /\ HeaderSize \in 0 .. TwoTo16 - 1
      BY SMT DEF TwoTo16, HeaderSize
    <3> QED BY <1>1, <3>1 DEF AtHeader
  <2>7. delivered \in Seq({Seen(m) : m \in Messages})
    BY <1>1
  <2> QED BY <2>1, <2>2, <2>3, <2>4, <2>5, <2>6, <2>7, Zenon DEF TypeOK
<1>3. Ready
  <2>1. \A t \in Sender : outgoing[t] = Nothing
    BY <1>1
  <2> QED BY <1>1, <2>1, Zenon DEF Ready, Waits
<1>4. Flows
  <2> DEFINE at == [k \in 0 .. Len(<<>>) |-> 0]
  <2>1. at \in [0 .. Len(sent) -> Nat] /\ Framed(<<>>, sent, at)
    BY <1>1, NothingFramed, Zenon
  <2>2. Len(<<>>) = 0 /\ at[0] = 0 /\ 0 \in Nat /\ 0 <= 0
    OBVIOUS
  <2>3. Taken(<<>>, 0)
    BY <1>1, <2>2, Zenon DEF Taken
  <2>4. Piece(<<>>, 0, 0) = <<>>
    BY <2>2, NoBytes, TakeDrop, Zenon
  <2>5. Carried(<<>>, 0, 0)
    BY <1>1, <2>2, <2>4, NoBytes, Zenon DEF Carried
  <2>6. Reads(at, 0)
    BY <1>1, <2>2, Zenon DEF Reads
  <2> HIDE DEF at
  <2>7. Flow(<<>>, at, 0, 0)
    BY <2>1, <2>3, <2>5, <2>6, Zenon DEF Flow
  <2> QED BY <2>1, <2>2, <2>7, NoBytes, Zenon DEF Flows
<1>5. InOrder
  BY <1>1 DEF InOrder
<1> QED BY <1>2, <1>3, <1>4, <1>5, Zenon DEF Inv

LEMMA SendMakesKeeps ==
  ASSUME MessagesFit, Inv, NEW t \in Sender, NEW m \in Messages, SendMakes(t, m)
  PROVE  Inv'
<1>1. /\ outgoing[t] = Nothing /\ sequence < MaxSent /\ sequence' = sequence + 1
      /\ outgoing' = [outgoing EXCEPT ![t] = m]
      /\ left' = [left EXCEPT ![t] = SerializeMessage(m, sequence)]
      /\ writer' = writer /\ sent' = sent /\ shorts' = shorts /\ link' = link /\ stream' = stream
      /\ reading' = reading /\ connected' = connected /\ delivered' = delivered
  BY Zenon DEF SendMakes, recvVars
<1>2. TypeOK /\ Ready /\ Flows /\ InOrder
  BY Zenon DEF Inv
<1>3. /\ sequence \in 0 .. MaxSent /\ writer \in Sender \cup {Free}
      /\ outgoing \in [Sender -> Messages \cup {Nothing}]
      /\ left = [u \in Sender |-> left[u]] /\ \A u \in Sender : IsBytes(left[u])
  BY <1>2, Zenon DEF TypeOK
<1>4. sequence \in Int /\ sequence + 1 \in 0 .. MaxSent
  BY <1>1, <1>3, BoundsAssumption
<1>5. /\ left' = [u \in Sender |-> left'[u]] /\ left'[t] = SerializeMessage(m, sequence)
      /\ \A u \in Sender : u # t => left'[u] = left[u]
  BY <1>1, <1>3
<1>6. /\ outgoing' \in [Sender -> Messages \cup {Nothing}] /\ outgoing'[t] = m
      /\ \A u \in Sender : u # t => outgoing'[u] = outgoing[u]
  BY <1>1, <1>3
<1>7. TypeOK'
  <2>1. \A u \in Sender : IsBytes(left'[u])
    BY <1>3, <1>4, <1>5, Serialized, Zenon
  <2> QED BY <1>1, <1>2, <1>4, <1>5, <1>6, <2>1, Zenon DEF TypeOK
<1>8. writer # Free => writer \in Sender /\ writer # t
  BY <1>1, <1>2, <1>3, Zenon DEF Ready
<1>9. Ready'
  <2>1. ASSUME NEW u \in Sender, Waits(u)'
        PROVE  \E n \in Int : left'[u] = SerializeMessage(outgoing'[u], n)
    <3>1. CASE u = t
      BY <1>4, <1>5, <1>6, <3>1, Zenon
    <3>2. CASE u # t
      <4>1. Waits(u)
        BY <1>1, <1>6, <2>1, <3>2, Zenon DEF Waits
      <4> QED BY <1>2, <1>5, <1>6, <3>2, <4>1, Zenon DEF Ready
    <3> QED BY <3>1, <3>2
  <2>2. writer' # Free => outgoing'[writer'] # Nothing
    BY <1>1, <1>2, <1>6, <1>8, Zenon DEF Ready
  <2> QED BY <2>1, <2>2, Zenon DEF Ready
<1>10. Flows'
  <2>1. PICK total \in Seq(Byte), at \in [0 .. Len(sent) -> Nat], r \in Nat, w \in Nat :
          Flow(total, at, r, w)
    BY <1>2, Zenon DEF Flows
  <2>2. Taken(total, w)'
    BY <1>1, <1>5, <1>8, <2>1, Zenon DEF Taken, Flow
  <2>3. Flow(total, at, r, w)'
    BY <1>1, <2>1, <2>2, FlowStays, Zenon
  <2> QED BY <1>1, <2>3, Zenon DEF Flows
<1> QED BY <1>1, <1>2, <1>7, <1>9, <1>10, InOrderStays, Zenon DEF Inv

LEMMA SendLocksKeeps ==
  ASSUME MessagesFit, Inv, NEW t \in Sender, SendLocks(t)
  PROVE  Inv'
<1>1. /\ outgoing[t] # Nothing /\ Waits(t) /\ writer = Free
      /\ writer' = t /\ sent' = Append(sent, outgoing[t])
      /\ sequence' = sequence /\ outgoing' = outgoing /\ left' = left /\ shorts' = shorts
      /\ link' = link /\ stream' = stream
      /\ reading' = reading /\ connected' = connected /\ delivered' = delivered
  BY Zenon DEF SendLocks, Waits, recvVars
<1>2. TypeOK /\ Ready /\ Flows /\ InOrder
  BY Zenon DEF Inv
<1>3. sent \in Seq(Messages) /\ Len(sent) \in Nat
  <2>1. sent \in Seq(Messages)
    BY <1>2, Zenon DEF TypeOK
  <2> QED BY <2>1
<1>9. PICK m \in Messages : m = outgoing[t]
  <2>1. outgoing \in [Sender -> Messages \cup {Nothing}]
    BY <1>2, Zenon DEF TypeOK
  <2> QED BY <1>1, <2>1
<1>4. /\ sent' \in Seq(Messages) /\ Len(sent') = Len(sent) + 1
      /\ \A k \in 1 .. Len(sent) : sent'[k] = sent[k]
  BY <1>1, <1>3, <1>9, AppendProperties
<1>5. TypeOK'
  BY <1>1, <1>2, <1>4, Zenon DEF TypeOK
<1>6. Ready'
  <2>1. \A u \in Sender : Waits(u)' => Waits(u)
    BY <1>1, SenderAssumption, Zenon DEF Waits
  <2> QED BY <1>1, <1>2, <2>1, Zenon DEF Ready
<1>7. Flows'
  <2>1. PICK total \in Seq(Byte), at \in [0 .. Len(sent) -> Nat], r \in Nat, w \in Nat :
          Flow(total, at, r, w)
    BY <1>2, Zenon DEF Flows
  <2>2. Framed(total, sent, at) /\ Taken(total, w) /\ Carried(total, r, w) /\ Reads(at, r)
    BY <2>1, Zenon DEF Flow
  <2>3. PICK n \in Int : left[t] = SerializeMessage(m, n)
    BY <1>1, <1>2, <1>9, Zenon DEF Ready
  <2> DEFINE all == total \o MessageBytes(m, n)
  <2>4. /\ all \in Seq(Byte) /\ Len(total) <= Len(all)
        /\ Piece(all, Len(total), Len(all)) = MessageBytes(m, n)
        /\ \A i, j \in Nat : i <= j /\ j <= Len(total) => Piece(all, i, j) = Piece(total, i, j)
        /\ \E new \in [0 .. Len(sent) + 1 -> Nat] :
             /\ Framed(all, Append(sent, m), new)
             /\ \A k \in 0 .. Len(sent) : new[k] = at[k]
    <3>1. FitsAll(Messages) /\ sent \in Seq(Messages) /\ Framed(total, sent, at)
      BY <1>3, <2>2, Zenon DEF MessagesFit
    <3>2. Extends(total, sent, at, m, n)
      BY <3>1, FramedAppend, Zenon
    <3> QED BY <3>2, Zenon DEF Extends
  <2>5. left[t] = Pack(MessageBytes(m, n))
    BY <1>3, <2>3, Serialized, MessageIs, Zenon
  <2> HIDE DEF all
  <2>6. PICK new \in [0 .. Len(sent) + 1 -> Nat] :
          /\ Framed(all, Append(sent, m), new)
          /\ \A k \in 0 .. Len(sent) : new[k] = at[k]
    BY <2>4, Zenon
  <2>7. Framed(all, sent', new) /\ new \in [0 .. Len(sent') -> Nat]
    BY <1>1, <1>4, <1>9, <2>6, Zenon
  <2>8. Taken(all, w)'
    <3>1. link = "open" => w = Len(total)
      BY <1>1, <2>2, Zenon DEF Taken
    <3> QED BY <1>1, <2>4, <2>5, <3>1, SenderAssumption, Zenon DEF Taken
  <2>9. Carried(all, r, w)'
    <3>1. r <= w /\ w <= Len(total) /\ stream = Pack(Piece(total, r, w))
      BY <2>2, Zenon DEF Carried
    <3>2. w <= Len(all)
      <4>1. Len(total) \in Nat /\ Len(all) \in Nat
        BY <2>4
      <4> QED BY <2>4, <3>1, <4>1
    <3>3. Piece(all, r, w) = Piece(total, r, w)
      BY <2>4, <3>1, Zenon
    <3> QED BY <1>1, <3>1, <3>2, <3>3, Zenon DEF Carried
  <2>10. Reads(new, r)'
    <3>1. Len(delivered) \in Nat /\ Len(delivered) <= Len(sent)
      <4>1. delivered \in Seq({Seen(x) : x \in Messages})
        BY <1>2, Zenon DEF TypeOK
      <4> QED BY <2>2, <4>1 DEF Reads
    <3>2. new[Len(delivered)] = at[Len(delivered)]
      <4>1. Len(delivered) \in 0 .. Len(sent)
        BY <1>3, <3>1
      <4> QED BY <2>6, <4>1, Zenon
    <3>3. Len(delivered) < Len(sent) => sent'[Len(delivered) + 1] = sent[Len(delivered) + 1]
      <4>1. Len(delivered) < Len(sent) => Len(delivered) + 1 \in 1 .. Len(sent)
        BY <1>3, <3>1
      <4> QED BY <1>4, <4>1, Zenon
    <3>4. Len(delivered) <= Len(sent') /\ (Len(delivered) < Len(sent) => Len(delivered) < Len(sent'))
      BY <1>3, <1>4, <3>1
    <3> QED BY <1>1, <2>2, <3>2, <3>3, <3>4, Zenon DEF Reads
  <2>11. Flow(all, new, r, w)'
    BY <2>7, <2>8, <2>9, <2>10, Zenon DEF Flow
  <2> QED BY <2>4, <2>7, <2>11, Zenon DEF Flows
<1>8. InOrder'
  <2>1. Len(delivered) \in Nat /\ DOMAIN delivered = 1 .. Len(delivered) /\ Len(delivered) <= Len(sent)
    <3>1. delivered \in Seq({Seen(x) : x \in Messages})
      BY <1>2, Zenon DEF TypeOK
    <3> QED BY <1>2, <3>1 DEF InOrder
  <2>2. \A i \in DOMAIN delivered : i \in 1 .. Len(sent)
    BY <1>3, <2>1
  <2>3. Len(delivered) <= Len(sent')
    BY <1>3, <1>4, <2>1
  <2> QED BY <1>1, <1>2, <1>4, <2>2, <2>3, Zenon DEF InOrder
<1> QED BY <1>5, <1>6, <1>7, <1>8, Zenon DEF Inv

\* What is on its way, in parts.
LEMMA PieceParts ==
  ASSUME NEW c \in Seq(Byte), NEW a \in Nat, NEW b \in Nat, a <= b, b <= Len(c)
  PROVE  /\ Size(Pack(Piece(c, a, b))) = b - a /\ IsBytes(Pack(Piece(c, a, b)))
         /\ \A n \in Nat : n <= b - a =>
              /\ Take(Pack(Piece(c, a, b)), n) = Pack(Piece(c, a, a + n))
              /\ Drop(Pack(Piece(c, a, b)), n) = Pack(Piece(c, a + n, b))
<1> DEFINE d == Piece(c, a, b)
<1>1. d \in Seq(Byte) /\ Len(d) = b - a
  BY PieceIs
<1>2. \A i, j \in Nat : i <= j /\ j <= b - a => Piece(d, i, j) = Piece(c, a + i, a + j)
  BY PieceOfPiece
<1> HIDE DEF d
<1>3. Size(Pack(d)) = b - a /\ IsBytes(Pack(d))
  BY <1>1, SizePack, PackIsBytes, Zenon
<1>4. ASSUME NEW n \in Nat, n <= b - a
      PROVE  Take(Pack(d), n) = Pack(Piece(c, a, a + n)) /\ Drop(Pack(d), n) = Pack(Piece(c, a + n, b))
  <2>1. Take(Pack(d), n) = Pack(Piece(d, 0, n)) /\ Drop(Pack(d), n) = Pack(Piece(d, n, b - a))
    BY <1>1, <1>4, TakeDrop, Zenon
  <2>2. 0 \in Nat /\ 0 <= n /\ b - a \in Nat /\ b - a <= b - a /\ a + 0 = a /\ a + (b - a) = b
    OBVIOUS
  <2> DEFINE e == b - a
  <2>3. e \in Nat /\ e <= e /\ n <= e /\ \A i, j \in Nat : i <= j /\ j <= e => Piece(d, i, j) = Piece(c, a + i, a + j)
    BY <1>2, <1>4, <2>2
  <2> HIDE DEF e
  <2>4. Piece(d, 0, n) = Piece(c, a + 0, a + n) /\ Piece(d, n, e) = Piece(c, a + n, a + e)
    BY <2>2, <2>3, Zenon
  <2> QED BY <2>1, <2>2, <2>4, Zenon DEF e
<1> QED BY <1>3, <1>4, Zenon DEF d

LEMMA PiecesPacked ==
  ASSUME NEW c \in Seq(Byte), NEW a \in Nat, NEW b \in Nat, NEW d \in Nat,
         a <= b, b <= d, d <= Len(c)
  PROVE  Join(Pack(Piece(c, a, b)), Pack(Piece(c, b, d))) = Pack(Piece(c, a, d))
<1>1. b <= Len(c)
  OBVIOUS
<1>2. Piece(c, a, b) \in Seq(Byte) /\ Piece(c, b, d) \in Seq(Byte)
  BY <1>1, PieceIs, Zenon
<1>3. Piece(c, a, b) \o Piece(c, b, d) = Piece(c, a, d)
  BY PiecesJoin, Zenon
<1> QED BY <1>2, <1>3, JoinPack, Zenon

\* A step of a sender or of the connection: the reader is where it was.
LEMMA FlowMoves ==
  ASSUME NEW total, NEW at, NEW r, NEW w, NEW v, Flow(total, at, r, w),
         UNCHANGED <<sent, delivered, reading>>, Taken(total, v)', Carried(total, r, v)'
  PROVE  Flow(total, at, r, v)'
BY Zenon DEF Flow, Reads

\* send() returns: nobody else's message is touched.
LEMMA ReturnsKeeps ==
  ASSUME TypeOK, Ready, NEW t \in Sender, writer = t, Returns(t),
         left' = [left EXCEPT ![t] = <<>>]
  PROVE  /\ Ready' /\ writer' = Free /\ outgoing' \in [Sender -> Messages \cup {Nothing}]
         /\ left' = [u \in Sender |-> left'[u]] /\ \A u \in Sender : IsBytes(left'[u])
<1>1. /\ outgoing \in [Sender -> Messages \cup {Nothing}]
      /\ left = [u \in Sender |-> left[u]] /\ \A u \in Sender : IsBytes(left[u])
  BY Zenon DEF TypeOK
<1>2. writer' = Free /\ outgoing' = [outgoing EXCEPT ![t] = Nothing]
  BY Zenon DEF Returns
<1>3. /\ outgoing' \in [Sender -> Messages \cup {Nothing}] /\ outgoing'[t] = Nothing
      /\ \A u \in Sender : u # t => outgoing'[u] = outgoing[u]
  BY <1>1, <1>2
<1>4. /\ left' = [u \in Sender |-> left'[u]] /\ left'[t] = <<>>
      /\ \A u \in Sender : u # t => left'[u] = left[u]
  BY <1>1
<1>5. \A u \in Sender : IsBytes(left'[u])
  BY <1>1, <1>4, NoBytes, Zenon
<1>6. ASSUME NEW u \in Sender, Waits(u)'
      PROVE  \E n \in Int : left'[u] = SerializeMessage(outgoing'[u], n)
  <2>1. u # t
    BY <1>3, <1>6, Zenon DEF Waits
  <2>2. Waits(u)
    BY <1>3, <1>6, <2>1, Zenon DEF Waits
  <2> QED BY <1>3, <1>4, <2>1, <2>2, Zenon DEF Ready
<1> QED BY <1>2, <1>3, <1>4, <1>5, <1>6, Zenon DEF Ready

LEMMA SendWritesKeeps ==
  ASSUME Inv, NEW t \in Sender, SendWrites(t)
  PROVE  Inv'
<1>1. /\ writer = t /\ link = "open"
      /\ sequence' = sequence /\ sent' = sent /\ link' = link
      /\ reading' = reading /\ connected' = connected /\ delivered' = delivered
  BY Zenon DEF SendWrites, recvVars
<1>2. TypeOK /\ Ready /\ Flows /\ InOrder
  BY Zenon DEF Inv
<1>3. PICK total \in Seq(Byte), at \in [0 .. Len(sent) -> Nat], r \in Nat, w \in Nat :
        Flow(total, at, r, w)
  BY <1>2, Zenon DEF Flows
<1>4. /\ r <= w /\ w <= Len(total) /\ stream = Pack(Piece(total, r, w))
      /\ left[t] = Pack(Piece(total, w, Len(total)))
  BY <1>1, <1>3, SenderAssumption, Zenon DEF Flow, Taken, Carried
<1>5. Len(total) \in Nat /\ Len(total) <= Len(total) /\ r <= Len(total)
  BY <1>4
<1>6. ASSUME stream' = Join(stream, left[t]), left' = [left EXCEPT ![t] = <<>>], Returns(t),
             shorts' = shorts
      PROVE  TypeOK' /\ Ready' /\ Flows'
  <2>1. /\ Ready' /\ writer' = Free /\ outgoing' \in [Sender -> Messages \cup {Nothing}]
        /\ left' = [u \in Sender |-> left'[u]] /\ \A u \in Sender : IsBytes(left'[u])
    BY <1>1, <1>2, <1>6, ReturnsKeeps, Zenon
  <2>2. stream' = Pack(Piece(total, r, Len(total)))
    <3>1. Join(Pack(Piece(total, r, w)), Pack(Piece(total, w, Len(total)))) = Pack(Piece(total, r, Len(total)))
      BY <1>4, <1>5, PiecesPacked, Zenon
    <3> QED BY <1>4, <1>6, <3>1, Zenon
  <2>3. IsBytes(stream')
    BY <1>5, <2>2, PieceParts, Zenon
  <2>4. TypeOK'
    BY <1>1, <1>2, <1>6, <2>1, <2>3, Zenon DEF TypeOK
  <2>5. Taken(total, Len(total))' /\ Carried(total, r, Len(total))'
    BY <1>5, <2>1, <2>2, Zenon DEF Taken, Carried
  <2>6. Flow(total, at, r, Len(total))'
    BY <1>1, <1>3, <2>5, FlowMoves, Zenon
  <2> QED BY <1>1, <1>5, <2>1, <2>4, <2>6, Zenon DEF Flows
<1>7. ASSUME NEW n \in ShortWrites, n < Size(left[t]), shorts < MaxShort, shorts' = shorts + 1,
             stream' = Join(stream, Take(left[t], n)), left' = [left EXCEPT ![t] = Drop(@, n)],
             writer' = writer, outgoing' = outgoing
      PROVE  TypeOK' /\ Ready' /\ Flows'
  <2> DEFINE v == w + n
  <2>1. n \in Nat /\ Size(left[t]) = Len(total) - w /\ n <= Len(total) - w
    <3>1. n \in Nat
      BY BoundsAssumption
    <3>2. Size(left[t]) = Len(total) - w
      <4>1. Size(Pack(Piece(total, w, Len(total)))) = Len(total) - w
        BY <1>4, <1>5, PieceParts, Zenon
      <4> QED BY <1>4, <4>1, Zenon
    <3> QED BY <1>4, <1>5, <1>7, <3>1, <3>2
  <2>2. v \in Nat /\ w <= v /\ v <= Len(total) /\ r <= v
    BY <1>4, <1>5, <2>1
  <2>3. Take(left[t], n) = Pack(Piece(total, w, v)) /\ Drop(left[t], n) = Pack(Piece(total, v, Len(total)))
    <3>1. \A k \in Nat : k <= Len(total) - w =>
            /\ Take(Pack(Piece(total, w, Len(total))), k) = Pack(Piece(total, w, w + k))
            /\ Drop(Pack(Piece(total, w, Len(total))), k) = Pack(Piece(total, w + k, Len(total)))
      BY <1>4, <1>5, PieceParts, Zenon
    <3> QED BY <1>4, <2>1, <3>1, Zenon
  <2> HIDE DEF v
  <2>4. stream' = Pack(Piece(total, r, v))
    <3>1. Join(Pack(Piece(total, r, w)), Pack(Piece(total, w, v))) = Pack(Piece(total, r, v))
      BY <1>4, <2>2, PiecesPacked, Zenon
    <3> QED BY <1>4, <1>7, <2>3, <3>1, Zenon
  <2>5. /\ left = [u \in Sender |-> left[u]] /\ \A u \in Sender : IsBytes(left[u])
        /\ shorts \in 0 .. MaxShort
    BY <1>2, Zenon DEF TypeOK
  <2>6. /\ left' = [u \in Sender |-> left'[u]] /\ left'[t] = Pack(Piece(total, v, Len(total)))
        /\ \A u \in Sender : u # t => left'[u] = left[u]
    BY <1>7, <2>3, <2>5
  <2>7. IsBytes(stream') /\ IsBytes(left'[t])
    <3>1. IsBytes(Pack(Piece(total, r, v))) /\ IsBytes(Pack(Piece(total, v, Len(total))))
      BY <1>5, <2>2, PieceParts, Zenon
    <3> QED BY <2>4, <2>6, <3>1, Zenon
  <2>8. \A u \in Sender : IsBytes(left'[u])
    BY <2>5, <2>6, <2>7, Zenon
  <2>9. shorts' \in 0 .. MaxShort
    BY <1>7, <2>5, BoundsAssumption
  <2>10. TypeOK'
    BY <1>1, <1>2, <1>7, <2>6, <2>7, <2>8, <2>9, Zenon DEF TypeOK
  <2>11. Ready'
    <3>1. ASSUME NEW u \in Sender, Waits(u)'
          PROVE  \E k \in Int : left'[u] = SerializeMessage(outgoing'[u], k)
      <4>1. u # t /\ Waits(u)
        BY <1>1, <1>7, <3>1, Zenon DEF Waits
      <4> QED BY <1>2, <1>7, <2>6, <4>1, Zenon DEF Ready
    <3> QED BY <1>2, <1>7, <3>1, Zenon DEF Ready
  <2>12. Taken(total, v)' /\ Carried(total, r, v)'
    BY <1>1, <1>7, <2>2, <2>4, <2>6, SenderAssumption, Zenon DEF Taken, Carried
  <2>13. Flow(total, at, r, v)'
    BY <1>1, <1>3, <2>12, FlowMoves, Zenon
  <2> QED BY <1>1, <2>2, <2>10, <2>11, <2>13, Zenon DEF Flows
<1>8. TypeOK' /\ Ready' /\ Flows'
  BY <1>6, <1>7, Zenon DEF SendWrites
<1> QED BY <1>1, <1>2, <1>8, InOrderStays, Zenon DEF Inv

LEMMA SendFailsKeeps ==
  ASSUME Inv, NEW t \in Sender, SendFails(t)
  PROVE  Inv'
<1>1. /\ writer = t /\ link = "cut" /\ left' = [left EXCEPT ![t] = <<>>] /\ Returns(t)
      /\ sequence' = sequence /\ sent' = sent /\ shorts' = shorts /\ link' = link /\ stream' = stream
      /\ reading' = reading /\ connected' = connected /\ delivered' = delivered
  BY Zenon DEF SendFails, recvVars
<1>2. TypeOK /\ Ready /\ Flows /\ InOrder
  BY Zenon DEF Inv
<1>3. /\ Ready' /\ writer' = Free /\ outgoing' \in [Sender -> Messages \cup {Nothing}]
      /\ left' = [u \in Sender |-> left'[u]] /\ \A u \in Sender : IsBytes(left'[u])
  BY <1>1, <1>2, ReturnsKeeps, Zenon
<1>4. TypeOK'
  BY <1>1, <1>2, <1>3, Zenon DEF TypeOK
<1>5. PICK total \in Seq(Byte), at \in [0 .. Len(sent) -> Nat], r \in Nat, w \in Nat :
        Flow(total, at, r, w)
  BY <1>2, Zenon DEF Flows
<1>6. Taken(total, w)'
  BY <1>1, Zenon DEF Taken
<1>7. Flow(total, at, r, w)'
  BY <1>1, <1>5, <1>6, FlowStays, Zenon
<1> QED BY <1>1, <1>2, <1>3, <1>4, <1>7, InOrderStays, Zenon DEF Inv, Flows

LEMMA LinkCutKeeps ==
  ASSUME Inv, LinkCut
  PROVE  Inv'
<1>1. /\ link' = "cut" /\ (stream' = stream \/ stream' = <<>>)
      /\ sequence' = sequence /\ writer' = writer /\ outgoing' = outgoing /\ left' = left
      /\ sent' = sent /\ shorts' = shorts
      /\ reading' = reading /\ connected' = connected /\ delivered' = delivered
  BY Zenon DEF LinkCut, sendVars, recvVars
<1>2. TypeOK /\ Ready /\ Flows /\ InOrder
  BY Zenon DEF Inv
<1>3. TypeOK'
  BY <1>1, <1>2, NoBytes, Zenon DEF TypeOK
<1>4. Ready'
  BY <1>1, <1>2, Zenon DEF Ready, Waits
<1>5. PICK total \in Seq(Byte), at \in [0 .. Len(sent) -> Nat], r \in Nat, w \in Nat :
        Flow(total, at, r, w)
  BY <1>2, Zenon DEF Flows
<1>6. r <= w /\ w <= Len(total) /\ stream = Pack(Piece(total, r, w))
  BY <1>5, Zenon DEF Flow, Carried
<1>7. r <= r /\ r <= Len(total)
  BY <1>6
<1>8. Pack(Piece(total, r, r)) = <<>>
  BY <1>7, TakeDrop, NoBytes, Zenon
<1>9. PICK v \in {r, w} : stream' = Pack(Piece(total, r, v))
  BY <1>1, <1>6, <1>8, Zenon
<1>10. v \in Nat /\ Taken(total, v)' /\ Carried(total, r, v)'
  BY <1>1, <1>6, <1>7, <1>9, Zenon DEF Taken, Carried
<1>11. Flow(total, at, r, v)'
  BY <1>1, <1>5, <1>10, FlowMoves, Zenon
<1>12. Flows'
  BY <1>1, <1>10, <1>11, Zenon DEF Flows
<1> QED BY <1>1, <1>2, <1>3, <1>4, <1>12, InOrderStays, Zenon DEF Inv

\* Where the reader is, and what it has before it.
LEMMA ReaderIs ==
  ASSUME Inv, NEW total \in Seq(Byte), NEW at \in [0 .. Len(sent) -> Nat], NEW r \in Nat,
         NEW w \in Nat, Flow(total, at, r, w)
  PROVE  /\ Framed(total, sent, at) /\ Taken(total, w)
         /\ sent \in Seq(Messages) /\ Len(sent) \in Nat
         /\ delivered \in Seq({Seen(x) : x \in Messages}) /\ Len(delivered) \in 0 .. Len(sent)
         /\ r <= w /\ w <= Len(total) /\ Len(total) \in Nat /\ stream = Pack(Piece(total, r, w))
         /\ Size(stream) = w - r
         /\ reading = AtHeader => r = at[Len(delivered)]
         /\ reading # AtHeader => /\ Len(delivered) < Len(sent)
                                  /\ r = at[Len(delivered)] + HeaderSize
                                  /\ reading = HeaderOf(sent[Len(delivered) + 1])
<1>1. Framed(total, sent, at) /\ Taken(total, w) /\ Carried(total, r, w) /\ Reads(at, r)
  BY Zenon DEF Flow
<1>2. sent \in Seq(Messages) /\ delivered \in Seq({Seen(x) : x \in Messages})
  BY Zenon DEF Inv, TypeOK
<1>3. Len(sent) \in Nat /\ Len(delivered) \in Nat /\ Len(total) \in Nat
  BY <1>2
<1>4. Len(delivered) <= Len(sent)
  BY <1>1, Zenon DEF Reads
<1>5. Len(delivered) \in 0 .. Len(sent)
  BY <1>3, <1>4
<1>6. r <= w /\ w <= Len(total) /\ stream = Pack(Piece(total, r, w))
  BY <1>1, Zenon DEF Carried
<1>7. Size(Pack(Piece(total, r, w))) = w - r
  BY <1>6, PieceParts, Zenon
<1> QED BY <1>1, <1>2, <1>3, <1>5, <1>6, <1>7, Zenon DEF Reads

LEMMA HeaderRange ==
  /\ \A c \in 0 .. 255 : c \in -1 .. TwoTo16 - 1 /\ c # -1
  /\ -1 \in -1 .. TwoTo16 - 1 /\ HeaderSize \in 0 .. TwoTo16 - 1
<1>1. ASSUME NEW c \in 0 .. 255
      PROVE  c \in Int /\ 0 <= c /\ c <= TwoTo16 - 1
  BY SMT DEF TwoTo16
<1>2. -1 \in -1 .. TwoTo16 - 1 /\ HeaderSize \in 0 .. TwoTo16 - 1
  BY SMT DEF TwoTo16, HeaderSize
<1>3. TwoTo16 - 1 \in Int
  BY SMT DEF TwoTo16
<1>4. \A c \in Int, z \in Int : 0 <= c /\ c <= z => c \in -1 .. z /\ c # -1
  OBVIOUS
<1> QED BY <1>1, <1>2, <1>3, <1>4, Zenon

LEMMA RecvHeaderKeeps ==
  ASSUME MessagesFit, Inv, RecvHeader
  PROVE  Inv'
<1>1. /\ reading = AtHeader /\ Size(stream) >= HeaderSize
      /\ reading' = [code |-> Read(stream, 1, 2), length |-> PayloadLength(stream)]
      /\ stream' = Drop(stream, HeaderSize)
      /\ sequence' = sequence /\ writer' = writer /\ outgoing' = outgoing /\ left' = left
      /\ sent' = sent /\ shorts' = shorts /\ link' = link /\ connected' = connected
      /\ delivered' = delivered
  BY Zenon DEF RecvHeader, Arrived, Consume, sendVars
<1>2. TypeOK /\ Ready /\ Flows /\ InOrder
  BY Zenon DEF Inv
<1>3. PICK total \in Seq(Byte), at \in [0 .. Len(sent) -> Nat], r \in Nat, w \in Nat :
        Flow(total, at, r, w)
  BY <1>2, Zenon DEF Flows
<1>4. /\ Framed(total, sent, at) /\ Taken(total, w) /\ sent \in Seq(Messages) /\ Len(sent) \in Nat
      /\ Len(delivered) \in 0 .. Len(sent) /\ r = at[Len(delivered)]
      /\ r <= w /\ w <= Len(total) /\ Len(total) \in Nat /\ stream = Pack(Piece(total, r, w))
      /\ Size(stream) = w - r
  BY <1>1, <1>3, ReaderIs, Zenon
<1>5. HeaderSize \in Nat /\ HeaderSize > 0 /\ HeaderSize <= w - r
  BY <1>1, <1>4, SMT DEF HeaderSize
<1>6. PICK k \in 0 .. Len(sent) : k = Len(delivered)
  BY <1>4, Zenon
<1>7. k # Len(sent)
  <2> SUFFICES ASSUME k = Len(sent) PROVE FALSE
    OBVIOUS
  <2>1. r = Len(total)
    BY <1>4, <1>6, Zenon DEF Framed
  <2> QED BY <1>4, <1>5, <2>1
<1>8. k \in 0 .. Len(sent) - 1
  BY <1>4, <1>7
<1>9. Found(total, sent, at, k)
  BY <1>4, <1>8, FramedMessage, Zenon DEF MessagesFit
<1>10. PICK m \in Messages : m = sent[k + 1]
  BY <1>9, Zenon DEF Found
<1>11. FitsHeader(m) /\ \E n \in Int : Piece(total, r, r + HeaderSize) = HeaderBytes(m, n)
  BY <1>4, <1>6, <1>9, <1>10, Zenon DEF Found
<1>12. /\ r + HeaderSize \in Nat /\ r + HeaderSize <= w /\ r <= r + HeaderSize /\ 0 \in Nat
       /\ 0 <= HeaderSize /\ r + 0 = r
  <2>1. r <= w
    BY <1>4, Zenon
  <2> QED BY <1>5, <2>1, SMT
<1>13. Read(stream, 1, 2) = Code[m.type] /\ PayloadLength(stream) = Len(PayloadBytes(m))
  <2> DEFINE c == Piece(total, r, w)
  <2>1. c \in Seq(Byte) /\ Len(c) = w - r
    BY <1>4, PieceIs, Zenon
  <2>2. HeaderSize <= Len(c)
    BY <1>5, <2>1, Zenon
  <2>3. Piece(c, 0, HeaderSize) = Piece(total, r + 0, r + HeaderSize)
    <3>1. \A i, j \in Nat : i <= j /\ j <= w - r => Piece(c, i, j) = Piece(total, r + i, r + j)
      <4>1. r <= w /\ w <= Len(total)
        BY <1>4, Zenon
      <4> QED BY <4>1, PieceOfPiece
    <3> HIDE DEF c
    <3> QED BY <1>5, <1>12, <3>1, Zenon
  <2> HIDE DEF c
  <2>4. PICK n \in Int : Piece(c, 0, HeaderSize) = HeaderBytes(m, n)
    BY <1>11, <1>12, <2>3, Zenon
  <2>5. Read(Pack(c), 1, 2) = Code[m.type] /\ PayloadLength(Pack(c)) = Len(PayloadBytes(m))
    BY <1>11, <2>1, <2>2, <2>4, HeaderReadsBack, Zenon
  <2> QED BY <1>4, <2>5, Zenon DEF c
<1>14. reading' = HeaderOf(m)
  BY <1>1, <1>13, Zenon DEF HeaderOf
<1>15. Code[m.type] \in 0 .. 255 /\ Len(PayloadBytes(m)) \in 0 .. TwoTo16 - 1
  <2>1. m.type \in MessageType
    BY <1>11, Zenon DEF FitsHeader, Fits
  <2> QED BY <1>11, <2>1, CodesAre, PayloadIs, Zenon
<1>16. /\ reading' \in [code : -1 .. TwoTo16 - 1, length : 0 .. TwoTo16 - 1]
       /\ reading' # AtHeader
  <2>1. Code[m.type] \in -1 .. TwoTo16 - 1 /\ Code[m.type] # -1
    BY <1>15, HeaderRange, Zenon
  <2> QED BY <1>14, <1>15, <2>1 DEF HeaderOf, AtHeader
<1>17. stream' = Pack(Piece(total, r + HeaderSize, w)) /\ IsBytes(stream')
  <2>1. Drop(Pack(Piece(total, r, w)), HeaderSize) = Pack(Piece(total, r + HeaderSize, w))
    <3>1. \A n \in Nat : n <= w - r =>
            Drop(Pack(Piece(total, r, w)), n) = Pack(Piece(total, r + n, w))
      <4>1. r <= w /\ w <= Len(total)
        BY <1>4, Zenon
      <4> QED BY <4>1, PieceParts, Zenon
    <3> QED BY <1>5, <3>1, Zenon
  <2>2. IsBytes(Pack(Piece(total, r + HeaderSize, w)))
    BY <1>4, <1>12, PieceParts, Zenon
  <2> QED BY <1>1, <1>4, <2>1, <2>2, Zenon
<1>18. TypeOK'
  BY <1>1, <1>2, <1>16, <1>17, Zenon DEF TypeOK
<1>19. Ready'
  BY <1>1, <1>2, Zenon DEF Ready, Waits
<1>20. Taken(total, w)' /\ Carried(total, r + HeaderSize, w)'
  BY <1>1, <1>4, <1>12, <1>17, Zenon DEF Taken, Carried
<1>21. Reads(at, r + HeaderSize)'
  <2>1. k < Len(sent) /\ k <= Len(sent)
    BY <1>4, <1>8
  <2> QED BY <1>1, <1>4, <1>6, <1>10, <1>14, <1>16, <2>1, Zenon DEF Reads
<1>22. Flow(total, at, r + HeaderSize, w)'
  BY <1>1, <1>4, <1>20, <1>21, Zenon DEF Flow
<1>23. Flows'
  BY <1>1, <1>12, <1>22, Zenon DEF Flows
<1> QED BY <1>1, <1>2, <1>18, <1>19, <1>23, InOrderStays, Zenon DEF Inv

LEMMA RecvPayloadKeeps ==
  ASSUME MessagesFit, Inv, RecvPayload
  PROVE  Inv'
<1> DEFINE got == DeserializePayload(reading.code, Take(stream, reading.length))
<1>1. /\ reading # AtHeader /\ Size(stream) >= reading.length
      /\ delivered' = IF got = Malformed THEN delivered ELSE Append(delivered, got)
      /\ stream' = Drop(stream, reading.length) /\ reading' = AtHeader
      /\ sequence' = sequence /\ writer' = writer /\ outgoing' = outgoing /\ left' = left
      /\ sent' = sent /\ shorts' = shorts /\ link' = link /\ connected' = connected
  BY Zenon DEF RecvPayload, Arrived, Consume, sendVars
<1>2. TypeOK /\ Ready /\ Flows /\ InOrder
  BY Zenon DEF Inv
<1>3. PICK total \in Seq(Byte), at \in [0 .. Len(sent) -> Nat], r \in Nat, w \in Nat :
        Flow(total, at, r, w)
  BY <1>2, Zenon DEF Flows
<1>4. /\ Framed(total, sent, at) /\ Taken(total, w) /\ sent \in Seq(Messages) /\ Len(sent) \in Nat
      /\ delivered \in Seq({Seen(x) : x \in Messages}) /\ Len(delivered) \in 0 .. Len(sent)
      /\ r <= w /\ w <= Len(total) /\ Len(total) \in Nat /\ stream = Pack(Piece(total, r, w))
      /\ Size(stream) = w - r
      /\ Len(delivered) < Len(sent) /\ r = at[Len(delivered)] + HeaderSize
      /\ reading = HeaderOf(sent[Len(delivered) + 1])
  BY <1>1, <1>3, ReaderIs, Zenon
<1>5. PICK k \in 0 .. Len(sent) : k = Len(delivered)
  BY <1>4, Zenon
<1>6. k \in 0 .. Len(sent) - 1 /\ k \in Nat /\ k + 1 \in 1 .. Len(sent) /\ k + 1 <= Len(sent)
  BY <1>4, <1>5
<1>7. Found(total, sent, at, k)
  BY <1>4, <1>6, FramedMessage, Zenon DEF MessagesFit
<1>8. PICK m \in Messages : m = sent[k + 1]
  BY <1>7, Zenon DEF Found
<1>9. PICK L \in Nat : L = Len(PayloadBytes(m))
  BY <1>7, <1>8, Zenon DEF Found
<1>10. PICK b \in Nat : b = at[k + 1]
  BY <1>7, Zenon DEF Found
<1>11. /\ FitsHeader(m) /\ at[k] \in Nat /\ b = at[k] + (HeaderSize + L)
       /\ Piece(total, r, b) = PayloadBytes(m) /\ b <= Len(total)
  BY <1>4, <1>5, <1>7, <1>8, <1>9, <1>10, Zenon DEF Found
<1>12. reading.code = Code[m.type] /\ reading.length = L
  BY <1>4, <1>5, <1>8, <1>9 DEF HeaderOf
<1>13. /\ b = r + L /\ L <= w - r /\ b <= w /\ r <= b
  <2>1. PICK a \in Nat : a = at[k]
    BY <1>11, Zenon
  <2>2. r = a + HeaderSize /\ b = a + (HeaderSize + L)
    BY <1>4, <1>5, <1>11, <2>1, Zenon
  <2>3. HeaderSize \in Nat
    BY DEF HeaderSize
  <2>4. w - r >= L /\ r <= w
    BY <1>1, <1>4, <1>12, Zenon
  <2> QED BY <2>2, <2>3, <2>4, SMT
<1>14. Take(stream, L) = Pack(PayloadBytes(m)) /\ Drop(stream, L) = Pack(Piece(total, b, w))
  <2>1. /\ Take(Pack(Piece(total, r, w)), L) = Pack(Piece(total, r, r + L))
        /\ Drop(Pack(Piece(total, r, w)), L) = Pack(Piece(total, r + L, w))
    <3>1. \A n \in Nat : n <= w - r =>
            /\ Take(Pack(Piece(total, r, w)), n) = Pack(Piece(total, r, r + n))
            /\ Drop(Pack(Piece(total, r, w)), n) = Pack(Piece(total, r + n, w))
      <4>1. r <= w /\ w <= Len(total)
        BY <1>4, Zenon
      <4> QED BY <4>1, PieceParts, Zenon
    <3> QED BY <1>13, <3>1, Zenon
  <2> QED BY <1>4, <1>11, <1>13, <2>1, Zenon
<1>15. got = Seen(m) /\ got # Malformed
  BY <1>11, <1>12, <1>14, PayloadReadsBack, SeenIs, Zenon
<1> HIDE DEF got
<1>16. delivered' = Append(delivered, Seen(m))
  BY <1>1, <1>15, Zenon
<1> DEFINE S == {Seen(x) : x \in Messages}
<1>17. Seen(m) \in S
  BY Zenon
<1>18. delivered \in Seq(S)
  BY <1>4, Zenon
<1> HIDE DEF S
<1>19. /\ delivered' \in Seq(S) /\ Len(delivered') = k + 1 /\ delivered'[k + 1] = Seen(m)
       /\ \A i \in 1 .. k : delivered'[i] = delivered[i]
  BY <1>5, <1>16, <1>17, <1>18, AppendProperties
<1>20. stream' = Pack(Piece(total, b, w)) /\ IsBytes(stream')
  <2>1. IsBytes(Pack(Piece(total, b, w)))
    BY <1>4, <1>13, PieceParts, Zenon
  <2> QED BY <1>1, <1>12, <1>14, <2>1, Zenon
<1>21. TypeOK'
  <2>1. reading' \in [code : -1 .. TwoTo16 - 1, length : 0 .. TwoTo16 - 1]
    BY <1>1, HeaderRange DEF AtHeader
  <2> QED BY <1>1, <1>2, <1>19, <1>20, <2>1, Zenon DEF TypeOK, S
<1>22. Ready'
  BY <1>1, <1>2, Zenon DEF Ready, Waits
<1>23. Taken(total, w)' /\ Carried(total, b, w)'
  BY <1>1, <1>4, <1>13, <1>20, Zenon DEF Taken, Carried
<1>24. Reads(at, b)'
  BY <1>1, <1>6, <1>10, <1>19, Zenon DEF Reads
<1>25. Flow(total, at, b, w)'
  BY <1>1, <1>4, <1>23, <1>24, Zenon DEF Flow
<1>26. Flows'
  BY <1>1, <1>25, Zenon DEF Flows
<1>27. InOrder'
  <2>1. DOMAIN delivered' = 1 .. k + 1 /\ DOMAIN delivered = 1 .. k
    BY <1>5, <1>18, <1>19
  <2>2. ASSUME NEW i \in 1 .. k + 1
        PROVE  delivered'[i] = Seen(sent[i])
    <3>1. CASE i = k + 1
      BY <1>8, <1>19, <3>1, Zenon
    <3>2. CASE i # k + 1
      <4>1. i \in 1 .. k
        BY <1>6, <3>2
      <4> QED BY <1>2, <1>19, <2>1, <4>1, Zenon DEF InOrder
    <3> QED BY <3>1, <3>2
  <2> QED BY <1>1, <1>6, <1>19, <2>1, <2>2, Zenon DEF InOrder
<1> QED BY <1>21, <1>22, <1>26, <1>27, Zenon DEF Inv

LEMMA RecvEndsKeeps ==
  ASSUME Inv, RecvEnds
  PROVE  Inv'
<1>1. /\ connected' = FALSE
      /\ sequence' = sequence /\ writer' = writer /\ outgoing' = outgoing /\ left' = left
      /\ sent' = sent /\ shorts' = shorts /\ link' = link /\ stream' = stream
      /\ reading' = reading /\ delivered' = delivered
  BY Zenon DEF RecvEnds, sendVars
<1>2. TypeOK /\ Ready /\ Flows /\ InOrder
  BY Zenon DEF Inv
<1>3. connected' \in BOOLEAN
  BY <1>1
<1>4. TypeOK'
  BY <1>1, <1>2, <1>3, Zenon DEF TypeOK
<1>5. Ready'
  BY <1>1, <1>2, Zenon DEF Ready, Waits
<1>6. PICK total \in Seq(Byte), at \in [0 .. Len(sent) -> Nat], r \in Nat, w \in Nat :
        Flow(total, at, r, w)
  BY <1>2, Zenon DEF Flows
<1>7. Taken(total, w)'
  BY <1>1, <1>6, Zenon DEF Taken, Flow
<1>8. Flow(total, at, r, w)'
  BY <1>1, <1>6, <1>7, FlowStays, Zenon
<1> QED BY <1>1, <1>2, <1>4, <1>5, <1>8, InOrderStays, Zenon DEF Inv, Flows

LEMMA NothingKeeps ==
  ASSUME Inv, UNCHANGED vars
  PROVE  Inv'
<1>1. /\ sequence' = sequence /\ writer' = writer /\ outgoing' = outgoing /\ left' = left
      /\ sent' = sent /\ shorts' = shorts /\ link' = link /\ stream' = stream
      /\ reading' = reading /\ connected' = connected /\ delivered' = delivered
  BY Zenon DEF vars
<1>2. TypeOK /\ Ready /\ Flows /\ InOrder
  BY Zenon DEF Inv
<1>3. TypeOK'
  BY <1>1, <1>2, Zenon DEF TypeOK
<1>4. Ready'
  BY <1>1, <1>2, Zenon DEF Ready, Waits
<1>5. PICK total \in Seq(Byte), at \in [0 .. Len(sent) -> Nat], r \in Nat, w \in Nat :
        Flow(total, at, r, w)
  BY <1>2, Zenon DEF Flows
<1>6. Taken(total, w)'
  BY <1>1, <1>5, Zenon DEF Taken, Flow
<1>7. Flow(total, at, r, w)'
  BY <1>1, <1>5, <1>6, FlowStays, Zenon
<1> QED BY <1>1, <1>2, <1>3, <1>4, <1>7, InOrderStays, Zenon DEF Inv, Flows

LEMMA InvInductive == ASSUME MessagesFit PROVE Spec => []Inv
<1>1. Inv /\ [Next]_vars => Inv'
  <2> SUFFICES ASSUME Inv, [Next]_vars PROVE Inv'
    OBVIOUS
  <2>1. ASSUME NEW t \in Sender, NEW m \in Messages, SendMakes(t, m) PROVE Inv'
    BY <2>1, SendMakesKeeps, Zenon
  <2>2. ASSUME NEW t \in Sender, SendStep(t) PROVE Inv'
    BY <2>2, SendLocksKeeps, SendWritesKeeps, SendFailsKeeps, Zenon DEF SendStep
  <2>3. CASE RecvStep
    BY <2>3, RecvHeaderKeeps, RecvPayloadKeeps, RecvEndsKeeps, Zenon DEF RecvStep
  <2>4. CASE LinkCut
    BY <2>4, LinkCutKeeps, Zenon
  <2>5. CASE UNCHANGED vars
    BY <2>5, NothingKeeps, Zenon
  <2> QED BY <2>1, <2>2, <2>3, <2>4, <2>5, Zenon DEF Next
<1> QED BY <1>1, InitInv, PTL DEF Spec

-------------------------------------------------------------------------------
(* What holds of every run, for any threads, bounds and messages that fit.   *)

\* The threads hold the lock, and the bytes on their way are bytes: every value of
\* the model is of its type, the header read by recv_loop included.
THEOREM TypeCorrect == ASSUME MessagesFit PROVE Spec => []TypeOK
<1>1. Inv => TypeOK
  BY Zenon DEF Inv
<1> QED BY <1>1, InvInductive, PTL

\* README.md:47 "Must arrive in order": however send() is interleaved, and however
\* short the writes of the socket, recv_loop finds the messages whole and in the order
\* in which send_mutex_ was had for them, with nothing in between.
THEOREM InOrderHolds == ASSUME MessagesFit PROVE Spec => []InOrder
<1>1. Inv => InOrder
  BY Zenon DEF Inv
<1> QED BY <1>1, InvInductive, PTL

LEMMA NothingHeldBackFollows ==
  ASSUME MessagesFit, Inv
  PROVE  NothingHeldBack
<1> SUFFICES ASSUME \A t \in Sender : outgoing[t] = Nothing, link = "open",
                    Size(stream) < reading.length
             PROVE  Len(delivered) = Len(sent)
  BY Zenon DEF NothingHeldBack
<1>1. PICK total \in Seq(Byte), at \in [0 .. Len(sent) -> Nat], r \in Nat, w \in Nat :
        Flow(total, at, r, w)
  BY Zenon DEF Inv, Flows
<1>2. /\ Framed(total, sent, at) /\ Taken(total, w) /\ sent \in Seq(Messages) /\ Len(sent) \in Nat
      /\ Len(delivered) \in 0 .. Len(sent)
      /\ r <= w /\ w <= Len(total) /\ Len(total) \in Nat /\ Size(stream) = w - r
      /\ reading = AtHeader => r = at[Len(delivered)]
      /\ reading # AtHeader => /\ Len(delivered) < Len(sent)
                               /\ r = at[Len(delivered)] + HeaderSize
                               /\ reading = HeaderOf(sent[Len(delivered) + 1])
  BY <1>1, ReaderIs, Zenon
<1>3. w = Len(total)
  <2>1. writer \in Sender \cup {Free} /\ (writer # Free => outgoing[writer] # Nothing)
    BY Zenon DEF Inv, TypeOK, Ready
  <2>2. writer = Free
    BY <2>1, Zenon
  <2> QED BY <1>2, <2>2, Zenon DEF Taken
<1>4. PICK k \in 0 .. Len(sent) : k = Len(delivered)
  BY <1>2, Zenon
<1> SUFFICES ASSUME k # Len(sent) PROVE FALSE
  BY <1>4, Zenon
<1>5. k \in 0 .. Len(sent) - 1
  BY <1>2
<1>6. Found(total, sent, at, k)
  BY <1>2, <1>5, FramedMessage, Zenon DEF MessagesFit
<1>7. PICK m \in Messages : m = sent[k + 1]
  BY <1>6, Zenon DEF Found
<1>8. PICK L \in Nat : L = Len(PayloadBytes(m))
  BY <1>6, <1>7, Zenon DEF Found
<1>9. PICK a \in Nat : a = at[k]
  BY <1>6, Zenon DEF Found
<1>10. a + (HeaderSize + L) <= Len(total)
  BY <1>6, <1>7, <1>8, <1>9, Zenon DEF Found
<1>11. HeaderSize \in Nat
  BY DEF HeaderSize
<1>12. Len(total) - r < reading.length /\ Len(total) \in Nat
  BY <1>2, <1>3, Zenon
<1>13. CASE reading = AtHeader
  <2>1. reading.length = HeaderSize
    BY <1>13 DEF AtHeader
  <2>2. r = a
    BY <1>2, <1>4, <1>9, <1>13, Zenon
  <2>3. Len(total) - a < HeaderSize
    BY <1>12, <2>1, <2>2, Zenon
  <2> QED BY <1>10, <1>11, <1>12, <2>3, SMT
<1>14. CASE reading # AtHeader
  <2>1. reading = HeaderOf(m)
    BY <1>2, <1>4, <1>7, <1>14, Zenon
  <2>2. reading.length = L
    BY <1>8, <2>1 DEF HeaderOf
  <2>3. r = a + HeaderSize
    BY <1>2, <1>4, <1>9, <1>14, Zenon
  <2>4. Len(total) - r < L
    BY <1>12, <2>2, Zenon
  <2> QED BY <1>10, <1>11, <1>12, <2>3, <2>4, SMT
<1> QED BY <1>13, <1>14

\* README.md:48 "Reliable": once nobody is in send(), a standing connection whose
\* recv_loop waits for more bytes has none left over: no message is stuck half read,
\* and none that a thread was told it had sent is missing.
THEOREM NothingHeldBackHolds == ASSUME MessagesFit PROVE Spec => []NothingHeldBack
<1>1. Inv => NothingHeldBack
  BY NothingHeldBackFollows
<1> QED BY <1>1, InvInductive, PTL
===============================================================================
