---------------------------- MODULE SessionProofs ----------------------------
(***************************************************************************)
(* Both ends agree on who has the input, and no key is lost, doubled or    *)
(* reordered on the way to a client that can be told: the invariants of    *)
(* Session, for every set of connections and every room in the streams.    *)
(*                                                                         *)
(* First what Session reads off a stream of messages -- the keys in it,    *)
(* and whom the client will take to be active when it has read it -- and   *)
(* how that changes when a message joins the end or leaves the front; then *)
(* the inductive invariant, what every step does to each of its parts, and *)
(* what follows from it.                                                   *)
(***************************************************************************)
EXTENDS Session, Lemmas

-------------------------------------------------------------------------------
(* The keys in a stream.                                                     *)

\* The next element of KeysUpTo, from the one before.
KeysThen(ms, i, before) == IF i = 0 THEN <<>>
                           ELSE IF ms[i][1] = "key" THEN Append(before, ms[i][2])
                           ELSE before

\* The recursion has a solution for every length, and so for Len(ms).
LEMMA KeysExist ==
  ASSUME NEW ms, NEW n \in Nat
  PROVE  \E keys : keys = [i \in 0..n |-> KeysThen(ms, i, keys[i - 1])]
<1> DEFINE S == {m \in Nat : \E keys : keys = [i \in 0..m |-> KeysThen(ms, i, keys[i - 1])]}
<1>1. 0 \in S
  <2> DEFINE k0 == [i \in 0..0 |-> <<>>]
  <2>1. k0 = [i \in 0..0 |-> KeysThen(ms, i, k0[i - 1])]
    BY DEF KeysThen
  <2> QED BY <2>1
<1>2. ASSUME NEW m \in Nat, m \in S PROVE m + 1 \in S
  <2>1. PICK k : k = [i \in 0..m |-> KeysThen(ms, i, k[i - 1])]
    BY <1>2
  <2> DEFINE k2 == [i \in 0..(m + 1) |-> KeysThen(ms, i, k[i - 1])]
  <2>2. ASSUME NEW i \in 0..(m + 1) PROVE KeysThen(ms, i, k[i - 1]) = KeysThen(ms, i, k2[i - 1])
    <3>1. CASE i = 0
      BY <3>1 DEF KeysThen
    <3>2. CASE i # 0
      <4>1. i - 1 \in 0..m
        BY <3>2
      <4>2. k[i - 1] = KeysThen(ms, i - 1, k[i - 2])
        BY <4>1, <2>1
      <4>3. k2[i - 1] = KeysThen(ms, i - 1, k[i - 2])
        BY <4>1
      <4> QED BY <4>2, <4>3
    <3> QED BY <3>1, <3>2
  <2>3. k2 = [i \in 0..(m + 1) |-> KeysThen(ms, i, k2[i - 1])]
    BY <2>2
  <2> HIDE DEF k2
  <2> QED BY <2>3
<1> HIDE DEF S
<1>3. n \in S
  BY <1>1, <1>2, SetInduction
<1> USE DEF S
<1> QED BY <1>3

\* So it is a solution that KeysUpTo chooses.
LEMMA KeysUpToDef ==
  ASSUME NEW ms, Len(ms) \in Nat
  PROVE  KeysUpTo(ms) = [i \in 0..Len(ms) |-> KeysThen(ms, i, KeysUpTo(ms)[i - 1])]
<1> DEFINE Sol(keys) == keys = [i \in 0..Len(ms) |-> KeysThen(ms, i, keys[i - 1])]
<1>1. KeysUpTo(ms) = CHOOSE keys : Sol(keys)
  BY DEF KeysUpTo, KeysThen
<1>2. \E keys : Sol(keys)
  BY KeysExist
<1> HIDE DEF Sol
<1>3. Sol(KeysUpTo(ms))
  BY <1>1, <1>2
<1> USE DEF Sol
<1> QED BY <1>3

\* There is no key in an empty stream.
LEMMA KeysOfEmpty == KeysIn(<<>>) = <<>>
  BY KeysUpToDef DEF KeysIn, KeysThen

\* A message that joins the end adds its key, if it is one.
LEMMA KeysOfAppend ==
  ASSUME NEW M, NEW ms \in Seq(M), NEW m \in M
  PROVE  KeysIn(Append(ms, m)) = IF m[1] = "key" THEN Append(KeysIn(ms), m[2]) ELSE KeysIn(ms)
<1> DEFINE ms2 == Append(ms, m)
           n == Len(ms)
           S == {i \in Nat : i <= n => KeysUpTo(ms2)[i] = KeysUpTo(ms)[i]}
<1>1. n \in Nat /\ Len(ms2) = n + 1 /\ ms2[n + 1] = m /\ \A i \in 1..n : ms2[i] = ms[i]
  BY AppendProperties, LenProperties
<1>2. \A i \in 0..n : KeysUpTo(ms)[i] = KeysThen(ms, i, KeysUpTo(ms)[i - 1])
  BY <1>1, KeysUpToDef
<1>3. \A i \in 0..(n + 1) : KeysUpTo(ms2)[i] = KeysThen(ms2, i, KeysUpTo(ms2)[i - 1])
  <2> HIDE DEF ms2
  <2> QED BY <1>1, KeysUpToDef
<1> HIDE DEF ms2, n
<1>4. 0 \in S
  BY <1>1, <1>2, <1>3 DEF KeysThen
<1>5. ASSUME NEW i \in Nat, i \in S PROVE i + 1 \in S
  <2> SUFFICES ASSUME i + 1 <= n PROVE KeysUpTo(ms2)[i + 1] = KeysUpTo(ms)[i + 1]
    OBVIOUS
  <2>1. KeysUpTo(ms2)[i] = KeysUpTo(ms)[i]
    BY <1>5, <1>1
  <2>2. i + 1 \in 0..n /\ i + 1 \in 0..(n + 1) /\ (i + 1) - 1 = i /\ i + 1 \in 1..n
    BY <1>1
  <2>3. ms2[i + 1] = ms[i + 1]
    BY <1>1, <2>2
  <2>4. KeysThen(ms, i + 1, KeysUpTo(ms)[i]) = KeysThen(ms2, i + 1, KeysUpTo(ms)[i])
    BY <2>3 DEF KeysThen
  <2>5. KeysUpTo(ms)[i + 1] = KeysThen(ms, i + 1, KeysUpTo(ms)[i])
    BY <2>2, <1>2
  <2>6. KeysUpTo(ms2)[i + 1] = KeysThen(ms2, i + 1, KeysUpTo(ms2)[i])
    BY <2>2, <1>3
  <2> QED BY <2>1, <2>4, <2>5, <2>6
<1>6. n \in S
  <2> HIDE DEF S
  <2> QED BY <1>1, <1>4, <1>5, SetInduction
<1>7. KeysUpTo(ms2)[n] = KeysUpTo(ms)[n]
  BY <1>6, <1>1
<1>8. KeysUpTo(ms2)[n + 1] = KeysThen(ms2, n + 1, KeysUpTo(ms2)[n])
  BY <1>1, <1>3
<1>9. KeysIn(ms2) = KeysThen(ms2, n + 1, KeysIn(ms))
  BY <1>1, <1>7, <1>8 DEF KeysIn, n
<1> QED BY <1>1, <1>9 DEF KeysThen, ms2

\* The keys of a stream of messages are keys.
LEMMA KeysType ==
  ASSUME NEW M, NEW N, \A m \in M : m[1] = "key" => m[2] \in N, NEW ms \in Seq(M)
  PROVE  KeysIn(ms) \in Seq(N)
<1> DEFINE S == {n \in Nat : \A s \in Seq(M) : Len(s) = n => KeysIn(s) \in Seq(N)}
<1>1. 0 \in S
  <2>1. \A s \in Seq(M) : Len(s) = 0 => s = <<>>
    OBVIOUS
  <2> QED BY <2>1, KeysOfEmpty
<1>2. ASSUME NEW n \in Nat, n \in S PROVE n + 1 \in S
  <2> SUFFICES ASSUME NEW s \in Seq(M), Len(s) = n + 1 PROVE KeysIn(s) \in Seq(N)
    OBVIOUS
  <2>1. PICK t \in Seq(M), e \in M : s = Append(t, e)
    <3>1. s # <<>>
      OBVIOUS
    <3> QED BY <3>1, SequenceEmptyOrAppend
  <2>2. Len(t) = n
    BY <2>1, AppendProperties, LenProperties
  <2>3. KeysIn(t) \in Seq(N)
    BY <1>2, <2>2
  <2>4. KeysIn(s) = IF e[1] = "key" THEN Append(KeysIn(t), e[2]) ELSE KeysIn(t)
    BY <2>1, KeysOfAppend
  <2>5. CASE e[1] = "key"
    BY <2>3, <2>4, <2>5, AppendProperties
  <2>6. CASE e[1] # "key"
    BY <2>3, <2>4, <2>6
  <2> QED BY <2>5, <2>6
<1>3. Len(ms) \in S
  <2> HIDE DEF S
  <2> QED BY <1>1, <1>2, SetInduction, LenProperties
<1> QED BY <1>3

\* The keys of two streams are those of the one, then those of the other.
LEMMA KeysOfConcat ==
  ASSUME NEW M, NEW N, \A m \in M : m[1] = "key" => m[2] \in N, NEW s \in Seq(M), NEW ms \in Seq(M)
  PROVE  KeysIn(s \o ms) = KeysIn(s) \o KeysIn(ms)
<1> DEFINE S == {n \in Nat : \A t \in Seq(M) : Len(t) = n => KeysIn(s \o t) = KeysIn(s) \o KeysIn(t)}
<1>0. KeysIn(s) \in Seq(N)
  BY KeysType
<1>1. 0 \in S
  <2> SUFFICES ASSUME NEW t \in Seq(M), Len(t) = 0 PROVE KeysIn(s \o t) = KeysIn(s) \o KeysIn(t)
    OBVIOUS
  <2>1. t = <<>>
    OBVIOUS
  <2> QED BY <1>0, <2>1, KeysOfEmpty, ConcatEmptySeq
<1>2. ASSUME NEW n \in Nat, n \in S PROVE n + 1 \in S
  <2> SUFFICES ASSUME NEW t \in Seq(M), Len(t) = n + 1 PROVE KeysIn(s \o t) = KeysIn(s) \o KeysIn(t)
    OBVIOUS
  <2>1. PICK u \in Seq(M), e \in M : t = Append(u, e)
    <3>1. t # <<>>
      OBVIOUS
    <3> QED BY <3>1, SequenceEmptyOrAppend
  <2>2. Len(u) = n
    BY <2>1, AppendProperties, LenProperties
  <2>3. KeysIn(s \o u) = KeysIn(s) \o KeysIn(u)
    BY <1>2, <2>2
  <2>4. s \o t = Append(s \o u, e) /\ s \o u \in Seq(M)
    <3>1. t = u \o <<e>> /\ <<e>> \in Seq(M)
      BY <2>1, AppendIsConcat
    <3>2. (s \o u) \o <<e>> = s \o (u \o <<e>>)
      BY <3>1, ConcatAssociative
    <3>3. s \o u \in Seq(M)
      BY ConcatProperties
    <3> QED BY <3>1, <3>2, <3>3, AppendIsConcat
  <2>5. KeysIn(u) \in Seq(N)
    BY KeysType
  <2>6. KeysIn(t) = IF e[1] = "key" THEN Append(KeysIn(u), e[2]) ELSE KeysIn(u)
    BY <2>1, KeysOfAppend
  <2>7. KeysIn(Append(s \o u, e)) = IF e[1] = "key" THEN Append(KeysIn(s \o u), e[2]) ELSE KeysIn(s \o u)
    BY <2>4, KeysOfAppend
  <2>8. CASE e[1] = "key"
    <3>1. KeysIn(t) = Append(KeysIn(u), e[2]) /\ KeysIn(s \o t) = Append(KeysIn(s) \o KeysIn(u), e[2])
      BY <2>3, <2>4, <2>6, <2>7, <2>8
    <3>2. e[2] \in N /\ <<e[2]>> \in Seq(N)
      BY <2>8
    <3>3. Append(KeysIn(s) \o KeysIn(u), e[2]) = (KeysIn(s) \o KeysIn(u)) \o <<e[2]>>
      BY <1>0, <2>5, <3>2, ConcatProperties, AppendIsConcat
    <3>4. Append(KeysIn(u), e[2]) = KeysIn(u) \o <<e[2]>>
      BY <2>5, <3>2, AppendIsConcat
    <3>5. (KeysIn(s) \o KeysIn(u)) \o <<e[2]>> = KeysIn(s) \o (KeysIn(u) \o <<e[2]>>)
      BY <1>0, <2>5, <3>2, ConcatAssociative
    <3> QED BY <3>1, <3>3, <3>4, <3>5
  <2>9. CASE e[1] # "key"
    BY <2>3, <2>4, <2>6, <2>7, <2>9
  <2> QED BY <2>8, <2>9
<1>3. Len(ms) \in S
  <2> HIDE DEF S
  <2> QED BY <1>1, <1>2, SetInduction, LenProperties
<1> QED BY <1>3

\* A single message.
LEMMA KeysOfOne ==
  ASSUME NEW M, NEW m \in M
  PROVE  KeysIn(<<m>>) = IF m[1] = "key" THEN <<m[2]>> ELSE <<>>
<1>1. <<m>> = Append(<<>>, m) /\ <<>> \in Seq(M)
  OBVIOUS
<1>2. KeysIn(<<m>>) = IF m[1] = "key" THEN Append(KeysIn(<<>>), m[2]) ELSE KeysIn(<<>>)
  BY <1>1, KeysOfAppend
<1> QED BY <1>2, KeysOfEmpty

\* Reading from the front.
LEMMA KeysOfTail ==
  ASSUME NEW M, NEW N, \A m \in M : m[1] = "key" => m[2] \in N, NEW ms \in Seq(M), ms # <<>>
  PROVE  KeysIn(ms) = (IF Head(ms)[1] = "key" THEN <<Head(ms)[2]>> ELSE <<>>) \o KeysIn(Tail(ms))
<1>1. Head(ms) \in M /\ Tail(ms) \in Seq(M) /\ <<Head(ms)>> \in Seq(M) /\ ms = <<Head(ms)>> \o Tail(ms)
  OBVIOUS
<1>2. KeysIn(<<Head(ms)>> \o Tail(ms)) = KeysIn(<<Head(ms)>>) \o KeysIn(Tail(ms))
  BY <1>1, KeysOfConcat
<1> QED BY <1>1, <1>2, KeysOfOne

-------------------------------------------------------------------------------
(* What a client will believe.                                               *)

IsSwitch(m) == m[1] \in {"enter", "leave"}

\* A client with nothing to read stays what it is.
LEMMA ActiveAfterNothing ==
  ASSUME NEW state
  PROVE  ActiveAfter(<<>>, state) <=> state = "ACTIVE"
<1>1. SwitchesIn(<<>>) = {}
  BY DEF SwitchesIn
<1> QED BY <1>1 DEF ActiveAfter

\* The last message that switches decides.
LEMMA ActiveAfterAppend ==
  ASSUME NEW M, NEW ms \in Seq(M), NEW m \in M, NEW state
  PROVE  ActiveAfter(Append(ms, m), state) <=> IF IsSwitch(m) THEN m[1] = "enter" ELSE ActiveAfter(ms, state)
<1> DEFINE ms2 == Append(ms, m)
           n == Len(ms)
<1>1. /\ n \in Nat /\ Len(ms2) = n + 1 /\ ms2[n + 1] = m /\ \A i \in 1..n : ms2[i] = ms[i]
      /\ DOMAIN ms = 1..n /\ DOMAIN ms2 = 1..(n + 1)
  BY AppendProperties, LenProperties
<1> HIDE DEF ms2, n
<1>2. CASE IsSwitch(m)
  <2>1. n + 1 \in SwitchesIn(ms2) /\ SwitchesIn(ms2) \subseteq 1..(n + 1)
    BY <1>1, <1>2 DEF SwitchesIn, IsSwitch
  <2>2. Max(SwitchesIn(ms2)) = n + 1
    <3>1. SwitchesIn(ms2) \subseteq Nat /\ \A y \in SwitchesIn(ms2) : y <= n + 1
      BY <1>1, <2>1
    <3> QED BY <2>1, <3>1, MaxIs
  <2> QED BY <1>1, <1>2, <2>1, <2>2 DEF ActiveAfter, ms2
<1>3. CASE ~IsSwitch(m)
  <2>1. SwitchesIn(ms2) = SwitchesIn(ms)
    BY <1>1, <1>3 DEF SwitchesIn, IsSwitch
  <2>2. CASE SwitchesIn(ms) = {}
    BY <1>3, <2>1, <2>2 DEF ActiveAfter, ms2
  <2>3. CASE SwitchesIn(ms) # {}
    <3>1. SwitchesIn(ms) \subseteq 1..n
      BY <1>1 DEF SwitchesIn
    <3>2. Max(SwitchesIn(ms)) \in 1..n
      BY <1>1, <2>3, <3>1, Greatest
    <3>3. ms2[Max(SwitchesIn(ms))] = ms[Max(SwitchesIn(ms))]
      BY <1>1, <3>2
    <3> QED BY <1>3, <2>1, <2>3, <3>3 DEF ActiveAfter, ms2
  <2> QED BY <2>2, <2>3
<1> QED BY <1>2, <1>3

\* What reading a message does to the state.
StateAfter(m, state) == IF m[1] = "enter" THEN "ACTIVE" ELSE IF m[1] = "leave" THEN "CONNECTED" ELSE state

\* Reading a message from the front does not change what the client will be.
LEMMA ActiveAfterTail ==
  ASSUME NEW M, NEW ms \in Seq(M), ms # <<>>, NEW state
  PROVE  ActiveAfter(ms, state) <=> ActiveAfter(Tail(ms), StateAfter(Head(ms), state))
<1> DEFINE t == Tail(ms)
           n == Len(t)
<1>1. /\ n \in Nat /\ Len(ms) = n + 1 /\ ms[1] = Head(ms) /\ \A i \in 1..n : t[i] = ms[i + 1]
      /\ DOMAIN t = 1..n /\ DOMAIN ms = 1..(n + 1)
  BY HeadTailProperties, LenProperties
<1> HIDE DEF t, n
<1>2. CASE SwitchesIn(t) = {}
  <2>1. ASSUME NEW i \in SwitchesIn(ms) PROVE i = 1
    <3>1. i \in 1..(n + 1) /\ ms[i][1] \in {"enter", "leave"}
      BY <1>1 DEF SwitchesIn
    <3>2. ASSUME i # 1 PROVE i - 1 \in SwitchesIn(t)
      <4>1. i - 1 \in 1..n /\ (i - 1) + 1 = i
        BY <1>1, <3>1, <3>2
      <4>2. t[i - 1] = ms[i]
        BY <1>1, <4>1
      <4> QED BY <1>1, <3>1, <4>1, <4>2 DEF SwitchesIn
    <3> QED BY <3>2, <1>2
  <2>2. CASE IsSwitch(Head(ms))
    <3>1. 1 \in SwitchesIn(ms)
      BY <1>1, <2>2 DEF SwitchesIn, IsSwitch
    <3>2. SwitchesIn(ms) = {1}
      BY <2>1, <3>1
    <3>3. Max(SwitchesIn(ms)) = 1
      <4>1. SwitchesIn(ms) \subseteq Nat /\ \A y \in SwitchesIn(ms) : y <= 1
        BY <3>2
      <4> QED BY <3>1, <4>1, MaxIs
    <3> QED BY <1>1, <1>2, <2>2, <3>2, <3>3 DEF ActiveAfter, IsSwitch, StateAfter, t
  <2>3. CASE ~IsSwitch(Head(ms))
    <3>1. SwitchesIn(ms) = {}
      BY <1>1, <2>1, <2>3 DEF SwitchesIn, IsSwitch
    <3> QED BY <1>2, <2>3, <3>1 DEF ActiveAfter, IsSwitch, StateAfter, t
  <2> QED BY <2>2, <2>3
<1>3. CASE SwitchesIn(t) # {}
  <2> DEFINE x == Max(SwitchesIn(t))
  <2>1. SwitchesIn(t) \subseteq 1..n
    BY <1>1 DEF SwitchesIn
  <2>2. x \in SwitchesIn(t) /\ \A y \in SwitchesIn(t) : y <= x
    BY <1>1, <1>3, <2>1, Greatest
  <2> HIDE DEF x
  <2>3. x \in 1..n /\ ms[x + 1] = t[x] /\ x + 1 \in 1..(n + 1)
    BY <1>1, <2>1, <2>2
  <2>4. x + 1 \in SwitchesIn(ms)
    BY <1>1, <2>2, <2>3 DEF SwitchesIn
  <2>5. ASSUME NEW y \in SwitchesIn(ms) PROVE y <= x + 1
    <3>1. y \in 1..(n + 1) /\ ms[y][1] \in {"enter", "leave"}
      BY <1>1 DEF SwitchesIn
    <3>2. CASE y = 1
      BY <3>2, <2>3
    <3>3. CASE y # 1
      <4>1. y - 1 \in 1..n /\ (y - 1) + 1 = y
        BY <1>1, <3>1, <3>3
      <4>2. t[y - 1] = ms[y]
        BY <1>1, <4>1
      <4>3. y - 1 \in SwitchesIn(t)
        BY <1>1, <3>1, <4>1, <4>2 DEF SwitchesIn
      <4>4. y - 1 <= x
        BY <2>2, <4>3
      <4> QED BY <4>1, <4>4, <2>3
    <3> QED BY <3>2, <3>3
  <2>6. SwitchesIn(ms) \subseteq Nat
    BY <1>1 DEF SwitchesIn
  <2>7. Max(SwitchesIn(ms)) = x + 1
    BY <2>4, <2>5, <2>6, MaxIs
  <2> QED BY <1>3, <2>3, <2>4, <2>7 DEF ActiveAfter, t, x
<1> QED BY <1>2, <1>3

-------------------------------------------------------------------------------
(* The parts of the inductive invariant.                                     *)

\* Who holds the mutex sends on to; a switch holds it until it is complete.
LockInv ==
  /\ mutex = Free => to = NoConn
  /\ to = NoConn => out = <<>>
  /\ hook = "enter" => active = NoConn
  /\ mutex = "hook" => /\ hook # "idle" /\ to \in clients
                       /\ hook = "enter" => to = target
                       /\ hook # "enter" => to = active
  /\ \A i \in DOMAIN out : out[i][1] = "key" => Len(out) = 1 /\ mutex = "hook" /\ hook = "key"

\* What the server knows of a connection, and that it knows nothing of one to come.
LinkInv ==
  \A c \in Conn :
    /\ link[c] = "open" => c \in connected
    /\ c \in connected => c \in clients
    /\ process[c] = "none" =>
         /\ link[c] = "none" /\ down[c] = <<>> /\ owed[c] = <<>>
         /\ c \notin clients /\ c \notin todo /\ active # c /\ to # c

\* The client that the server means to be active: a switch counts from its lock on.
Meant == IF mutex = "hook" /\ hook = "enter" THEN to
         ELSE IF mutex = "hook" /\ hook = "leave" THEN NoConn
         ELSE active

EndsInv == \A c \in Conn : link[c] = "open" => (WillBeActive(c) <=> Meant = c)

\* The key that the hook has typed and not begun to send.
Awaited(c) == hook = "key" /\ active = c /\ mutex # "hook"

\* What arrives first is what was typed first, whoever can be told ...
Arrived(c) == \E rest \in Seq(1..MaxKeys) : /\ owed[c] = KeysIn(down[c]) \o rest
                                            /\ Awaited(c) => rest # <<>>

\* ... and to a client that can be, nothing is missing.
UnderWay(c) ==
  /\ link[c] = "open" /\ ~Awaited(c) => owed[c] = KeysIn(Pending(c))
  /\ link[c] = "open" /\ Awaited(c) => \E n \in 1..MaxKeys : owed[c] = Append(KeysIn(Pending(c)), n)

OwedInv == \A c \in Conn : Arrived(c) /\ UnderWay(c)

\* A key is sent to a client that by then will be active.
Guarded(c) == \A i \in DOMAIN down[c] :
                down[c][i][1] = "key" => ActiveAfter(SubSeq(down[c], 1, i - 1), process[c])

GuardInv == \A c \in Conn : Guarded(c)

\* The last clipboard under way to the client meant to be active is the one to come
\* along, and has the screen behind it; with none under way it has arrived.
ClipsIn(ms) == {i \in DOMAIN ms : ms[i][1] = "clip"}
Brings(ms, has, what) ==
  /\ ClipsIn(ms) = {} => has = what
  /\ \A i \in ClipsIn(ms) : (\A j \in ClipsIn(ms) : j <= i) =>
       ms[i][2] = what /\ \E j \in DOMAIN ms : j > i /\ ms[j][1] = "enter"

\* A client that is told to leave goes on being the active one until that is done.
Served(c) == Meant = c \/ active = c

Brought(c) ==
  link[c] = "open" /\ Served(c) /\ content # "none" /\ c \notin Windows =>
    Brings(Pending(c), paste[c], content)

ClipInv == \A c \in Conn : Brought(c)

IInv == TypeOK /\ LockInv /\ LinkInv /\ EndsInv /\ OwedInv /\ GuardInv /\ ClipInv

-------------------------------------------------------------------------------
(* Messages, and how a step changes what is under way.                       *)

LEMMA MessageTypes ==
  /\ <<"other">> \in Message /\ <<"enter">> \in Message /\ <<"leave">> \in Message
  /\ \A what \in Contents : <<"clip", what>> \in Message
  /\ \A n \in 1..MaxKeys : <<"key", n>> \in Message
  /\ \A m \in Message : /\ m[1] = "key" => m[2] \in 1..MaxKeys
                        /\ m[1] = "clip" => m[2] \in Contents
  BY DEF Message

LEMMA DownTypes ==
  ASSUME TypeOK, NEW c \in Conn
  PROVE  down[c] \in Seq(Message) /\ Len(down[c]) <= Room /\ out \in Seq(Message) /\ owed[c] \in Seq(1..MaxKeys)
  BY DEF TypeOK

LEMMA PendingType ==
  ASSUME TypeOK, NEW c \in Conn
  PROVE  Pending(c) \in Seq(Message)
<1>1. <<>> \in Seq(Message)
  OBVIOUS
<1> QED BY <1>1, DownTypes, ConcatProperties DEF Pending

LEMMA PendingIsDown ==
  ASSUME TypeOK, NEW c \in Conn, to # c \/ out = <<>>
  PROVE  Pending(c) = down[c]
  BY DownTypes, ConcatEmptySeq DEF Pending

LEMMA HandoverType ==
  ASSUME TypeOK
  PROVE  Handover \in Seq(Message)
<1>1. CASE content = "none"
  BY <1>1, MessageTypes DEF Handover
<1>2. CASE content # "none"
  <2>1. content \in Contents
    BY <1>2 DEF TypeOK
  <2>2. <<"clip", content>> \in Message /\ <<"enter">> \in Message
    BY <2>1, MessageTypes
  <2> QED BY <1>2, <2>2 DEF Handover
<1> QED BY <1>1, <1>2

\* A push moves a message on and leaves what is under way the same.
LEMMA PushStep ==
  ASSUME TypeOK, LockInv, Push
  PROVE  /\ to \in Conn /\ Head(out) \in Message /\ Tail(out) \in Seq(Message)
         /\ down' = [down EXCEPT ![to] = Append(down[to], Head(out))] /\ down' \in [Conn -> Seq(Message)]
         /\ \A c \in Conn : Len(down'[c]) <= Room /\ Pending(c)' = Pending(c)
<1>1. to \in Conn /\ out # <<>>
  BY DEF Push, LockInv, TypeOK
<1>2. Head(out) \in Message /\ Tail(out) \in Seq(Message) /\ down[to] \in Seq(Message)
  BY <1>1, DownTypes, HeadTailProperties
<1>3. down' = [down EXCEPT ![to] = Append(down[to], Head(out))] /\ out' = Tail(out) /\ to' = to
  BY DEF Push, lockVars
<1>4. /\ Append(down[to], Head(out)) \in Seq(Message)
      /\ Len(Append(down[to], Head(out))) <= Room
  <2>1. Len(down[to]) < Room
    BY DEF Push
  <2> QED BY <1>1, <1>2, <2>1, SessionBoundsAssumption
<1>5. down' \in [Conn -> Seq(Message)]
  BY <1>3, <1>4 DEF TypeOK
<1>6. ASSUME NEW c \in Conn PROVE Len(down'[c]) <= Room /\ Pending(c)' = Pending(c)
  <2>1. CASE c = to
    <3>1. down'[c] = Append(down[c], Head(out))
      BY <1>3, <2>1 DEF TypeOK
    <3>2. Append(down[c], Head(out)) = down[c] \o <<Head(out)>> /\ <<Head(out)>> \in Seq(Message)
      BY <1>2, <2>1, AppendIsConcat
    <3>3. out = <<Head(out)>> \o Tail(out)
      BY <1>1, DownTypes
    <3>4. (down[c] \o <<Head(out)>>) \o Tail(out) = down[c] \o out
      BY <1>2, <2>1, <3>2, <3>3, ConcatAssociative
    <3> QED BY <1>3, <1>4, <2>1, <3>1, <3>2, <3>4 DEF Pending
  <2>2. CASE c # to
    <3>1. down'[c] = down[c]
      BY <1>3, <2>2 DEF TypeOK
    <3> QED BY <1>3, <2>2, <3>1, DownTypes DEF Pending
  <2> QED BY <2>1, <2>2
<1> QED BY <1>1, <1>2, <1>3, <1>5, <1>6

\* Whoever takes the mutex adds what he will send; nobody else is sending.
LEMMA BeginStep ==
  ASSUME TypeOK, LockInv, NEW d \in Conn, NEW ms \in Seq(Message),
         mutex = Free, to' = d, out' = ms, down' = down
  PROVE  /\ \A c \in Conn : Pending(c) = down[c] /\ (c # d => Pending(c)' = down[c])
         /\ Pending(d)' = down[d] \o ms
<1>1. to = NoConn /\ out = <<>>
  BY DEF LockInv
<1>2. ASSUME NEW c \in Conn PROVE Pending(c) = down[c] /\ (c # d => Pending(c)' = down[c])
  BY <1>1, DownTypes, ConcatEmptySeq DEF Pending
<1> QED BY <1>1, <1>2 DEF Pending

\* A client reads what is at the front.
LEMMA ReadStep ==
  ASSUME TypeOK, NEW c \in Conn, NEW type, Reads(c, type)
  PROVE  /\ down[c] # <<>> /\ Head(down[c]) \in Message /\ Head(down[c])[1] = type
         /\ Tail(down[c]) \in Seq(Message)
         /\ down' = [down EXCEPT ![c] = Tail(down[c])]
         /\ down' \in [Conn -> Seq(Message)] /\ \A d \in Conn : Len(down'[d]) <= Room
         /\ Pending(c) # <<>> /\ Head(Pending(c)) = Head(down[c]) /\ Pending(c)' = Tail(Pending(c))
         /\ \A d \in Conn \ {c} : Pending(d)' = Pending(d)
<1>1. down[c] # <<>> /\ Head(down[c])[1] = type /\ down' = [down EXCEPT ![c] = Tail(down[c])]
  BY DEF Reads
<1>2. Head(down[c]) \in Message /\ Tail(down[c]) \in Seq(Message) /\ Len(Tail(down[c])) = Len(down[c]) - 1
  BY <1>1, DownTypes, HeadTailProperties
<1>3. down' \in [Conn -> Seq(Message)]
  BY <1>1, <1>2 DEF TypeOK
<1>4. ASSUME NEW d \in Conn PROVE Len(down'[d]) <= Room
  <2>1. CASE d = c
    BY <1>1, <1>2, <2>1, DownTypes, SessionBoundsAssumption DEF TypeOK
  <2>2. CASE d # c
    BY <1>1, <2>2 DEF TypeOK
  <2> QED BY <2>1, <2>2
<1>5. to' = to /\ out' = out
  BY DEF Reads, lockVars
<1>6. down'[c] = Tail(down[c]) /\ \A d \in Conn \ {c} : down'[d] = down[d]
  BY <1>1 DEF TypeOK
<1>7. ASSUME NEW s \in Seq(Message)
      PROVE  /\ down[c] \o s # <<>> /\ Head(down[c] \o s) = Head(down[c])
             /\ Tail(down[c] \o s) = Tail(down[c]) \o s
  BY <1>1, DownTypes, HeadTailOfConcat
<1>8. /\ Pending(c) # <<>> /\ Head(Pending(c)) = Head(down[c])
      /\ Pending(c)' = Tail(Pending(c))
  <2>1. <<>> \in Seq(Message) /\ out \in Seq(Message)
    BY DownTypes
  <2> QED BY <1>5, <1>6, <1>7, <2>1 DEF Pending
<1> QED BY <1>1, <1>2, <1>3, <1>4, <1>5, <1>6, <1>8 DEF Pending

\* The keys of streams of messages.
LEMMA KeysOfStream ==
  ASSUME NEW s \in Seq(Message)
  PROVE  /\ KeysIn(s) \in Seq(1..MaxKeys)
         /\ \A t \in Seq(Message) : KeysIn(s \o t) = KeysIn(s) \o KeysIn(t)
         /\ \A m \in Message : KeysIn(Append(s, m)) = IF m[1] = "key" THEN Append(KeysIn(s), m[2]) ELSE KeysIn(s)
         /\ s # <<>> /\ Head(s)[1] # "key" => KeysIn(s) = KeysIn(Tail(s))
         /\ s # <<>> /\ Head(s)[1] = "key" =>
              Head(s)[2] \in 1..MaxKeys /\ KeysIn(s) = <<Head(s)[2]>> \o KeysIn(Tail(s))
<1>1. \A m \in Message : m[1] = "key" => m[2] \in 1..MaxKeys
  BY MessageTypes
<1>2. KeysIn(s) \in Seq(1..MaxKeys)
  BY <1>1, KeysType
<1>3. \A t \in Seq(Message) : KeysIn(s \o t) = KeysIn(s) \o KeysIn(t)
  BY <1>1, KeysOfConcat
<1>4. ASSUME s # <<>>
      PROVE  /\ KeysIn(s) = (IF Head(s)[1] = "key" THEN <<Head(s)[2]>> ELSE <<>>) \o KeysIn(Tail(s))
             /\ Head(s) \in Message /\ KeysIn(Tail(s)) \in Seq(1..MaxKeys)
  <2>1. KeysIn(s) = (IF Head(s)[1] = "key" THEN <<Head(s)[2]>> ELSE <<>>) \o KeysIn(Tail(s))
    BY <1>1, <1>4, KeysOfTail
  <2>2. Head(s) \in Message /\ Tail(s) \in Seq(Message)
    BY <1>4, HeadTailProperties
  <2> QED BY <1>1, <2>1, <2>2, KeysType
<1>5. ASSUME s # <<>>, Head(s)[1] # "key" PROVE KeysIn(s) = KeysIn(Tail(s))
  BY <1>4, <1>5, ConcatEmptySeq
<1>6. ASSUME s # <<>>, Head(s)[1] = "key"
      PROVE  Head(s)[2] \in 1..MaxKeys /\ KeysIn(s) = <<Head(s)[2]>> \o KeysIn(Tail(s))
  BY <1>1, <1>4, <1>6
<1> QED BY <1>2, <1>3, <1>5, <1>6, KeysOfAppend

LEMMA RemoveHead ==
  ASSUME NEW S, NEW s \in Seq(S), s # <<>>
  PROVE  RemoveFirst(s, Head(s)) = Tail(s)
<1>1. 1 \in 1..Len(s) /\ s[1] = Head(s)
  BY LenProperties, EmptySeq
<1> DEFINE I == {i \in 1..Len(s) : s[i] = Head(s)}
<1>2. I \subseteq Nat /\ 1 \in I /\ \A y \in I : 1 <= y
  BY <1>1
<1>3. Min(I) = 1
  <2> HIDE DEF I
  <2>1. \E x \in I : \A y \in I : x =< y
    BY <1>2
  <2>2. Min(I) \in I /\ \A y \in I : Min(I) =< y
    BY <2>1 DEF Min
  <2>3. Min(I) =< 1 /\ 1 <= Min(I) /\ Min(I) \in Nat
    BY <1>2, <2>2
  <2> QED BY <2>3
<1>4. RemoveFirst(s, Head(s)) = RemoveAt(s, Min(I))
  BY <1>1 DEF RemoveFirst, SelectInSeq
<1>5. RemoveAt(s, 1) = SubSeq(s, 1, 0) \o SubSeq(s, 2, Len(s))
  BY DEF RemoveAt
<1>6. SubSeq(s, 1, 0) = <<>> /\ SubSeq(s, 2, Len(s)) = Tail(s) /\ Tail(s) \in Seq(S)
  BY SubSeqEmpty, TailIsSubSeq, HeadTailProperties
<1> QED BY <1>3, <1>4, <1>5, <1>6, ConcatEmptySeq

LEMMA AwaitedKey ==
  ASSUME TypeOK, OwedInv, NEW c \in Conn, Awaited(c)
  PROVE  owed[c] # <<>> /\ Last(owed[c]) \in 1..MaxKeys
<1>1. PICK rest \in Seq(1..MaxKeys) : owed[c] = KeysIn(down[c]) \o rest /\ rest # <<>>
  BY DEF OwedInv, Arrived
<1>2. KeysIn(down[c]) \in Seq(1..MaxKeys)
  BY DownTypes, MessageTypes, KeysType
<1>3. owed[c] # <<>> /\ owed[c] \in Seq(1..MaxKeys)
  BY <1>1, <1>2, DownTypes, ConcatEqualIffEmpty
<1>4. Len(owed[c]) \in 1..Len(owed[c])
  BY <1>3, EmptySeq
<1> QED BY <1>3, <1>4, ElementOfSeq DEF Last

\* The key that a client reads is the first one that is owed.
LEMMA KeyRead ==
  ASSUME TypeOK, OwedInv, NEW c \in Conn, ReadsKey(c)
  PROVE  /\ owed[c] # <<>> /\ Head(owed[c]) = Head(down[c])[2]
         /\ owed' = [owed EXCEPT ![c] = Tail(owed[c])]
<1> DEFINE k == Head(down[c])[2]
<1>1. Reads(c, "key") /\ owed' = [owed EXCEPT ![c] = RemoveFirst(owed[c], k)]
  BY DEF ReadsKey
<1>2. down[c] # <<>> /\ Head(down[c]) \in Message /\ Head(down[c])[1] = "key" /\ Tail(down[c]) \in Seq(Message)
  BY <1>1, ReadStep
<1>3. KeysIn(down[c]) = <<k>> \o KeysIn(Tail(down[c])) /\ k \in 1..MaxKeys
  BY <1>2, DownTypes, MessageTypes, KeysOfTail
<1>4. KeysIn(Tail(down[c])) \in Seq(1..MaxKeys)
  BY <1>2, MessageTypes, KeysType
<1>5. PICK rest \in Seq(1..MaxKeys) : owed[c] = KeysIn(down[c]) \o rest
  BY DEF OwedInv, Arrived
<1> HIDE DEF k
<1>6. owed[c] # <<>> /\ Head(owed[c]) = k
  BY <1>3, <1>4, <1>5
<1>7. RemoveFirst(owed[c], k) = Tail(owed[c])
  BY <1>6, DownTypes, RemoveHead
<1> QED BY <1>1, <1>6, <1>7 DEF k

-------------------------------------------------------------------------------
(* The parts of the invariant, one by one.                                   *)

LEMMA TypeStep == TypeOK /\ LockInv /\ OwedInv /\ [Next]_vars => TypeOK'
<1> SUFFICES ASSUME TypeOK, LockInv, OwedInv, [Next]_vars PROVE TypeOK'
  OBVIOUS
<1> USE DEF Running, switchVars, lockVars, hookVars, recvVars, clientVars
<1>1. CASE Push
  <2>1. Tail(out) \in Seq(Message) /\ down' \in [Conn -> Seq(Message)] /\ \A d \in Conn : Len(down'[d]) <= Room
    BY <1>1, PushStep
  <2> QED BY <1>1, <2>1 DEF Push, TypeOK
<1>2. ASSUME NEW told \in BOOLEAN, PushFails(told) PROVE TypeOK'
  BY <1>2 DEF PushFails, TypeOK
<1>3. CASE EnterBegins
  <2>1. out' \in Seq(Message)
    BY <1>3, HandoverType DEF EnterBegins, Begin
  <2> QED BY <1>3, <2>1 DEF EnterBegins, Begin, TypeOK, Service, Free
<1>4. CASE EnterFindsNobody
  BY <1>4 DEF EnterFindsNobody, TypeOK
<1>5. CASE EnterEnds
  BY <1>5 DEF EnterEnds, End, Ready, TypeOK
<1>6. CASE KeyBegins
  <2>1. out' \in Seq(Message)
    <3>1. active \in Conn /\ Awaited(active)
      BY <1>6, ConnAssumption DEF KeyBegins, Begin, Awaited, TypeOK, Service, Free
    <3>2. Last(owed[active]) \in 1..MaxKeys
      BY <3>1, AwaitedKey
    <3>3. <<"key", Last(owed[active])>> \in Message
      BY <3>2, MessageTypes
    <3> QED BY <1>6, <3>3 DEF KeyBegins, Begin
  <2> QED BY <1>6, <2>1 DEF KeyBegins, Begin, TypeOK, Service, Free
<1>7. CASE KeyFindsNobody
  BY <1>7 DEF KeyFindsNobody, TypeOK
<1>8. CASE KeyEnds
  BY <1>8 DEF KeyEnds, End, Ready, TypeOK
<1>9. CASE LeaveBegins
  <2>1. out' \in Seq(Message)
    BY <1>9, MessageTypes DEF LeaveBegins, Begin
  <2> QED BY <1>9, <2>1 DEF LeaveBegins, Begin, TypeOK, Service, Free
<1>10. CASE LeaveEnds
  BY <1>10 DEF LeaveEnds, End, Ready, BackToLocal, TypeOK
<1>11. CASE KeeperLocks
  <2>1. out' \in Seq(Message)
    BY <1>11 DEF KeeperLocks, Begin
  <2> QED BY <1>11, <2>1 DEF KeeperLocks, Begin, TypeOK, Service, Free
<1>12. CASE KeeperUnlocks
  BY <1>12 DEF KeeperUnlocks, End, Ready, TypeOK
<1>13. ASSUME NEW c \in Conn, KeeperBeats(c) PROVE TypeOK'
  <2>1. out' \in Seq(Message)
    BY <1>13, MessageTypes DEF KeeperBeats, Ready
  <2> QED BY <1>13, <2>1 DEF KeeperBeats, Ready, TypeOK, Service, Free
<1>14. ASSUME NEW c \in Conn, KeeperExpires(c) PROVE TypeOK'
  BY <1>14 DEF KeeperExpires, Ready, BackToLocal, TypeOK
<1>15. CASE KeyTyped
  BY <1>15 DEF KeyTyped, TypeOK
<1>16. CASE Escape
  BY <1>16 DEF Escape, TypeOK
<1>17. ASSUME NEW what \in Contents, UserCopies(what) PROVE TypeOK'
  BY <1>17 DEF UserCopies, TypeOK
<1>18. ASSUME NEW c \in Conn, Connects(c) PROVE TypeOK'
  BY <1>18 DEF Connects, TypeOK
<1>19. ASSUME NEW c \in Conn, CursorHits(c) PROVE TypeOK'
  BY <1>19 DEF CursorHits, TypeOK
<1>20. ASSUME NEW c \in Conn, Quits(c) PROVE TypeOK'
  <2>1. <<>> \in Seq(Message) /\ Len(<<>>) <= Room
    BY SessionBoundsAssumption
  <2>2. down' \in [Conn -> Seq(Message)] /\ \A d \in Conn : Len(down'[d]) <= Room
    BY <1>20, <2>1 DEF Quits, TypeOK
  <2> QED BY <1>20, <2>2 DEF Quits, TypeOK
<1>21. ASSUME NEW c \in Conn, LinkBreaks(c) PROVE TypeOK'
  BY <1>21 DEF LinkBreaks, TypeOK
<1>22. ASSUME NEW c \in Conn, HelloBegins(c) PROVE TypeOK'
  <2>1. out' \in Seq(Message)
    BY <1>22, MessageTypes DEF HelloBegins, Begin
  <2> QED BY <1>22, <2>1 DEF HelloBegins, Begin, TypeOK, Service, Free
<1>23. ASSUME NEW c \in Conn, HelloEnds(c) PROVE TypeOK'
  BY <1>23 DEF HelloEnds, End, Ready, TypeOK
<1>24. ASSUME NEW c \in Conn, RecvStops(c) PROVE TypeOK'
  BY <1>24 DEF RecvStops, TypeOK
<1>25. ASSUME NEW c \in Conn, RecvEnds(c) PROVE TypeOK'
  BY <1>25 DEF RecvEnds, TypeOK
<1>26. ASSUME NEW c \in Conn, ReadsNothing(c) PROVE TypeOK'
  <2>1. Reads(c, "other")
    BY <1>26 DEF ReadsNothing
  <2>2. down' \in [Conn -> Seq(Message)] /\ \A d \in Conn : Len(down'[d]) <= Room
    BY <2>1, ReadStep
  <2> QED BY <1>26, <2>2 DEF ReadsNothing, Reads, TypeOK
<1>27. ASSUME NEW c \in Conn, ReadsClipboard(c) PROVE TypeOK'
  <2>1. Reads(c, "clip")
    BY <1>27 DEF ReadsClipboard
  <2>2. down' \in [Conn -> Seq(Message)] /\ \A d \in Conn : Len(down'[d]) <= Room
    BY <2>1, ReadStep
  <2>3. Head(down[c])[2] \in Contents
    BY <2>1, ReadStep, MessageTypes
  <2>4. Pasted(c, Head(down[c])[2]) \in Contents \cup {"own", "emptied"}
    BY <2>3 DEF Pasted
  <2>5. paste' \in [Conn -> Contents \cup {"own", "emptied"}]
    <3>1. CASE paste' = [paste EXCEPT ![c] = Pasted(c, Head(down[c])[2])]
      BY <2>4, <3>1 DEF TypeOK
    <3>2. CASE UNCHANGED paste
      BY <3>2 DEF TypeOK
    <3> QED BY <1>27, <3>1, <3>2 DEF ReadsClipboard
  <2> QED BY <1>27, <2>2, <2>5 DEF ReadsClipboard, Reads, TypeOK
<1>28. ASSUME NEW c \in Conn, ReadsEnter(c) PROVE TypeOK'
  <2>1. Reads(c, "enter")
    BY <1>28 DEF ReadsEnter
  <2>2. down' \in [Conn -> Seq(Message)] /\ \A d \in Conn : Len(down'[d]) <= Room
    BY <2>1, ReadStep
  <2> QED BY <1>28, <2>2 DEF ReadsEnter, Reads, TypeOK
<1>29. ASSUME NEW c \in Conn, ReadsLeave(c) PROVE TypeOK'
  <2>1. Reads(c, "leave")
    BY <1>29 DEF ReadsLeave
  <2>2. down' \in [Conn -> Seq(Message)] /\ \A d \in Conn : Len(down'[d]) <= Room
    BY <2>1, ReadStep
  <2> QED BY <1>29, <2>2 DEF ReadsLeave, Reads, TypeOK
<1>30. ASSUME NEW c \in Conn, ReadsKey(c) PROVE TypeOK'
  <2>1. Reads(c, "key")
    BY <1>30 DEF ReadsKey
  <2>2. down' \in [Conn -> Seq(Message)] /\ \A d \in Conn : Len(down'[d]) <= Room
    BY <2>1, ReadStep
  <2>3. owed' \in [Conn -> Seq(1..MaxKeys)]
    <3>1. owed[c] # <<>> /\ owed' = [owed EXCEPT ![c] = Tail(owed[c])]
      BY <1>30, KeyRead
    <3>2. Tail(owed[c]) \in Seq(1..MaxKeys)
      BY <3>1, DownTypes, HeadTailProperties
    <3> QED BY <3>1, <3>2 DEF TypeOK
  <2> QED BY <1>30, <2>2, <2>3 DEF ReadsKey, Reads, TypeOK
<1>31. ASSUME NEW c \in Conn, LosesServer(c) PROVE TypeOK'
  <2>1. <<>> \in Seq(Message) /\ Len(<<>>) <= Room
    BY SessionBoundsAssumption
  <2>2. down' \in [Conn -> Seq(Message)] /\ \A d \in Conn : Len(down'[d]) <= Room
    BY <1>31, <2>1 DEF LosesServer, TypeOK
  <2> QED BY <1>31, <2>2 DEF LosesServer, TypeOK
<1>32. CASE UNCHANGED vars
  BY <1>32 DEF vars, TypeOK
<1> QED
  BY <1>1, <1>2, <1>3, <1>4, <1>5, <1>6, <1>7, <1>8, <1>9, <1>10, <1>11, <1>12, <1>13, <1>14, <1>15, <1>16, <1>17,
     <1>18, <1>19, <1>20, <1>21, <1>22, <1>23, <1>24, <1>25, <1>26, <1>27, <1>28, <1>29, <1>30, <1>31, <1>32
     DEF Next, Event, Sends, HookStep, KeeperStep, RecvStep, ClientStep

LEMMA LockStep == TypeOK /\ LockInv /\ [Next]_vars => LockInv'
<1> SUFFICES ASSUME TypeOK, LockInv, [Next]_vars PROVE LockInv'
  OBVIOUS
<1> USE DEF Running, switchVars, lockVars, hookVars, recvVars, clientVars
<1>1. CASE Push
  <2>1. /\ out # <<>> /\ out' = Tail(out) /\ UNCHANGED <<mutex, to, hook, active, target, clients>>
    BY <1>1 DEF Push
  <2>2. to # NoConn
    BY <2>1 DEF LockInv
  <2>3. ASSUME NEW i \in DOMAIN out', out'[i][1] = "key" PROVE FALSE
    <3>1. out \in Seq(Message)
      BY DEF TypeOK
    <3>2. i \in 1..Len(Tail(out)) /\ Len(Tail(out)) = Len(out) - 1 /\ Tail(out)[i] = out[i + 1]
      BY <2>1, <2>3, <3>1, HeadTailProperties, LenProperties
    <3>3. i + 1 \in DOMAIN out /\ Len(out) # 1 /\ out[i + 1][1] = "key"
      BY <2>1, <2>3, <3>1, <3>2
    <3> QED BY <3>3 DEF LockInv
  <2> QED BY <2>1, <2>2, <2>3 DEF LockInv
<1>2. ASSUME NEW told \in BOOLEAN, PushFails(told) PROVE LockInv'
  <2>1. /\ out # <<>> /\ out' = Tail(out) /\ UNCHANGED <<mutex, to, hook, active, target, clients>>
    BY <1>2 DEF PushFails
  <2>2. to # NoConn
    BY <2>1 DEF LockInv
  <2>3. ASSUME NEW i \in DOMAIN out', out'[i][1] = "key" PROVE FALSE
    <3>1. out \in Seq(Message)
      BY DEF TypeOK
    <3>2. i \in 1..Len(Tail(out)) /\ Len(Tail(out)) = Len(out) - 1 /\ Tail(out)[i] = out[i + 1]
      BY <2>1, <2>3, <3>1, HeadTailProperties, LenProperties
    <3>3. i + 1 \in DOMAIN out /\ Len(out) # 1 /\ out[i + 1][1] = "key"
      BY <2>1, <2>3, <3>1, <3>2
    <3> QED BY <3>3 DEF LockInv
  <2> QED BY <2>1, <2>2, <2>3 DEF LockInv
<1>3. CASE EnterBegins
  <2>1. \A i \in DOMAIN out' : out'[i][1] # "key"
    BY <1>3 DEF EnterBegins, Begin, Handover
  <2> QED BY <1>3, <2>1, ConnAssumption DEF EnterBegins, Begin, LockInv, TypeOK, Service, Free
<1>4. CASE EnterFindsNobody
  BY <1>4, ConnAssumption DEF EnterFindsNobody, LockInv, TypeOK, Service, Free
<1>5. CASE EnterEnds
  BY <1>5, ConnAssumption DEF EnterEnds, End, Ready, LockInv, TypeOK, Service, Free
<1>6. CASE KeyBegins
  BY <1>6, ConnAssumption DEF KeyBegins, Begin, LockInv, TypeOK, Service, Free
<1>7. CASE KeyFindsNobody
  BY <1>7, ConnAssumption DEF KeyFindsNobody, LockInv, TypeOK, Service, Free
<1>8. CASE KeyEnds
  BY <1>8, ConnAssumption DEF KeyEnds, End, Ready, LockInv, TypeOK, Service, Free
<1>9. CASE LeaveBegins
  <2>1. \A i \in DOMAIN out' : out'[i][1] # "key"
    BY <1>9 DEF LeaveBegins, Begin
  <2> QED BY <1>9, <2>1, ConnAssumption DEF LeaveBegins, Begin, LockInv, TypeOK, Service, Free
<1>10. CASE LeaveEnds
  BY <1>10, ConnAssumption DEF LeaveEnds, End, Ready, BackToLocal, LockInv, TypeOK, Service, Free
<1>11. CASE KeeperLocks
  <2>1. \A i \in DOMAIN out' : out'[i][1] # "key"
    BY <1>11 DEF KeeperLocks, Begin
  <2> QED BY <1>11, <2>1, ConnAssumption DEF KeeperLocks, Begin, LockInv, TypeOK, Service, Free
<1>12. CASE KeeperUnlocks
  BY <1>12, ConnAssumption DEF KeeperUnlocks, End, Ready, LockInv, TypeOK, Service, Free
<1>13. ASSUME NEW c \in Conn, KeeperBeats(c) PROVE LockInv'
  <2>1. \A i \in DOMAIN out' : out'[i][1] # "key"
    BY <1>13 DEF KeeperBeats, Ready
  <2> QED BY <1>13, <2>1, ConnAssumption DEF KeeperBeats, Ready, LockInv, TypeOK, Service, Free
<1>14. ASSUME NEW c \in Conn, KeeperExpires(c) PROVE LockInv'
  BY <1>14, ConnAssumption DEF KeeperExpires, Ready, BackToLocal, LockInv, TypeOK, Service, Free
<1>15. CASE KeyTyped
  BY <1>15, ConnAssumption DEF KeyTyped, LockInv, TypeOK, Service, Free
<1>16. CASE Escape
  BY <1>16, ConnAssumption DEF Escape, LockInv, TypeOK, Service, Free
<1>17. ASSUME NEW what \in Contents, UserCopies(what) PROVE LockInv'
  BY <1>17, ConnAssumption DEF UserCopies, LockInv, TypeOK, Service, Free
<1>18. ASSUME NEW c \in Conn, Connects(c) PROVE LockInv'
  BY <1>18, ConnAssumption DEF Connects, LockInv, TypeOK, Service, Free
<1>19. ASSUME NEW c \in Conn, CursorHits(c) PROVE LockInv'
  BY <1>19, ConnAssumption DEF CursorHits, LockInv, TypeOK, Service, Free
<1>20. ASSUME NEW c \in Conn, Quits(c) PROVE LockInv'
  BY <1>20, ConnAssumption DEF Quits, LockInv, TypeOK, Service, Free
<1>21. ASSUME NEW c \in Conn, LinkBreaks(c) PROVE LockInv'
  BY <1>21, ConnAssumption DEF LinkBreaks, LockInv, TypeOK, Service, Free
<1>22. ASSUME NEW c \in Conn, HelloBegins(c) PROVE LockInv'
  <2>1. \A i \in DOMAIN out' : out'[i][1] # "key"
    BY <1>22 DEF HelloBegins, Begin
  <2> QED BY <1>22, <2>1, ConnAssumption DEF HelloBegins, Begin, LockInv, TypeOK, Service, Free
<1>23. ASSUME NEW c \in Conn, HelloEnds(c) PROVE LockInv'
  BY <1>23, ConnAssumption DEF HelloEnds, End, Ready, LockInv, TypeOK, Service, Free
<1>24. ASSUME NEW c \in Conn, RecvStops(c) PROVE LockInv'
  BY <1>24, ConnAssumption DEF RecvStops, LockInv, TypeOK, Service, Free
<1>25. ASSUME NEW c \in Conn, RecvEnds(c) PROVE LockInv'
  BY <1>25, ConnAssumption DEF RecvEnds, LockInv, TypeOK, Service, Free
<1>26. ASSUME NEW c \in Conn, ReadsNothing(c) PROVE LockInv'
  BY <1>26, ConnAssumption DEF ReadsNothing, Reads, LockInv, TypeOK, Service, Free
<1>27. ASSUME NEW c \in Conn, ReadsClipboard(c) PROVE LockInv'
  BY <1>27, ConnAssumption DEF ReadsClipboard, Reads, LockInv, TypeOK, Service, Free
<1>28. ASSUME NEW c \in Conn, ReadsEnter(c) PROVE LockInv'
  BY <1>28, ConnAssumption DEF ReadsEnter, Reads, LockInv, TypeOK, Service, Free
<1>29. ASSUME NEW c \in Conn, ReadsLeave(c) PROVE LockInv'
  BY <1>29, ConnAssumption DEF ReadsLeave, Reads, LockInv, TypeOK, Service, Free
<1>30. ASSUME NEW c \in Conn, ReadsKey(c) PROVE LockInv'
  BY <1>30, ConnAssumption DEF ReadsKey, Reads, LockInv, TypeOK, Service, Free
<1>31. ASSUME NEW c \in Conn, LosesServer(c) PROVE LockInv'
  BY <1>31, ConnAssumption DEF LosesServer, LockInv, TypeOK, Service, Free
<1>32. CASE UNCHANGED vars
  BY <1>32, ConnAssumption DEF vars, LockInv, TypeOK, Service, Free
<1> QED
  BY <1>1, <1>2, <1>3, <1>4, <1>5, <1>6, <1>7, <1>8, <1>9, <1>10, <1>11, <1>12, <1>13, <1>14, <1>15, <1>16, <1>17,
     <1>18, <1>19, <1>20, <1>21, <1>22, <1>23, <1>24, <1>25, <1>26, <1>27, <1>28, <1>29, <1>30, <1>31, <1>32
     DEF Next, Event, Sends, HookStep, KeeperStep, RecvStep, ClientStep

LEMMA LinkStep == TypeOK /\ LockInv /\ LinkInv /\ [Next]_vars => LinkInv'
<1> SUFFICES ASSUME TypeOK, LockInv, LinkInv, [Next]_vars PROVE LinkInv'
  OBVIOUS
<1> USE DEF Running, switchVars, lockVars, hookVars, recvVars, clientVars
<1>1. CASE Push
  BY <1>1, ConnAssumption DEF Push, LinkInv, LockInv, TypeOK, NoConn
<1>2. ASSUME NEW told \in BOOLEAN, PushFails(told) PROVE LinkInv'
  BY <1>2, ConnAssumption DEF PushFails, LinkInv, LockInv, TypeOK, NoConn
<1>3. CASE EnterBegins
  BY <1>3, ConnAssumption DEF EnterBegins, Begin, LinkInv, LockInv, TypeOK, NoConn
<1>4. CASE EnterFindsNobody
  BY <1>4, ConnAssumption DEF EnterFindsNobody, LinkInv, LockInv, TypeOK, NoConn
<1>5. CASE EnterEnds
  BY <1>5, ConnAssumption DEF EnterEnds, End, Ready, LinkInv, LockInv, TypeOK, NoConn
<1>6. CASE KeyBegins
  BY <1>6, ConnAssumption DEF KeyBegins, Begin, LinkInv, LockInv, TypeOK, NoConn
<1>7. CASE KeyFindsNobody
  BY <1>7, ConnAssumption DEF KeyFindsNobody, LinkInv, LockInv, TypeOK, NoConn
<1>8. CASE KeyEnds
  BY <1>8, ConnAssumption DEF KeyEnds, End, Ready, LinkInv, LockInv, TypeOK, NoConn
<1>9. CASE LeaveBegins
  BY <1>9, ConnAssumption DEF LeaveBegins, Begin, LinkInv, LockInv, TypeOK, NoConn
<1>10. CASE LeaveEnds
  BY <1>10, ConnAssumption DEF LeaveEnds, End, Ready, BackToLocal, LinkInv, LockInv, TypeOK, NoConn
<1>11. CASE KeeperLocks
  BY <1>11, ConnAssumption DEF KeeperLocks, Begin, LinkInv, LockInv, TypeOK, NoConn
<1>12. CASE KeeperUnlocks
  BY <1>12, ConnAssumption DEF KeeperUnlocks, End, Ready, LinkInv, LockInv, TypeOK, NoConn
<1>13. ASSUME NEW c \in Conn, KeeperBeats(c) PROVE LinkInv'
  BY <1>13, ConnAssumption DEF KeeperBeats, Ready, LinkInv, LockInv, TypeOK, NoConn
<1>14. ASSUME NEW c \in Conn, KeeperExpires(c) PROVE LinkInv'
  BY <1>14, ConnAssumption DEF KeeperExpires, Ready, BackToLocal, LinkInv, LockInv, TypeOK, NoConn
<1>15. CASE KeyTyped
  BY <1>15, ConnAssumption DEF KeyTyped, LinkInv, LockInv, TypeOK, NoConn
<1>16. CASE Escape
  BY <1>16, ConnAssumption DEF Escape, LinkInv, LockInv, TypeOK, NoConn
<1>17. ASSUME NEW what \in Contents, UserCopies(what) PROVE LinkInv'
  BY <1>17, ConnAssumption DEF UserCopies, LinkInv, LockInv, TypeOK, NoConn
<1>18. ASSUME NEW c \in Conn, Connects(c) PROVE LinkInv'
  BY <1>18, ConnAssumption DEF Connects, LinkInv, LockInv, TypeOK, NoConn
<1>19. ASSUME NEW c \in Conn, CursorHits(c) PROVE LinkInv'
  BY <1>19, ConnAssumption DEF CursorHits, LinkInv, LockInv, TypeOK, NoConn
<1>20. ASSUME NEW c \in Conn, Quits(c) PROVE LinkInv'
  BY <1>20, ConnAssumption DEF Quits, LinkInv, LockInv, TypeOK, NoConn
<1>21. ASSUME NEW c \in Conn, LinkBreaks(c) PROVE LinkInv'
  BY <1>21, ConnAssumption DEF LinkBreaks, LinkInv, LockInv, TypeOK, NoConn
<1>22. ASSUME NEW c \in Conn, HelloBegins(c) PROVE LinkInv'
  BY <1>22, ConnAssumption DEF HelloBegins, Begin, LinkInv, LockInv, TypeOK, NoConn
<1>23. ASSUME NEW c \in Conn, HelloEnds(c) PROVE LinkInv'
  BY <1>23, ConnAssumption DEF HelloEnds, End, Ready, LinkInv, LockInv, TypeOK, NoConn
<1>24. ASSUME NEW c \in Conn, RecvStops(c) PROVE LinkInv'
  BY <1>24, ConnAssumption DEF RecvStops, LinkInv, LockInv, TypeOK, NoConn
<1>25. ASSUME NEW c \in Conn, RecvEnds(c) PROVE LinkInv'
  BY <1>25, ConnAssumption DEF RecvEnds, LinkInv, LockInv, TypeOK, NoConn
<1>26. ASSUME NEW c \in Conn, ReadsNothing(c) PROVE LinkInv'
  <2>1. Reads(c, "other")
    BY <1>26 DEF ReadsNothing
  <2>2. process[c] # "none" /\ \A d \in Conn \ {c} : process'[d] = process[d] /\ down'[d] = down[d]
    BY <1>26, <2>1, ReadStep DEF ReadsNothing, Reads, TypeOK
  <2>3. process'[c] # "none"
    BY <1>26, <2>2 DEF ReadsNothing, Reads, TypeOK
  <2> QED BY <1>26, <2>2, <2>3 DEF ReadsNothing, Reads, LinkInv
<1>27. ASSUME NEW c \in Conn, ReadsClipboard(c) PROVE LinkInv'
  <2>1. Reads(c, "clip")
    BY <1>27 DEF ReadsClipboard
  <2>2. process[c] # "none" /\ \A d \in Conn \ {c} : process'[d] = process[d] /\ down'[d] = down[d]
    BY <1>27, <2>1, ReadStep DEF ReadsClipboard, Reads, TypeOK
  <2>3. process'[c] # "none"
    BY <1>27, <2>2 DEF ReadsClipboard, Reads, TypeOK
  <2> QED BY <1>27, <2>2, <2>3 DEF ReadsClipboard, Reads, LinkInv
<1>28. ASSUME NEW c \in Conn, ReadsEnter(c) PROVE LinkInv'
  <2>1. Reads(c, "enter")
    BY <1>28 DEF ReadsEnter
  <2>2. process[c] # "none" /\ \A d \in Conn \ {c} : process'[d] = process[d] /\ down'[d] = down[d]
    BY <1>28, <2>1, ReadStep DEF ReadsEnter, Reads, TypeOK
  <2>3. process'[c] # "none"
    BY <1>28, <2>2 DEF ReadsEnter, Reads, TypeOK
  <2> QED BY <1>28, <2>2, <2>3 DEF ReadsEnter, Reads, LinkInv
<1>29. ASSUME NEW c \in Conn, ReadsLeave(c) PROVE LinkInv'
  <2>1. Reads(c, "leave")
    BY <1>29 DEF ReadsLeave
  <2>2. process[c] # "none" /\ \A d \in Conn \ {c} : process'[d] = process[d] /\ down'[d] = down[d]
    BY <1>29, <2>1, ReadStep DEF ReadsLeave, Reads, TypeOK
  <2>3. process'[c] # "none"
    BY <1>29, <2>2 DEF ReadsLeave, Reads, TypeOK
  <2> QED BY <1>29, <2>2, <2>3 DEF ReadsLeave, Reads, LinkInv
<1>30. ASSUME NEW c \in Conn, ReadsKey(c) PROVE LinkInv'
  <2>1. Reads(c, "key")
    BY <1>30 DEF ReadsKey
  <2>2. process[c] # "none" /\ \A d \in Conn \ {c} : process'[d] = process[d] /\ down'[d] = down[d]
    BY <1>30, <2>1, ReadStep DEF ReadsKey, Reads, TypeOK
  <2>3. process'[c] # "none"
    BY <1>30, <2>2 DEF ReadsKey, Reads, TypeOK
  <2> QED BY <1>30, <2>2, <2>3 DEF ReadsKey, Reads, LinkInv
<1>31. ASSUME NEW c \in Conn, LosesServer(c) PROVE LinkInv'
  BY <1>31, ConnAssumption DEF LosesServer, LinkInv, LockInv, TypeOK, NoConn
<1>32. CASE UNCHANGED vars
  BY <1>32, ConnAssumption DEF vars, LinkInv, LockInv, TypeOK, NoConn
<1> QED
  BY <1>1, <1>2, <1>3, <1>4, <1>5, <1>6, <1>7, <1>8, <1>9, <1>10, <1>11, <1>12, <1>13, <1>14, <1>15, <1>16, <1>17,
     <1>18, <1>19, <1>20, <1>21, <1>22, <1>23, <1>24, <1>25, <1>26, <1>27, <1>28, <1>29, <1>30, <1>31, <1>32
     DEF Next, Event, Sends, HookStep, KeeperStep, RecvStep, ClientStep

LEMMA HandoverLast ==
  ASSUME TypeOK, NEW c \in Conn, NEW state
  PROVE  ActiveAfter(down[c] \o Handover, state)
<1>1. <<"enter">> \in Message /\ <<"enter">>[1] = "enter" /\ IsSwitch(<<"enter">>)
  BY MessageTypes DEF IsSwitch
<1>2. CASE content = "none"
  <2>1. down[c] \o Handover = Append(down[c], <<"enter">>)
    BY <1>1, <1>2, DownTypes, AppendIsConcat DEF Handover
  <2> QED BY <1>1, <2>1, DownTypes, ActiveAfterAppend
<1>3. CASE content # "none"
  <2>1. <<"clip", content>> \in Message
    BY <1>3, MessageTypes DEF TypeOK
  <2>2. PICK a \in Message, b \in Message : a = <<"clip", content>> /\ b = <<"enter">>
    BY <1>1, <2>1
  <2>3. Handover = <<a, b>>
    BY <1>3, <2>2 DEF Handover
  <2>4. down[c] \o Handover = Append(Append(down[c], a), b) /\ Append(down[c], a) \in Seq(Message)
    BY <2>3, DownTypes, AppendTwo
  <2>5. IsSwitch(b) /\ b[1] = "enter"
    BY <1>1, <2>2
  <2> QED BY <2>4, <2>5, ActiveAfterAppend
<1> QED BY <1>2, <1>3

LEMMA EndsStep == TypeOK /\ LockInv /\ LinkInv /\ OwedInv /\ EndsInv /\ [Next]_vars => EndsInv'
<1> SUFFICES ASSUME TypeOK, LockInv, LinkInv, OwedInv, EndsInv, [Next]_vars PROVE EndsInv'
  OBVIOUS
<1> USE DEF Running, switchVars, lockVars, hookVars, recvVars, clientVars
<1>1. CASE Push
  <2>1. \A d \in Conn : Pending(d)' = Pending(d)
    BY <1>1, PushStep
  <2>2. Meant' = Meant
    BY <1>1, ConnAssumption DEF Push, Meant, LockInv, Service, Free
  <2> QED BY <1>1, <2>1, <2>2 DEF Push, EndsInv, WillBeActive
<1>2. ASSUME NEW told \in BOOLEAN, PushFails(told) PROVE EndsInv'
  <2>1. ASSUME NEW d \in Conn, link'[d] = "open" PROVE Pending(d)' = Pending(d) /\ link[d] = "open"
    BY <1>2, <2>1 DEF PushFails, Pending
  <2>2. Meant' = Meant
    BY <1>2 DEF PushFails, Meant
  <2> QED BY <1>2, <2>1, <2>2 DEF PushFails, EndsInv, WillBeActive
<1>3. CASE EnterBegins
  <2>0. PICK d \in Conn : d = target
    BY <1>3 DEF EnterBegins, Begin, TypeOK
  <2>1. mutex = Free /\ to' = d /\ out' = Handover /\ down' = down /\ Handover \in Seq(Message)
    BY <1>3, <2>0, HandoverType DEF EnterBegins, Begin
  <2>2. /\ \A e \in Conn : Pending(e) = down[e] /\ (e # d => Pending(e)' = Pending(e))
        /\ Pending(d)' = down[d] \o Handover
    BY <2>1, BeginStep
  <2>3. ActiveAfter(Pending(d)', process[d])
    BY <2>1, <2>2, HandoverLast
  <2>4. Meant = NoConn /\ Meant' = d
    BY <1>3, <2>0 DEF EnterBegins, Begin, Meant, LockInv, Free
  <2> QED BY <1>3, <2>1, <2>2, <2>3, <2>4, ConnAssumption DEF EnterBegins, Begin, EndsInv, WillBeActive
<1>4. CASE EnterFindsNobody
  <2>1. \A d \in Conn : Pending(d)' = Pending(d)
    BY <1>4 DEF EnterFindsNobody, Pending
  <2>2. Meant' = Meant
    BY <1>4, ConnAssumption DEF EnterFindsNobody, Meant, LockInv, Service, Free
  <2> QED BY <1>4, <2>1, <2>2 DEF EnterFindsNobody, EndsInv, WillBeActive
<1>5. CASE EnterEnds
  <2>1. \A d \in Conn : Pending(d)' = Pending(d)
    BY <1>5, DownTypes, PendingIsDown DEF EnterEnds, End, Ready, Pending
  <2>2. Meant' = Meant
    BY <1>5, ConnAssumption DEF EnterEnds, End, Ready, Meant, LockInv, LinkInv, Service, Free, TypeOK
  <2> QED BY <1>5, <2>1, <2>2 DEF EnterEnds, End, Ready, EndsInv, WillBeActive
<1>6. CASE KeyBegins
  <2>0. PICK d \in Conn : d = active
    BY <1>6 DEF KeyBegins, Begin, TypeOK
  <2>1. mutex = Free /\ to' = d /\ out' = <<<<"key", Last(owed[d])>>>> /\ d \in Conn /\ down' = down
    BY <2>0, <1>6 DEF KeyBegins, Begin, TypeOK
  <2>1a. <<"key", Last(owed[d])>> \in Message /\ <<<<"key", Last(owed[d])>>>> \in Seq(Message)
    <3>1. Awaited(d)
      BY <2>0, <1>6 DEF KeyBegins, Begin, Awaited, Free
    <3> QED BY <2>1, <3>1, AwaitedKey, MessageTypes
  <2>2. /\ \A e \in Conn : Pending(e) = down[e] /\ (e # d => Pending(e)' = Pending(e))
        /\ Pending(d)' = Append(Pending(d), <<"key", Last(owed[d])>>)
    BY <2>1, <2>1a, BeginStep, DownTypes, AppendIsConcat
  <2>3. ActiveAfter(Pending(d)', process[d]) <=> ActiveAfter(Pending(d), process[d])
    BY <2>1, <2>1a, <2>2, PendingType, ActiveAfterAppend DEF IsSwitch
  <2>4. Meant' = Meant
    BY <1>6, ConnAssumption DEF KeyBegins, Begin, Meant, Service, Free, TypeOK
  <2> QED BY <1>6, <2>1, <2>2, <2>3, <2>4 DEF KeyBegins, Begin, EndsInv, WillBeActive
<1>7. CASE KeyFindsNobody
  <2>1. \A d \in Conn : Pending(d)' = Pending(d)
    BY <1>7 DEF KeyFindsNobody, Pending
  <2>2. Meant' = Meant
    BY <1>7, ConnAssumption DEF KeyFindsNobody, Meant, LockInv, Service, Free
  <2> QED BY <1>7, <2>1, <2>2 DEF KeyFindsNobody, EndsInv, WillBeActive
<1>8. CASE KeyEnds
  <2>1. \A d \in Conn : Pending(d)' = Pending(d)
    BY <1>8, DownTypes, PendingIsDown DEF KeyEnds, End, Ready, Pending
  <2>2. Meant' = Meant
    BY <1>8, ConnAssumption DEF KeyEnds, End, Ready, Meant, LockInv, LinkInv, Service, Free, TypeOK
  <2> QED BY <1>8, <2>1, <2>2 DEF KeyEnds, End, Ready, EndsInv, WillBeActive
<1>9. CASE LeaveBegins
  <2>0. PICK d \in Conn : d = active
    BY <1>9 DEF LeaveBegins, Begin, TypeOK
  <2>1. mutex = Free /\ to' = d /\ out' = <<<<"leave">>>> /\ d \in Conn /\ down' = down
    BY <2>0, <1>9 DEF LeaveBegins, Begin, TypeOK
  <2>1a. <<"leave">> \in Message /\ <<<<"leave">>>> \in Seq(Message)
    BY MessageTypes
  <2>2. /\ \A e \in Conn : Pending(e) = down[e] /\ (e # d => Pending(e)' = Pending(e))
        /\ Pending(d)' = Append(Pending(d), <<"leave">>)
    BY <2>1, <2>1a, BeginStep, DownTypes, AppendIsConcat
  <2>3. ActiveAfter(Pending(d)', process[d]) <=> FALSE
    BY <2>1, <2>1a, <2>2, PendingType, ActiveAfterAppend DEF IsSwitch
  <2>4. Meant = d /\ Meant' = NoConn
    BY <2>0, <1>9 DEF LeaveBegins, Begin, Meant, Free
  <2> QED BY <1>9, <2>1, <2>2, <2>3, <2>4, ConnAssumption DEF LeaveBegins, Begin, EndsInv, WillBeActive
<1>10. CASE LeaveEnds
  <2>1. \A d \in Conn : Pending(d)' = Pending(d)
    BY <1>10, DownTypes, PendingIsDown DEF LeaveEnds, End, Ready, BackToLocal, Pending
  <2>2. ASSUME NEW d \in Conn, link[d] = "open" PROVE Meant' = d <=> Meant = d
    BY <1>10, <2>2, ConnAssumption DEF LeaveEnds, End, Ready, BackToLocal, Meant, LockInv, LinkInv, Free
  <2> QED BY <1>10, <2>1, <2>2 DEF LeaveEnds, End, Ready, BackToLocal, EndsInv, WillBeActive
<1>11. CASE KeeperLocks
  <2>1. \A d \in Conn : Pending(d)' = Pending(d)
    BY <1>11 DEF KeeperLocks, Begin, Pending, LockInv
  <2>2. Meant' = Meant
    BY <1>11, ConnAssumption DEF KeeperLocks, Begin, Meant, LockInv, Service, Free
  <2> QED BY <1>11, <2>1, <2>2 DEF KeeperLocks, Begin, EndsInv, WillBeActive
<1>12. CASE KeeperUnlocks
  <2>1. \A d \in Conn : Pending(d)' = Pending(d)
    BY <1>12, DownTypes, PendingIsDown DEF KeeperUnlocks, End, Ready, Pending
  <2>2. Meant' = Meant
    BY <1>12, ConnAssumption DEF KeeperUnlocks, End, Ready, Meant, LockInv, LinkInv, Service, Free, TypeOK
  <2> QED BY <1>12, <2>1, <2>2 DEF KeeperUnlocks, End, Ready, EndsInv, WillBeActive
<1>13. ASSUME NEW c \in Conn, KeeperBeats(c) PROVE EndsInv'
  <2>1. \A d \in Conn \ {c} : Pending(d)' = Pending(d)
    BY <1>13, PendingIsDown DEF KeeperBeats, Ready, Pending
  <2>2. Pending(c) = down[c] /\ Pending(c)' = Append(down[c], <<"other">>)
    BY <1>13, PendingIsDown, DownTypes, MessageTypes, AppendIsConcat DEF KeeperBeats, Ready, Pending
  <2>3. ActiveAfter(Pending(c)', process[c]) <=> ActiveAfter(Pending(c), process[c])
    BY <2>2, MessageTypes, DownTypes, ActiveAfterAppend DEF IsSwitch
  <2>4. Meant' = Meant
    BY <1>13, ConnAssumption DEF KeeperBeats, Ready, Meant, Service, Free
  <2> QED BY <1>13, <2>1, <2>2, <2>3, <2>4 DEF KeeperBeats, Ready, EndsInv, WillBeActive
<1>14. ASSUME NEW c \in Conn, KeeperExpires(c) PROVE EndsInv'
  <2>1. \A d \in Conn : Pending(d)' = Pending(d)
    BY <1>14 DEF KeeperExpires, Ready, BackToLocal, Pending
  <2>2. ASSUME NEW d \in Conn, link'[d] = "open" PROVE d # c /\ link[d] = "open"
    BY <1>14, <2>2 DEF KeeperExpires, Ready, BackToLocal, TypeOK
  <2>3. ASSUME NEW d \in Conn, d # c PROVE Meant' = d <=> Meant = d
    BY <1>14, <2>3, ConnAssumption DEF KeeperExpires, Ready, BackToLocal, Meant, Service, Free
  <2> QED BY <1>14, <2>1, <2>2, <2>3 DEF KeeperExpires, Ready, BackToLocal, EndsInv, WillBeActive
<1>15. CASE KeyTyped
  <2>1. \A d \in Conn : Pending(d)' = Pending(d)
    BY <1>15 DEF KeyTyped, Pending
  <2>2. Meant' = Meant
    BY <1>15, ConnAssumption DEF KeyTyped, Meant, LockInv, Service, Free
  <2> QED BY <1>15, <2>1, <2>2 DEF KeyTyped, EndsInv, WillBeActive
<1>16. CASE Escape
  <2>1. \A d \in Conn : Pending(d)' = Pending(d)
    BY <1>16 DEF Escape, Pending
  <2>2. Meant' = Meant
    BY <1>16, ConnAssumption DEF Escape, Meant, LockInv, Service, Free
  <2> QED BY <1>16, <2>1, <2>2 DEF Escape, EndsInv, WillBeActive
<1>17. ASSUME NEW what \in Contents, UserCopies(what) PROVE EndsInv'
  <2>1. \A d \in Conn : Pending(d)' = Pending(d)
    BY <1>17 DEF UserCopies, Pending
  <2>2. Meant' = Meant
    BY <1>17, ConnAssumption DEF UserCopies, Meant, LockInv, Service, Free
  <2> QED BY <1>17, <2>1, <2>2 DEF UserCopies, EndsInv, WillBeActive
<1>18. ASSUME NEW c \in Conn, Connects(c) PROVE EndsInv'
  <2>1. \A d \in Conn : Pending(d)' = Pending(d)
    BY <1>18 DEF Connects, Pending
  <2>2. ASSUME NEW d \in Conn, d # c
        PROVE  (link'[d] = "open" => link[d] = "open") /\ process'[d] = process[d]
    BY <1>18, <2>2 DEF Connects, TypeOK
  <2>3. Pending(c) = <<>> /\ process'[c] = "CONNECTED"
    BY <1>18, PendingIsDown DEF Connects, LinkInv, TypeOK
  <2>4. ~WillBeActive(c)'
    BY <2>1, <2>3, ActiveAfterNothing DEF WillBeActive
  <2>5. Meant' = Meant /\ Meant # c
    BY <1>18, ConnAssumption DEF Connects, Meant, LinkInv, Free
  <2>6. ASSUME NEW d \in Conn, d # c, link'[d] = "open" PROVE WillBeActive(d)' <=> Meant' = d
    BY <2>1, <2>2, <2>5, <2>6 DEF EndsInv, WillBeActive
  <2> QED BY <2>4, <2>5, <2>6 DEF EndsInv
<1>19. ASSUME NEW c \in Conn, CursorHits(c) PROVE EndsInv'
  <2>1. \A d \in Conn : Pending(d)' = Pending(d)
    BY <1>19 DEF CursorHits, Pending
  <2>2. Meant' = Meant
    BY <1>19, ConnAssumption DEF CursorHits, Meant, LockInv, Service, Free
  <2> QED BY <1>19, <2>1, <2>2 DEF CursorHits, EndsInv, WillBeActive
<1>20. ASSUME NEW c \in Conn, Quits(c) PROVE EndsInv'
  <2>1. ASSUME NEW d \in Conn, link'[d] = "open"
        PROVE  Pending(d)' = Pending(d) /\ process'[d] = process[d] /\ link[d] = "open"
    BY <1>20, <2>1 DEF Quits, Pending, TypeOK
  <2>2. Meant' = Meant
    BY <1>20 DEF Quits, Meant
  <2> QED BY <2>1, <2>2 DEF EndsInv, WillBeActive
<1>21. ASSUME NEW c \in Conn, LinkBreaks(c) PROVE EndsInv'
  <2>1. ASSUME NEW d \in Conn, link'[d] = "open"
        PROVE  Pending(d)' = Pending(d) /\ process'[d] = process[d] /\ link[d] = "open"
    BY <1>21, <2>1 DEF LinkBreaks, Pending, TypeOK
  <2>2. Meant' = Meant
    BY <1>21 DEF LinkBreaks, Meant
  <2> QED BY <2>1, <2>2 DEF EndsInv, WillBeActive
<1>22. ASSUME NEW c \in Conn, HelloBegins(c) PROVE EndsInv'
  <2>1. mutex = Free /\ to' = c /\ out' = <<<<"other">>>> /\ c \in Conn /\ down' = down
    BY <1>22 DEF HelloBegins, Begin, TypeOK
  <2>1a. <<"other">> \in Message /\ <<<<"other">>>> \in Seq(Message)
    BY MessageTypes
  <2>2. /\ \A e \in Conn : Pending(e) = down[e] /\ (e # c => Pending(e)' = Pending(e))
        /\ Pending(c)' = Append(Pending(c), <<"other">>)
    BY <2>1, <2>1a, BeginStep, DownTypes, AppendIsConcat
  <2>3. ActiveAfter(Pending(c)', process[c]) <=> ActiveAfter(Pending(c), process[c])
    BY <2>1, <2>1a, <2>2, PendingType, ActiveAfterAppend DEF IsSwitch
  <2>4. Meant' = Meant
    BY <1>22, ConnAssumption DEF HelloBegins, Begin, Meant, Service, Free, TypeOK
  <2> QED BY <1>22, <2>1, <2>2, <2>3, <2>4 DEF HelloBegins, Begin, EndsInv, WillBeActive
<1>23. ASSUME NEW c \in Conn, HelloEnds(c) PROVE EndsInv'
  <2>1. \A d \in Conn : Pending(d)' = Pending(d)
    BY <1>23, DownTypes, PendingIsDown DEF HelloEnds, End, Ready, Pending
  <2>2. Meant' = Meant
    BY <1>23, ConnAssumption DEF HelloEnds, End, Ready, Meant, LockInv, LinkInv, Service, Free, TypeOK
  <2> QED BY <1>23, <2>1, <2>2 DEF HelloEnds, End, Ready, EndsInv, WillBeActive
<1>24. ASSUME NEW c \in Conn, RecvStops(c) PROVE EndsInv'
  <2>1. \A d \in Conn : Pending(d)' = Pending(d)
    BY <1>24 DEF RecvStops, Pending
  <2>2. Meant' = Meant
    BY <1>24, ConnAssumption DEF RecvStops, Meant, LockInv, Service, Free
  <2> QED BY <1>24, <2>1, <2>2 DEF RecvStops, EndsInv, WillBeActive
<1>25. ASSUME NEW c \in Conn, RecvEnds(c) PROVE EndsInv'
  <2>1. \A d \in Conn : Pending(d)' = Pending(d)
    BY <1>25 DEF RecvEnds, Pending
  <2>2. Meant' = Meant
    BY <1>25, ConnAssumption DEF RecvEnds, Meant, LockInv, Service, Free
  <2> QED BY <1>25, <2>1, <2>2 DEF RecvEnds, EndsInv, WillBeActive
<1>26. ASSUME NEW c \in Conn, ReadsNothing(c) PROVE EndsInv'
  <2>1. Reads(c, "other") /\ \A d \in Conn \ {c} : process'[d] = process[d]
    BY <1>26 DEF ReadsNothing, TypeOK
  <2>2. /\ Head(Pending(c)) = Head(down[c]) /\ Head(down[c])[1] = "other" /\ Pending(c) # <<>>
        /\ Pending(c)' = Tail(Pending(c)) /\ \A d \in Conn \ {c} : Pending(d)' = Pending(d)
    BY <2>1, ReadStep
  <2>3. process'[c] = StateAfter(Head(Pending(c)), process[c])
    BY <1>26, <2>2 DEF ReadsNothing, StateAfter, TypeOK
  <2>4. WillBeActive(c)' <=> WillBeActive(c)
    BY <2>2, <2>3, PendingType, ActiveAfterTail DEF WillBeActive
  <2>5. Meant' = Meant /\ link' = link
    BY <1>26 DEF ReadsNothing, Reads, Meant
  <2> QED BY <2>1, <2>2, <2>4, <2>5 DEF EndsInv, WillBeActive
<1>27. ASSUME NEW c \in Conn, ReadsClipboard(c) PROVE EndsInv'
  <2>1. Reads(c, "clip") /\ \A d \in Conn \ {c} : process'[d] = process[d]
    BY <1>27 DEF ReadsClipboard, TypeOK
  <2>2. /\ Head(Pending(c)) = Head(down[c]) /\ Head(down[c])[1] = "clip" /\ Pending(c) # <<>>
        /\ Pending(c)' = Tail(Pending(c)) /\ \A d \in Conn \ {c} : Pending(d)' = Pending(d)
    BY <2>1, ReadStep
  <2>3. process'[c] = StateAfter(Head(Pending(c)), process[c])
    BY <1>27, <2>2 DEF ReadsClipboard, StateAfter, TypeOK
  <2>4. WillBeActive(c)' <=> WillBeActive(c)
    BY <2>2, <2>3, PendingType, ActiveAfterTail DEF WillBeActive
  <2>5. Meant' = Meant /\ link' = link
    BY <1>27 DEF ReadsClipboard, Reads, Meant
  <2> QED BY <2>1, <2>2, <2>4, <2>5 DEF EndsInv, WillBeActive
<1>28. ASSUME NEW c \in Conn, ReadsEnter(c) PROVE EndsInv'
  <2>1. Reads(c, "enter") /\ \A d \in Conn \ {c} : process'[d] = process[d]
    BY <1>28 DEF ReadsEnter, TypeOK
  <2>2. /\ Head(Pending(c)) = Head(down[c]) /\ Head(down[c])[1] = "enter" /\ Pending(c) # <<>>
        /\ Pending(c)' = Tail(Pending(c)) /\ \A d \in Conn \ {c} : Pending(d)' = Pending(d)
    BY <2>1, ReadStep
  <2>3. process'[c] = StateAfter(Head(Pending(c)), process[c])
    BY <1>28, <2>2 DEF ReadsEnter, StateAfter, TypeOK
  <2>4. WillBeActive(c)' <=> WillBeActive(c)
    BY <2>2, <2>3, PendingType, ActiveAfterTail DEF WillBeActive
  <2>5. Meant' = Meant /\ link' = link
    BY <1>28 DEF ReadsEnter, Reads, Meant
  <2> QED BY <2>1, <2>2, <2>4, <2>5 DEF EndsInv, WillBeActive
<1>29. ASSUME NEW c \in Conn, ReadsLeave(c) PROVE EndsInv'
  <2>1. Reads(c, "leave") /\ \A d \in Conn \ {c} : process'[d] = process[d]
    BY <1>29 DEF ReadsLeave, TypeOK
  <2>2. /\ Head(Pending(c)) = Head(down[c]) /\ Head(down[c])[1] = "leave" /\ Pending(c) # <<>>
        /\ Pending(c)' = Tail(Pending(c)) /\ \A d \in Conn \ {c} : Pending(d)' = Pending(d)
    BY <2>1, ReadStep
  <2>3. process'[c] = StateAfter(Head(Pending(c)), process[c])
    BY <1>29, <2>2 DEF ReadsLeave, StateAfter, TypeOK
  <2>4. WillBeActive(c)' <=> WillBeActive(c)
    BY <2>2, <2>3, PendingType, ActiveAfterTail DEF WillBeActive
  <2>5. Meant' = Meant /\ link' = link
    BY <1>29 DEF ReadsLeave, Reads, Meant
  <2> QED BY <2>1, <2>2, <2>4, <2>5 DEF EndsInv, WillBeActive
<1>30. ASSUME NEW c \in Conn, ReadsKey(c) PROVE EndsInv'
  <2>1. Reads(c, "key") /\ \A d \in Conn \ {c} : process'[d] = process[d]
    BY <1>30 DEF ReadsKey, TypeOK
  <2>2. /\ Head(Pending(c)) = Head(down[c]) /\ Head(down[c])[1] = "key" /\ Pending(c) # <<>>
        /\ Pending(c)' = Tail(Pending(c)) /\ \A d \in Conn \ {c} : Pending(d)' = Pending(d)
    BY <2>1, ReadStep
  <2>3. process'[c] = StateAfter(Head(Pending(c)), process[c])
    BY <1>30, <2>2 DEF ReadsKey, StateAfter, TypeOK
  <2>4. WillBeActive(c)' <=> WillBeActive(c)
    BY <2>2, <2>3, PendingType, ActiveAfterTail DEF WillBeActive
  <2>5. Meant' = Meant /\ link' = link
    BY <1>30 DEF ReadsKey, Reads, Meant
  <2> QED BY <2>1, <2>2, <2>4, <2>5 DEF EndsInv, WillBeActive
<1>31. ASSUME NEW c \in Conn, LosesServer(c) PROVE EndsInv'
  <2>1. ASSUME NEW d \in Conn, link'[d] = "open"
        PROVE  Pending(d)' = Pending(d) /\ process'[d] = process[d] /\ link[d] = "open"
    BY <1>31, <2>1 DEF LosesServer, Pending, TypeOK
  <2>2. Meant' = Meant
    BY <1>31 DEF LosesServer, Meant
  <2> QED BY <2>1, <2>2 DEF EndsInv, WillBeActive
<1>32. CASE UNCHANGED vars
  <2>1. \A d \in Conn : Pending(d)' = Pending(d)
    BY <1>32 DEF vars, Pending
  <2>2. Meant' = Meant
    BY <1>32, ConnAssumption DEF vars, Meant, LockInv, Service, Free
  <2> QED BY <1>32, <2>1, <2>2 DEF vars, EndsInv, WillBeActive
<1> QED
  BY <1>1, <1>2, <1>3, <1>4, <1>5, <1>6, <1>7, <1>8, <1>9, <1>10, <1>11, <1>12, <1>13, <1>14, <1>15, <1>16, <1>17,
     <1>18, <1>19, <1>20, <1>21, <1>22, <1>23, <1>24, <1>25, <1>26, <1>27, <1>28, <1>29, <1>30, <1>31, <1>32
     DEF Next, Event, Sends, HookStep, KeeperStep, RecvStep, ClientStep

LEMMA OwedKept ==
  ASSUME OwedInv, NEW d \in Conn, owed'[d] = owed[d], down'[d] = down[d], Awaited(d)' => Awaited(d),
         link'[d] = "open" => /\ link[d] = "open" /\ (Awaited(d)' <=> Awaited(d))
                              /\ KeysIn(Pending(d)') = KeysIn(Pending(d))
  PROVE  Arrived(d)' /\ UnderWay(d)'
<1>1. Arrived(d) /\ UnderWay(d)
  BY DEF OwedInv
<1>2. Arrived(d)'
  BY <1>1 DEF Arrived
<1>3. UnderWay(d)'
  BY <1>1 DEF UnderWay
<1> QED BY <1>2, <1>3

\* Nothing but keys counts.
LEMMA NoKeysAdded ==
  ASSUME NEW s \in Seq(Message), NEW m \in Message, m[1] # "key"
  PROVE  KeysIn(Append(s, m)) = KeysIn(s)
  BY KeysOfStream

LEMMA HandoverKeys ==
  ASSUME TypeOK, NEW c \in Conn
  PROVE  KeysIn(down[c] \o Handover) = KeysIn(down[c])
<1>1. PICK b \in Message : b = <<"enter">>
  BY MessageTypes
<1>2. b[1] # "key" /\ down[c] \in Seq(Message)
  BY <1>1, DownTypes
<1>3. CASE content = "none"
  BY <1>1, <1>2, <1>3, NoKeysAdded, AppendIsConcat DEF Handover
<1>4. CASE content # "none"
  <2>1. PICK a \in Message : a = <<"clip", content>>
    BY <1>4, MessageTypes DEF TypeOK
  <2>2. Handover = <<a, b>> /\ a[1] # "key"
    BY <1>1, <1>4, <2>1 DEF Handover
  <2>3. down[c] \o Handover = Append(Append(down[c], a), b) /\ Append(down[c], a) \in Seq(Message)
    BY <1>2, <2>2, AppendTwo
  <2> QED BY <1>2, <2>2, <2>3, NoKeysAdded
<1> QED BY <1>3, <1>4

LEMMA OwedStep == TypeOK /\ LockInv /\ LinkInv /\ OwedInv /\ [Next]_vars => OwedInv'
<1> SUFFICES ASSUME TypeOK, LockInv, LinkInv, OwedInv, [Next]_vars PROVE OwedInv'
  OBVIOUS
<1> USE DEF Running, switchVars, lockVars, hookVars, recvVars, clientVars
<1>1. CASE Push
  <2> SUFFICES ASSUME NEW d \in Conn PROVE Arrived(d)' /\ UnderWay(d)'
    BY DEF OwedInv
  <2>1. Pending(d)' = Pending(d) /\ down' = [down EXCEPT ![to] = Append(down[to], Head(out))] /\ down' \in [Conn -> Seq(Message)]
    BY <1>1, PushStep
  <2>2. owed' = owed /\ link' = link /\ link[to] = "open" /\ Awaited(d)' = Awaited(d)
    BY <1>1 DEF Push, Awaited
  <2>3. CASE d # to
    <3>1. down'[d] = down[d]
      BY <2>1, <2>3 DEF TypeOK
    <3> QED BY <2>1, <2>2, <3>1, OwedKept
  <2>4. CASE d = to
    <3>1. Arrived(d) /\ UnderWay(d)
      BY DEF OwedInv
    <3>2. UnderWay(d)'
      BY <2>1, <2>2, <3>1 DEF UnderWay
    <3>3. Tail(out) \in Seq(Message) /\ Pending(d)' = down'[d] \o Tail(out) /\ down'[d] \in Seq(Message)
      BY <1>1, <2>1, <2>4, PushStep DEF Push, Pending
    <3>4. /\ KeysIn(Pending(d)') = KeysIn(down'[d]) \o KeysIn(Tail(out))
          /\ KeysIn(down'[d]) \in Seq(1..MaxKeys) /\ KeysIn(Tail(out)) \in Seq(1..MaxKeys)
      BY <3>3, KeysOfStream
    <3>5. CASE ~Awaited(d)'
      <4>1. owed'[d] = KeysIn(down'[d]) \o KeysIn(Tail(out))
        BY <2>2, <2>4, <3>2, <3>4, <3>5 DEF UnderWay
      <4> QED BY <3>2, <3>4, <3>5, <4>1 DEF Arrived
    <3>6. CASE Awaited(d)'
      <4>1. PICK n \in 1..MaxKeys : owed'[d] = Append(KeysIn(down'[d]) \o KeysIn(Tail(out)), n)
        BY <2>2, <2>4, <3>2, <3>4, <3>6 DEF UnderWay
      <4>2. owed'[d] = KeysIn(down'[d]) \o Append(KeysIn(Tail(out)), n)
        BY <3>4, <4>1, AppendConcat
      <4>3. Append(KeysIn(Tail(out)), n) \in Seq(1..MaxKeys) /\ Append(KeysIn(Tail(out)), n) # <<>>
        BY <3>4, AppendProperties
      <4> QED BY <3>2, <4>2, <4>3 DEF Arrived
    <3> QED BY <3>5, <3>6
  <2> QED BY <2>3, <2>4
<1>2. ASSUME NEW told \in BOOLEAN, PushFails(told) PROVE OwedInv'
  <2> SUFFICES ASSUME NEW d \in Conn PROVE Arrived(d)' /\ UnderWay(d)'
    BY DEF OwedInv
  <2>1. owed'[d] = owed[d] /\ down'[d] = down[d] /\ Awaited(d)' = Awaited(d) /\ link' = link
    BY <1>2 DEF PushFails, Awaited
  <2>2. link'[d] = "open" => Pending(d)' = Pending(d)
    BY <1>2 DEF PushFails, Pending
  <2> QED BY <2>1, <2>2, OwedKept
<1>3. CASE EnterBegins
  <2>0. PICK e \in Conn : e = target
    BY <1>3 DEF EnterBegins, Begin, TypeOK
  <2>1. mutex = Free /\ to' = e /\ out' = Handover /\ down' = down /\ Handover \in Seq(Message)
    BY <2>0, <1>3, HandoverType DEF EnterBegins, Begin
  <2>2. /\ \A d \in Conn : Pending(d) = down[d] /\ (d # e => Pending(d)' = Pending(d))
        /\ Pending(e)' = down[e] \o Handover
    BY <2>1, BeginStep
  <2>3. KeysIn(Pending(e)') = KeysIn(Pending(e))
    BY <2>2, HandoverKeys
  <2> SUFFICES ASSUME NEW d \in Conn PROVE Arrived(d)' /\ UnderWay(d)'
    BY DEF OwedInv
  <2>4. owed'[d] = owed[d] /\ down'[d] = down[d] /\ link'[d] = link[d] /\ KeysIn(Pending(d)') = KeysIn(Pending(d))
    BY <1>3, <2>2, <2>3 DEF EnterBegins, Begin
  <2>5. Awaited(d)' = Awaited(d)
    BY <1>3 DEF EnterBegins, Begin, Awaited
  <2> QED BY <2>4, <2>5, OwedKept
<1>4. CASE EnterFindsNobody
  <2> SUFFICES ASSUME NEW d \in Conn PROVE Arrived(d)' /\ UnderWay(d)'
    BY DEF OwedInv
  <2>1. owed'[d] = owed[d] /\ down'[d] = down[d] /\ link'[d] = link[d]
    BY <1>4 DEF EnterFindsNobody
  <2>2. Pending(d)' = Pending(d)
    BY <1>4 DEF EnterFindsNobody, Pending
  <2>3. Awaited(d)' = Awaited(d)
    BY <1>4, ConnAssumption DEF EnterFindsNobody, Awaited, Free, Service, TypeOK
  <2> QED BY <2>1, <2>2, <2>3, OwedKept
<1>5. CASE EnterEnds
  <2> SUFFICES ASSUME NEW d \in Conn PROVE Arrived(d)' /\ UnderWay(d)'
    BY DEF OwedInv
  <2>1. owed'[d] = owed[d] /\ down'[d] = down[d] /\ link'[d] = link[d]
    BY <1>5 DEF EnterEnds, End, Ready
  <2>2. Pending(d)' = Pending(d)
    BY <1>5, DownTypes, PendingIsDown DEF EnterEnds, End, Ready, Pending
  <2>3. Awaited(d)' = Awaited(d)
    BY <1>5, ConnAssumption DEF EnterEnds, End, Ready, Awaited, Free, Service, TypeOK
  <2> QED BY <2>1, <2>2, <2>3, OwedKept
<1>6. CASE KeyBegins
  <2>0. PICK e \in Conn : e = active
    BY <1>6 DEF KeyBegins, Begin, TypeOK
  <2>1. Awaited(e) /\ mutex = Free /\ to' = e /\ out' = <<<<"key", Last(owed[e])>>>> /\ down' = down
    BY <2>0, <1>6 DEF KeyBegins, Begin, Awaited, Free
  <2>2. PICK m \in Message : m = <<"key", Last(owed[e])>>
    BY <2>1, AwaitedKey, MessageTypes
  <2>3. /\ \A d \in Conn : Pending(d) = down[d] /\ (d # e => Pending(d)' = Pending(d))
        /\ Pending(e)' = Append(Pending(e), m)
    <3>1. <<m>> \in Seq(Message)
      OBVIOUS
    <3> QED BY <2>1, <2>2, <3>1, BeginStep, DownTypes, AppendIsConcat
  <2>4. m[1] = "key" /\ m[2] = Last(owed[e])
    BY <2>2
  <2>5. KeysIn(Pending(e)') = Append(KeysIn(Pending(e)), Last(owed[e]))
    <3>1. KeysIn(Append(Pending(e), m)) = Append(KeysIn(Pending(e)), m[2])
      BY <2>4, PendingType, KeysOfAppend
    <3> QED BY <2>3, <2>4, <3>1
  <2> SUFFICES ASSUME NEW d \in Conn PROVE Arrived(d)' /\ UnderWay(d)'
    BY DEF OwedInv
  <2>6. owed'[d] = owed[d] /\ down'[d] = down[d] /\ link'[d] = link[d] /\ ~Awaited(d)'
    BY <1>6 DEF KeyBegins, Begin, Awaited
  <2>7. CASE d # e
    <3>1. ~Awaited(d)
      BY <2>0, <2>7 DEF Awaited
    <3> QED BY <2>3, <2>6, <2>7, <3>1, OwedKept
  <2>8. CASE d = e
    <3>1. Arrived(d) /\ UnderWay(d)
      BY DEF OwedInv
    <3>2. Arrived(d)'
      BY <2>6, <3>1 DEF Arrived
    <3>3. CASE link[d] = "open"
      <4>1. PICK n \in 1..MaxKeys : owed[d] = Append(KeysIn(Pending(d)), n)
        BY <2>1, <2>8, <3>1, <3>3 DEF UnderWay
      <4>2. KeysIn(Pending(d)) \in Seq(1..MaxKeys)
        BY PendingType, KeysOfStream
      <4>3. Last(owed[d]) = n
        BY <4>1, <4>2, LastOfAppend
      <4> QED BY <2>5, <2>6, <2>8, <3>2, <4>1, <4>3 DEF UnderWay
    <3> QED BY <2>6, <3>2, <3>3 DEF UnderWay
  <2> QED BY <2>7, <2>8
<1>7. CASE KeyFindsNobody
  <2> SUFFICES ASSUME NEW d \in Conn PROVE Arrived(d)' /\ UnderWay(d)'
    BY DEF OwedInv
  <2>1. owed'[d] = owed[d] /\ down'[d] = down[d] /\ link' = link /\ ~Awaited(d)'
    BY <1>7 DEF KeyFindsNobody, Awaited
  <2>2. Pending(d)' = Pending(d)
    BY <1>7 DEF KeyFindsNobody, Pending
  <2>3. link[d] = "open" => ~Awaited(d)
    BY <1>7 DEF KeyFindsNobody, Awaited, LinkInv
  <2> QED BY <2>1, <2>2, <2>3, OwedKept
<1>8. CASE KeyEnds
  <2> SUFFICES ASSUME NEW d \in Conn PROVE Arrived(d)' /\ UnderWay(d)'
    BY DEF OwedInv
  <2>1. owed'[d] = owed[d] /\ down'[d] = down[d] /\ link'[d] = link[d]
    BY <1>8 DEF KeyEnds, End, Ready
  <2>2. Pending(d)' = Pending(d)
    BY <1>8, DownTypes, PendingIsDown DEF KeyEnds, End, Ready, Pending
  <2>3. Awaited(d)' = Awaited(d)
    BY <1>8, ConnAssumption DEF KeyEnds, End, Ready, Awaited, Free, Service, TypeOK
  <2> QED BY <2>1, <2>2, <2>3, OwedKept
<1>9. CASE LeaveBegins
  <2>0. PICK e \in Conn : e = active
    BY <1>9 DEF LeaveBegins, Begin, TypeOK
  <2>1. mutex = Free /\ to' = e /\ out' = <<<<"leave">>>> /\ down' = down
    BY <2>0, <1>9 DEF LeaveBegins, Begin
  <2>2. <<"leave">> \in Message /\ <<<<"leave">>>> \in Seq(Message)
    BY MessageTypes
  <2>3. /\ \A d \in Conn : Pending(d) = down[d] /\ (d # e => Pending(d)' = Pending(d))
        /\ Pending(e)' = Append(Pending(e), <<"leave">>)
    BY <2>1, <2>2, BeginStep, DownTypes, AppendIsConcat
  <2>4. KeysIn(Pending(e)') = KeysIn(Pending(e))
    BY <2>2, <2>3, PendingType, NoKeysAdded
  <2> SUFFICES ASSUME NEW d \in Conn PROVE Arrived(d)' /\ UnderWay(d)'
    BY DEF OwedInv
  <2>5. owed'[d] = owed[d] /\ down'[d] = down[d] /\ link'[d] = link[d] /\ KeysIn(Pending(d)') = KeysIn(Pending(d))
    BY <1>9, <2>3, <2>4 DEF LeaveBegins, Begin
  <2>6. Awaited(d)' = Awaited(d)
    BY <1>9, ConnAssumption DEF LeaveBegins, Begin, Awaited, Free, Service
  <2> QED BY <2>5, <2>6, OwedKept
<1>10. CASE LeaveEnds
  <2> SUFFICES ASSUME NEW d \in Conn PROVE Arrived(d)' /\ UnderWay(d)'
    BY DEF OwedInv
  <2>1. owed'[d] = owed[d] /\ down'[d] = down[d] /\ link'[d] = link[d]
    BY <1>10 DEF LeaveEnds, End, Ready, BackToLocal
  <2>2. Pending(d)' = Pending(d)
    BY <1>10, DownTypes, PendingIsDown DEF LeaveEnds, End, Ready, BackToLocal, Pending
  <2>3. Awaited(d)' = Awaited(d)
    BY <1>10, ConnAssumption DEF LeaveEnds, End, Ready, BackToLocal, Awaited, Free, Service, TypeOK
  <2> QED BY <2>1, <2>2, <2>3, OwedKept
<1>11. CASE KeeperLocks
  <2> SUFFICES ASSUME NEW d \in Conn PROVE Arrived(d)' /\ UnderWay(d)'
    BY DEF OwedInv
  <2>1. owed'[d] = owed[d] /\ down'[d] = down[d] /\ link'[d] = link[d]
    BY <1>11 DEF KeeperLocks, Begin
  <2>2. Pending(d)' = Pending(d)
    BY <1>11 DEF KeeperLocks, Begin, Pending, LockInv
  <2>3. Awaited(d)' = Awaited(d)
    BY <1>11, ConnAssumption DEF KeeperLocks, Begin, Awaited, Free, Service, TypeOK
  <2> QED BY <2>1, <2>2, <2>3, OwedKept
<1>12. CASE KeeperUnlocks
  <2> SUFFICES ASSUME NEW d \in Conn PROVE Arrived(d)' /\ UnderWay(d)'
    BY DEF OwedInv
  <2>1. owed'[d] = owed[d] /\ down'[d] = down[d] /\ link'[d] = link[d]
    BY <1>12 DEF KeeperUnlocks, End, Ready
  <2>2. Pending(d)' = Pending(d)
    BY <1>12, DownTypes, PendingIsDown DEF KeeperUnlocks, End, Ready, Pending
  <2>3. Awaited(d)' = Awaited(d)
    BY <1>12, ConnAssumption DEF KeeperUnlocks, End, Ready, Awaited, Free, Service, TypeOK
  <2> QED BY <2>1, <2>2, <2>3, OwedKept
<1>13. ASSUME NEW c \in Conn, KeeperBeats(c) PROVE OwedInv'
  <2>1. \A d \in Conn \ {c} : Pending(d)' = Pending(d)
    BY <1>13, PendingIsDown DEF KeeperBeats, Ready, Pending
  <2>2. Pending(c) = down[c] /\ Pending(c)' = Append(down[c], <<"other">>)
    BY <1>13, PendingIsDown, DownTypes, MessageTypes, AppendIsConcat DEF KeeperBeats, Ready, Pending
  <2>3. KeysIn(Pending(c)') = KeysIn(Pending(c))
    BY <2>2, MessageTypes, DownTypes, NoKeysAdded
  <2> SUFFICES ASSUME NEW d \in Conn PROVE Arrived(d)' /\ UnderWay(d)'
    BY DEF OwedInv
  <2>4. owed'[d] = owed[d] /\ down'[d] = down[d] /\ link'[d] = link[d] /\ KeysIn(Pending(d)') = KeysIn(Pending(d))
    BY <1>13, <2>1, <2>3 DEF KeeperBeats, Ready
  <2>5. Awaited(d)' = Awaited(d)
    BY <1>13 DEF KeeperBeats, Ready, Awaited
  <2> QED BY <2>4, <2>5, OwedKept
<1>14. ASSUME NEW c \in Conn, KeeperExpires(c) PROVE OwedInv'
  <2> SUFFICES ASSUME NEW d \in Conn PROVE Arrived(d)' /\ UnderWay(d)'
    BY DEF OwedInv
  <2>1. owed'[d] = owed[d] /\ down'[d] = down[d] /\ Pending(d)' = Pending(d) /\ (link'[d] = "open" => link[d] = "open" /\ d # c)
    BY <1>14 DEF KeeperExpires, Ready, BackToLocal, Pending, TypeOK
  <2>2. Awaited(d)' => Awaited(d)
    BY <1>14, ConnAssumption DEF KeeperExpires, Ready, BackToLocal, Awaited
  <2>3. d # c => Awaited(d)' = Awaited(d)
    BY <1>14, ConnAssumption DEF KeeperExpires, Ready, BackToLocal, Awaited
  <2> QED BY <2>1, <2>2, <2>3, OwedKept
<1>15. CASE KeyTyped
  <2>1. PICK n \in 1..MaxKeys : owed' = [owed EXCEPT ![active] = Append(owed[active], n)]
    BY <1>15 DEF KeyTyped
  <2> SUFFICES ASSUME NEW d \in Conn PROVE Arrived(d)' /\ UnderWay(d)'
    BY DEF OwedInv
  <2>2. down' = down /\ link' = link /\ Pending(d)' = Pending(d) /\ ~Awaited(d)
    BY <1>15 DEF KeyTyped, Pending, Awaited
  <2>3. active' = active /\ hook' = "key" /\ mutex' = mutex /\ mutex # "hook" /\ (Awaited(d)' <=> active = d)
    BY <1>15 DEF KeyTyped, Awaited, LockInv
  <2>4. CASE d # active
    <3>1. owed'[d] = owed[d]
      BY <2>1, <2>4 DEF TypeOK
    <3>2. ~Awaited(d)'
      BY <2>3, <2>4
    <3> QED BY <2>2, <3>1, <3>2, OwedKept
  <2>5. CASE d = active
    <3>1. owed'[d] = Append(owed[d], n) /\ Awaited(d)'
      BY <2>1, <2>3, <2>5 DEF TypeOK
    <3>2. Arrived(d) /\ UnderWay(d)
      BY DEF OwedInv
    <3>3. UnderWay(d)'
      BY <2>2, <3>1, <3>2 DEF UnderWay
    <3>4. PICK rest \in Seq(1..MaxKeys) : owed[d] = KeysIn(down[d]) \o rest
      BY <3>2 DEF Arrived
    <3>5. KeysIn(down[d]) \in Seq(1..MaxKeys)
      BY DownTypes, KeysOfStream
    <3>6. owed'[d] = KeysIn(down[d]) \o (rest \o <<n>>)
      <4>1. <<n>> \in Seq(1..MaxKeys) /\ owed[d] \in Seq(1..MaxKeys)
        BY <2>1, DownTypes
      <4>2. Append(owed[d], n) = owed[d] \o <<n>>
        BY <2>1, <4>1, AppendIsConcat
      <4> QED BY <3>1, <3>4, <3>5, <4>1, <4>2, ConcatAssociative
    <3>7. rest \o <<n>> \in Seq(1..MaxKeys) /\ rest \o <<n>> # <<>>
      <4>1. <<n>> \in Seq(1..MaxKeys) /\ <<n>> # <<>>
        BY <2>1
      <4> QED BY <3>4, <4>1, ConcatProperties, ConcatEqualIffEmpty
    <3> QED BY <2>2, <3>3, <3>6, <3>7 DEF Arrived
  <2> QED BY <2>4, <2>5
<1>16. CASE Escape
  <2> SUFFICES ASSUME NEW d \in Conn PROVE Arrived(d)' /\ UnderWay(d)'
    BY DEF OwedInv
  <2>1. owed'[d] = owed[d] /\ down'[d] = down[d] /\ link'[d] = link[d]
    BY <1>16 DEF Escape
  <2>2. Pending(d)' = Pending(d)
    BY <1>16 DEF Escape, Pending
  <2>3. Awaited(d)' = Awaited(d)
    BY <1>16, ConnAssumption DEF Escape, Awaited, Free, Service, TypeOK
  <2> QED BY <2>1, <2>2, <2>3, OwedKept
<1>17. ASSUME NEW what \in Contents, UserCopies(what) PROVE OwedInv'
  <2> SUFFICES ASSUME NEW d \in Conn PROVE Arrived(d)' /\ UnderWay(d)'
    BY DEF OwedInv
  <2>1. owed'[d] = owed[d] /\ down'[d] = down[d] /\ link'[d] = link[d]
    BY <1>17 DEF UserCopies
  <2>2. Pending(d)' = Pending(d)
    BY <1>17 DEF UserCopies, Pending
  <2>3. Awaited(d)' = Awaited(d)
    BY <1>17, ConnAssumption DEF UserCopies, Awaited, Free, Service, TypeOK
  <2> QED BY <2>1, <2>2, <2>3, OwedKept
<1>18. ASSUME NEW c \in Conn, Connects(c) PROVE OwedInv'
  <2> SUFFICES ASSUME NEW d \in Conn PROVE Arrived(d)' /\ UnderWay(d)'
    BY DEF OwedInv
  <2>1. CASE d # c
    <3>1. owed'[d] = owed[d] /\ down'[d] = down[d] /\ link'[d] = link[d] /\ Pending(d)' = Pending(d)
      BY <1>18, <2>1 DEF Connects, Pending, TypeOK
    <3>2. Awaited(d)' = Awaited(d)
      BY <1>18 DEF Connects, Awaited
    <3> QED BY <3>1, <3>2, OwedKept
  <2>2. CASE d = c
    <3>1. down'[d] = <<>> /\ owed'[d] = <<>> /\ ~Awaited(d)' /\ Pending(d)' = <<>>
      BY <1>18, <2>2, PendingIsDown DEF Connects, LinkInv, Awaited, Pending
    <3>2. owed'[d] = KeysIn(down'[d]) \o <<>> /\ owed'[d] = KeysIn(Pending(d)')
      BY <3>1, KeysOfEmpty
    <3>3. <<>> \in Seq(1..MaxKeys)
      OBVIOUS
    <3> QED BY <3>1, <3>2, <3>3 DEF Arrived, UnderWay
  <2> QED BY <2>1, <2>2
<1>19. ASSUME NEW c \in Conn, CursorHits(c) PROVE OwedInv'
  <2> SUFFICES ASSUME NEW d \in Conn PROVE Arrived(d)' /\ UnderWay(d)'
    BY DEF OwedInv
  <2>1. owed'[d] = owed[d] /\ down'[d] = down[d] /\ link'[d] = link[d]
    BY <1>19 DEF CursorHits
  <2>2. Pending(d)' = Pending(d)
    BY <1>19 DEF CursorHits, Pending
  <2>3. Awaited(d)' = Awaited(d)
    BY <1>19, ConnAssumption DEF CursorHits, Awaited, Free, Service, TypeOK
  <2> QED BY <2>1, <2>2, <2>3, OwedKept
<1>20. ASSUME NEW c \in Conn, Quits(c) PROVE OwedInv'
  <2> SUFFICES ASSUME NEW d \in Conn PROVE Arrived(d)' /\ UnderWay(d)'
    BY DEF OwedInv
  <2>1. Awaited(d)' = Awaited(d) /\ owed' = owed
    BY <1>20 DEF Quits, Awaited
  <2>2. CASE d # c
    <3>1. owed'[d] = owed[d] /\ down'[d] = down[d] /\ link'[d] = link[d] /\ Pending(d)' = Pending(d)
      BY <1>20, <2>2 DEF Quits, Pending, TypeOK
    <3> QED BY <2>1, <3>1, OwedKept
  <2>3. CASE d = c
    <3>1. down'[d] = <<>> /\ link'[d] # "open"
      BY <1>20, <2>3 DEF Quits, TypeOK
    <3>2. owed[d] \in Seq(1..MaxKeys) /\ owed'[d] = KeysIn(down'[d]) \o owed[d]
      BY <2>1, <3>1, KeysOfEmpty, DownTypes, ConcatEmptySeq
    <3>3. Awaited(d)' => owed[d] # <<>>
      BY <2>1, AwaitedKey
    <3> QED BY <3>1, <3>2, <3>3 DEF Arrived, UnderWay
  <2> QED BY <2>2, <2>3
<1>21. ASSUME NEW c \in Conn, LinkBreaks(c) PROVE OwedInv'
  <2> SUFFICES ASSUME NEW d \in Conn PROVE Arrived(d)' /\ UnderWay(d)'
    BY DEF OwedInv
  <2>1. owed'[d] = owed[d] /\ down'[d] = down[d] /\ Pending(d)' = Pending(d) /\ (link'[d] = "open" => link[d] = "open")
    BY <1>21 DEF LinkBreaks, Pending, TypeOK
  <2>2. Awaited(d)' = Awaited(d)
    BY <1>21 DEF LinkBreaks, Awaited
  <2> QED BY <2>1, <2>2, OwedKept
<1>22. ASSUME NEW c \in Conn, HelloBegins(c) PROVE OwedInv'
  <2>1. mutex = Free /\ to' = c /\ out' = <<<<"other">>>> /\ down' = down
    BY <1>22 DEF HelloBegins, Begin
  <2>2. <<"other">> \in Message /\ <<<<"other">>>> \in Seq(Message)
    BY MessageTypes
  <2>3. /\ \A d \in Conn : Pending(d) = down[d] /\ (d # c => Pending(d)' = Pending(d))
        /\ Pending(c)' = Append(Pending(c), <<"other">>)
    BY <2>1, <2>2, BeginStep, DownTypes, AppendIsConcat
  <2>4. KeysIn(Pending(c)') = KeysIn(Pending(c))
    BY <2>2, <2>3, PendingType, NoKeysAdded
  <2> SUFFICES ASSUME NEW d \in Conn PROVE Arrived(d)' /\ UnderWay(d)'
    BY DEF OwedInv
  <2>5. owed'[d] = owed[d] /\ down'[d] = down[d] /\ link'[d] = link[d] /\ KeysIn(Pending(d)') = KeysIn(Pending(d))
    BY <1>22, <2>3, <2>4 DEF HelloBegins, Begin
  <2>6. Awaited(d)' = Awaited(d)
    BY <1>22, ConnAssumption DEF HelloBegins, Begin, Awaited, Free, Service
  <2> QED BY <2>5, <2>6, OwedKept
<1>23. ASSUME NEW c \in Conn, HelloEnds(c) PROVE OwedInv'
  <2> SUFFICES ASSUME NEW d \in Conn PROVE Arrived(d)' /\ UnderWay(d)'
    BY DEF OwedInv
  <2>1. owed'[d] = owed[d] /\ down'[d] = down[d] /\ link'[d] = link[d]
    BY <1>23 DEF HelloEnds, End, Ready
  <2>2. Pending(d)' = Pending(d)
    BY <1>23, DownTypes, PendingIsDown DEF HelloEnds, End, Ready, Pending
  <2>3. Awaited(d)' = Awaited(d)
    BY <1>23, ConnAssumption DEF HelloEnds, End, Ready, Awaited, Free, Service, TypeOK
  <2> QED BY <2>1, <2>2, <2>3, OwedKept
<1>24. ASSUME NEW c \in Conn, RecvStops(c) PROVE OwedInv'
  <2> SUFFICES ASSUME NEW d \in Conn PROVE Arrived(d)' /\ UnderWay(d)'
    BY DEF OwedInv
  <2>1. owed'[d] = owed[d] /\ down'[d] = down[d] /\ link'[d] = link[d]
    BY <1>24 DEF RecvStops
  <2>2. Pending(d)' = Pending(d)
    BY <1>24 DEF RecvStops, Pending
  <2>3. Awaited(d)' = Awaited(d)
    BY <1>24, ConnAssumption DEF RecvStops, Awaited, Free, Service, TypeOK
  <2> QED BY <2>1, <2>2, <2>3, OwedKept
<1>25. ASSUME NEW c \in Conn, RecvEnds(c) PROVE OwedInv'
  <2> SUFFICES ASSUME NEW d \in Conn PROVE Arrived(d)' /\ UnderWay(d)'
    BY DEF OwedInv
  <2>1. owed'[d] = owed[d] /\ down'[d] = down[d] /\ link'[d] = link[d]
    BY <1>25 DEF RecvEnds
  <2>2. Pending(d)' = Pending(d)
    BY <1>25 DEF RecvEnds, Pending
  <2>3. Awaited(d)' = Awaited(d)
    BY <1>25, ConnAssumption DEF RecvEnds, Awaited, Free, Service, TypeOK
  <2> QED BY <2>1, <2>2, <2>3, OwedKept
<1>26. ASSUME NEW c \in Conn, ReadsNothing(c) PROVE OwedInv'
  <2> SUFFICES ASSUME NEW d \in Conn PROVE Arrived(d)' /\ UnderWay(d)'
    BY DEF OwedInv
  <2>1. Reads(c, "other")
    BY <1>26 DEF ReadsNothing
  <2>2. /\ Head(Pending(c)) = Head(down[c]) /\ Head(down[c])[1] = "other" /\ Pending(c) # <<>> /\ down[c] # <<>>
        /\ Pending(c)' = Tail(Pending(c)) /\ \A e \in Conn \ {c} : Pending(e)' = Pending(e)
        /\ down' = [down EXCEPT ![c] = Tail(down[c])]
    BY <2>1, ReadStep
  <2>3. KeysIn(Pending(c)') = KeysIn(Pending(c)) /\ KeysIn(Tail(down[c])) = KeysIn(down[c])
    BY <2>2, PendingType, DownTypes, KeysOfStream
  <2>4. Awaited(d)' = Awaited(d) /\ owed' = owed /\ link' = link
    BY <1>26 DEF ReadsNothing, Reads, Awaited
  <2>5. KeysIn(down'[d]) = KeysIn(down[d]) /\ KeysIn(Pending(d)') = KeysIn(Pending(d))
    BY <2>2, <2>3 DEF TypeOK
  <2>6. Arrived(d) /\ UnderWay(d)
    BY DEF OwedInv
  <2>7. Arrived(d)'
    BY <2>4, <2>5, <2>6 DEF Arrived
  <2> QED BY <2>4, <2>5, <2>6, <2>7 DEF UnderWay
<1>27. ASSUME NEW c \in Conn, ReadsClipboard(c) PROVE OwedInv'
  <2> SUFFICES ASSUME NEW d \in Conn PROVE Arrived(d)' /\ UnderWay(d)'
    BY DEF OwedInv
  <2>1. Reads(c, "clip")
    BY <1>27 DEF ReadsClipboard
  <2>2. /\ Head(Pending(c)) = Head(down[c]) /\ Head(down[c])[1] = "clip" /\ Pending(c) # <<>> /\ down[c] # <<>>
        /\ Pending(c)' = Tail(Pending(c)) /\ \A e \in Conn \ {c} : Pending(e)' = Pending(e)
        /\ down' = [down EXCEPT ![c] = Tail(down[c])]
    BY <2>1, ReadStep
  <2>3. KeysIn(Pending(c)') = KeysIn(Pending(c)) /\ KeysIn(Tail(down[c])) = KeysIn(down[c])
    BY <2>2, PendingType, DownTypes, KeysOfStream
  <2>4. Awaited(d)' = Awaited(d) /\ owed' = owed /\ link' = link
    BY <1>27 DEF ReadsClipboard, Reads, Awaited
  <2>5. KeysIn(down'[d]) = KeysIn(down[d]) /\ KeysIn(Pending(d)') = KeysIn(Pending(d))
    BY <2>2, <2>3 DEF TypeOK
  <2>6. Arrived(d) /\ UnderWay(d)
    BY DEF OwedInv
  <2>7. Arrived(d)'
    BY <2>4, <2>5, <2>6 DEF Arrived
  <2> QED BY <2>4, <2>5, <2>6, <2>7 DEF UnderWay
<1>28. ASSUME NEW c \in Conn, ReadsEnter(c) PROVE OwedInv'
  <2> SUFFICES ASSUME NEW d \in Conn PROVE Arrived(d)' /\ UnderWay(d)'
    BY DEF OwedInv
  <2>1. Reads(c, "enter")
    BY <1>28 DEF ReadsEnter
  <2>2. /\ Head(Pending(c)) = Head(down[c]) /\ Head(down[c])[1] = "enter" /\ Pending(c) # <<>> /\ down[c] # <<>>
        /\ Pending(c)' = Tail(Pending(c)) /\ \A e \in Conn \ {c} : Pending(e)' = Pending(e)
        /\ down' = [down EXCEPT ![c] = Tail(down[c])]
    BY <2>1, ReadStep
  <2>3. KeysIn(Pending(c)') = KeysIn(Pending(c)) /\ KeysIn(Tail(down[c])) = KeysIn(down[c])
    BY <2>2, PendingType, DownTypes, KeysOfStream
  <2>4. Awaited(d)' = Awaited(d) /\ owed' = owed /\ link' = link
    BY <1>28 DEF ReadsEnter, Reads, Awaited
  <2>5. KeysIn(down'[d]) = KeysIn(down[d]) /\ KeysIn(Pending(d)') = KeysIn(Pending(d))
    BY <2>2, <2>3 DEF TypeOK
  <2>6. Arrived(d) /\ UnderWay(d)
    BY DEF OwedInv
  <2>7. Arrived(d)'
    BY <2>4, <2>5, <2>6 DEF Arrived
  <2> QED BY <2>4, <2>5, <2>6, <2>7 DEF UnderWay
<1>29. ASSUME NEW c \in Conn, ReadsLeave(c) PROVE OwedInv'
  <2> SUFFICES ASSUME NEW d \in Conn PROVE Arrived(d)' /\ UnderWay(d)'
    BY DEF OwedInv
  <2>1. Reads(c, "leave")
    BY <1>29 DEF ReadsLeave
  <2>2. /\ Head(Pending(c)) = Head(down[c]) /\ Head(down[c])[1] = "leave" /\ Pending(c) # <<>> /\ down[c] # <<>>
        /\ Pending(c)' = Tail(Pending(c)) /\ \A e \in Conn \ {c} : Pending(e)' = Pending(e)
        /\ down' = [down EXCEPT ![c] = Tail(down[c])]
    BY <2>1, ReadStep
  <2>3. KeysIn(Pending(c)') = KeysIn(Pending(c)) /\ KeysIn(Tail(down[c])) = KeysIn(down[c])
    BY <2>2, PendingType, DownTypes, KeysOfStream
  <2>4. Awaited(d)' = Awaited(d) /\ owed' = owed /\ link' = link
    BY <1>29 DEF ReadsLeave, Reads, Awaited
  <2>5. KeysIn(down'[d]) = KeysIn(down[d]) /\ KeysIn(Pending(d)') = KeysIn(Pending(d))
    BY <2>2, <2>3 DEF TypeOK
  <2>6. Arrived(d) /\ UnderWay(d)
    BY DEF OwedInv
  <2>7. Arrived(d)'
    BY <2>4, <2>5, <2>6 DEF Arrived
  <2> QED BY <2>4, <2>5, <2>6, <2>7 DEF UnderWay
<1>30. ASSUME NEW c \in Conn, ReadsKey(c) PROVE OwedInv'
  <2> SUFFICES ASSUME NEW d \in Conn PROVE Arrived(d)' /\ UnderWay(d)'
    BY DEF OwedInv
  <2>1. Reads(c, "key")
    BY <1>30 DEF ReadsKey, Reads
  <2>2. /\ Head(Pending(c)) = Head(down[c]) /\ Head(down[c])[1] = "key" /\ Pending(c) # <<>> /\ down[c] # <<>>
        /\ Pending(c)' = Tail(Pending(c)) /\ \A e \in Conn \ {c} : Pending(e)' = Pending(e)
        /\ down' = [down EXCEPT ![c] = Tail(down[c])] /\ Tail(down[c]) \in Seq(Message)
    BY <2>1, ReadStep
  <2>3. Awaited(d)' = Awaited(d) /\ link' = link
    BY <1>30 DEF ReadsKey, Reads, Awaited
  <2>4. owed[c] # <<>> /\ Head(owed[c]) = Head(down[c])[2] /\ owed' = [owed EXCEPT ![c] = Tail(owed[c])]
    BY <1>30, KeyRead
  <2>5. CASE d # c
    <3>1. owed'[d] = owed[d] /\ down'[d] = down[d]
      BY <2>2, <2>4, <2>5 DEF TypeOK
    <3> QED BY <2>2, <2>3, <2>5, <3>1, OwedKept
  <2>6. CASE d = c
    <3> DEFINE k == Head(down[c])[2]
    <3>1. owed'[d] = Tail(owed[d]) /\ down'[d] = Tail(down[d])
      BY <2>2, <2>4, <2>6 DEF TypeOK
    <3>2. Tail(Pending(d)) \in Seq(Message)
      BY <2>2, <2>6, PendingType, HeadTailProperties
    <3>3. /\ k \in 1..MaxKeys /\ KeysIn(down[d]) = <<k>> \o KeysIn(Tail(down[d]))
          /\ KeysIn(Pending(d)) = <<k>> \o KeysIn(Tail(Pending(d)))
      BY <2>2, <2>6, DownTypes, PendingType, KeysOfStream
    <3>4. KeysIn(Tail(down[d])) \in Seq(1..MaxKeys) /\ KeysIn(Tail(Pending(d))) \in Seq(1..MaxKeys)
      BY <2>2, <2>6, <3>2, KeysOfStream
    <3> HIDE DEF k
    <3>5. Arrived(d) /\ UnderWay(d)
      BY DEF OwedInv
    <3>6. Arrived(d)'
      <4>1. PICK rest \in Seq(1..MaxKeys) : owed[d] = KeysIn(down[d]) \o rest /\ (Awaited(d) => rest # <<>>)
        BY <3>5 DEF Arrived
      <4>2. Tail(owed[d]) = KeysIn(Tail(down[d])) \o rest
        BY <3>3, <3>4, <4>1, TailOfCons
      <4> QED BY <2>3, <3>1, <4>1, <4>2 DEF Arrived
    <3>7. UnderWay(d)'
      <4>1. ASSUME link[d] = "open", ~Awaited(d) PROVE Tail(owed[d]) = KeysIn(Tail(Pending(d)))
        <5>1. owed[d] = <<k>> \o KeysIn(Tail(Pending(d)))
          BY <3>3, <3>5, <4>1 DEF UnderWay
        <5> QED BY <3>3, <3>4, <5>1
      <4>2. ASSUME link[d] = "open", Awaited(d)
            PROVE  \E n \in 1..MaxKeys : Tail(owed[d]) = Append(KeysIn(Tail(Pending(d))), n)
        <5>1. PICK n \in 1..MaxKeys : owed[d] = Append(<<k>> \o KeysIn(Tail(Pending(d))), n)
          BY <3>3, <3>5, <4>2 DEF UnderWay
        <5>2. owed[d] = <<k>> \o Append(KeysIn(Tail(Pending(d))), n)
          <6>1. <<k>> \in Seq(1..MaxKeys)
            BY <3>3
          <6> QED BY <3>4, <5>1, <6>1, AppendConcat
        <5>3. Append(KeysIn(Tail(Pending(d))), n) \in Seq(1..MaxKeys)
          BY <3>4, AppendProperties
        <5>4. ASSUME NEW u \in Seq(1..MaxKeys) PROVE Tail(<<k>> \o u) = u
          BY <3>3
        <5> QED BY <5>2, <5>3, <5>4
      <4> QED BY <2>2, <2>3, <2>6, <3>1, <4>1, <4>2 DEF UnderWay
    <3> QED BY <3>6, <3>7
  <2> QED BY <2>5, <2>6
<1>31. ASSUME NEW c \in Conn, LosesServer(c) PROVE OwedInv'
  <2> SUFFICES ASSUME NEW d \in Conn PROVE Arrived(d)' /\ UnderWay(d)'
    BY DEF OwedInv
  <2>1. Awaited(d)' = Awaited(d) /\ owed' = owed
    BY <1>31 DEF LosesServer, Awaited
  <2>2. CASE d # c
    <3>1. owed'[d] = owed[d] /\ down'[d] = down[d] /\ link'[d] = link[d] /\ Pending(d)' = Pending(d)
      BY <1>31, <2>2 DEF LosesServer, Pending, TypeOK
    <3> QED BY <2>1, <3>1, OwedKept
  <2>3. CASE d = c
    <3>1. down'[d] = <<>> /\ link'[d] # "open"
      BY <1>31, <2>3 DEF LosesServer, TypeOK
    <3>2. owed[d] \in Seq(1..MaxKeys) /\ owed'[d] = KeysIn(down'[d]) \o owed[d]
      BY <2>1, <3>1, KeysOfEmpty, DownTypes, ConcatEmptySeq
    <3>3. Awaited(d)' => owed[d] # <<>>
      BY <2>1, AwaitedKey
    <3> QED BY <3>1, <3>2, <3>3 DEF Arrived, UnderWay
  <2> QED BY <2>2, <2>3
<1>32. CASE UNCHANGED vars
  <2> SUFFICES ASSUME NEW d \in Conn PROVE Arrived(d)' /\ UnderWay(d)'
    BY DEF OwedInv
  <2>1. owed'[d] = owed[d] /\ down'[d] = down[d] /\ link'[d] = link[d]
    BY <1>32 DEF vars
  <2>2. Pending(d)' = Pending(d)
    BY <1>32 DEF vars, Pending
  <2>3. Awaited(d)' = Awaited(d)
    BY <1>32, ConnAssumption DEF vars, Awaited, Free, Service, TypeOK
  <2> QED BY <2>1, <2>2, <2>3, OwedKept
<1> QED
  BY <1>1, <1>2, <1>3, <1>4, <1>5, <1>6, <1>7, <1>8, <1>9, <1>10, <1>11, <1>12, <1>13, <1>14, <1>15, <1>16, <1>17,
     <1>18, <1>19, <1>20, <1>21, <1>22, <1>23, <1>24, <1>25, <1>26, <1>27, <1>28, <1>29, <1>30, <1>31, <1>32
     DEF Next, Event, Sends, HookStep, KeeperStep, RecvStep, ClientStep

LEMMA GuardKept ==
  ASSUME GuardInv, NEW d \in Conn, down'[d] = down[d], process'[d] = process[d]
  PROVE  Guarded(d)'
  BY DEF GuardInv, Guarded

LEMMA GuardTail ==
  ASSUME TypeOK, NEW c \in Conn, Guarded(c), down[c] # <<>>,
         down'[c] = Tail(down[c]), process'[c] = StateAfter(Head(down[c]), process[c])
  PROVE  Guarded(c)'
<1> SUFFICES ASSUME NEW i \in DOMAIN down'[c], down'[c][i][1] = "key"
             PROVE  ActiveAfter(SubSeq(down'[c], 1, i - 1), process'[c])
  BY DEF Guarded
<1> DEFINE s == SubSeq(down[c], 1, i)
<1>1. /\ Len(Tail(down[c])) = Len(down[c]) - 1 /\ i \in 1..Len(Tail(down[c])) /\ Len(down[c]) \in Nat
      /\ down'[c][i] = down[c][i + 1] /\ down[c] \in Seq(Message)
  BY DownTypes, HeadTailProperties, LenProperties
<1>2. i + 1 \in DOMAIN down[c] /\ i \in 1..Len(down[c]) /\ i \in Int /\ 1 \in Int /\ 1 \in 1..Len(down[c])
  BY <1>1
<1>3. ActiveAfter(s, process[c])
  BY <1>1, <1>2 DEF Guarded
<1>4. s \in Seq(Message) /\ s # <<>> /\ Head(s) = Head(down[c]) /\ Tail(s) = SubSeq(down[c], 2, i)
  <2>1. \A j \in 1..i : down[c][j] \in Message
    BY <1>1, ElementOfSeq
  <2>2. s \in Seq(Message) /\ Len(s) = i
    BY <1>1, <2>1, SubSeqProperties
  <2>3. Head(s) = down[c][1] /\ Tail(s) = SubSeq(down[c], 1 + 1, i)
    BY <1>1, <1>2, HeadTailOfSubSeq
  <2>4. down[c][1] = Head(down[c])
    BY <1>1
  <2> HIDE DEF s
  <2>5. s # <<>>
    BY <1>1, <2>2, EmptySeq
  <2> QED BY <2>2, <2>3, <2>4, <2>5
<1>5. SubSeq(Tail(down[c]), 1, i - 1) = SubSeq(down[c], 2, i)
  <2>1. Tail(down[c]) = SubSeq(down[c], 2, Len(down[c]))
    BY <1>1, TailIsSubSeq
  <2>2. /\ \A j \in 1..(i - 1) : Tail(down[c])[j] = down[c][j + 1] /\ Tail(down[c])[j] \in Message
        /\ \A j \in 2..i : down[c][j] \in Message
    BY <1>1, HeadTailProperties, ElementOfSeq
  <2>3. /\ SubSeq(Tail(down[c]), 1, i - 1) \in Seq(Message)
        /\ Len(SubSeq(Tail(down[c]), 1, i - 1)) = i - 1
        /\ \A j \in 1..(i - 1) : SubSeq(Tail(down[c]), 1, i - 1)[j] = Tail(down[c])[j]
    BY <1>1, <2>2, SubSeqProperties
  <2>4. /\ SubSeq(down[c], 2, i) \in Seq(Message)
        /\ Len(SubSeq(down[c], 2, i)) = i - 1
        /\ \A j \in 1..(i - 1) : SubSeq(down[c], 2, i)[j] = down[c][j + 1]
    BY <1>1, <2>2, SubSeqProperties
  <2> DEFINE a == SubSeq(Tail(down[c]), 1, i - 1)
             b == SubSeq(down[c], 2, i)
  <2>5. a \in Seq(Message) /\ b \in Seq(Message) /\ Len(a) = Len(b) /\ Len(a) = i - 1
    BY <2>3, <2>4
  <2>6. \A j \in 1..(i - 1) : a[j] = b[j]
    BY <2>2, <2>3, <2>4
  <2> HIDE DEF a, b
  <2>7. a = b
    BY <2>5, <2>6, SeqEqual
  <2> QED BY <2>7 DEF a, b
<1> HIDE DEF s
<1>6. ActiveAfter(Tail(s), StateAfter(Head(s), process[c]))
  BY <1>3, <1>4, ActiveAfterTail
<1> QED BY <1>4, <1>5, <1>6

LEMMA GuardStep == TypeOK /\ LockInv /\ LinkInv /\ EndsInv /\ GuardInv /\ [Next]_vars => GuardInv'
<1> SUFFICES ASSUME TypeOK, LockInv, LinkInv, EndsInv, GuardInv, [Next]_vars PROVE GuardInv'
  OBVIOUS
<1> USE DEF Running, switchVars, lockVars, hookVars, recvVars, clientVars
<1>1. CASE Push
  <2> SUFFICES ASSUME NEW d \in Conn PROVE Guarded(d)'
    BY DEF GuardInv
  <2>0. PICK e \in Conn : e = to
    BY <1>1, PushStep
  <2>1. /\ down' = [down EXCEPT ![e] = Append(down[e], Head(out))] /\ process' = process
        /\ Head(out) \in Message /\ link[e] = "open" /\ out # <<>>
    BY <1>1, <2>0, PushStep DEF Push
  <2>2. CASE d # e
    <3>1. down'[d] = down[d]
      BY <2>1, <2>2 DEF TypeOK
    <3> QED BY <2>1, <3>1, GuardKept
  <2>3. CASE d = e
    <3>1. down'[d] = Append(down[d], Head(out)) /\ down[d] \in Seq(Message)
      BY <2>1, <2>3 DEF TypeOK
    <3>2. Guarded(d)
      BY DEF GuardInv
    <3>3. /\ Len(down[d]) \in Nat /\ DOMAIN down'[d] = 1..(Len(down[d]) + 1) /\ down'[d][Len(down[d]) + 1] = Head(out)
          /\ \A i \in 1..Len(down[d]) : down'[d][i] = down[d][i]
      BY <2>1, <3>1, AppendProperties, LenProperties
    <3>4. ASSUME NEW i \in 1..(Len(down[d]) + 1) PROVE SubSeq(down'[d], 1, i - 1) = SubSeq(down[d], 1, i - 1)
      <4>1. \A j \in 1..(i - 1) : down'[d][j] = down[d][j] /\ down[d][j] \in Message
        BY <3>1, <3>3, <3>4, ElementOfSeq
      <4>2. i - 1 \in Int /\ 1 \in Int
        BY <3>3, <3>4
      <4>3. /\ SubSeq(down'[d], 1, i - 1) \in Seq(Message) /\ SubSeq(down[d], 1, i - 1) \in Seq(Message)
            /\ Len(SubSeq(down'[d], 1, i - 1)) = Len(SubSeq(down[d], 1, i - 1))
            /\ Len(SubSeq(down[d], 1, i - 1)) \in Nat
        BY <4>1, <4>2, SubSeqProperties, LenProperties
      <4>4. ASSUME NEW j \in 1..Len(SubSeq(down[d], 1, i - 1))
            PROVE  SubSeq(down'[d], 1, i - 1)[j] = SubSeq(down[d], 1, i - 1)[j]
        <5>1. j \in 1..(i - 1)
          BY <4>1, <4>2, SubSeqProperties
        <5>2. j \in 1..((i - 1) - 1 + 1) /\ 1 + j - 1 = j
          BY <4>2, <5>1
        <5> QED BY <4>1, <4>2, <5>1, <5>2, SubSeqProperties
      <4> QED BY <4>3, <4>4, SeqEqual
    <3>5. ASSUME Head(out)[1] = "key" PROVE ActiveAfter(SubSeq(down[d], 1, Len(down[d])), process[d])
      <4>1. out \in Seq(Message) /\ 1 \in DOMAIN out /\ out[1] = Head(out)
        BY <2>1, DownTypes, LenProperties, EmptySeq
      <4>2. Len(out) = 1 /\ mutex = "hook" /\ hook = "key"
        BY <3>5, <4>1 DEF LockInv
      <4>3. out = <<Head(out)>> /\ Pending(d) = Append(down[d], Head(out))
        <5>1. out = <<Head(out)>>
          BY <4>1, <4>2, OneElement
        <5>2. Append(down[d], Head(out)) = down[d] \o <<Head(out)>>
          BY <2>1, <3>1, AppendIsConcat
        <5> QED BY <2>0, <2>3, <5>1, <5>2 DEF Pending
      <4>4. Meant = d
        BY <2>0, <2>3, <4>2 DEF Meant, LockInv
      <4>5. ActiveAfter(Append(down[d], Head(out)), process[d])
        BY <2>1, <2>3, <4>3, <4>4 DEF EndsInv, WillBeActive
      <4>6. ActiveAfter(down[d], process[d])
        BY <2>1, <3>1, <3>5, <4>5, ActiveAfterAppend DEF IsSwitch
      <4> QED BY <3>1, <4>6, SubSeqFull
    <3>6. ASSUME NEW i \in DOMAIN down'[d], down'[d][i][1] = "key"
          PROVE  ActiveAfter(SubSeq(down'[d], 1, i - 1), process'[d])
      <4>1. SubSeq(down'[d], 1, i - 1) = SubSeq(down[d], 1, i - 1) /\ process'[d] = process[d]
        BY <2>1, <3>3, <3>4
      <4>2. CASE i = Len(down[d]) + 1
        <5>1. Head(out)[1] = "key" /\ i - 1 = Len(down[d])
          BY <3>3, <3>6, <4>2
        <5> QED BY <3>5, <4>1, <5>1
      <4>3. CASE i # Len(down[d]) + 1
        <5>1. i \in 1..Len(down[d])
          BY <3>3, <4>3
        <5>2. i \in DOMAIN down[d] /\ down[d][i][1] = "key"
          BY <3>1, <3>3, <3>6, <5>1, LenProperties
        <5> QED BY <3>2, <4>1, <5>2 DEF Guarded
      <4> QED BY <4>2, <4>3
    <3> QED BY <3>6 DEF Guarded
  <2> QED BY <2>2, <2>3
<1>2. ASSUME NEW told \in BOOLEAN, PushFails(told) PROVE GuardInv'
  <2> SUFFICES ASSUME NEW d \in Conn PROVE Guarded(d)'
    BY DEF GuardInv
  <2> QED BY <1>2, GuardKept DEF PushFails
<1>3. CASE EnterBegins
  <2> SUFFICES ASSUME NEW d \in Conn PROVE Guarded(d)'
    BY DEF GuardInv
  <2> QED BY <1>3, GuardKept DEF EnterBegins, Begin
<1>4. CASE EnterFindsNobody
  <2> SUFFICES ASSUME NEW d \in Conn PROVE Guarded(d)'
    BY DEF GuardInv
  <2> QED BY <1>4, GuardKept DEF EnterFindsNobody
<1>5. CASE EnterEnds
  <2> SUFFICES ASSUME NEW d \in Conn PROVE Guarded(d)'
    BY DEF GuardInv
  <2> QED BY <1>5, GuardKept DEF EnterEnds, End, Ready
<1>6. CASE KeyBegins
  <2> SUFFICES ASSUME NEW d \in Conn PROVE Guarded(d)'
    BY DEF GuardInv
  <2> QED BY <1>6, GuardKept DEF KeyBegins, Begin
<1>7. CASE KeyFindsNobody
  <2> SUFFICES ASSUME NEW d \in Conn PROVE Guarded(d)'
    BY DEF GuardInv
  <2> QED BY <1>7, GuardKept DEF KeyFindsNobody
<1>8. CASE KeyEnds
  <2> SUFFICES ASSUME NEW d \in Conn PROVE Guarded(d)'
    BY DEF GuardInv
  <2> QED BY <1>8, GuardKept DEF KeyEnds, End, Ready
<1>9. CASE LeaveBegins
  <2> SUFFICES ASSUME NEW d \in Conn PROVE Guarded(d)'
    BY DEF GuardInv
  <2> QED BY <1>9, GuardKept DEF LeaveBegins, Begin
<1>10. CASE LeaveEnds
  <2> SUFFICES ASSUME NEW d \in Conn PROVE Guarded(d)'
    BY DEF GuardInv
  <2> QED BY <1>10, GuardKept DEF LeaveEnds, End, Ready, BackToLocal
<1>11. CASE KeeperLocks
  <2> SUFFICES ASSUME NEW d \in Conn PROVE Guarded(d)'
    BY DEF GuardInv
  <2> QED BY <1>11, GuardKept DEF KeeperLocks, Begin
<1>12. CASE KeeperUnlocks
  <2> SUFFICES ASSUME NEW d \in Conn PROVE Guarded(d)'
    BY DEF GuardInv
  <2> QED BY <1>12, GuardKept DEF KeeperUnlocks, End, Ready
<1>13. ASSUME NEW c \in Conn, KeeperBeats(c) PROVE GuardInv'
  <2> SUFFICES ASSUME NEW d \in Conn PROVE Guarded(d)'
    BY DEF GuardInv
  <2> QED BY <1>13, GuardKept DEF KeeperBeats, Ready
<1>14. ASSUME NEW c \in Conn, KeeperExpires(c) PROVE GuardInv'
  <2> SUFFICES ASSUME NEW d \in Conn PROVE Guarded(d)'
    BY DEF GuardInv
  <2> QED BY <1>14, GuardKept DEF KeeperExpires, Ready, BackToLocal
<1>15. CASE KeyTyped
  <2> SUFFICES ASSUME NEW d \in Conn PROVE Guarded(d)'
    BY DEF GuardInv
  <2> QED BY <1>15, GuardKept DEF KeyTyped
<1>16. CASE Escape
  <2> SUFFICES ASSUME NEW d \in Conn PROVE Guarded(d)'
    BY DEF GuardInv
  <2> QED BY <1>16, GuardKept DEF Escape
<1>17. ASSUME NEW what \in Contents, UserCopies(what) PROVE GuardInv'
  <2> SUFFICES ASSUME NEW d \in Conn PROVE Guarded(d)'
    BY DEF GuardInv
  <2> QED BY <1>17, GuardKept DEF UserCopies
<1>18. ASSUME NEW c \in Conn, Connects(c) PROVE GuardInv'
  <2> SUFFICES ASSUME NEW d \in Conn PROVE Guarded(d)'
    BY DEF GuardInv
  <2>1. down'[d] = down[d]
    BY <1>18 DEF Connects
  <2>2. CASE d = c
    <3>1. down'[d] = <<>>
      BY <1>18, <2>1, <2>2 DEF Connects, LinkInv
    <3> QED BY <3>1 DEF Guarded
  <2>3. CASE d # c
    <3>1. process'[d] = process[d]
      BY <1>18, <2>3 DEF Connects, TypeOK
    <3> QED BY <2>1, <3>1, GuardKept
  <2> QED BY <2>2, <2>3
<1>19. ASSUME NEW c \in Conn, CursorHits(c) PROVE GuardInv'
  <2> SUFFICES ASSUME NEW d \in Conn PROVE Guarded(d)'
    BY DEF GuardInv
  <2> QED BY <1>19, GuardKept DEF CursorHits
<1>20. ASSUME NEW c \in Conn, Quits(c) PROVE GuardInv'
  <2> SUFFICES ASSUME NEW d \in Conn PROVE Guarded(d)'
    BY DEF GuardInv
  <2>1. CASE d = c
    <3>1. down'[d] = <<>>
      BY <1>20, <2>1 DEF Quits, TypeOK
    <3> QED BY <3>1 DEF Guarded
  <2>2. CASE d # c
    <3>1. down'[d] = down[d] /\ process'[d] = process[d]
      BY <1>20, <2>2 DEF Quits, TypeOK
    <3> QED BY <3>1, GuardKept
  <2> QED BY <2>1, <2>2
<1>21. ASSUME NEW c \in Conn, LinkBreaks(c) PROVE GuardInv'
  <2> SUFFICES ASSUME NEW d \in Conn PROVE Guarded(d)'
    BY DEF GuardInv
  <2> QED BY <1>21, GuardKept DEF LinkBreaks
<1>22. ASSUME NEW c \in Conn, HelloBegins(c) PROVE GuardInv'
  <2> SUFFICES ASSUME NEW d \in Conn PROVE Guarded(d)'
    BY DEF GuardInv
  <2> QED BY <1>22, GuardKept DEF HelloBegins, Begin
<1>23. ASSUME NEW c \in Conn, HelloEnds(c) PROVE GuardInv'
  <2> SUFFICES ASSUME NEW d \in Conn PROVE Guarded(d)'
    BY DEF GuardInv
  <2> QED BY <1>23, GuardKept DEF HelloEnds, End, Ready
<1>24. ASSUME NEW c \in Conn, RecvStops(c) PROVE GuardInv'
  <2> SUFFICES ASSUME NEW d \in Conn PROVE Guarded(d)'
    BY DEF GuardInv
  <2> QED BY <1>24, GuardKept DEF RecvStops
<1>25. ASSUME NEW c \in Conn, RecvEnds(c) PROVE GuardInv'
  <2> SUFFICES ASSUME NEW d \in Conn PROVE Guarded(d)'
    BY DEF GuardInv
  <2> QED BY <1>25, GuardKept DEF RecvEnds
<1>26. ASSUME NEW c \in Conn, ReadsNothing(c) PROVE GuardInv'
  <2> SUFFICES ASSUME NEW d \in Conn PROVE Guarded(d)'
    BY DEF GuardInv
  <2>1. Reads(c, "other") /\ \A e \in Conn \ {c} : process'[e] = process[e]
    BY <1>26 DEF ReadsNothing, TypeOK
  <2>2. /\ Head(down[c])[1] = "other" /\ down[c] # <<>> /\ down' = [down EXCEPT ![c] = Tail(down[c])]
    BY <2>1, ReadStep
  <2>3. CASE d = c
    <3>1. down'[d] = Tail(down[d]) /\ process'[d] = StateAfter(Head(down[d]), process[d])
      BY <1>26, <2>2, <2>3 DEF ReadsNothing, StateAfter, TypeOK
    <3>2. Guarded(d)
      BY DEF GuardInv
    <3> QED BY <2>2, <2>3, <3>1, <3>2, GuardTail
  <2>4. CASE d # c
    <3>1. down'[d] = down[d] /\ process'[d] = process[d]
      BY <2>1, <2>2, <2>4 DEF TypeOK
    <3> QED BY <3>1, GuardKept
  <2> QED BY <2>3, <2>4
<1>27. ASSUME NEW c \in Conn, ReadsClipboard(c) PROVE GuardInv'
  <2> SUFFICES ASSUME NEW d \in Conn PROVE Guarded(d)'
    BY DEF GuardInv
  <2>1. Reads(c, "clip") /\ \A e \in Conn \ {c} : process'[e] = process[e]
    BY <1>27 DEF ReadsClipboard, TypeOK
  <2>2. /\ Head(down[c])[1] = "clip" /\ down[c] # <<>> /\ down' = [down EXCEPT ![c] = Tail(down[c])]
    BY <2>1, ReadStep
  <2>3. CASE d = c
    <3>1. down'[d] = Tail(down[d]) /\ process'[d] = StateAfter(Head(down[d]), process[d])
      BY <1>27, <2>2, <2>3 DEF ReadsClipboard, StateAfter, TypeOK
    <3>2. Guarded(d)
      BY DEF GuardInv
    <3> QED BY <2>2, <2>3, <3>1, <3>2, GuardTail
  <2>4. CASE d # c
    <3>1. down'[d] = down[d] /\ process'[d] = process[d]
      BY <2>1, <2>2, <2>4 DEF TypeOK
    <3> QED BY <3>1, GuardKept
  <2> QED BY <2>3, <2>4
<1>28. ASSUME NEW c \in Conn, ReadsEnter(c) PROVE GuardInv'
  <2> SUFFICES ASSUME NEW d \in Conn PROVE Guarded(d)'
    BY DEF GuardInv
  <2>1. Reads(c, "enter") /\ \A e \in Conn \ {c} : process'[e] = process[e]
    BY <1>28 DEF ReadsEnter, TypeOK
  <2>2. /\ Head(down[c])[1] = "enter" /\ down[c] # <<>> /\ down' = [down EXCEPT ![c] = Tail(down[c])]
    BY <2>1, ReadStep
  <2>3. CASE d = c
    <3>1. down'[d] = Tail(down[d]) /\ process'[d] = StateAfter(Head(down[d]), process[d])
      BY <1>28, <2>2, <2>3 DEF ReadsEnter, StateAfter, TypeOK
    <3>2. Guarded(d)
      BY DEF GuardInv
    <3> QED BY <2>2, <2>3, <3>1, <3>2, GuardTail
  <2>4. CASE d # c
    <3>1. down'[d] = down[d] /\ process'[d] = process[d]
      BY <2>1, <2>2, <2>4 DEF TypeOK
    <3> QED BY <3>1, GuardKept
  <2> QED BY <2>3, <2>4
<1>29. ASSUME NEW c \in Conn, ReadsLeave(c) PROVE GuardInv'
  <2> SUFFICES ASSUME NEW d \in Conn PROVE Guarded(d)'
    BY DEF GuardInv
  <2>1. Reads(c, "leave") /\ \A e \in Conn \ {c} : process'[e] = process[e]
    BY <1>29 DEF ReadsLeave, TypeOK
  <2>2. /\ Head(down[c])[1] = "leave" /\ down[c] # <<>> /\ down' = [down EXCEPT ![c] = Tail(down[c])]
    BY <2>1, ReadStep
  <2>3. CASE d = c
    <3>1. down'[d] = Tail(down[d]) /\ process'[d] = StateAfter(Head(down[d]), process[d])
      BY <1>29, <2>2, <2>3 DEF ReadsLeave, StateAfter, TypeOK
    <3>2. Guarded(d)
      BY DEF GuardInv
    <3> QED BY <2>2, <2>3, <3>1, <3>2, GuardTail
  <2>4. CASE d # c
    <3>1. down'[d] = down[d] /\ process'[d] = process[d]
      BY <2>1, <2>2, <2>4 DEF TypeOK
    <3> QED BY <3>1, GuardKept
  <2> QED BY <2>3, <2>4
<1>30. ASSUME NEW c \in Conn, ReadsKey(c) PROVE GuardInv'
  <2> SUFFICES ASSUME NEW d \in Conn PROVE Guarded(d)'
    BY DEF GuardInv
  <2>1. Reads(c, "key") /\ \A e \in Conn \ {c} : process'[e] = process[e]
    BY <1>30 DEF ReadsKey, TypeOK
  <2>2. /\ Head(down[c])[1] = "key" /\ down[c] # <<>> /\ down' = [down EXCEPT ![c] = Tail(down[c])]
    BY <2>1, ReadStep
  <2>3. CASE d = c
    <3>1. down'[d] = Tail(down[d]) /\ process'[d] = StateAfter(Head(down[d]), process[d])
      BY <1>30, <2>2, <2>3 DEF ReadsKey, StateAfter, TypeOK
    <3>2. Guarded(d)
      BY DEF GuardInv
    <3> QED BY <2>2, <2>3, <3>1, <3>2, GuardTail
  <2>4. CASE d # c
    <3>1. down'[d] = down[d] /\ process'[d] = process[d]
      BY <2>1, <2>2, <2>4 DEF TypeOK
    <3> QED BY <3>1, GuardKept
  <2> QED BY <2>3, <2>4
<1>31. ASSUME NEW c \in Conn, LosesServer(c) PROVE GuardInv'
  <2> SUFFICES ASSUME NEW d \in Conn PROVE Guarded(d)'
    BY DEF GuardInv
  <2>1. CASE d = c
    <3>1. down'[d] = <<>>
      BY <1>31, <2>1 DEF LosesServer, TypeOK
    <3> QED BY <3>1 DEF Guarded
  <2>2. CASE d # c
    <3>1. down'[d] = down[d] /\ process'[d] = process[d]
      BY <1>31, <2>2 DEF LosesServer, TypeOK
    <3> QED BY <3>1, GuardKept
  <2> QED BY <2>1, <2>2
<1>32. CASE UNCHANGED vars
  <2> SUFFICES ASSUME NEW d \in Conn PROVE Guarded(d)'
    BY DEF GuardInv
  <2> QED BY <1>32, GuardKept DEF vars
<1> QED
  BY <1>1, <1>2, <1>3, <1>4, <1>5, <1>6, <1>7, <1>8, <1>9, <1>10, <1>11, <1>12, <1>13, <1>14, <1>15, <1>16, <1>17,
     <1>18, <1>19, <1>20, <1>21, <1>22, <1>23, <1>24, <1>25, <1>26, <1>27, <1>28, <1>29, <1>30, <1>31, <1>32
     DEF Next, Event, Sends, HookStep, KeeperStep, RecvStep, ClientStep

LEMMA BringsAppend ==
  ASSUME NEW ms \in Seq(Message), NEW m \in Message, m[1] # "clip", NEW has, NEW what, Brings(ms, has, what)
  PROVE  Brings(Append(ms, m), has, what)
<1> DEFINE ms2 == Append(ms, m)
           n == Len(ms)
<1>1. /\ n \in Nat /\ Len(ms2) = n + 1 /\ ms2[n + 1] = m /\ \A i \in 1..n : ms2[i] = ms[i]
      /\ DOMAIN ms = 1..n /\ DOMAIN ms2 = 1..(n + 1)
  BY AppendProperties, LenProperties
<1> HIDE DEF ms2, n
<1>2. ClipsIn(ms2) = ClipsIn(ms) /\ ClipsIn(ms) \subseteq 1..n
  BY <1>1 DEF ClipsIn
<1>3. CASE ClipsIn(ms) = {}
  BY <1>2, <1>3 DEF Brings, ms2
<1>4. ASSUME NEW i \in ClipsIn(ms2), \A j \in ClipsIn(ms2) : j <= i
      PROVE  ms2[i][2] = what /\ \E j \in DOMAIN ms2 : j > i /\ ms2[j][1] = "enter"
  <2>1. i \in ClipsIn(ms) /\ \A j \in ClipsIn(ms) : j <= i
    BY <1>2, <1>4
  <2>2. ms[i][2] = what /\ \E j \in DOMAIN ms : j > i /\ ms[j][1] = "enter"
    BY <2>1 DEF Brings
  <2>3. ms2[i] = ms[i]
    BY <1>1, <1>2, <2>1
  <2>4. PICK j \in 1..n : j > i /\ ms[j][1] = "enter"
    BY <1>1, <2>2
  <2>5. j \in DOMAIN ms2 /\ ms2[j][1] = "enter"
    BY <1>1, <2>4
  <2> QED BY <2>2, <2>3, <2>4, <2>5
<1>5. CASE ClipsIn(ms) # {}
  BY <1>2, <1>4, <1>5 DEF Brings, ms2
<1> QED BY <1>3, <1>5

LEMMA BringsHandover ==
  ASSUME TypeOK, NEW c \in Conn, NEW has, content # "none"
  PROVE  Brings(down[c] \o Handover, has, content)
<1>1. PICK a \in Message, b \in Message : a = <<"clip", content>> /\ b = <<"enter">>
  BY MessageTypes DEF TypeOK
<1>2. Handover = <<a, b>> /\ a[1] = "clip" /\ a[2] = content /\ b[1] = "enter"
  BY <1>1 DEF Handover
<1> DEFINE s == down[c]
           t == Append(s, a)
           u == Append(t, b)
           n == Len(s)
<1>3. s \in Seq(Message)
  BY DownTypes
<1> HIDE DEF s
<1>4. n \in Nat /\ t \in Seq(Message) /\ Len(t) = n + 1 /\ t[n + 1] = a
  BY <1>3, AppendProperties, LenProperties
<1> HIDE DEF t
<1>5. /\ Len(u) = n + 2 /\ u[n + 2] = b /\ u[n + 1] = a /\ u \in Seq(Message)
  BY <1>4, AppendProperties
<1>6. DOMAIN u = 1..(n + 2)
  BY <1>5, LenProperties
<1>7. s \o Handover = u
  BY <1>2, <1>3, AppendTwo DEF t
<1> HIDE DEF u, n
<1>8. n + 1 \in ClipsIn(u) /\ n + 2 \notin ClipsIn(u) /\ ClipsIn(u) \subseteq 1..(n + 2)
  BY <1>2, <1>4, <1>5, <1>6 DEF ClipsIn
<1>9. ASSUME NEW i \in ClipsIn(u), \A j \in ClipsIn(u) : j <= i PROVE i = n + 1
  BY <1>4, <1>8, <1>9
<1>10. n + 2 \in DOMAIN u /\ n + 2 > n + 1
  BY <1>4, <1>6
<1>11. Brings(u, has, content)
  BY <1>2, <1>5, <1>8, <1>9, <1>10 DEF Brings
<1> QED BY <1>7, <1>11 DEF s

LEMMA BringsTail ==
  ASSUME NEW ms \in Seq(Message), ms # <<>>, NEW has, NEW had, NEW what, Brings(ms, had, what),
         has = IF Head(ms)[1] = "clip" THEN Head(ms)[2] ELSE had
  PROVE  Brings(Tail(ms), has, what)
<1> DEFINE t == Tail(ms)
           n == Len(t)
<1>1. /\ n \in Nat /\ Len(ms) = n + 1 /\ ms[1] = Head(ms) /\ \A i \in 1..n : t[i] = ms[i + 1]
      /\ DOMAIN t = 1..n /\ DOMAIN ms = 1..(n + 1)
  BY HeadTailProperties, LenProperties
<1> HIDE DEF t, n
<1>2. \A i \in 1..n : i \in ClipsIn(t) <=> i + 1 \in ClipsIn(ms)
  BY <1>1 DEF ClipsIn
<1>3. ClipsIn(t) \subseteq 1..n /\ ClipsIn(ms) \subseteq 1..(n + 1)
  BY <1>1 DEF ClipsIn
<1>4. ASSUME NEW j \in ClipsIn(ms), j # 1 PROVE j - 1 \in ClipsIn(t)
  <2>1. j - 1 \in 1..n /\ (j - 1) + 1 = j
    BY <1>1, <1>3, <1>4
  <2> QED BY <1>2, <2>1
<1>5. ASSUME ClipsIn(t) = {} PROVE has = what
  <2>1. ClipsIn(ms) \subseteq {1}
    BY <1>4, <1>5
  <2>2. CASE Head(ms)[1] = "clip"
    <3>1. 1 \in ClipsIn(ms) /\ \A j \in ClipsIn(ms) : j <= 1
      BY <1>1, <2>1, <2>2 DEF ClipsIn
    <3>2. ms[1][2] = what
      BY <3>1 DEF Brings
    <3> QED BY <1>1, <2>2, <3>2
  <2>3. CASE Head(ms)[1] # "clip"
    <3>1. ClipsIn(ms) = {}
      BY <1>1, <2>1, <2>3 DEF ClipsIn
    <3> QED BY <2>3, <3>1 DEF Brings
  <2> QED BY <2>2, <2>3
<1>6. ASSUME NEW i \in ClipsIn(t), \A j \in ClipsIn(t) : j <= i
      PROVE  t[i][2] = what /\ \E j \in DOMAIN t : j > i /\ t[j][1] = "enter"
  <2>1. i \in 1..n /\ i + 1 \in ClipsIn(ms)
    BY <1>2, <1>3, <1>6
  <2>2. ASSUME NEW j \in ClipsIn(ms) PROVE j <= i + 1
    <3>1. CASE j = 1
      BY <2>1, <3>1
    <3>2. CASE j # 1
      <4>1. j - 1 \in ClipsIn(t) /\ j \in Nat
        BY <1>3, <1>4, <3>2
      <4>2. j - 1 <= i
        BY <1>6, <4>1
      <4> QED BY <2>1, <4>1, <4>2
    <3> QED BY <3>1, <3>2
  <2>3. ms[i + 1][2] = what /\ \E j \in DOMAIN ms : j > i + 1 /\ ms[j][1] = "enter"
    BY <2>1, <2>2 DEF Brings
  <2>4. PICK j \in 1..(n + 1) : j > i + 1 /\ ms[j][1] = "enter"
    BY <1>1, <2>3
  <2>5. j - 1 \in 1..n /\ j - 1 > i /\ (j - 1) + 1 = j
    BY <1>1, <2>1, <2>4
  <2>6. t[j - 1][1] = "enter" /\ t[i] = ms[i + 1]
    BY <1>1, <2>1, <2>4, <2>5
  <2> QED BY <1>1, <2>3, <2>5, <2>6
<1> QED BY <1>5, <1>6 DEF Brings, t

LEMMA ClipKept ==
  ASSUME ClipInv, NEW d \in Conn, paste'[d] = paste[d],
         link'[d] = "open" /\ Served(d)' /\ content' # "none" =>
           link[d] = "open" /\ Served(d) /\ content' = content /\ Pending(d)' = Pending(d)
  PROVE  Brought(d)'
<1>1. Brought(d)
  BY DEF ClipInv
<1>2. CASE ~(link'[d] = "open" /\ Served(d)' /\ content' # "none" /\ d \notin Windows)
  BY <1>1, <1>2 DEF Brought
<1>3. CASE link'[d] = "open" /\ Served(d)' /\ content' # "none" /\ d \notin Windows
  <2>1. Brings(Pending(d), paste[d], content) /\ content' = content /\ Pending(d)' = Pending(d)
    BY <1>1, <1>3 DEF Brought
  <2> QED BY <1>3, <2>1 DEF Brought
<1> QED BY <1>2, <1>3

LEMMA ClipBehind ==
  ASSUME TypeOK, ClipInv, NEW d \in Conn, paste' = paste, content' = content, link' = link,
         Served(d)' => Served(d),
         NEW m \in Message, m[1] # "clip", Pending(d)' = Append(Pending(d), m)
  PROVE  Brought(d)'
<1>1. Brought(d)
  BY DEF ClipInv
<1>2. ASSUME Brings(Pending(d), paste[d], content) PROVE Brings(Pending(d)', paste'[d], content')
  BY <1>2, PendingType, BringsAppend
<1> QED BY <1>1, <1>2 DEF Brought

LEMMA ClipStep == TypeOK /\ LockInv /\ LinkInv /\ OwedInv /\ ClipInv /\ [Next]_vars => ClipInv'
<1> SUFFICES ASSUME TypeOK, LockInv, LinkInv, OwedInv, ClipInv, [Next]_vars PROVE ClipInv'
  OBVIOUS
<1> USE DEF Running, switchVars, lockVars, hookVars, recvVars, clientVars
<1>1. CASE Push
  <2> SUFFICES ASSUME NEW d \in Conn PROVE Brought(d)'
    BY DEF ClipInv
  <2>1. Pending(d)' = Pending(d)
    BY <1>1, PushStep
  <2>2. Served(d)' => Served(d)
    BY <1>1, ConnAssumption DEF Push, Served, Meant, LockInv, Free, Service
  <2>3. paste' = paste /\ content' = content /\ link' = link
    BY <1>1 DEF Push
  <2> QED BY <2>1, <2>2, <2>3, ClipKept
<1>2. ASSUME NEW told \in BOOLEAN, PushFails(told) PROVE ClipInv'
  <2> SUFFICES ASSUME NEW d \in Conn PROVE Brought(d)'
    BY DEF ClipInv
  <2>1. link'[d] = "open" => Pending(d)' = Pending(d) /\ link[d] = "open"
    BY <1>2 DEF PushFails, Pending
  <2>2. Served(d)' = Served(d) /\ paste' = paste /\ content' = content
    BY <1>2 DEF PushFails, Served, Meant
  <2> QED BY <2>1, <2>2, ClipKept
<1>3. CASE EnterBegins
  <2>0. PICK e \in Conn : e = target
    BY <1>3 DEF EnterBegins, Begin, TypeOK
  <2>1. mutex = Free /\ to' = e /\ out' = Handover /\ down' = down /\ Handover \in Seq(Message)
    BY <2>0, <1>3, HandoverType DEF EnterBegins, Begin
  <2>2. Pending(e)' = down[e] \o Handover
    BY <2>1, BeginStep
  <2>3. Meant' = e /\ active' = NoConn /\ paste' = paste /\ content' = content
    BY <2>0, <1>3 DEF EnterBegins, Begin, Meant, LockInv
  <2> SUFFICES ASSUME NEW d \in Conn PROVE Brought(d)'
    BY DEF ClipInv
  <2>4. CASE d # e
    BY <2>3, <2>4, ClipKept, ConnAssumption DEF Served
  <2>5. CASE d = e
    <3>1. Brought(d)
      BY DEF ClipInv
    <3>2. content # "none" => Brings(down[d] \o Handover, paste[d], content)
      BY BringsHandover
    <3> QED BY <2>2, <2>3, <2>5, <3>1, <3>2 DEF Brought
  <2> QED BY <2>4, <2>5
<1>4. CASE EnterFindsNobody
  <2> SUFFICES ASSUME NEW d \in Conn PROVE Brought(d)'
    BY DEF ClipInv
  <2>1. Pending(d)' = Pending(d)
    BY <1>4 DEF EnterFindsNobody, Pending
  <2>2. Served(d)' => Served(d)
    BY <1>4, ConnAssumption DEF EnterFindsNobody, Served, Meant, LockInv, Free, Service
  <2>3. paste' = paste /\ content' = content /\ link' = link
    BY <1>4 DEF EnterFindsNobody
  <2> QED BY <2>1, <2>2, <2>3, ClipKept
<1>5. CASE EnterEnds
  <2> SUFFICES ASSUME NEW d \in Conn PROVE Brought(d)'
    BY DEF ClipInv
  <2>1. Pending(d)' = Pending(d)
    BY <1>5, DownTypes, PendingIsDown DEF EnterEnds, End, Ready, Pending
  <2>2. Served(d)' => Served(d)
    BY <1>5, ConnAssumption DEF EnterEnds, End, Ready, Served, Meant, LockInv, Free, Service
  <2>3. paste' = paste /\ content' = content /\ link' = link
    BY <1>5 DEF EnterEnds, End, Ready
  <2> QED BY <2>1, <2>2, <2>3, ClipKept
<1>6. CASE KeyBegins
  <2>0. PICK e \in Conn : e = active
    BY <1>6 DEF KeyBegins, Begin, TypeOK
  <2>1. Awaited(e) /\ mutex = Free /\ to' = e /\ out' = <<<<"key", Last(owed[e])>>>> /\ down' = down
    BY <2>0, <1>6 DEF KeyBegins, Begin, Awaited, Free
  <2>2. PICK m \in Message : m = <<"key", Last(owed[e])>>
    BY <2>1, AwaitedKey, MessageTypes
  <2>3. m[1] # "clip" /\ <<m>> \in Seq(Message) /\ out' = <<m>>
    BY <2>1, <2>2
  <2>4. /\ \A f \in Conn : Pending(f) = down[f] /\ (f # e => Pending(f)' = Pending(f))
        /\ Pending(e)' = Append(Pending(e), m)
    <3>1. /\ \A f \in Conn : Pending(f) = down[f] /\ (f # e => Pending(f)' = down[f])
          /\ Pending(e)' = down[e] \o <<m>>
      BY <2>1, <2>3, BeginStep
    <3>2. Append(down[e], m) = down[e] \o <<m>>
      BY <2>2, DownTypes, AppendIsConcat
    <3> QED BY <3>1, <3>2
  <2> SUFFICES ASSUME NEW d \in Conn PROVE Brought(d)'
    BY DEF ClipInv
  <2>5. (Served(d)' => Served(d)) /\ paste' = paste /\ content' = content /\ link' = link
    BY <1>6, ConnAssumption DEF KeyBegins, Begin, Served, Meant, Free, Service, TypeOK
  <2>6. CASE d # e
    BY <2>4, <2>5, <2>6, ClipKept
  <2>7. CASE d = e
    BY <2>2, <2>3, <2>4, <2>5, <2>7, ClipBehind
  <2> QED BY <2>6, <2>7
<1>7. CASE KeyFindsNobody
  <2> SUFFICES ASSUME NEW d \in Conn PROVE Brought(d)'
    BY DEF ClipInv
  <2>1. Pending(d)' = Pending(d)
    BY <1>7 DEF KeyFindsNobody, Pending
  <2>2. Served(d)' => Served(d)
    BY <1>7, ConnAssumption DEF KeyFindsNobody, Served, Meant, LockInv, Free, Service
  <2>3. paste' = paste /\ content' = content /\ link' = link
    BY <1>7 DEF KeyFindsNobody
  <2> QED BY <2>1, <2>2, <2>3, ClipKept
<1>8. CASE KeyEnds
  <2> SUFFICES ASSUME NEW d \in Conn PROVE Brought(d)'
    BY DEF ClipInv
  <2>1. Pending(d)' = Pending(d)
    BY <1>8, DownTypes, PendingIsDown DEF KeyEnds, End, Ready, Pending
  <2>2. Served(d)' => Served(d)
    BY <1>8, ConnAssumption DEF KeyEnds, End, Ready, Served, Meant, LockInv, Free, Service
  <2>3. paste' = paste /\ content' = content /\ link' = link
    BY <1>8 DEF KeyEnds, End, Ready
  <2> QED BY <2>1, <2>2, <2>3, ClipKept
<1>9. CASE LeaveBegins
  <2>0. PICK e \in Conn : e = active
    BY <1>9 DEF LeaveBegins, Begin, TypeOK
  <2>1. mutex = Free /\ to' = e /\ out' = <<<<"leave">>>> /\ down' = down
    BY <2>0, <1>9 DEF LeaveBegins, Begin
  <2>2. PICK m \in Message : m = <<"leave">>
    BY MessageTypes
  <2>3. m[1] # "clip" /\ <<m>> \in Seq(Message) /\ out' = <<m>>
    BY <2>1, <2>2
  <2>4. /\ \A f \in Conn : Pending(f) = down[f] /\ (f # e => Pending(f)' = Pending(f))
        /\ Pending(e)' = Append(Pending(e), m)
    <3>1. /\ \A f \in Conn : Pending(f) = down[f] /\ (f # e => Pending(f)' = down[f])
          /\ Pending(e)' = down[e] \o <<m>>
      BY <2>1, <2>3, BeginStep
    <3>2. Append(down[e], m) = down[e] \o <<m>>
      BY <2>2, DownTypes, AppendIsConcat
    <3> QED BY <3>1, <3>2
  <2> SUFFICES ASSUME NEW d \in Conn PROVE Brought(d)'
    BY DEF ClipInv
  <2>5. (Served(d)' => Served(d)) /\ paste' = paste /\ content' = content /\ link' = link
    BY <1>9, ConnAssumption DEF LeaveBegins, Begin, Served, Meant, Free, Service, TypeOK
  <2>6. CASE d # e
    BY <2>4, <2>5, <2>6, ClipKept
  <2>7. CASE d = e
    BY <2>2, <2>3, <2>4, <2>5, <2>7, ClipBehind
  <2> QED BY <2>6, <2>7
<1>10. CASE LeaveEnds
  <2> SUFFICES ASSUME NEW d \in Conn PROVE Brought(d)'
    BY DEF ClipInv
  <2>1. Pending(d)' = Pending(d)
    BY <1>10, DownTypes, PendingIsDown DEF LeaveEnds, End, Ready, BackToLocal, Pending
  <2>2. Served(d)' => Served(d)
    BY <1>10, ConnAssumption DEF LeaveEnds, End, Ready, BackToLocal, Served, Meant, LockInv, Free, Service
  <2>3. paste' = paste /\ content' = content /\ link' = link
    BY <1>10 DEF LeaveEnds, End, Ready, BackToLocal
  <2> QED BY <2>1, <2>2, <2>3, ClipKept
<1>11. CASE KeeperLocks
  <2> SUFFICES ASSUME NEW d \in Conn PROVE Brought(d)'
    BY DEF ClipInv
  <2>1. Pending(d)' = Pending(d)
    BY <1>11 DEF KeeperLocks, Begin, Pending, LockInv
  <2>2. Served(d)' => Served(d)
    BY <1>11, ConnAssumption DEF KeeperLocks, Begin, Served, Meant, LockInv, Free, Service
  <2>3. paste' = paste /\ content' = content /\ link' = link
    BY <1>11 DEF KeeperLocks, Begin
  <2> QED BY <2>1, <2>2, <2>3, ClipKept
<1>12. CASE KeeperUnlocks
  <2> SUFFICES ASSUME NEW d \in Conn PROVE Brought(d)'
    BY DEF ClipInv
  <2>1. Pending(d)' = Pending(d)
    BY <1>12, DownTypes, PendingIsDown DEF KeeperUnlocks, End, Ready, Pending
  <2>2. Served(d)' => Served(d)
    BY <1>12, ConnAssumption DEF KeeperUnlocks, End, Ready, Served, Meant, LockInv, Free, Service
  <2>3. paste' = paste /\ content' = content /\ link' = link
    BY <1>12 DEF KeeperUnlocks, End, Ready
  <2> QED BY <2>1, <2>2, <2>3, ClipKept
<1>13. ASSUME NEW c \in Conn, KeeperBeats(c) PROVE ClipInv'
  <2>1. \A d \in Conn \ {c} : Pending(d)' = Pending(d)
    BY <1>13, PendingIsDown DEF KeeperBeats, Ready, Pending
  <2>2. PICK m \in Message : m = <<"other">>
    BY MessageTypes
  <2>3. m[1] # "clip" /\ Pending(c)' = Append(Pending(c), m)
    BY <1>13, <2>2, PendingIsDown, DownTypes, AppendIsConcat DEF KeeperBeats, Ready, Pending
  <2> SUFFICES ASSUME NEW d \in Conn PROVE Brought(d)'
    BY DEF ClipInv
  <2>5. (Served(d)' => Served(d)) /\ paste' = paste /\ content' = content /\ link' = link
    BY <1>13, ConnAssumption DEF KeeperBeats, Ready, Served, Meant, Free, Service
  <2>6. CASE d # c
    BY <2>1, <2>5, <2>6, ClipKept
  <2>7. CASE d = c
    BY <2>3, <2>5, <2>7, ClipBehind
  <2> QED BY <2>6, <2>7
<1>14. ASSUME NEW c \in Conn, KeeperExpires(c) PROVE ClipInv'
  <2> SUFFICES ASSUME NEW d \in Conn PROVE Brought(d)'
    BY DEF ClipInv
  <2>1. Pending(d)' = Pending(d) /\ paste' = paste /\ content' = content
    BY <1>14 DEF KeeperExpires, Ready, BackToLocal, Pending
  <2>2. link'[d] = "open" => d # c /\ link[d] = "open"
    BY <1>14 DEF KeeperExpires, Ready, BackToLocal, TypeOK
  <2>3. Served(d)' => Served(d)
    BY <1>14, ConnAssumption DEF KeeperExpires, Ready, BackToLocal, Served, Meant, Service, Free
  <2> QED BY <2>1, <2>2, <2>3, ClipKept
<1>15. CASE KeyTyped
  <2> SUFFICES ASSUME NEW d \in Conn PROVE Brought(d)'
    BY DEF ClipInv
  <2>1. Pending(d)' = Pending(d)
    BY <1>15 DEF KeyTyped, Pending
  <2>2. Served(d)' => Served(d)
    BY <1>15, ConnAssumption DEF KeyTyped, Served, Meant, LockInv, Free, Service
  <2>3. paste' = paste /\ content' = content /\ link' = link
    BY <1>15 DEF KeyTyped
  <2> QED BY <2>1, <2>2, <2>3, ClipKept
<1>16. CASE Escape
  <2> SUFFICES ASSUME NEW d \in Conn PROVE Brought(d)'
    BY DEF ClipInv
  <2>1. Pending(d)' = Pending(d)
    BY <1>16 DEF Escape, Pending
  <2>2. Served(d)' => Served(d)
    BY <1>16, ConnAssumption DEF Escape, Served, Meant, LockInv, Free, Service
  <2>3. paste' = paste /\ content' = content /\ link' = link
    BY <1>16 DEF Escape
  <2> QED BY <2>1, <2>2, <2>3, ClipKept
<1>17. ASSUME NEW what \in Contents, UserCopies(what) PROVE ClipInv'
  <2> SUFFICES ASSUME NEW d \in Conn PROVE Brought(d)'
    BY DEF ClipInv
  <2>1. paste' = paste /\ ~Served(d)'
    BY <1>17, ConnAssumption DEF UserCopies, Served, Meant, LockInv
  <2> QED BY <2>1, ClipKept
<1>18. ASSUME NEW c \in Conn, Connects(c) PROVE ClipInv'
  <2> SUFFICES ASSUME NEW d \in Conn PROVE Brought(d)'
    BY DEF ClipInv
  <2>1. (Served(d)' <=> Served(d)) /\ ~Served(c)
    BY <1>18, ConnAssumption DEF Connects, Served, Meant, LinkInv, Free
  <2>2. d # c => Pending(d)' = Pending(d) /\ link'[d] = link[d]
    BY <1>18 DEF Connects, Pending, TypeOK
  <2>3. paste' = paste /\ content' = content
    BY <1>18 DEF Connects
  <2> QED BY <2>1, <2>2, <2>3, ClipKept
<1>19. ASSUME NEW c \in Conn, CursorHits(c) PROVE ClipInv'
  <2> SUFFICES ASSUME NEW d \in Conn PROVE Brought(d)'
    BY DEF ClipInv
  <2>1. Pending(d)' = Pending(d)
    BY <1>19 DEF CursorHits, Pending
  <2>2. Served(d)' => Served(d)
    BY <1>19, ConnAssumption DEF CursorHits, Served, Meant, LockInv, Free, Service
  <2>3. paste' = paste /\ content' = content /\ link' = link
    BY <1>19 DEF CursorHits
  <2> QED BY <2>1, <2>2, <2>3, ClipKept
<1>20. ASSUME NEW c \in Conn, Quits(c) PROVE ClipInv'
  <2> SUFFICES ASSUME NEW d \in Conn PROVE Brought(d)'
    BY DEF ClipInv
  <2>1. link'[d] = "open" => Pending(d)' = Pending(d) /\ link[d] = "open"
    BY <1>20 DEF Quits, Pending, TypeOK
  <2>2. Served(d)' = Served(d) /\ paste' = paste /\ content' = content
    BY <1>20 DEF Quits, Served, Meant
  <2> QED BY <2>1, <2>2, ClipKept
<1>21. ASSUME NEW c \in Conn, LinkBreaks(c) PROVE ClipInv'
  <2> SUFFICES ASSUME NEW d \in Conn PROVE Brought(d)'
    BY DEF ClipInv
  <2>1. link'[d] = "open" => Pending(d)' = Pending(d) /\ link[d] = "open"
    BY <1>21 DEF LinkBreaks, Pending, TypeOK
  <2>2. Served(d)' = Served(d) /\ paste' = paste /\ content' = content
    BY <1>21 DEF LinkBreaks, Served, Meant
  <2> QED BY <2>1, <2>2, ClipKept
<1>22. ASSUME NEW c \in Conn, HelloBegins(c) PROVE ClipInv'
  <2>1. mutex = Free /\ to' = c /\ out' = <<<<"other">>>> /\ down' = down
    BY <1>22 DEF HelloBegins, Begin
  <2>2. PICK m \in Message : m = <<"other">>
    BY MessageTypes
  <2>3. m[1] # "clip" /\ <<m>> \in Seq(Message) /\ out' = <<m>>
    BY <2>1, <2>2
  <2>4. /\ \A f \in Conn : Pending(f) = down[f] /\ (f # c => Pending(f)' = Pending(f))
        /\ Pending(c)' = Append(Pending(c), m)
    <3>1. /\ \A f \in Conn : Pending(f) = down[f] /\ (f # c => Pending(f)' = down[f])
          /\ Pending(c)' = down[c] \o <<m>>
      BY <2>1, <2>3, BeginStep
    <3>2. Append(down[c], m) = down[c] \o <<m>>
      BY <2>2, DownTypes, AppendIsConcat
    <3> QED BY <3>1, <3>2
  <2> SUFFICES ASSUME NEW d \in Conn PROVE Brought(d)'
    BY DEF ClipInv
  <2>5. (Served(d)' => Served(d)) /\ paste' = paste /\ content' = content /\ link' = link
    BY <1>22, ConnAssumption DEF HelloBegins, Begin, Served, Meant, Free, Service, TypeOK
  <2>6. CASE d # c
    BY <2>4, <2>5, <2>6, ClipKept
  <2>7. CASE d = c
    BY <2>2, <2>3, <2>4, <2>5, <2>7, ClipBehind
  <2> QED BY <2>6, <2>7
<1>23. ASSUME NEW c \in Conn, HelloEnds(c) PROVE ClipInv'
  <2> SUFFICES ASSUME NEW d \in Conn PROVE Brought(d)'
    BY DEF ClipInv
  <2>1. Pending(d)' = Pending(d)
    BY <1>23, DownTypes, PendingIsDown DEF HelloEnds, End, Ready, Pending
  <2>2. Served(d)' => Served(d)
    BY <1>23, ConnAssumption DEF HelloEnds, End, Ready, Served, Meant, LockInv, Free, Service
  <2>3. paste' = paste /\ content' = content /\ link' = link
    BY <1>23 DEF HelloEnds, End, Ready
  <2> QED BY <2>1, <2>2, <2>3, ClipKept
<1>24. ASSUME NEW c \in Conn, RecvStops(c) PROVE ClipInv'
  <2> SUFFICES ASSUME NEW d \in Conn PROVE Brought(d)'
    BY DEF ClipInv
  <2>1. Pending(d)' = Pending(d)
    BY <1>24 DEF RecvStops, Pending
  <2>2. Served(d)' => Served(d)
    BY <1>24, ConnAssumption DEF RecvStops, Served, Meant, LockInv, Free, Service
  <2>3. paste' = paste /\ content' = content /\ link' = link
    BY <1>24 DEF RecvStops
  <2> QED BY <2>1, <2>2, <2>3, ClipKept
<1>25. ASSUME NEW c \in Conn, RecvEnds(c) PROVE ClipInv'
  <2> SUFFICES ASSUME NEW d \in Conn PROVE Brought(d)'
    BY DEF ClipInv
  <2>1. Pending(d)' = Pending(d)
    BY <1>25 DEF RecvEnds, Pending
  <2>2. Served(d)' => Served(d)
    BY <1>25, ConnAssumption DEF RecvEnds, Served, Meant, LockInv, Free, Service
  <2>3. paste' = paste /\ content' = content /\ link' = link
    BY <1>25 DEF RecvEnds
  <2> QED BY <2>1, <2>2, <2>3, ClipKept
<1>26. ASSUME NEW c \in Conn, ReadsNothing(c) PROVE ClipInv'
  <2>1. Reads(c, "other")
    BY <1>26 DEF ReadsNothing
  <2>2. /\ Head(Pending(c)) = Head(down[c]) /\ Head(down[c])[1] = "other" /\ Pending(c) # <<>>
        /\ Pending(c)' = Tail(Pending(c)) /\ \A e \in Conn \ {c} : Pending(e)' = Pending(e)
    BY <2>1, ReadStep
  <2>3. Meant' = Meant /\ active' = active /\ link' = link /\ content' = content
    BY <1>26 DEF ReadsNothing, Reads, Meant
  <2>5. paste'[c] = paste[c] /\ Head(Pending(c))[1] # "clip"
    BY <1>26, <2>2 DEF ReadsNothing, Reads
  <2>7. paste' = paste
    BY <1>26 DEF ReadsNothing, Reads
  <2> SUFFICES ASSUME NEW d \in Conn PROVE Brought(d)'
    BY DEF ClipInv
  <2>8. CASE d # c
    BY <2>2, <2>3, <2>7, <2>8, ClipKept DEF Served
  <2>9. CASE d = c
    <3>1. Brought(d)
      BY DEF ClipInv
    <3>2. ASSUME Brings(Pending(d), paste[d], content), d \notin Windows
          PROVE  Brings(Tail(Pending(d)), paste'[d], content)
      BY <2>2, <2>5, <2>9, <3>2, PendingType, BringsTail
    <3> QED BY <2>2, <2>3, <2>9, <3>1, <3>2 DEF Brought, Served
  <2> QED BY <2>8, <2>9
<1>27. ASSUME NEW c \in Conn, ReadsClipboard(c) PROVE ClipInv'
  <2>1. Reads(c, "clip")
    BY <1>27 DEF ReadsClipboard
  <2>2. /\ Head(Pending(c)) = Head(down[c]) /\ Head(down[c])[1] = "clip" /\ Pending(c) # <<>>
        /\ Pending(c)' = Tail(Pending(c)) /\ \A e \in Conn \ {c} : Pending(e)' = Pending(e)
    BY <2>1, ReadStep
  <2>3. Meant' = Meant /\ active' = active /\ link' = link /\ content' = content
    BY <1>27 DEF ReadsClipboard, Reads, Meant
  <2>4. Head(down[c])[2] = Head(Pending(c))[2]
    BY <2>2
  <2>5. c \notin Windows => paste'[c] = Head(Pending(c))[2]
    BY <1>27, <2>4 DEF ReadsClipboard, Pasted, TypeOK
  <2>7. \A e \in Conn \ {c} : paste'[e] = paste[e]
    BY <1>27 DEF ReadsClipboard, TypeOK
  <2> SUFFICES ASSUME NEW d \in Conn PROVE Brought(d)'
    BY DEF ClipInv
  <2>8. CASE d # c
    BY <2>2, <2>3, <2>7, <2>8, ClipKept DEF Served
  <2>9. CASE d = c
    <3>1. Brought(d)
      BY DEF ClipInv
    <3>2. ASSUME Brings(Pending(d), paste[d], content), d \notin Windows
          PROVE  Brings(Tail(Pending(d)), paste'[d], content)
      BY <2>2, <2>5, <2>9, <3>2, PendingType, BringsTail
    <3> QED BY <2>2, <2>3, <2>9, <3>1, <3>2 DEF Brought, Served
  <2> QED BY <2>8, <2>9
<1>28. ASSUME NEW c \in Conn, ReadsEnter(c) PROVE ClipInv'
  <2>1. Reads(c, "enter")
    BY <1>28 DEF ReadsEnter
  <2>2. /\ Head(Pending(c)) = Head(down[c]) /\ Head(down[c])[1] = "enter" /\ Pending(c) # <<>>
        /\ Pending(c)' = Tail(Pending(c)) /\ \A e \in Conn \ {c} : Pending(e)' = Pending(e)
    BY <2>1, ReadStep
  <2>3. Meant' = Meant /\ active' = active /\ link' = link /\ content' = content
    BY <1>28 DEF ReadsEnter, Reads, Meant
  <2>5. paste'[c] = paste[c] /\ Head(Pending(c))[1] # "clip"
    BY <1>28, <2>2 DEF ReadsEnter, Reads
  <2>7. paste' = paste
    BY <1>28 DEF ReadsEnter, Reads
  <2> SUFFICES ASSUME NEW d \in Conn PROVE Brought(d)'
    BY DEF ClipInv
  <2>8. CASE d # c
    BY <2>2, <2>3, <2>7, <2>8, ClipKept DEF Served
  <2>9. CASE d = c
    <3>1. Brought(d)
      BY DEF ClipInv
    <3>2. ASSUME Brings(Pending(d), paste[d], content), d \notin Windows
          PROVE  Brings(Tail(Pending(d)), paste'[d], content)
      BY <2>2, <2>5, <2>9, <3>2, PendingType, BringsTail
    <3> QED BY <2>2, <2>3, <2>9, <3>1, <3>2 DEF Brought, Served
  <2> QED BY <2>8, <2>9
<1>29. ASSUME NEW c \in Conn, ReadsLeave(c) PROVE ClipInv'
  <2>1. Reads(c, "leave")
    BY <1>29 DEF ReadsLeave
  <2>2. /\ Head(Pending(c)) = Head(down[c]) /\ Head(down[c])[1] = "leave" /\ Pending(c) # <<>>
        /\ Pending(c)' = Tail(Pending(c)) /\ \A e \in Conn \ {c} : Pending(e)' = Pending(e)
    BY <2>1, ReadStep
  <2>3. Meant' = Meant /\ active' = active /\ link' = link /\ content' = content
    BY <1>29 DEF ReadsLeave, Reads, Meant
  <2>5. paste'[c] = paste[c] /\ Head(Pending(c))[1] # "clip"
    BY <1>29, <2>2 DEF ReadsLeave, Reads
  <2>7. paste' = paste
    BY <1>29 DEF ReadsLeave, Reads
  <2> SUFFICES ASSUME NEW d \in Conn PROVE Brought(d)'
    BY DEF ClipInv
  <2>8. CASE d # c
    BY <2>2, <2>3, <2>7, <2>8, ClipKept DEF Served
  <2>9. CASE d = c
    <3>1. Brought(d)
      BY DEF ClipInv
    <3>2. ASSUME Brings(Pending(d), paste[d], content), d \notin Windows
          PROVE  Brings(Tail(Pending(d)), paste'[d], content)
      BY <2>2, <2>5, <2>9, <3>2, PendingType, BringsTail
    <3> QED BY <2>2, <2>3, <2>9, <3>1, <3>2 DEF Brought, Served
  <2> QED BY <2>8, <2>9
<1>30. ASSUME NEW c \in Conn, ReadsKey(c) PROVE ClipInv'
  <2>1. Reads(c, "key")
    BY <1>30 DEF ReadsKey
  <2>2. /\ Head(Pending(c)) = Head(down[c]) /\ Head(down[c])[1] = "key" /\ Pending(c) # <<>>
        /\ Pending(c)' = Tail(Pending(c)) /\ \A e \in Conn \ {c} : Pending(e)' = Pending(e)
    BY <2>1, ReadStep
  <2>3. Meant' = Meant /\ active' = active /\ link' = link /\ content' = content
    BY <1>30 DEF ReadsKey, Reads, Meant
  <2>5. paste'[c] = paste[c] /\ Head(Pending(c))[1] # "clip"
    BY <1>30, <2>2 DEF ReadsKey, Reads
  <2>7. paste' = paste
    BY <1>30 DEF ReadsKey, Reads
  <2> SUFFICES ASSUME NEW d \in Conn PROVE Brought(d)'
    BY DEF ClipInv
  <2>8. CASE d # c
    BY <2>2, <2>3, <2>7, <2>8, ClipKept DEF Served
  <2>9. CASE d = c
    <3>1. Brought(d)
      BY DEF ClipInv
    <3>2. ASSUME Brings(Pending(d), paste[d], content), d \notin Windows
          PROVE  Brings(Tail(Pending(d)), paste'[d], content)
      BY <2>2, <2>5, <2>9, <3>2, PendingType, BringsTail
    <3> QED BY <2>2, <2>3, <2>9, <3>1, <3>2 DEF Brought, Served
  <2> QED BY <2>8, <2>9
<1>31. ASSUME NEW c \in Conn, LosesServer(c) PROVE ClipInv'
  <2> SUFFICES ASSUME NEW d \in Conn PROVE Brought(d)'
    BY DEF ClipInv
  <2>1. link'[d] = "open" => Pending(d)' = Pending(d) /\ link[d] = "open"
    BY <1>31 DEF LosesServer, Pending, TypeOK
  <2>2. Served(d)' = Served(d) /\ paste' = paste /\ content' = content
    BY <1>31 DEF LosesServer, Served, Meant
  <2> QED BY <2>1, <2>2, ClipKept
<1>32. CASE UNCHANGED vars
  <2> SUFFICES ASSUME NEW d \in Conn PROVE Brought(d)'
    BY DEF ClipInv
  <2>1. Pending(d)' = Pending(d)
    BY <1>32 DEF vars, Pending
  <2>2. Served(d)' => Served(d)
    BY <1>32, ConnAssumption DEF vars, Served, Meant, LockInv, Free, Service
  <2>3. paste' = paste /\ content' = content /\ link' = link
    BY <1>32 DEF vars
  <2> QED BY <2>1, <2>2, <2>3, ClipKept
<1> QED
  BY <1>1, <1>2, <1>3, <1>4, <1>5, <1>6, <1>7, <1>8, <1>9, <1>10, <1>11, <1>12, <1>13, <1>14, <1>15, <1>16, <1>17,
     <1>18, <1>19, <1>20, <1>21, <1>22, <1>23, <1>24, <1>25, <1>26, <1>27, <1>28, <1>29, <1>30, <1>31, <1>32
     DEF Next, Event, Sends, HookStep, KeeperStep, RecvStep, ClientStep

-------------------------------------------------------------------------------
(* The invariant, whole.                                                     *)

LEMMA InitInv == Init => IInv
<1> SUFFICES ASSUME Init PROVE IInv
  OBVIOUS
<1> USE DEF Init
<1>1. ASSUME NEW c \in Conn
      PROVE  down[c] = <<>> /\ Pending(c) = <<>> /\ owed[c] = <<>> /\ process[c] = "none" /\ link[c] = "none"
  BY ConnAssumption DEF Pending, NoConn
<1>2. TypeOK
  <2>1. /\ out \in Seq(Message) /\ down \in [Conn -> Seq(Message)] /\ owed \in [Conn -> Seq(1..MaxKeys)]
        /\ \A c \in Conn : Len(down[c]) <= Room
    <3>1. <<>> \in Seq(Message) /\ <<>> \in Seq(1..MaxKeys) /\ Len(<<>>) <= Room
      BY SessionBoundsAssumption
    <3> QED BY <3>1
  <2> QED BY <2>1 DEF TypeOK, Service, Free, NoConn
<1>3. LockInv
  BY DEF LockInv, NoConn, Free
<1>4. LinkInv
  BY ConnAssumption DEF LinkInv
<1>5. EndsInv
  BY <1>1 DEF EndsInv
<1>6. OwedInv
  <2> SUFFICES ASSUME NEW c \in Conn PROVE Arrived(c) /\ UnderWay(c)
    BY DEF OwedInv
  <2>1. ~Awaited(c)
    BY DEF Awaited
  <2>2. <<>> \in Seq(1..MaxKeys) /\ <<>> \o <<>> = <<>>
    OBVIOUS
  <2>3. owed[c] = KeysIn(down[c]) \o <<>>
    BY <1>1, <2>2, KeysOfEmpty
  <2> QED BY <1>1, <2>1, <2>2, <2>3 DEF Arrived, UnderWay
<1>7. GuardInv
  BY <1>1 DEF GuardInv, Guarded
<1>8. ClipInv
  BY <1>1 DEF ClipInv, Brought
<1> QED BY <1>2, <1>3, <1>4, <1>5, <1>6, <1>7, <1>8 DEF IInv

\* What holds in every state that the session can be in.
THEOREM Invariance == Spec => []IInv
<1>1. IInv /\ [Next]_vars => IInv'
  BY TypeStep, LockStep, LinkStep, EndsStep, OwedStep, GuardStep, ClipStep DEF IInv
<1> QED BY InitInv, <1>1, PTL DEF Spec

\* The types of the variables; among them that no stream ever holds more than its
\* room, whoever is sending.
THEOREM TypeCorrect == Spec => []TypeOK
<1>1. IInv => TypeOK
  BY DEF IInv
<1> QED BY Invariance, <1>1, PTL

\* Both ends agree on who has the input as soon as what is under way has arrived,
\* however many messages a stream holds.
THEOREM EndsAgreeHolds == Spec => []EndsAgree
<1>1. ASSUME IInv, ~Switching, NEW c \in Conn, Reachable(c) PROVE WillBeActive(c) = (active = c)
  <2>1. Meant = active
    BY <1>1 DEF Switching, Meant
  <2>2. WillBeActive(c) <=> active = c
    BY <1>1, <2>1 DEF IInv, EndsInv, Reachable
  <2>3. WillBeActive(c) \in BOOLEAN
    BY DEF WillBeActive, ActiveAfter
  <2> QED BY <2>2, <2>3
<1>2. IInv => EndsAgree
  BY <1>1 DEF EndsAgree
<1> QED BY Invariance, <1>2, PTL

\* To a client that can be told, every key typed for it and not injected yet is
\* under way, once and in the order of typing.
THEOREM KeysInOrderHolds == Spec => []KeysInOrder
<1>1. ASSUME IInv, NEW c \in Conn, Reachable(c), ~Awaited(c)
      PROVE  owed[c] = KeysIn(Pending(c)) \o <<>>
  <2>1. owed[c] = KeysIn(Pending(c))
    BY <1>1 DEF IInv, OwedInv, UnderWay, Reachable
  <2> QED BY <1>1, <2>1, PendingType, KeysOfStream, ConcatEmptySeq DEF IInv
<1>2. ASSUME IInv, NEW c \in Conn, Reachable(c), Awaited(c)
      PROVE  owed[c] = KeysIn(Pending(c)) \o <<Last(owed[c])>>
  <2>1. PICK n \in 1..MaxKeys : owed[c] = Append(KeysIn(Pending(c)), n)
    BY <1>2 DEF IInv, OwedInv, UnderWay, Reachable
  <2>2. KeysIn(Pending(c)) \in Seq(1..MaxKeys)
    BY <1>2, PendingType, KeysOfStream DEF IInv
  <2>3. Last(owed[c]) = n
    BY <2>1, <2>2, LastOfAppend
  <2> QED BY <2>1, <2>2, <2>3, AppendIsConcat
<1>3. IInv => KeysInOrder
  BY <1>1, <1>2 DEF KeysInOrder, Awaited
<1> QED BY Invariance, <1>3, PTL

\* A macOS client that knows it has the input pastes what the server's clipboard
\* holds, whatever came to it before and however long the stream.
THEOREM ClipboardComesAlongHolds == Spec => []ClipboardComesAlong
<1>1. ASSUME IInv, NEW c \in Conn, Reachable(c), active = c, content # "none", c \notin Windows,
             \A i \in DOMAIN Pending(c) : Pending(c)[i][1] # "enter"
      PROVE  paste[c] = content
  <2>1. Brings(Pending(c), paste[c], content)
    BY <1>1 DEF IInv, ClipInv, Brought, Served, Reachable
  <2>2. CASE ClipsIn(Pending(c)) = {}
    BY <2>1, <2>2 DEF Brings
  <2>3. CASE ClipsIn(Pending(c)) # {}
    <3>1. ClipsIn(Pending(c)) \subseteq 1..Len(Pending(c)) /\ Len(Pending(c)) \in Nat
      BY <1>1, PendingType, LenProperties DEF ClipsIn, IInv
    <3>2. PICK i \in ClipsIn(Pending(c)) : \A j \in ClipsIn(Pending(c)) : j <= i
      BY <2>3, <3>1, Greatest
    <3>3. \E j \in DOMAIN Pending(c) : Pending(c)[j][1] = "enter"
      BY <2>1, <3>2 DEF Brings
    <3> QED BY <1>1, <3>3
  <2> QED BY <2>2, <2>3
<1>2. IInv => ClipboardComesAlong
  BY <1>1 DEF ClipboardComesAlong, HasTheInput
<1> QED BY Invariance, <1>2, PTL

\* No key is injected before the client has been told that it has the input.
THEOREM KeysFindActiveHolds == Spec => KeysFindActive
<1> DEFINE Injects(c) == Len(owed'[c]) < Len(owed[c])
<1>1. ASSUME IInv, [Next]_vars, NEW c \in Conn, Injects(c) PROVE ReadsKey(c)
  <2>1. CASE KeyTyped
    <3>1. PICK e \in Conn, n \in 1..MaxKeys : owed' = [owed EXCEPT ![e] = Append(owed[e], n)]
      BY <1>1, <2>1 DEF KeyTyped, IInv, TypeOK
    <3>2. owed[c] \in Seq(1..MaxKeys) /\ Len(owed[c]) \in Nat
      BY <1>1, DownTypes DEF IInv
    <3>3. owed'[c] = owed[c] \/ owed'[c] = Append(owed[c], n)
      BY <1>1, <3>1 DEF IInv, TypeOK
    <3> QED BY <1>1, <3>2, <3>3, AppendProperties
  <2>2. ASSUME NEW d \in Conn, ReadsKey(d) PROVE d = c
    <3>1. d # c => owed'[c] = owed[c]
      BY <1>1, <2>2 DEF ReadsKey, IInv, TypeOK
    <3>2. Len(owed[c]) \in Nat
      BY <1>1, DownTypes DEF IInv
    <3> QED BY <1>1, <3>1, <3>2
  <2>3. ASSUME owed' = owed PROVE FALSE
    <3>1. Len(owed[c]) \in Nat
      BY <1>1, DownTypes DEF IInv
    <3> QED BY <1>1, <2>3, <3>1
  <2>4. KeyTyped \/ (\E d \in Conn : ReadsKey(d)) \/ owed' = owed
    BY <1>1 DEF Next, Event, Sends, HookStep, KeeperStep, RecvStep, ClientStep, vars, clientVars,
                Push, PushFails, EnterBegins, EnterFindsNobody, EnterEnds, KeyBegins, KeyFindsNobody,
                KeyEnds, LeaveBegins, LeaveEnds, KeeperLocks, KeeperUnlocks, KeeperBeats, KeeperExpires,
                Escape, UserCopies, Connects, CursorHits, Quits, LinkBreaks, HelloBegins, HelloEnds,
                RecvStops, RecvEnds, ReadsNothing, ReadsClipboard, ReadsEnter, ReadsLeave, LosesServer
  <2> QED BY <2>1, <2>2, <2>3, <2>4
<1>2. ASSUME IInv, NEW c \in Conn, ReadsKey(c) PROVE process[c] = "ACTIVE"
  <2>1. Reads(c, "key")
    BY <1>2 DEF ReadsKey
  <2>2. down[c] \in Seq(Message) /\ down[c] # <<>> /\ Head(down[c])[1] = "key"
    BY <1>2, <2>1, DownTypes, ReadStep DEF IInv
  <2>3. 1 \in DOMAIN down[c] /\ down[c][1][1] = "key"
    BY <2>2, LenProperties, EmptySeq
  <2>4. ActiveAfter(SubSeq(down[c], 1, 1 - 1), process[c])
    BY <1>2, <2>3 DEF IInv, GuardInv, Guarded
  <2>5. SubSeq(down[c], 1, 1 - 1) = <<>>
    BY <2>2, SubSeqEmpty
  <2> QED BY <2>4, <2>5, ActiveAfterNothing
<1>3. IInv /\ [Next]_vars => [\A c \in Conn : Injects(c) => process[c] = "ACTIVE"]_vars
  BY <1>1, <1>2
<1> QED BY Invariance, <1>3, PTL DEF Spec, KeysFindActive

-------------------------------------------------------------------------------
(* The session delivers keys as KeyDelivery promises.                        *)

\* A step of the delivery, in the session's terms.
DeliveryStep == Delivery!Next \/ UNCHANGED Delivery!vars

\* Every step of the session is one of the delivery or changes nothing of it: the
\* input goes only to a client that is there, and the key that is injected is the
\* oldest.
LEMMA NextDeliveryStep ==
  ASSUME IInv, [Next]_vars
  PROVE  DeliveryStep
<1>0. TypeOK /\ LockInv /\ LinkInv /\ OwedInv
  BY DEF IInv
<1>1. ASSUME UNCHANGED <<active, clients, owed>> PROVE DeliveryStep
  BY <1>1 DEF DeliveryStep, Delivery!vars
<1>2. ASSUME NEW c \in Conn, Connects(c) PROVE DeliveryStep
  <2>1. /\ c \notin clients /\ clients' = clients \cup {c} /\ UNCHANGED <<active, owed>>
    BY <1>0, <1>2 DEF Connects, LinkInv, switchVars
  <2> QED BY <2>1 DEF DeliveryStep, Delivery!Next, Delivery!HandOver, Delivery!Switch!Next,
                      Delivery!Switch!Connect
<1>3. CASE EnterEnds
  <2>1. /\ active = NoConn /\ active' = target /\ target \in clients /\ target \in Conn
        /\ UNCHANGED <<clients, owed>>
    BY <1>0, <1>3 DEF EnterEnds, End, Ready, LockInv, TypeOK
  <2> QED BY <2>1 DEF DeliveryStep, Delivery!Next, Delivery!HandOver, Delivery!Switch!Next,
                      Delivery!Switch!Enter
<1>4. CASE KeyTyped
  <2>1. /\ active # NoConn /\ UNCHANGED <<active, clients>>
        /\ \E n \in 1..MaxKeys : owed' = [owed EXCEPT ![active] = Append(owed[active], n)]
    BY <1>4 DEF KeyTyped, switchVars
  <2> QED BY <2>1 DEF DeliveryStep, Delivery!Next, Delivery!Type
<1>5. CASE LeaveEnds
  <2>1. active' = NoConn /\ UNCHANGED <<clients, owed>>
    BY <1>5 DEF LeaveEnds, BackToLocal
  <2> QED BY <2>1 DEF DeliveryStep, Delivery!Next, Delivery!HandOver, Delivery!Switch!Next,
                      Delivery!Switch!Return
<1>6. ASSUME NEW c \in Conn, KeeperExpires(c) PROVE DeliveryStep
  <2>1. /\ clients' = clients \ {c} /\ UNCHANGED owed
        /\ \/ active = c /\ active' = NoConn
           \/ UNCHANGED active
    BY <1>6 DEF KeeperExpires, BackToLocal, switchVars
  <2>2. CASE UNCHANGED active
    BY <2>1, <2>2 DEF DeliveryStep, Delivery!Next, Delivery!HandOver, Delivery!Switch!Next,
                      Delivery!Switch!Lose
  <2>3. CASE active = c /\ active' = NoConn
    <3>1. c # NoConn
      BY ConnAssumption
    <3> QED BY <2>1, <2>3, <3>1 DEF DeliveryStep, Delivery!Next, Delivery!HandOver, Delivery!LoseOwner
  <2> QED BY <2>1, <2>2, <2>3
<1>7. ASSUME NEW c \in Conn, ReadsKey(c) PROVE DeliveryStep
  <2>1. owed[c] # <<>> /\ owed' = [owed EXCEPT ![c] = Tail(owed[c])]
    BY <1>0, <1>7, KeyRead
  <2>2. UNCHANGED <<active, clients>>
    BY <1>7 DEF ReadsKey, Reads, switchVars
  <2> QED BY <2>1, <2>2 DEF DeliveryStep, Delivery!Next, Delivery!Deliver
<1>8. \/ UNCHANGED <<active, clients, owed>>
      \/ \E c \in Conn : Connects(c) \/ KeeperExpires(c) \/ ReadsKey(c)
      \/ EnterEnds \/ KeyTyped \/ LeaveEnds
  BY DEF Next, Event, Sends, HookStep, KeeperStep, RecvStep, ClientStep, vars, switchVars, clientVars,
         Push, PushFails, EnterBegins, EnterFindsNobody, KeyBegins, KeyFindsNobody, KeyEnds,
         LeaveBegins, KeeperLocks, KeeperUnlocks, KeeperBeats, Escape, UserCopies, CursorHits, Quits,
         LinkBreaks, HelloBegins, HelloEnds, RecvStops, RecvEnds, Reads, ReadsNothing, ReadsClipboard,
         ReadsEnter, ReadsLeave, LosesServer
<1> QED BY <1>1, <1>2, <1>3, <1>4, <1>5, <1>6, <1>7, <1>8

\* README.md:47 "Must arrive in order": from the keyboard to a client's system, keys go
\* the way of KeyDelivery, for any number of clients, with any room in the streams.
THEOREM DeliveryHolds == Spec => DeliverySpec
<1>1. Init => Delivery!Init
  BY DEF Init, Delivery!Init, Delivery!Switch!Init
<1>2. IInv /\ [Next]_vars => [Delivery!Next]_Delivery!vars
  BY NextDeliveryStep DEF DeliveryStep
<1> QED BY Invariance, <1>1, <1>2, PTL DEF Spec, DeliverySpec, Delivery!Spec
===============================================================================
