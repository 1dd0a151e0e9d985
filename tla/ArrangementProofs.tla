-------------------------- MODULE ArrangementProofs --------------------------
(***************************************************************************)
(* The editor and the server's layout fit together, for any clients, any   *)
(* screens and any way of dragging them about: the invariants of           *)
(* Arrangement.                                                            *)
(***************************************************************************)
EXTENDS Arrangement, Lemmas

Infos == Entries(ClientId, Rect, Edge)
Items == [client_id : ClientId, rect : Rect, released : BOOLEAN]

-------------------------------------------------------------------------------
(* The row of screens that a refresh makes.                                  *)

\* The rightmost column of some screens is one of theirs, or the server's.
LEMMA RightmostIs ==
  ASSUME NEW items \in Seq(Items)
  PROVE  Max({LastColumn(items[i].rect) : i \in DOMAIN items} \cup {LastColumn(ServerRect)}) \in Int
<1> DEFINE Columns(n) == {LastColumn(items[i].rect) : i \in 1..n} \cup {LastColumn(ServerRect)}
           N == {n \in Nat : n <= Len(items) => \E x \in Columns(n) : x \in Int /\ \A y \in Columns(n) : x >= y}
<1>1. LastColumn(ServerRect) \in Int
  BY DEF LastColumn, ServerRect
<1>2. ASSUME NEW i \in 1..Len(items) PROVE LastColumn(items[i].rect) \in Int
  <2>1. items[i] \in Items
    BY ElementOfSeq
  <2> QED BY <2>1 DEF Items, Rect, LastColumn
<1>3. 0 \in N
  BY <1>1
<1>4. ASSUME NEW n \in Nat, n \in N PROVE n + 1 \in N
  <2> SUFFICES ASSUME n + 1 <= Len(items)
               PROVE  \E x \in Columns(n + 1) : x \in Int /\ \A y \in Columns(n + 1) : x >= y
    OBVIOUS
  <2> DEFINE new == LastColumn(items[n + 1].rect)
  <2>1. Len(items) \in Nat /\ n <= Len(items) /\ n + 1 \in 1..Len(items)
    BY LenProperties
  <2>2. PICK x \in Columns(n) : x \in Int /\ \A y \in Columns(n) : x >= y
    BY <1>4, <2>1
  <2>3. new \in Int
    BY <1>2, <2>1
  <2>4. 1..(n + 1) = 1..n \cup {n + 1}
    OBVIOUS
  <2>5. Columns(n + 1) = Columns(n) \cup {new}
    BY <2>4
  <2>6. \A y \in Columns(n) : y \in Int
    BY <1>1, <1>2, <2>1
  <2> HIDE DEF Columns, new
  <2>7. CASE new >= x
    BY <2>2, <2>3, <2>5, <2>6, <2>7
  <2>8. CASE ~(new >= x)
    BY <2>2, <2>3, <2>5, <2>6, <2>8
  <2> QED BY <2>7, <2>8
<1>5. Len(items) \in N
  <2> HIDE DEF N
  <2> QED BY <1>3, <1>4, SetInduction, LenProperties
<1>6. DOMAIN items = 1..Len(items) /\ Len(items) \in Nat
  BY LenProperties
<1>7. PICK x \in Columns(Len(items)) : x \in Int /\ \A y \in Columns(Len(items)) : x >= y
  BY <1>5, <1>6
<1>8. \A y \in Columns(Len(items)) : y \in Int
  BY <1>1, <1>2
<1> DEFINE S == {LastColumn(items[i].rect) : i \in DOMAIN items} \cup {LastColumn(ServerRect)}
<1>9. S = Columns(Len(items))
  BY <1>6
<1> HIDE DEF Columns, S
<1>10. Max(S) \in S
  BY <1>7, <1>9 DEF Max
<1> QED BY <1>8, <1>9, <1>10 DEF S

\* add_client_screen puts one screen at the end.
LEMMA AddScreenAdds ==
  ASSUME NEW items \in Seq(Items), NEW info \in Infos
  PROVE  \E item \in Items : /\ AddScreen(items, info) = Append(items, item)
                             /\ item.client_id = info.client_id /\ ~item.released
<1> DEFINE m == Max({LastColumn(items[i].rect) : i \in DOMAIN items} \cup {LastColumn(ServerRect)})
           rect == [info.rect EXCEPT !.x = m + 50, !.y = 0]
           item == [client_id |-> info.client_id, rect |-> rect, released |-> FALSE]
<1>1. m \in Int
  BY RightmostIs
<1> HIDE DEF m
<1>2. info.rect \in Rect /\ info.client_id \in ClientId
  BY DEF Infos, Entries
<1>3. rect \in Rect
  <2>1. m + 50 \in Int /\ 0 \in Int
    BY <1>1
  <2>2. \A rc \in Rect, a \in Int : [rc EXCEPT !.x = a] \in Rect /\ [rc EXCEPT !.y = a] \in Rect
    BY DEF Rect
  <2>3. rect = [[info.rect EXCEPT !.x = m + 50] EXCEPT !.y = 0]
    OBVIOUS
  <2> QED BY <1>2, <2>1, <2>2, <2>3
<1>4. AddScreen(items, info) = Append(items, item)
  BY DEF AddScreen, m
<1> HIDE DEF rect
<1>5. item \in Items /\ item.client_id = info.client_id /\ ~item.released
  BY <1>2, <1>3 DEF Items
<1> QED BY <1>4, <1>5

\* The next element of RowUpTo, from the one before.
RowThen(infos, i, before) == IF i = 0 THEN <<>> ELSE AddScreen(before, infos[i])

\* The recursion has a solution for every length, and so for Len(infos).
LEMMA RowsExist ==
  ASSUME NEW infos, NEW n \in Nat
  PROVE  \E row : row = [i \in 0..n |-> RowThen(infos, i, row[i - 1])]
<1> DEFINE N == {m \in Nat : \E row : row = [i \in 0..m |-> RowThen(infos, i, row[i - 1])]}
<1>1. 0 \in N
  <2> DEFINE r0 == [i \in 0..0 |-> <<>>]
  <2>1. r0 = [i \in 0..0 |-> RowThen(infos, i, r0[i - 1])]
    BY DEF RowThen
  <2> QED BY <2>1
<1>2. ASSUME NEW m \in Nat, m \in N PROVE m + 1 \in N
  <2>1. PICK r : r = [i \in 0..m |-> RowThen(infos, i, r[i - 1])]
    BY <1>2
  <2> DEFINE r2 == [i \in 0..(m + 1) |-> RowThen(infos, i, r[i - 1])]
  <2>2. ASSUME NEW i \in 0..(m + 1)
        PROVE RowThen(infos, i, r[i - 1]) = RowThen(infos, i, r2[i - 1])
    <3>1. CASE i = 0
      BY <3>1 DEF RowThen
    <3>2. CASE i # 0
      <4>1. i - 1 \in 0..m
        BY <3>2
      <4>2. r[i - 1] = RowThen(infos, i - 1, r[i - 2])
        BY <4>1, <2>1
      <4>3. r2[i - 1] = RowThen(infos, i - 1, r[i - 2])
        BY <4>1
      <4> QED BY <4>2, <4>3
    <3> QED BY <3>1, <3>2
  <2>3. r2 = [i \in 0..(m + 1) |-> RowThen(infos, i, r2[i - 1])]
    BY <2>2
  <2> HIDE DEF r2
  <2> QED BY <2>3
<1> HIDE DEF N
<1>3. n \in N
  BY <1>1, <1>2, SetInduction
<1> USE DEF N
<1> QED BY <1>3

\* So it is a solution that RowUpTo chooses.
LEMMA RowUpToDef ==
  ASSUME NEW infos, Len(infos) \in Nat
  PROVE  RowUpTo(infos) = [i \in 0..Len(infos) |-> RowThen(infos, i, RowUpTo(infos)[i - 1])]
<1> DEFINE Sol(row) == row = [i \in 0..Len(infos) |-> RowThen(infos, i, row[i - 1])]
<1>1. RowUpTo(infos) = CHOOSE row : Sol(row)
  BY DEF RowUpTo, RowThen
<1>2. \E row : Sol(row)
  <2>1. \A n \in Nat : \E row : row = [i \in 0..n |-> RowThen(infos, i, row[i - 1])]
    BY RowsExist
  <2> QED BY <2>1
<1> HIDE DEF Sol
<1>3. Sol(RowUpTo(infos))
  BY <1>1, <1>2
<1> USE DEF Sol
<1> QED BY <1>3

\* A row has a screen for each client, in their order, and nobody has dragged any.
LEMMA RowShows ==
  ASSUME NEW infos \in Seq(Infos)
  PROVE  /\ Row(infos) \in Seq(Items) /\ Len(Row(infos)) = Len(infos)
         /\ \A k \in 1..Len(infos) : /\ Row(infos)[k].client_id = infos[k].client_id
                                     /\ ~Row(infos)[k].released
<1> DEFINE row == RowUpTo(infos)
           Good(n) == /\ row[n] \in Seq(Items) /\ Len(row[n]) = n
                      /\ \A k \in 1..n : /\ row[n][k].client_id = infos[k].client_id
                                         /\ ~row[n][k].released
           N == {n \in Nat : n <= Len(infos) => Good(n)}
<1>1. Len(infos) \in Nat /\ \A i \in 0..Len(infos) : row[i] = RowThen(infos, i, row[i - 1])
  BY LenProperties, RowUpToDef
<1> HIDE DEF row
<1>2. 0 \in N
  <2>1. row[0] = <<>>
    BY <1>1 DEF RowThen
  <2>2. <<>> \in Seq(Items) /\ Len(<<>>) = 0 /\ 1..0 = {}
    OBVIOUS
  <2>3. Good(0)
    BY <2>1, <2>2
  <2> QED BY <2>3
<1>3. ASSUME NEW n \in Nat, n \in N PROVE n + 1 \in N
  <2> SUFFICES ASSUME n + 1 <= Len(infos) PROVE Good(n + 1)
    OBVIOUS
  <2>1. n + 1 \in 0..Len(infos) /\ n + 1 \in 1..Len(infos) /\ (n + 1) - 1 = n /\ n <= Len(infos)
    BY <1>1
  <2>2. row[n + 1] = AddScreen(row[n], infos[n + 1])
    BY <1>1, <2>1 DEF RowThen
  <2>3. Good(n)
    BY <1>3, <2>1
  <2>4. infos[n + 1] \in Infos
    BY <2>1, ElementOfSeq
  <2>5. PICK item \in Items : /\ row[n + 1] = Append(row[n], item)
                              /\ item.client_id = infos[n + 1].client_id /\ ~item.released
    BY <2>2, <2>3, <2>4, AddScreenAdds
  <2>6. /\ row[n + 1] \in Seq(Items) /\ Len(row[n + 1]) = n + 1
        /\ row[n + 1][n + 1] = item /\ \A k \in 1..n : row[n + 1][k] = row[n][k]
    BY <2>3, <2>5, AppendProperties
  <2>7. \A k \in 1..(n + 1) : k = n + 1 \/ k \in 1..n
    OBVIOUS
  <2> QED BY <2>3, <2>5, <2>6, <2>7
<1>4. Good(Len(infos))
  <2>1. Len(infos) \in N
    <3> HIDE DEF N
    <3> QED BY <1>1, <1>2, <1>3, SetInduction
  <2> QED BY <1>1, <2>1
<1> QED BY <1>4 DEF Row, row

-------------------------------------------------------------------------------
(* The parts of the inductive invariant.                                     *)

\* No client is listed twice, and each has an entry in the layout, its only one.
ListInv ==
  /\ \A i, j \in DOMAIN clients : clients[i] = clients[j] => i = j
  /\ Range(clients) \subseteq Ids(layout)
  /\ Once(layout)
  /\ ~serving => clients = <<>>

\* What is shown has an entry too; screens let go of are at the edge it names; and
\* a client is missing only while a callback is under way.
ScreenInv ==
  /\ Once(screens)
  /\ Shown \subseteq Ids(layout)
  /\ \A i \in DOMAIN screens : screens[i].released =>
       EdgeOf(layout, screens[i].client_id) = DetectEdge(screens[i].rect)
  /\ queued = 0 => Range(clients) \subseteq Shown

Inv == TypeOK /\ ListInv /\ ScreenInv /\ DragHoldsItsScreen

\* The types of the sequences, by name.
LEMMA SeqTypes ==
  ASSUME TypeOK
  PROVE  /\ layout \in Seq(Infos) /\ screens \in Seq(Items) /\ clients \in Seq(ClientId)
         /\ DOMAIN screens = 1..Len(screens) /\ Len(screens) \in Nat
         /\ DOMAIN clients = 1..Len(clients) /\ Len(clients) \in Nat
         /\ Shown = Ids(screens)
<1>1. layout \in Seq(Infos) /\ screens \in Seq(Items) /\ clients \in Seq(ClientId)
  BY DEF TypeOK, Infos, Items, Entries
<1> QED BY <1>1, LenProperties DEF Shown, Ids

\* The program starts in the invariant.
LEMMA InitInv == Init => Inv
<1> SUFFICES ASSUME Init PROVE Inv
  OBVIOUS
<1>1. TypeOK
  <2>1. \A S : <<>> \in Seq(S)
    OBVIOUS
  <2> QED BY <2>1, Zenon DEF Init, TypeOK
<1>2. DOMAIN clients = {} /\ DOMAIN screens = {} /\ DOMAIN layout = {}
  BY DEF Init
<1>3. ListInv
  BY <1>2 DEF Init, ListInv, Range, Once
<1>4. ScreenInv
  BY <1>2 DEF Init, ScreenInv, Range, Once, Shown
<1>5. DragHoldsItsScreen
  BY DEF Init, DragHoldsItsScreen, Running
<1> QED BY <1>1, <1>3, <1>4, <1>5 DEF Inv

-------------------------------------------------------------------------------
(* What the server's threads do.                                             *)

\* An order in which the map may yield its keys has each of them at most once.
LEMMA OrderOfMap ==
  ASSUME NEW l \in Seq(ClientId), NEW c \in ClientId,
         NEW order \in SetToSeqs(Range(l) \cup {c})
  PROVE  /\ order \in Seq(ClientId)
         /\ Range(order) \subseteq Range(l) \cup {c}
         /\ \A i, j \in DOMAIN order : order[i] = order[j] => i = j
<1> DEFINE S == Range(l) \cup {c}
           n == Cardinality(S)
<1>1. Len(l) \in Nat /\ DOMAIN l = 1..Len(l) /\ \A i \in 1..Len(l) : l[i] \in ClientId
  BY LenProperties, ElementOfSeq
<1>2. S \subseteq ClientId
  BY <1>1 DEF Range
<1>3. n \in Nat
  <2>1. l \in Surjection(1..Len(l), Range(l))
    BY <1>1 DEF Surjection, Range
  <2>2. IsFiniteSet(Range(l))
    BY <1>1, <2>1, FS_Interval, FS_Surjection
  <2> QED BY <2>2, FS_AddElement, FS_CardinalityType
<1>4. order \in [1..n -> S] /\ \A i, j \in 1..n : i # j => order[i] # order[j]
  BY DEF SetToSeqs
<1> HIDE DEF n, S
<1>5. order \in [1..n -> ClientId] /\ DOMAIN order = 1..n
  BY <1>2, <1>4
<1>6. order \in Seq(ClientId)
  BY <1>3, <1>5
<1>7. Range(order) \subseteq S
  BY <1>4, <1>5 DEF Range
<1> QED BY <1>4, <1>5, <1>6, <1>7 DEF S

\* A HELLO leaves the entries of the others alone, and is followed by a callback.
LEMMA HelloInv ==
  ASSUME Inv, NEW c \in ClientId, NEW size \in Sizes, Hello(c, size)
  PROVE  Inv'
<1>1. /\ layout \in Seq(Infos) /\ screens \in Seq(Items) /\ clients \in Seq(ClientId)
      /\ DOMAIN screens = 1..Len(screens) /\ DOMAIN clients = 1..Len(clients)
      /\ Shown = Ids(screens)
      /\ TypeOK /\ ListInv /\ ScreenInv /\ DragHoldsItsScreen
  BY SeqTypes DEF Inv
<1> DEFINE info == HelloInfo(c, size)
<1>2. /\ c \notin Ids(layout) /\ layout' = AddClient(layout, info) /\ queued' = queued + 1 /\ serving
      /\ clients' \in SetToSeqs(Range(clients) \cup {c})
      /\ UNCHANGED <<fate, serving, active, screens, dragging, grabbed, overtaken>>
  BY DEF Hello, Callback, dragVars
<1>3. info \in Infos /\ info.client_id = c
  <2>1. size[1] \in Nat \ {0} /\ size[2] \in Nat \ {0}
    BY SizesAssumption
  <2> QED BY <2>1 DEF HelloInfo, Infos, Entries, Rect, Edge
<1> HIDE DEF info
<1>4. /\ layout' \in Seq(Infos) /\ Ids(layout') = Ids(layout) \cup {c} /\ Once(layout')
  BY <1>1, <1>2, <1>3, AddClientAdds DEF Infos, ListInv
<1>5. /\ clients' \in Seq(ClientId) /\ Range(clients') \subseteq Range(clients) \cup {c}
      /\ \A i, j \in DOMAIN clients' : clients'[i] = clients'[j] => i = j
  BY <1>1, <1>2, OrderOfMap
<1>6. \A d \in Ids(layout) : EdgeOf(layout', d) = EdgeOf(layout, d)
  <2>1. Once(layout) /\ Edge \subseteq Edge
    BY <1>1 DEF ListInv
  <2> QED BY <1>1, <1>2, <1>3, <2>1, AddClientKeeps DEF Infos
<1>7. TypeOK'
  <2>1. queued' \in Nat
    BY <1>1, <1>2 DEF TypeOK
  <2> QED BY <1>1, <1>2, <1>4, <1>5, <2>1 DEF TypeOK, Infos, Entries
<1>8. ListInv'
  <2>1. Range(clients') \subseteq Ids(layout')
    BY <1>1, <1>4, <1>5 DEF ListInv
  <2> QED BY <1>2, <1>4, <1>5, <2>1 DEF ListInv
<1>9. ScreenInv'
  <2>1. Shown' = Shown
    BY <1>2 DEF Shown
  <2>2. Shown' \subseteq Ids(layout') /\ Once(screens')
    BY <1>1, <1>2, <1>4, <2>1 DEF ScreenInv
  <2>3. ASSUME NEW i \in DOMAIN screens', screens'[i].released
        PROVE  EdgeOf(layout', screens'[i].client_id) = DetectEdge(screens'[i].rect)
    <3>1. screens[i].client_id \in Ids(layout)
      BY <1>1, <1>2 DEF ScreenInv, Ids
    <3>2. EdgeOf(layout, screens[i].client_id) = DetectEdge(screens[i].rect)
      BY <1>1, <1>2, <2>3 DEF ScreenInv
    <3> QED BY <1>2, <1>6, <3>1, <3>2
  <2>4. queued' # 0
    BY <1>1, <1>2 DEF TypeOK
  <2> QED BY <2>2, <2>3, <2>4 DEF ScreenInv
<1>10. DragHoldsItsScreen'
  BY <1>1, <1>2 DEF DragHoldsItsScreen, Running
<1> QED BY <1>7, <1>8, <1>9, <1>10 DEF Inv

\* A timeout takes its client from the list.
LEMMA ExpireInv ==
  ASSUME Inv, NEW c \in ClientId, Expire(c)
  PROVE  Inv'
<1>1. /\ clients \in Seq(ClientId) /\ DOMAIN clients = 1..Len(clients)
      /\ TypeOK /\ ListInv /\ ScreenInv /\ DragHoldsItsScreen
  BY SeqTypes DEF Inv
<1> DEFINE S == Range(clients) \ {c}
<1>2. /\ clients' = Keep(clients, S)
      /\ active' \in {active, NoClient} /\ queued' \in {queued, queued + 1}
      /\ UNCHANGED <<fate, serving, layout, screens, dragging, grabbed, overtaken>>
  BY DEF Expire, Drop, Callback, dragVars
<1>3. clients' \in Seq(ClientId) /\ \E f : Stood(clients, S, Len(clients), clients', f)
  <2> HIDE DEF S
  <2> QED BY <1>1, <1>2, KeepKeepsOrder
<1> HIDE DEF S
<1>4. PICK f : Stood(clients, S, Len(clients), clients', f)
  BY <1>3
<1>5. DOMAIN clients' = 1..Len(clients') /\ Len(clients') \in Nat
  BY <1>3, LenProperties
<1>6. Range(clients') \subseteq Range(clients)
  BY <1>1, <1>4 DEF Stood, Range
<1>7. ASSUME NEW i \in DOMAIN clients', NEW j \in DOMAIN clients', clients'[i] = clients'[j]
      PROVE  i = j
  <2>1. f[i] = f[j]
    BY <1>1, <1>4, <1>7 DEF Stood, ListInv
  <2>2. ~(i < j) /\ ~(j < i)
    <3>1. \A k \in DOMAIN clients' : f[k] \in 1..Len(clients)
      BY <1>4 DEF Stood
    <3>2. f[i] \in Nat
      BY <3>1
    <3> QED BY <1>4, <2>1, <3>2 DEF Stood
  <2> QED BY <1>5, <2>2
<1>8. TypeOK'
  BY <1>1, <1>2, <1>3 DEF TypeOK
<1>9. ListInv'
  <2>1. ~serving' => clients' = <<>>
    <3> SUFFICES ASSUME ~serving PROVE clients' = <<>>
      BY <1>2
    <3>1. Range(clients') = {}
      BY <1>1, <1>6 DEF ListInv, Range
    <3>2. Len(clients') = 0
      <4>1. 1 \notin DOMAIN clients'
        BY <3>1 DEF Range
      <4> QED BY <1>5, <4>1
    <3> QED BY <1>3, <3>2, EmptySeq
  <2>2. Range(clients') \subseteq Ids(layout')
    BY <1>1, <1>2, <1>6 DEF ListInv
  <2>3. Once(layout')
    BY <1>1, <1>2 DEF ListInv
  <2> QED BY <1>7, <2>1, <2>2, <2>3 DEF ListInv
<1>10. ScreenInv'
  <2>1. Shown' = Shown
    BY <1>2 DEF Shown
  <2>2. queued' = 0 => Range(clients') \subseteq Shown'
    BY <1>1, <1>2, <1>6, <2>1 DEF ScreenInv, TypeOK
  <2> QED BY <1>1, <1>2, <2>1, <2>2 DEF ScreenInv
<1>11. DragHoldsItsScreen'
  BY <1>1, <1>2 DEF DragHoldsItsScreen, Running
<1> QED BY <1>8, <1>9, <1>10, <1>11 DEF Inv

\* A hand-over in either direction is told, and that is all.
LEMMA SwitchInv ==
  ASSUME Inv, Leave \/ \E c \in ClientId : Enter(c)
  PROVE  Inv'
<1>1. TypeOK /\ ListInv /\ ScreenInv /\ DragHoldsItsScreen
  BY DEF Inv
<1>2. /\ active' \in ClientId \cup {NoClient} /\ queued' = queued + 1
      /\ UNCHANGED <<fate, serving, clients, layout, screens, dragging, grabbed, overtaken>>
  BY DEF Enter, Leave, Callback, dragVars
<1>3. queued' \in Nat /\ queued' # 0
  BY <1>1, <1>2 DEF TypeOK
<1>4. TypeOK'
  BY <1>1, <1>2, <1>3 DEF TypeOK
<1>5. ListInv'
  BY <1>1, <1>2 DEF ListInv
<1>6. ScreenInv'
  BY <1>1, <1>2, <1>3 DEF ScreenInv, Shown
<1>7. DragHoldsItsScreen'
  BY <1>1, <1>2 DEF DragHoldsItsScreen, Running
<1> QED BY <1>4, <1>5, <1>6, <1>7 DEF Inv

-------------------------------------------------------------------------------
(* What the GUI thread does.                                                 *)

\* A refresh shows the clients of the map, each once, and none where it was let go of.
LEMMA RefreshInv ==
  ASSUME Inv, Refresh
  PROVE  Inv'
<1>1. /\ layout \in Seq(Infos) /\ screens \in Seq(Items) /\ clients \in Seq(ClientId)
      /\ DOMAIN clients = 1..Len(clients) /\ Len(clients) \in Nat
      /\ TypeOK /\ ListInv /\ ScreenInv /\ DragHoldsItsScreen
  BY SeqTypes DEF Inv
<1>2. /\ queued > 0 /\ queued' = queued - 1
      /\ UNCHANGED <<fate, serving, clients, layout, active, dragging, grabbed>>
  BY DEF Refresh, serverVars
<1>3. queued' \in Nat
  BY <1>1, <1>2 DEF TypeOK
<1>4. ListInv'
  BY <1>1, <1>2 DEF ListInv
<1>5. CASE serving
  <2> DEFINE infos == [i \in DOMAIN clients |-> layout[IndexOf(layout, clients[i])]]
  <2>1. screens' = Row(infos) /\ overtaken' = (dragging # 0)
    BY <1>5 DEF Refresh
  <2>2. ASSUME NEW i \in 1..Len(clients)
        PROVE  infos[i] \in Infos /\ infos[i].client_id = clients[i]
    <3>1. clients[i] \in Ids(layout)
      BY <1>1 DEF ListInv, Range
    <3>2. IndexOf(layout, clients[i]) \in 1..Len(layout)
          /\ layout[IndexOf(layout, clients[i])].client_id = clients[i]
      BY <1>1, <3>1, IndexOfFinds
    <3>3. layout[IndexOf(layout, clients[i])] \in Infos
      BY <1>1, <3>2, ElementOfSeq
    <3> QED BY <1>1, <3>2, <3>3
  <2>3. infos \in Seq(Infos) /\ Len(infos) = Len(clients)
    <3>1. infos \in [1..Len(clients) -> Infos]
      BY <1>1, <2>2
    <3> HIDE DEF infos
    <3> QED BY <1>1, <3>1
  <2> HIDE DEF infos
  <2>4. /\ screens' \in Seq(Items) /\ Len(screens') = Len(clients)
        /\ \A k \in 1..Len(clients) : screens'[k].client_id = clients[k] /\ ~screens'[k].released
    BY <2>1, <2>2, <2>3, RowShows
  <2>5. DOMAIN screens' = 1..Len(clients)
    BY <2>4, LenProperties
  <2>6. overtaken' \in BOOLEAN
    BY <2>1, Zenon
  <2>7. TypeOK'
    BY <1>1, <1>2, <1>3, <2>4, <2>6 DEF TypeOK, Items
  <2>8. Shown' = Range(clients)
    BY <1>1, <2>4, <2>5 DEF Shown, Range
  <2>9. Once(screens')
    BY <1>1, <2>4, <2>5 DEF Once, ListInv
  <2>10. ScreenInv'
    <3>1. Shown' \subseteq Ids(layout') /\ Range(clients') \subseteq Shown'
      BY <1>1, <1>2, <2>8 DEF ListInv
    <3> QED BY <2>4, <2>5, <2>9, <3>1 DEF ScreenInv
  <2>11. DragHoldsItsScreen'
    <3> SUFFICES ASSUME ~overtaken' PROVE Running' /\ dragging' = 0
      BY DEF DragHoldsItsScreen
    <3>1. Running
      BY DEF Refresh
    <3> QED BY <1>2, <2>1, <3>1 DEF Running
  <2> QED BY <1>4, <2>7, <2>10, <2>11 DEF Inv
<1>6. CASE ~serving
  <2>1. UNCHANGED <<screens, overtaken>>
    BY <1>6 DEF Refresh
  <2>2. Range(clients) = {}
    BY <1>1, <1>6 DEF ListInv, Range
  <2>3. TypeOK'
    BY <1>1, <1>2, <1>3, <2>1 DEF TypeOK
  <2>4. ScreenInv'
    BY <1>1, <1>2, <2>1, <2>2 DEF ScreenInv, Shown, Range
  <2>5. DragHoldsItsScreen'
    BY <1>1, <1>2, <2>1 DEF DragHoldsItsScreen, Running
  <2> QED BY <1>4, <2>3, <2>4, <2>5 DEF Inv
<1> QED BY <1>5, <1>6

\* A press takes hold of a screen.
LEMMA PressInv ==
  ASSUME Inv, NEW i \in DOMAIN screens, Press(i)
  PROVE  Inv'
<1>1. /\ screens \in Seq(Items) /\ DOMAIN screens = 1..Len(screens)
      /\ TypeOK /\ ListInv /\ ScreenInv
  BY SeqTypes DEF Inv
<1>2. /\ Running /\ dragging' = i /\ grabbed' = screens[i].client_id /\ overtaken' = FALSE
      /\ UNCHANGED <<fate, serving, clients, layout, active, queued, screens>>
  BY DEF Press, MouseHere, serverVars
<1>3. screens[i] \in Items /\ i \in Nat
  BY <1>1, ElementOfSeq
<1>4. TypeOK'
  BY <1>1, <1>2, <1>3 DEF TypeOK, Items
<1>5. ListInv'
  BY <1>1, <1>2 DEF ListInv
<1>6. ScreenInv'
  BY <1>1, <1>2 DEF ScreenInv, Shown
<1>7. DragHoldsItsScreen'
  BY <1>2 DEF DragHoldsItsScreen, Running
<1> QED BY <1>4, <1>5, <1>6, <1>7 DEF Inv

\* A screen that moves, or is let go of, is still the screen of its client.
LEMMA OneScreenChanges ==
  ASSUME NEW l \in Seq(Items), NEW j \in 1..Len(l),
         NEW new \in Items, new.client_id = l[j].client_id,
         NEW s, s = [l EXCEPT ![j] = new]
  PROVE  /\ s \in Seq(Items) /\ DOMAIN s = 1..Len(l)
         /\ s[j] = new /\ \A k \in 1..Len(l) : k # j => s[k] = l[k]
         /\ \A k \in 1..Len(l) : s[k].client_id = l[k].client_id
<1>1. s \in Seq(Items) /\ Len(s) = Len(l) /\ \A k \in 1..Len(l) : s[k] = IF k = j THEN new ELSE l[k]
  BY ExceptSeq
<1>2. DOMAIN s = 1..Len(l) /\ DOMAIN l = 1..Len(l)
  BY <1>1, LenProperties
<1>3. \A k \in 1..Len(l) : s[k].client_id = l[k].client_id
  BY <1>1
<1>4. s[j] = new /\ \A k \in 1..Len(l) : k # j => s[k] = l[k]
  BY <1>1
<1> QED BY <1>1, <1>2, <1>3, <1>4, Zenon

\* While it moves, its place is not the one it was let go of at.
LEMMA MoveInv ==
  ASSUME Inv, NEW spot \in Spots, Move(spot)
  PROVE  Inv'
<1>1. /\ layout \in Seq(Infos) /\ screens \in Seq(Items) /\ DOMAIN screens = 1..Len(screens)
      /\ Shown = Ids(screens)
      /\ TypeOK /\ ListInv /\ ScreenInv /\ DragHoldsItsScreen
  BY SeqTypes DEF Inv
<1> DEFINE d == dragging
           right == [screens[d] EXCEPT !.rect.x = spot[1]]
           down == [right EXCEPT !.rect.y = spot[2]]
           item == [down EXCEPT !.released = FALSE]
<1>2. /\ d \in 1..Len(screens)
      /\ screens' = [screens EXCEPT ![d].rect.x = spot[1], ![d].rect.y = spot[2], ![d].released = FALSE]
      /\ UNCHANGED <<fate, serving, clients, layout, active, queued, dragging, grabbed, overtaken>>
  BY <1>1 DEF Move, serverVars, dragVars
<1>3. screens[d] \in Items
  BY <1>1, <1>2, ElementOfSeq
<1>4. screens' = [screens EXCEPT ![d] = item]
  BY <1>1, <1>2
<1>5. right \in Items /\ right.client_id = screens[d].client_id
  <2>1. spot[1] \in Int
    BY SpotsAssumption
  <2> QED BY <1>3, <2>1 DEF Items, Rect
<1> HIDE DEF right
<1>6. down \in Items /\ down.client_id = right.client_id
  <2>1. spot[2] \in Int
    BY SpotsAssumption
  <2> QED BY <1>5, <2>1 DEF Items, Rect
<1> HIDE DEF down
<1>a. item \in Items /\ item.client_id = screens[d].client_id /\ ~item.released
  BY <1>5, <1>6 DEF Items
<1> HIDE DEF item, d
<1>7. /\ screens' \in Seq(Items) /\ DOMAIN screens' = 1..Len(screens)
      /\ screens'[d] = item /\ \A k \in 1..Len(screens) : k # d => screens'[k] = screens[k]
      /\ \A k \in 1..Len(screens) : screens'[k].client_id = screens[k].client_id
      /\ Once(screens')
  <2>1. Once(screens)
    BY <1>1 DEF ScreenInv
  <2>2. /\ screens \in Seq(Items) /\ d \in 1..Len(screens) /\ item \in Items
        /\ item.client_id = screens[d].client_id /\ screens' = [screens EXCEPT ![d] = item]
    BY <1>1, <1>2, <1>4, <1>a
  <2>3. /\ screens' \in Seq(Items) /\ DOMAIN screens' = 1..Len(screens)
        /\ screens'[d] = item /\ \A k \in 1..Len(screens) : k # d => screens'[k] = screens[k]
        /\ \A k \in 1..Len(screens) : screens'[k].client_id = screens[k].client_id
    BY <2>2, OneScreenChanges
  <2>4. Once(screens')
    BY <1>1, <2>1, <2>3 DEF Once
  <2> QED BY <2>3, <2>4
<1>8. TypeOK'
  BY <1>1, <1>2, <1>7 DEF TypeOK, Items
<1>9. ListInv'
  BY <1>1, <1>2 DEF ListInv
<1>10. ScreenInv'
  <2>1. Shown' = Shown
    <3>1. \A x \in Shown : x \in Shown'
      BY <1>1, <1>7 DEF Shown
    <3>2. \A x \in Shown' : x \in Shown
      BY <1>1, <1>7 DEF Shown
    <3> QED BY <3>1, <3>2
  <2>2. ASSUME NEW k \in DOMAIN screens', screens'[k].released
        PROVE  EdgeOf(layout', screens'[k].client_id) = DetectEdge(screens'[k].rect)
    <3>1. k # d
      BY <1>a, <1>7, <2>2
    <3> QED BY <1>1, <1>2, <1>7, <2>2, <3>1 DEF ScreenInv
  <2> QED BY <1>1, <1>2, <1>7, <2>1, <2>2 DEF ScreenInv
<1>11. DragHoldsItsScreen'
  BY <1>1, <1>2, <1>7 DEF DragHoldsItsScreen, Running
<1> QED BY <1>8, <1>9, <1>10, <1>11 DEF Inv

\* Letting go of a screen sends the server the edge it is at, and moves no other.
LEMMA ReleaseInv ==
  ASSUME Inv, Release
  PROVE  Inv'
<1>1. /\ layout \in Seq(Infos) /\ screens \in Seq(Items) /\ DOMAIN screens = 1..Len(screens)
      /\ Shown = Ids(screens)
      /\ TypeOK /\ ListInv /\ ScreenInv
  BY SeqTypes DEF Inv
<1> DEFINE d == dragging
           id == screens[d].client_id
           edge == DetectEdge(screens[d].rect)
           item == [screens[d] EXCEPT !.released = TRUE]
<1>2. /\ Running /\ d \in 1..Len(screens)
      /\ layout' = SetClientEdge(layout, id, edge)
      /\ screens' = [screens EXCEPT ![d].released = TRUE]
      /\ dragging' = 0 /\ grabbed' = NoClient /\ overtaken' = FALSE
      /\ UNCHANGED <<fate, serving, clients, active, queued>>
  BY <1>1 DEF Release, MouseHere
<1>3. edge \in Edge
  BY DEF DetectEdge, Edge
<1>4. item \in Items /\ item.client_id = id /\ item.rect = screens[d].rect
  <2>1. screens[d] \in Items
    BY <1>1, <1>2, ElementOfSeq
  <2> QED BY <2>1 DEF Items
<1>5. screens' = [screens EXCEPT ![d] = item]
  BY <1>1, <1>2
<1> HIDE DEF item, d, edge
<1>6. /\ screens' \in Seq(Items) /\ DOMAIN screens' = 1..Len(screens)
      /\ screens'[d] = item /\ \A k \in 1..Len(screens) : k # d => screens'[k] = screens[k]
      /\ \A k \in 1..Len(screens) : screens'[k].client_id = screens[k].client_id
      /\ Once(screens')
  <2>1. Once(screens)
    BY <1>1 DEF ScreenInv
  <2>2. /\ screens \in Seq(Items) /\ d \in 1..Len(screens) /\ item \in Items
        /\ item.client_id = screens[d].client_id /\ screens' = [screens EXCEPT ![d] = item]
    BY <1>1, <1>2, <1>4, <1>5
  <2>3. /\ screens' \in Seq(Items) /\ DOMAIN screens' = 1..Len(screens)
        /\ screens'[d] = item /\ \A k \in 1..Len(screens) : k # d => screens'[k] = screens[k]
        /\ \A k \in 1..Len(screens) : screens'[k].client_id = screens[k].client_id
    BY <2>2, OneScreenChanges
  <2>4. Once(screens')
    BY <1>1, <2>1, <2>3 DEF Once
  <2> QED BY <2>3, <2>4
<1>7. layout' \in Seq(Infos) /\ Ids(layout') = Ids(layout) /\ Once(layout')
  BY <1>1, <1>2, <1>3, SetClientEdgeSets DEF Infos, ListInv
<1>8. \A c \in Ids(layout) : /\ c = id => EdgeOf(layout', c) = edge
                             /\ c # id => EdgeOf(layout', c) = EdgeOf(layout, c)
  <2>1. Once(layout)
    BY <1>1 DEF ListInv
  <2> HIDE DEF id
  <2> QED BY <1>1, <1>2, <1>3, <2>1, SetClientEdgeMoves DEF Infos
<1>9. TypeOK'
  BY <1>1, <1>2, <1>6, <1>7 DEF TypeOK, Items, Infos, Entries
<1>10. ListInv'
  BY <1>1, <1>2, <1>7 DEF ListInv
<1>11. ScreenInv'
  <2>1. Shown' = Shown
    <3>1. \A x \in Shown : x \in Shown'
      BY <1>1, <1>6 DEF Shown
    <3>2. \A x \in Shown' : x \in Shown
      BY <1>1, <1>6 DEF Shown
    <3> QED BY <3>1, <3>2
  <2>2. ASSUME NEW k \in DOMAIN screens', screens'[k].released
        PROVE  EdgeOf(layout', screens'[k].client_id) = DetectEdge(screens'[k].rect)
    <3>1. k \in 1..Len(screens) /\ screens[k].client_id \in Ids(layout)
      BY <1>1, <1>6 DEF ScreenInv, Ids
    <3>2. CASE k = d
      <4>1. screens'[k].client_id = id /\ screens'[k].rect = screens[d].rect
        BY <1>4, <1>6, <3>2
      <4> QED BY <1>8, <3>1, <3>2, <4>1 DEF edge
    <3>3. CASE k # d
      <4>1. screens'[k] = screens[k]
        BY <1>6, <3>1, <3>3
      <4>2. screens[k].client_id # id
        BY <1>1, <1>2, <3>1, <3>3 DEF ScreenInv, Once
      <4>3. EdgeOf(layout, screens[k].client_id) = DetectEdge(screens[k].rect)
        BY <1>1, <2>2, <3>1, <4>1 DEF ScreenInv
      <4> QED BY <1>8, <3>1, <4>1, <4>2, <4>3
    <3> QED BY <3>2, <3>3
  <2> QED BY <1>1, <1>2, <1>6, <1>7, <2>1, <2>2 DEF ScreenInv
<1>12. DragHoldsItsScreen'
  BY <1>2 DEF DragHoldsItsScreen, Running
<1> QED BY <1>9, <1>10, <1>11, <1>12 DEF Inv

\* Only an index that a refresh has left behind can miss the screens.
LEMMA OverrunInv ==
  ASSUME Inv, Overrun
  PROVE  Inv'
<1>1. /\ TypeOK /\ ListInv /\ ScreenInv /\ DragHoldsItsScreen
      /\ DOMAIN screens = 1..Len(screens) /\ Len(screens) \in Nat
  BY SeqTypes DEF Inv
<1>2. /\ dragging > Len(screens) /\ fate' = "undefined"
      /\ UNCHANGED <<serving, clients, layout, active, queued, screens, dragging, grabbed, overtaken>>
  BY DEF Overrun, serverVars, dragVars
<1>3. overtaken
  BY <1>1, <1>2 DEF DragHoldsItsScreen, TypeOK
<1>4. TypeOK'
  BY <1>1, <1>2 DEF TypeOK
<1>5. ListInv'
  BY <1>1, <1>2 DEF ListInv
<1>6. ScreenInv'
  BY <1>1, <1>2 DEF ScreenInv, Shown
<1>7. DragHoldsItsScreen'
  BY <1>2, <1>3 DEF DragHoldsItsScreen
<1> QED BY <1>4, <1>5, <1>6, <1>7 DEF Inv

\* A server comes, without clients, or goes with all it knew.
LEMMA ServingInv ==
  ASSUME Inv, Start \/ Stop
  PROVE  Inv'
<1>1. TypeOK /\ ListInv /\ ScreenInv /\ DragHoldsItsScreen
  BY DEF Inv
<1>2. CASE Start
  <2>1. serving' = TRUE /\ UNCHANGED <<fate, clients, layout, active, queued, screens, dragging, grabbed, overtaken>>
    BY <1>2 DEF Start, dragVars
  <2>2. TypeOK'
    BY <1>1, <2>1 DEF TypeOK
  <2>3. ListInv'
    BY <1>1, <2>1 DEF ListInv
  <2>4. ScreenInv'
    BY <1>1, <2>1 DEF ScreenInv, Shown
  <2>5. DragHoldsItsScreen'
    BY <1>1, <2>1 DEF DragHoldsItsScreen, Running
  <2> QED BY <2>2, <2>3, <2>4, <2>5 DEF Inv
<1>3. CASE Stop
  <2>1. /\ Running /\ serving' = FALSE /\ clients' = <<>> /\ layout' = <<>> /\ screens' = <<>>
        /\ overtaken' = (dragging # 0)
        /\ UNCHANGED <<fate, active, queued, dragging, grabbed>>
    BY <1>3 DEF Stop, MouseHere
  <2>2. DOMAIN clients' = {} /\ DOMAIN layout' = {} /\ DOMAIN screens' = {}
    BY <2>1
  <2>3. TypeOK'
    <3>1. overtaken' \in BOOLEAN
      BY <2>1, Zenon
    <3>2. \A S : <<>> \in Seq(S)
      OBVIOUS
    <3>3. clients' \in Seq(ClientId) /\ layout' \in Seq(Infos) /\ screens' \in Seq(Items)
      BY <2>1, <3>2
    <3> QED BY <1>1, <2>1, <3>1, <3>3 DEF TypeOK, Infos, Entries, Items
  <2>4. ListInv'
    BY <2>1, <2>2 DEF ListInv, Range, Once
  <2>5. ScreenInv'
    BY <2>1, <2>2 DEF ScreenInv, Range, Once, Shown
  <2>6. DragHoldsItsScreen'
    <3> SUFFICES ASSUME ~overtaken' PROVE Running' /\ dragging' = 0
      BY DEF DragHoldsItsScreen
    <3> QED BY <2>1 DEF Running
  <2> QED BY <2>3, <2>4, <2>5, <2>6 DEF Inv
<1> QED BY <1>2, <1>3

-------------------------------------------------------------------------------
(* The invariant holds, and what follows from it.                            *)

\* Every step keeps it.
LEMMA NextInv ==
  ASSUME Inv, [Next]_vars
  PROVE  Inv'
<1>1. CASE UNCHANGED vars
  BY <1>1 DEF vars, Inv, TypeOK, ListInv, ScreenInv, Shown, DragHoldsItsScreen, Running
<1> QED BY <1>1, HelloInv, ExpireInv, SwitchInv, RefreshInv, PressInv, MoveInv, ReleaseInv, OverrunInv,
           ServingInv DEF Next

\* The invariant holds in every behaviour.
THEOREM Invariance == Spec => []Inv
  BY InitInv, NextInv, PTL DEF Spec

\* Type correctness.
THEOREM TypeCorrect == Spec => []TypeOK
<1>1. Inv => TypeOK
  BY DEF Inv
<1> QED BY Invariance, <1>1, PTL

\* mainwindow.cpp:126: a screen that stands where the user let go of it is at the edge,
\* for the server, that it is at for the eye.
THEOREM ReleasedIsArrangedHolds == Spec => []ReleasedIsArranged
<1>1. Inv => ReleasedIsArranged
  BY DEF Inv, ScreenInv, ReleasedIsArranged, EdgeOf
<1> QED BY Invariance, <1>1, PTL

\* mainwindow.cpp:240: with no callback under way every client is shown, and once.
THEOREM EditorCatchesUpHolds == Spec => []EditorCatchesUp
<1>1. ASSUME Inv PROVE EditorCatchesUp
  <2>1. /\ screens \in Seq(Items) /\ Shown = Ids(screens) /\ ScreenInv
    BY <1>1, SeqTypes DEF Inv
  <2>2. Cardinality(Shown) = Len(screens)
    BY <2>1, OnceCounts DEF ScreenInv
  <2> QED BY <2>1, <2>2 DEF ScreenInv, EditorCatchesUp
<1> QED BY Invariance, <1>1, PTL

\* A drag holds the screen that was pressed, unless a callback has had the editor rebuilt.
THEOREM DragHoldsItsScreenHolds == Spec => []DragHoldsItsScreen
<1>1. Inv => DragHoldsItsScreen
  BY DEF Inv
<1> QED BY Invariance, <1>1, PTL
===============================================================================
