----------------------------- MODULE LayoutProofs -----------------------------
(***************************************************************************)
(* Theorems about the ScreenLayout object, for any displays, any clients   *)
(* and any sequence of calls.  The inductive invariant is that no client   *)
(* has two entries; what check_edge and the entry points promise follows   *)
(* from it by the geometry of one rectangle.                               *)
(***************************************************************************)
EXTENDS ScreenLayout, Lemmas

Inv == TypeOK /\ Once(clients)

LEMMA InitInv == Init => Inv
  BY DEF Init, Inv, TypeOK, Once

\* Every member function keeps one entry per client.
LEMMA NextInv ==
  ASSUME Inv, [Next]_vars
  PROVE  Inv'
<1>1. clients \in Seq(Info) /\ Once(clients) /\ server_screen \in Screens \cup {NoScreen}
  BY DEF Inv, TypeOK
<1>2. ASSUME NEW r \in Screens, DoSetServerScreen(r) PROVE Inv'
  BY <1>1, <1>2 DEF DoSetServerScreen, Inv, TypeOK, Once
<1>3. ASSUME NEW info \in Info, DoAddClient(info) PROVE Inv'
  <2>1. AddClient(clients, info) \in Seq(Info) /\ Once(AddClient(clients, info))
    BY <1>1, AddClientAdds DEF Info, Entries
  <2>2. clients' = AddClient(clients, info) /\ server_screen' = server_screen
    BY <1>3 DEF DoAddClient
  <2>3. TypeOK'
    BY <1>1, <2>1, <2>2 DEF TypeOK
  <2>4. Once(clients')
    BY <2>1, <2>2
  <2> QED BY <2>3, <2>4 DEF Inv, Once
<1>4. ASSUME NEW id \in ClientId, DoRemoveClient(id) PROVE Inv'
  <2>1. RemoveClient(clients, id) \in Seq(Info) /\ Once(RemoveClient(clients, id))
    BY <1>1, RemoveClientRemoves
  <2>2. clients' = RemoveClient(clients, id) /\ server_screen' = server_screen
    BY <1>4 DEF DoRemoveClient
  <2>3. TypeOK'
    BY <1>1, <2>1, <2>2 DEF TypeOK
  <2>4. Once(clients')
    BY <2>1, <2>2
  <2> QED BY <2>3, <2>4 DEF Inv, Once
<1>5. CASE DoClearClients
  BY <1>1, <1>5 DEF DoClearClients, Inv, TypeOK, Once
<1>6. ASSUME NEW id \in ClientId, NEW e \in Edge, DoSetClientEdge(id, e) PROVE Inv'
  <2>1. SetClientEdge(clients, id, e) \in Seq(Info) /\ Once(SetClientEdge(clients, id, e))
    BY <1>1, SetClientEdgeSets DEF Info, Entries
  <2>2. clients' = SetClientEdge(clients, id, e) /\ server_screen' = server_screen
    BY <1>6 DEF DoSetClientEdge
  <2>3. TypeOK'
    BY <1>1, <2>1, <2>2 DEF TypeOK
  <2>4. Once(clients')
    BY <2>1, <2>2
  <2> QED BY <2>3, <2>4 DEF Inv, Once
<1>7. CASE UNCHANGED vars
  BY <1>1, <1>7 DEF vars, Inv, TypeOK, Once
<1> QED BY <1>2, <1>3, <1>4, <1>5, <1>6, <1>7 DEF Next

\* The invariant holds in every behaviour.
THEOREM Invariance == Spec => []Inv
  BY InitInv, NextInv, PTL DEF Spec

\* Type correctness.
THEOREM TypeCorrect == Spec => []TypeOK
<1>1. Inv => TypeOK
  BY DEF Inv
<1> QED BY Invariance, <1>1, PTL

\* However the members are called, no client has two entries.
THEOREM OneEntryPerClientHolds == Spec => []OneEntryPerClient
<1>1. Inv => OneEntryPerClient
  BY OnceCounts DEF Inv, TypeOK, OneEntryPerClient
<1> QED BY Invariance, <1>1, PTL

-------------------------------------------------------------------------------
(* The geometry of the display.                                              *)

\* A display, once there is one, is a rectangle with room between its dead zones.
LEMMA DisplayHasRoom ==
  ASSUME server_screen \in Screens \cup {NoScreen}, server_screen # NoScreen
  PROVE  /\ Left(server_screen) \in Int /\ Top(server_screen) \in Int
         /\ Right(server_screen) \in Int /\ Bottom(server_screen) \in Int
         /\ Right(server_screen) >= Left(server_screen) + 10
         /\ Bottom(server_screen) >= Top(server_screen) + 10
  BY ScreensAssumption DEF Left, Right, Top, Bottom, DeadZone

\* check_edge's conditions place a pixel on the border of its edge, and on no other.
LEMMA HitsOneBorder ==
  ASSUME server_screen \in Screens, server_screen # NoScreen, NEW p \in Int \X Int,
         HasPixel(server_screen, p[1], p[2]), NEW e \in Edge, Hits(server_screen, e, p[1], p[2])
  PROVE  OnBorder(e, p) /\ \A e2 \in Edge : OnBorder(e2, p) => e2 = e
<1>1. /\ Left(server_screen) \in Int /\ Top(server_screen) \in Int
      /\ Right(server_screen) \in Int /\ Bottom(server_screen) \in Int
      /\ Right(server_screen) >= Left(server_screen) + 10
      /\ Bottom(server_screen) >= Top(server_screen) + 10
  BY DisplayHasRoom
<1>2. /\ p[1] \in Left(server_screen) .. Right(server_screen) - 1
      /\ p[2] \in Top(server_screen) .. Bottom(server_screen) - 1
  BY DEF HasPixel
<1>3. AtEdge(server_screen, e, p[1], p[2]) /\ ~InDeadZone(server_screen, e, p[1], p[2])
  BY DEF Hits
<1>4. CASE e \in {"LEFT", "RIGHT"}
  <2>1. p[2] >= Top(server_screen) + 5 /\ p[2] <= Bottom(server_screen) - 5
    BY <1>1, <1>2, <1>3, <1>4 DEF InDeadZone, DeadZone
  <2> QED BY <1>1, <1>2, <1>3, <1>4, <2>1 DEF AtEdge, OnBorder, Edge
<1>5. CASE e \in {"TOP", "BOTTOM"}
  <2>1. p[1] >= Left(server_screen) + 5 /\ p[1] <= Right(server_screen) - 5
    BY <1>1, <1>2, <1>3, <1>5 DEF InDeadZone, DeadZone
  <2> QED BY <1>1, <1>2, <1>3, <1>5, <2>1 DEF AtEdge, OnBorder, Edge
<1> QED BY <1>4, <1>5 DEF Edge

\* The middle of each border is a probe, and at no other edge.
LEMMA MiddleOfBorder ==
  ASSUME server_screen \in Screens, server_screen # NoScreen, NEW e \in Edge
  PROVE  \E p \in Probes : /\ HasPixel(server_screen, p[1], p[2])
                           /\ Hits(server_screen, e, p[1], p[2])
                           /\ \A e2 \in Edge \ {e} : ~Hits(server_screen, e2, p[1], p[2])
<1> DEFINE l == Left(server_screen)
           r == Right(server_screen)
           t == Top(server_screen)
           b == Bottom(server_screen)
           mx == (l + r) \div 2
           my == (t + b) \div 2
<1>1. l \in Int /\ t \in Int /\ r \in Int /\ b \in Int /\ r >= l + 10 /\ b >= t + 10
  BY DisplayHasRoom
<1>2. mx \in l + 5 .. r - 5 /\ my \in t + 5 .. b - 5
  BY <1>1
<1>3. /\ l \in Near(l, r) /\ r - 1 \in Near(l, r) /\ mx \in Near(l, r)
      /\ t \in Near(t, b) /\ b - 1 \in Near(t, b) /\ my \in Near(t, b)
  BY DEF Near
<1>4. Probes = Near(l, r) \X Near(t, b)
  BY DEF Probes
<1>5. ASSUME NEW x \in Int, NEW y \in Int
      PROVE  /\ HasPixel(server_screen, x, y) <=> x \in l .. r - 1 /\ y \in t .. b - 1
             /\ Hits(server_screen, "LEFT", x, y) <=> x <= l /\ y \in t + 5 .. b - 5
             /\ Hits(server_screen, "RIGHT", x, y) <=> x >= r - 1 /\ y \in t + 5 .. b - 5
             /\ Hits(server_screen, "TOP", x, y) <=> y <= t /\ x \in l + 5 .. r - 5
             /\ Hits(server_screen, "BOTTOM", x, y) <=> y >= b - 1 /\ x \in l + 5 .. r - 5
  <2> HIDE DEF l, r, t, b
  <2>1. HasPixel(server_screen, x, y) <=> x \in l .. r - 1 /\ y \in t .. b - 1
    BY DEF HasPixel, l, r, t, b
  <2>2. \A e2 \in Edge : InDeadZone(server_screen, e2, x, y) <=>
          IF e2 \in {"LEFT", "RIGHT"} THEN y \notin t + 5 .. b - 5 ELSE x \notin l + 5 .. r - 5
    <3>1. y \notin t + 5 .. b - 5 <=> y < t + 5 \/ y > b - 5
      BY <1>1
    <3>2. x \notin l + 5 .. r - 5 <=> x < l + 5 \/ x > r - 5
      BY <1>1
    <3> QED BY <3>1, <3>2 DEF InDeadZone, DeadZone, l, r, t, b
  <2>3. /\ AtEdge(server_screen, "LEFT", x, y) <=> x <= l
        /\ AtEdge(server_screen, "RIGHT", x, y) <=> x >= r - 1
        /\ AtEdge(server_screen, "TOP", x, y) <=> y <= t
        /\ AtEdge(server_screen, "BOTTOM", x, y) <=> y >= b - 1
    BY DEF AtEdge, l, r, t, b
  <2> QED BY <2>1, <2>2, <2>3 DEF Hits, Edge
<1> HIDE DEF l, r, t, b, mx, my
<1>6. ASSUME NEW x \in Near(l, r), NEW y \in Near(t, b), x \in Int, y \in Int,
             x \in l .. r - 1, y \in t .. b - 1, Hits(server_screen, e, x, y),
             \A e2 \in Edge \ {e} : ~Hits(server_screen, e2, x, y)
      PROVE  \E p \in Probes : /\ HasPixel(server_screen, p[1], p[2])
                               /\ Hits(server_screen, e, p[1], p[2])
                               /\ \A e2 \in Edge \ {e} : ~Hits(server_screen, e2, p[1], p[2])
  <2>1. <<x, y>> \in Probes /\ HasPixel(server_screen, x, y)
    BY <1>4, <1>5, <1>6
  <2> QED BY <1>6, <2>1
<1>7. CASE e = "LEFT"
  <2>1. l \in l .. r - 1 /\ my \in t .. b - 1 /\ my \in Int
    BY <1>1, <1>2
  <2>2. Hits(server_screen, e, l, my) /\ \A e2 \in Edge \ {e} : ~Hits(server_screen, e2, l, my)
    BY <1>1, <1>2, <1>5, <1>7, <2>1 DEF Edge
  <2> QED BY <1>1, <1>3, <1>6, <2>1, <2>2
<1>8. CASE e = "RIGHT"
  <2>1. r - 1 \in l .. r - 1 /\ my \in t .. b - 1 /\ my \in Int /\ r - 1 \in Int
    BY <1>1, <1>2
  <2>2. Hits(server_screen, e, r - 1, my) /\ \A e2 \in Edge \ {e} : ~Hits(server_screen, e2, r - 1, my)
    BY <1>1, <1>2, <1>5, <1>8, <2>1 DEF Edge
  <2> QED BY <1>1, <1>3, <1>6, <2>1, <2>2
<1>9. CASE e = "TOP"
  <2>1. mx \in l .. r - 1 /\ t \in t .. b - 1 /\ mx \in Int
    BY <1>1, <1>2
  <2>2. Hits(server_screen, e, mx, t) /\ \A e2 \in Edge \ {e} : ~Hits(server_screen, e2, mx, t)
    BY <1>1, <1>2, <1>5, <1>9, <2>1 DEF Edge
  <2> QED BY <1>1, <1>3, <1>6, <2>1, <2>2
<1>10. CASE e = "BOTTOM"
  <2>1. mx \in l .. r - 1 /\ b - 1 \in t .. b - 1 /\ mx \in Int /\ b - 1 \in Int
    BY <1>1, <1>2
  <2>2. Hits(server_screen, e, mx, b - 1) /\ \A e2 \in Edge \ {e} : ~Hits(server_screen, e2, mx, b - 1)
    BY <1>1, <1>2, <1>5, <1>10, <2>1 DEF Edge
  <2> QED BY <1>1, <1>3, <1>6, <2>1, <2>2
<1> QED BY <1>7, <1>8, <1>9, <1>10 DEF Edge

-------------------------------------------------------------------------------
(* What the queries promise.                                                 *)

\* With one entry per client, looking a client up finds the entry it came from.
LEMMA IndexOfEntry ==
  ASSUME NEW T, NEW l \in Seq(T), Once(l), NEW i \in 1..Len(l)
  PROVE  IndexOf(l, l[i].client_id) = i
<1>1. DOMAIN l = 1..Len(l) /\ Len(l) \in Nat
  BY LenProperties
<1>2. l[i].client_id \in Ids(l)
  BY <1>1 DEF Ids
<1> QED BY <1>1, <1>2, IndexOfFinds DEF Once

\* check_edge sends the cursor only to a client whose edge is the border it is on,
\* and never from a corner.
THEOREM HitIsOnBorderHolds == Spec => []HitIsOnBorder
<1>1. ASSUME Inv, NEW p \in Probes, HasPixel(server_screen, p[1], p[2]), At(p) # NoClient
      PROVE  /\ OnBorder(clients[IndexOf(clients, At(p))].adjacent_edge, p)
             /\ Cardinality({e \in Edge : OnBorder(e, p)}) = 1
  <2>1. clients \in Seq(Info) /\ Once(clients) /\ server_screen \in Screens \cup {NoScreen}
    BY <1>1 DEF Inv, TypeOK
  <2>2. server_screen # NoScreen
    BY <1>1 DEF HasPixel, NoScreen, Left, Right
  <2>3. p \in Int \X Int
    <3>1. Left(server_screen) \in Int /\ Top(server_screen) \in Int
          /\ Right(server_screen) \in Int /\ Bottom(server_screen) \in Int
      BY <2>1, <2>2, DisplayHasRoom
    <3>2. /\ Near(Left(server_screen), Right(server_screen)) \subseteq Int
          /\ Near(Top(server_screen), Bottom(server_screen)) \subseteq Int
      BY <3>1 DEF Near, DeadZone
    <3> QED BY <3>2 DEF Probes
  <2>4. PICK i \in 1..Len(clients) : /\ At(p) = clients[i].client_id
                                     /\ Hits(server_screen, clients[i].adjacent_edge, p[1], p[2])
    BY <1>1, <2>1, CheckEdgeFinds DEF At
  <2>5. IndexOf(clients, At(p)) = i
    BY <2>1, <2>4, IndexOfEntry
  <2>6. clients[i].adjacent_edge \in Edge
    <3>1. clients[i] \in Info
      BY <2>1, <2>4, ElementOfSeq
    <3> QED BY <3>1 DEF Info
  <2> DEFINE e == clients[i].adjacent_edge
  <2>7. OnBorder(e, p) /\ \A e2 \in Edge : OnBorder(e2, p) => e2 = e
    BY <1>1, <2>1, <2>2, <2>3, <2>4, <2>6, HitsOneBorder
  <2>8. {e2 \in Edge : OnBorder(e2, p)} = {e}
    BY <2>6, <2>7
  <2> QED BY <2>5, <2>7, <2>8, FS_Singleton
<1>2. Inv => HitIsOnBorder
  BY <1>1 DEF HitIsOnBorder
<1> QED BY Invariance, <1>2, PTL

\* Of the clients at an edge the oldest can be reached.
THEOREM OldestOfEdgeIsReachableHolds == Spec => []OldestOfEdgeIsReachable
<1>1. ASSUME Inv, server_screen # NoScreen, NEW i \in DOMAIN clients,
             \A j \in 1 .. i - 1 : clients[j].adjacent_edge # clients[i].adjacent_edge
      PROVE  \E p \in Probes : /\ HasPixel(server_screen, p[1], p[2])
                               /\ At(p) = clients[i].client_id
  <2>1. clients \in Seq(Info) /\ server_screen \in Screens
    BY <1>1 DEF Inv, TypeOK
  <2>2. Len(clients) \in Nat /\ i \in 1..Len(clients)
    BY <2>1, LenProperties
  <2>3. \A j \in 1..Len(clients) : clients[j].adjacent_edge \in Edge
    <3>1. \A j \in 1..Len(clients) : clients[j] \in Info
      BY <2>1, ElementOfSeq
    <3> QED BY <3>1 DEF Info
  <2> DEFINE e == clients[i].adjacent_edge
  <2>4. PICK p \in Probes : /\ HasPixel(server_screen, p[1], p[2])
                            /\ Hits(server_screen, e, p[1], p[2])
                            /\ \A e2 \in Edge \ {e} : ~Hits(server_screen, e2, p[1], p[2])
    BY <1>1, <2>1, <2>2, <2>3, MiddleOfBorder
  <2>5. PICK k \in 1..Len(clients) :
          /\ At(p) = clients[k].client_id
          /\ Hits(server_screen, clients[k].adjacent_edge, p[1], p[2])
          /\ \A j \in 1..Len(clients) :
               Hits(server_screen, clients[j].adjacent_edge, p[1], p[2]) => k <= j
    BY <2>1, <2>2, <2>4, CheckEdgeFinds DEF At
  <2>6. k <= i /\ clients[k].adjacent_edge = e
    BY <2>2, <2>3, <2>4, <2>5
  <2>7. k = i
    BY <1>1, <2>2, <2>5, <2>6
  <2> QED BY <2>4, <2>5, <2>7
<1>2. Inv => OldestOfEdgeIsReachable
  BY <1>1 DEF OldestOfEdgeIsReachable
<1> QED BY Invariance, <1>2, PTL

\* A number below 2^16 is its own uint16_t, and casting never enlarges one.
LEMMA U16Below ==
  ASSUME NEW n \in Nat, NEW m \in Nat, n < m
  PROVE  U16(n) \in 0 .. m - 1
  BY DEF U16

\* Every point a client is entered at is a pixel of its screen.
THEOREM EntersInsideScreenHolds == Spec => []EntersInsideScreen
<1>1. ASSUME Inv, NEW i \in DOMAIN clients
      PROVE  LET c == clients[i]
                 inside(q) == q[1] \in 0 .. c.rect.width - 1 /\ q[2] \in 0 .. c.rect.height - 1
             IN  /\ inside(EntryPoint(clients, c.client_id))
                 /\ \A e \in Edge, n \in 0 .. 7 : inside(MapToClient(clients, c.client_id, e, n, 8))
  <2> DEFINE id == clients[i].client_id
             w == clients[i].rect.width
             h == clients[i].rect.height
             inside(q) == q[1] \in 0 .. w - 1 /\ q[2] \in 0 .. h - 1
  <2>1. clients \in Seq(Info) /\ Once(clients) /\ i \in 1..Len(clients)
    BY <1>1, LenProperties DEF Inv, TypeOK
  <2>2. IndexOf(clients, id) = i /\ i # 0
    BY <2>1, IndexOfEntry, LenProperties
  <2>3. w \in Nat \ {0} /\ h \in Nat \ {0}
    <3>1. clients[i] \in Info
      BY <2>1, ElementOfSeq
    <3> QED BY <3>1, RectsAssumption DEF Info
  <2> HIDE DEF w, h, id
  <2>4. inside(EntryPoint(clients, id))
    <3>1. EntryPoint(clients, id) = <<U16(w \div 2), U16(h \div 2)>>
      BY <2>2 DEF EntryPoint, w, h
    <3>2. w \div 2 \in Nat /\ w \div 2 < w /\ h \div 2 \in Nat /\ h \div 2 < h
      BY <2>3
    <3> QED BY <2>3, <3>1, <3>2, U16Below
  <2>5. ASSUME NEW e \in Edge, NEW n \in 0 .. 7 PROVE inside(MapToClient(clients, id, e, n, 8))
    <3>1. /\ (n * h) \div 8 \in Nat /\ (n * h) \div 8 < h
          /\ (n * w) \div 8 \in Nat /\ (n * w) \div 8 < w
      BY <2>3
    <3>2. /\ U16((n * h) \div 8) \in 0 .. h - 1 /\ U16((n * w) \div 8) \in 0 .. w - 1
          /\ U16(w - 1) \in 0 .. w - 1 /\ U16(h - 1) \in 0 .. h - 1
      <4>1. w - 1 \in Nat /\ w - 1 < w /\ h - 1 \in Nat /\ h - 1 < h
        BY <2>3
      <4> QED BY <2>3, <3>1, <4>1, U16Below
    <3>3. CASE e = "LEFT"
      <4>1. MapToClient(clients, id, e, n, 8) = <<U16(w - 1), U16((n * h) \div 8)>>
        BY <2>2, <3>3 DEF MapToClient, w, h
      <4> QED BY <3>2, <4>1
    <3>4. CASE e = "RIGHT"
      <4>1. MapToClient(clients, id, e, n, 8) = <<0, U16((n * h) \div 8)>>
        BY <2>2, <3>4 DEF MapToClient, w, h
      <4> QED BY <2>3, <3>2, <4>1
    <3>5. CASE e = "TOP"
      <4>1. MapToClient(clients, id, e, n, 8) = <<U16((n * w) \div 8), U16(h - 1)>>
        BY <2>2, <3>5 DEF MapToClient, w, h
      <4> QED BY <3>2, <4>1
    <3>6. CASE e = "BOTTOM"
      <4>1. MapToClient(clients, id, e, n, 8) = <<U16((n * w) \div 8), 0>>
        BY <2>2, <3>6 DEF MapToClient, w, h
      <4> QED BY <2>3, <3>2, <4>1
    <3> QED BY <3>3, <3>4, <3>5, <3>6 DEF Edge
  <2> QED BY <2>4, <2>5 DEF w, h, id
<1>2. Inv => EntersInsideScreen
  BY <1>1 DEF EntersInsideScreen
<1> QED BY Invariance, <1>2, PTL
===============================================================================
