----------------------------- MODULE ScreenLayout -----------------------------
(***************************************************************************)
(* The ScreenLayout object of src/core/screen_layout.{h,cpp} as a state    *)
(* machine: one action per member function that changes it, the queries    *)
(* checked in every state it can reach.                                    *)
(***************************************************************************)
EXTENDS LayoutOps

CONSTANTS ClientId,     \* the "ip:port" ids of clients
          Screens,      \* rects the server's primary display may have
          Rects         \* rects a client may be added with

\* A display has more pixels than its corners' dead zones, and a client's has some.
ASSUME ScreensAssumption ==
  Screens \subseteq {r \in [x : Int, y : Int, width : Nat, height : Nat] :
                       r.width >= 2 * DeadZone /\ r.height >= 2 * DeadZone}
ASSUME RectsAssumption ==
  Rects \subseteq [x : Int, y : Int, width : Nat \ {0}, height : Nat \ {0}]

VARIABLES server_screen, clients
vars == <<server_screen, clients>>

NoScreen == [x |-> 0, y |-> 0, width |-> 0, height |-> 0]
Info == [client_id : ClientId, rect : Rects, adjacent_edge : Edge]

TypeOK == /\ server_screen \in Screens \cup {NoScreen}
          /\ clients \in Seq(Info)

Init == server_screen = NoScreen /\ clients = <<>>

\* Server::start, once, before any client can be in the layout.
DoSetServerScreen(r) ==
  /\ server_screen = NoScreen /\ clients = <<>>
  /\ server_screen' = r
  /\ UNCHANGED clients

DoAddClient(info)    == clients' = AddClient(clients, info) /\ UNCHANGED server_screen
DoRemoveClient(id)   == clients' = RemoveClient(clients, id) /\ UNCHANGED server_screen
DoClearClients       == clients' = <<>> /\ UNCHANGED server_screen
DoSetClientEdge(id, e) == clients' = SetClientEdge(clients, id, e) /\ UNCHANGED server_screen

Next == \/ \E r \in Screens : DoSetServerScreen(r)
        \/ \E info \in Info : DoAddClient(info)
        \/ \E id \in ClientId : DoRemoveClient(id)
        \/ DoClearClients
        \/ \E id \in ClientId, e \in Edge : DoSetClientEdge(id, e)

Spec == Init /\ [][Next]_vars

-------------------------------------------------------------------------------
\* Pixels worth asking about: both sides of every comparison in check_edge, and
\* one pixel outside the display on each side.
Near(lo, hi) == {lo - 1, lo, lo + 1, lo + DeadZone - 1, lo + DeadZone, (lo + hi) \div 2,
                 hi - DeadZone - 1, hi - DeadZone, hi - DeadZone + 1, hi - 2, hi - 1, hi}
Probes == Near(Left(server_screen), Right(server_screen))
            \X Near(Top(server_screen), Bottom(server_screen))
At(p) == CheckEdge(clients, server_screen, p[1], p[2])

\* The border of the display that an edge names.
OnBorder(e, p) ==
  \/ e = "LEFT"   /\ p[1] = Left(server_screen)
  \/ e = "RIGHT"  /\ p[1] = Right(server_screen) - 1
  \/ e = "TOP"    /\ p[2] = Top(server_screen)
  \/ e = "BOTTOM" /\ p[2] = Bottom(server_screen) - 1

\* add_client replaces: however the members are called, no client has two
\* entries, so remove_client and set_client_edge always reach all of it.
OneEntryPerClient == Cardinality(Ids(clients)) = Len(clients)

\* check_edge sends a cursor that is on the display only to a client whose edge
\* is the border row or column the cursor is on, and never from a pixel that is
\* on two borders at once (a corner).
HitIsOnBorder ==
  \A p \in Probes : HasPixel(server_screen, p[1], p[2]) /\ At(p) # NoClient =>
    /\ OnBorder(clients[IndexOf(clients, At(p))].adjacent_edge, p)
    /\ Cardinality({e \in Edge : OnBorder(e, p)}) = 1

\* The oldest client of each edge can be reached: some pixel of the display
\* takes the cursor to it, whatever the other edges hold.
OldestOfEdgeIsReachable ==
  server_screen # NoScreen =>
    \A i \in DOMAIN clients :
      (\A j \in 1 .. i - 1 : clients[j].adjacent_edge # clients[i].adjacent_edge) =>
        \E p \in Probes : /\ HasPixel(server_screen, p[1], p[2])
                          /\ At(p) = clients[i].client_id

\* Every point a client is entered at is a pixel of its screen: the centre that
\* the server sends, and what map_to_client gives along the edge short of its end.
EntersInsideScreen ==
  \A i \in DOMAIN clients :
    LET c == clients[i]
        inside(q) == q[1] \in 0 .. c.rect.width - 1 /\ q[2] \in 0 .. c.rect.height - 1
    IN  /\ inside(EntryPoint(clients, c.client_id))
        /\ \A e \in Edge, n \in 0 .. 7 : inside(MapToClient(clients, c.client_id, e, n, 8))
===============================================================================
