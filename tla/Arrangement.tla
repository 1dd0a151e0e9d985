----------------------------- MODULE Arrangement -----------------------------
(***************************************************************************)
(* The arrangement of the screens as the user sees it: the GUI's           *)
(* ScreenEditor (src/gui/screen_editor.cpp) and MainWindow's wiring of it  *)
(* to a running Server (src/gui/mainwindow.cpp), next to the layout that   *)
(* the server uses.  The editor is rebuilt from the server's clients each  *)
(* time a state callback has been queued; the layout learns of the editor  *)
(* only when a drag ends.                                                  *)
(*                                                                         *)
(* The server's threads appear as what they do to clients_ and layout_ and *)
(* as the callbacks they queue (see Server for how they do it).            *)
(***************************************************************************)
EXTENDS LayoutOps

CONSTANTS ClientId,     \* the "ip:port" ids of clients
          Sizes,        \* <<width, height>> that a HELLO may report
          Spots,        \* where the top left corner of a screen may be dragged to
          MaxQueued     \* bound: callbacks queued for the GUI thread

ASSUME SizesAssumption == Sizes \subseteq (Nat \ {0}) \X (Nat \ {0})
ASSUME SpotsAssumption == Spots \subseteq Int \X Int

VARIABLES
  fate,         \* "running", or "undefined" once the editor reads past its vector
  serving,      \* there is a server_
  clients,      \* keys of clients_, in the order the map yields them
  layout,       \* layout_
  active,       \* active_client_id_
  queued,       \* client_list_changed signals the GUI thread has not come to
  screens,      \* screens_ behind the server's, which is always its first
  dragging,     \* dragging_index_; 0 for none
  grabbed,      \* history: the client whose screen was pressed
  overtaken     \* history: the editor was rebuilt since

vars == <<fate, serving, clients, layout, active, queued, screens, dragging, grabbed, overtaken>>
serverVars == <<serving, clients, layout, active>>
dragVars   == <<dragging, grabbed, overtaken>>

Rect == [x : Int, y : Int, width : Nat \ {0}, height : Nat \ {0}]

TypeOK ==
  /\ fate \in {"running", "undefined"}
  /\ serving \in BOOLEAN
  /\ clients \in Seq(ClientId)
  /\ layout \in Seq([client_id : ClientId, rect : Rect, adjacent_edge : Edge])
  /\ active \in ClientId \cup {NoClient}
  /\ queued \in Nat
  /\ screens \in Seq([client_id : ClientId, rect : Rect, released : BOOLEAN])
  /\ dragging \in Nat
  /\ grabbed \in ClientId \cup {NoClient}
  /\ overtaken \in BOOLEAN

Running == fate = "running"

Init ==
  /\ fate = "running"
  /\ serving = FALSE /\ clients = <<>> /\ layout = <<>> /\ active = NoClient /\ queued = 0
  /\ screens = <<>> /\ dragging = 0 /\ grabbed = NoClient /\ overtaken = FALSE

-------------------------------------------------------------------------------
(* Geometry, in the editor's logical pixels.                                 *)

\* The server is drawn this large whatever its display is.
ServerRect == [x |-> 0, y |-> 0, width |-> 1920, height |-> 1080]

\* QRect::right() is the last pixel; QRect::center() rounds towards zero.
Magnitude(n) == IF n < 0 THEN -n ELSE n
Half(n) == IF n < 0 THEN -(Magnitude(n) \div 2) ELSE n \div 2
LastColumn(r) == r.x + r.width - 1
CenterX(r) == Half(r.x + LastColumn(r))
CenterY(r) == Half(r.y + r.y + r.height - 1)

\* The side of the server on which the centre of a screen mostly lies.
DetectEdge(r) ==
  LET dx == CenterX(r) - CenterX(ServerRect)
      dy == CenterY(r) - CenterY(ServerRect)
  IN  IF Magnitude(dx) >= Magnitude(dy) THEN IF dx < 0 THEN "LEFT" ELSE "RIGHT"
                                        ELSE IF dy < 0 THEN "TOP" ELSE "BOTTOM"

\* A new screen goes to the right of the rightmost.  (released is history: whether
\* the user has let go of it where it is.)
AddScreen(items, info) ==
  LET columns == {LastColumn(items[i].rect) : i \in DOMAIN items} \cup {LastColumn(ServerRect)}
      rect == [info.rect EXCEPT !.x = Max(columns) + 50, !.y = 0]
  IN  Append(items, [client_id |-> info.client_id, rect |-> rect, released |-> FALSE])

\* A screen for each of infos, in their order.
RowUpTo(infos) ==
  LET items[i \in 0..Len(infos)] == IF i = 0 THEN <<>> ELSE AddScreen(items[i - 1], infos[i])
  IN  items
Row(infos) == RowUpTo(infos)[Len(infos)]

Shown == {screens[i].client_id : i \in DOMAIN screens}

-------------------------------------------------------------------------------
(* What happens in the server.                                               *)

Callback == queued < MaxQueued /\ queued' = queued + 1

HelloInfo(c, size) ==
  [client_id |-> c, adjacent_edge |-> "LEFT",
   rect |-> [x |-> 0, y |-> 0, width |-> size[1], height |-> size[2]]]

\* Mutant: HELLO without its callback.
HelloUntold(c, size) ==
  /\ Running /\ serving /\ c \notin Ids(layout)
  /\ \E order \in SetToSeqs(Range(clients) \cup {c}) : clients' = order
  /\ layout' = AddClient(layout, HelloInfo(c, size))
  /\ UNCHANGED <<fate, serving, active, queued, screens, dragVars>>

\* A client comes and says HELLO.  A new key may reorder the hash map; an id, with
\* its port, does not come back.
Hello(c, size) ==
  /\ Running /\ serving /\ c \notin Ids(layout)
  /\ \E order \in SetToSeqs(Range(clients) \cup {c}) : clients' = order
  /\ layout' = AddClient(layout, HelloInfo(c, size))
  /\ Callback
  /\ UNCHANGED <<fate, serving, active, screens, dragVars>>

Drop(c) == clients' = Keep(clients, Range(clients) \ {c})

\* Mutant: the screen is taken from the editor there and then.
ExpireRemoves(c) ==
  /\ Running /\ c \in Range(clients)
  /\ Drop(c)
  /\ screens' = SelectSeq(screens, LAMBDA s : s.client_id # c)
  /\ active # c
  /\ UNCHANGED <<fate, serving, layout, active, queued, dragVars>>

\* The keepalive timeout, which tells the GUI of the active client only.
Expire(c) ==
  /\ Running /\ c \in Range(clients)
  /\ Drop(c)
  /\ \/ active = c /\ active' = NoClient /\ Callback
     \/ active # c /\ UNCHANGED <<active, queued>>
  /\ UNCHANGED <<fate, serving, layout, screens, dragVars>>

\* The cursor runs into an entry of the layout whose client is there.
Enter(c) ==
  /\ Running /\ active = NoClient /\ c \in Ids(layout) \cap Range(clients)
  /\ active' = c
  /\ Callback
  /\ UNCHANGED <<fate, serving, clients, layout, screens, dragVars>>

\* The escape key.
Leave ==
  /\ Running /\ active # NoClient
  /\ active' = NoClient
  /\ Callback
  /\ UNCHANGED <<fate, serving, clients, layout, screens, dragVars>>

-------------------------------------------------------------------------------
(* The GUI thread.                                                           *)

\* refresh_screen_editor: clear(), then a screen per client that the layout knows.
\* A drag under way goes on with the index it has.
Refresh ==
  /\ Running /\ queued > 0
  /\ queued' = queued - 1
  /\ \/ /\ serving
        /\ LET infos == [i \in DOMAIN clients |-> layout[IndexOf(layout, clients[i])]]
           IN  screens' = Row(infos)
        /\ overtaken' = (dragging # 0)
     \/ ~serving /\ UNCHANGED <<screens, overtaken>>
  /\ UNCHANGED <<fate, serverVars, dragging, grabbed>>

\* The mouse belongs to the server's machine.
MouseHere == Running /\ active = NoClient

Press(i) ==
  /\ MouseHere /\ i \in DOMAIN screens
  /\ dragging' = i /\ grabbed' = screens[i].client_id /\ overtaken' = FALSE
  /\ UNCHANGED <<fate, serverVars, queued, screens>>

Move(spot) ==
  /\ MouseHere /\ dragging \in DOMAIN screens
  /\ screens' = [screens EXCEPT ![dragging].rect.x = spot[1], ![dragging].rect.y = spot[2],
                                ![dragging].released = FALSE]
  /\ UNCHANGED <<fate, serverVars, queued, dragVars>>

\* The end of a drag, or a mere click.
Release ==
  /\ MouseHere /\ dragging \in DOMAIN screens
  /\ LET s == screens[dragging]
     IN  layout' = SetClientEdge(layout, s.client_id, DetectEdge(s.rect))
  /\ screens' = [screens EXCEPT ![dragging].released = TRUE]
  /\ dragging' = 0 /\ grabbed' = NoClient /\ overtaken' = FALSE
  /\ UNCHANGED <<fate, serving, clients, active, queued>>

\* A move or a release with an index that a refresh has left behind.
Overrun ==
  /\ MouseHere /\ dragging > Len(screens)
  /\ fate' = "undefined"
  /\ UNCHANGED <<serverVars, queued, screens, dragVars>>

\* on_start_server, and on_disconnect, which takes the clients from the editor.
Start ==
  /\ MouseHere /\ ~serving
  /\ serving' = TRUE
  /\ UNCHANGED <<fate, clients, layout, active, queued, screens, dragVars>>

Stop ==
  /\ MouseHere /\ serving
  /\ serving' = FALSE /\ clients' = <<>> /\ layout' = <<>>
  /\ screens' = <<>> /\ overtaken' = (dragging # 0)
  /\ UNCHANGED <<fate, active, queued, dragging, grabbed>>

Next == \/ Start \/ Stop
        \/ \E c \in ClientId : Expire(c) \/ Enter(c) \/ \E size \in Sizes : Hello(c, size)
        \/ Leave \/ Refresh \/ Release \/ Overrun
        \/ \E i \in DOMAIN screens : Press(i)
        \/ \E spot \in Spots : Move(spot)

Spec == Init /\ [][Next]_vars

-------------------------------------------------------------------------------
(* What should hold.                                                         *)

\* mainwindow.cpp:126 "When user drags a client screen, update the server layout
\* edge": a screen that stands where the user let go of it is at the edge, for the
\* server, that it is at for the eye; so another click on it changes nothing.
ReleasedIsArranged ==
  \A i \in DOMAIN screens : screens[i].released =>
    LET s == screens[i] IN layout[IndexOf(layout, s.client_id)].adjacent_edge = DetectEdge(s.rect)

\* mainwindow.cpp:240 "Refresh screen editor when client list changes": with no
\* callback under way, every client can be arranged, and each is shown once.
EditorCatchesUp ==
  queued = 0 => Range(clients) \subseteq Shown /\ Cardinality(Shown) = Len(screens)

\* The screen under the mouse is the one that was pressed, and there is one, unless
\* a callback has had the editor rebuilt in the middle of the drag.
DragHoldsItsScreen ==
  ~overtaken => /\ Running
                /\ dragging # 0 => dragging \in DOMAIN screens /\ screens[dragging].client_id = grabbed

-------------------------------------------------------------------------------
(* What the repository says and the code does not do (README, section 4).   *)

\* mainwindow.cpp:240 "Refresh screen editor when client list changes": with no callback
\* under way, the editor shows the clients that are there and no others.
EditorShowsWhoIsThere == queued = 0 => Shown = Range(clients)

\* mainwindow.cpp:126 "When user drags a client screen, update the server layout edge":
\* only the client whose screen the user has pressed gets another edge.
EdgeFollowsDrag ==
  [][ \A e \in Range(layout), f \in Range(layout') :
        f.client_id = e.client_id /\ f.adjacent_edge # e.adjacent_edge => e.client_id = grabbed ]_vars
===============================================================================
