-------------------------------- MODULE Server --------------------------------
(***************************************************************************)
(* The server of src/core/server.{h,cpp} with the parts of TcpConnection   *)
(* and TcpServer (src/net/tcp_connection.cpp) it stands on, at the grain   *)
(* at which its threads can see one another:                               *)
(*                                                                         *)
(*   "main"    the caller of start() and stop(), and the GUI               *)
(*   "accept"  TcpServer::accept_loop, which runs on_client_connected      *)
(*   "hook"    the input capture thread: on_input_event, escape hotkey     *)
(*   "keeper"  keepalive_loop                                              *)
(*   c         recv_loop of the connection of client c                     *)
(*                                                                         *)
(* clients_mutex_ is the only lock.  What a thread does while it holds the *)
(* lock and nobody can watch is one step; the state that is also read      *)
(* without it (state_, active_client_id_, layout_, connected_) is written  *)
(* in steps of its own.                                                    *)
(***************************************************************************)
EXTENDS LayoutOps

CONSTANTS ClientId,       \* connections that may come, each known by its "ip:port"
          Screen,         \* the rect of the server's primary display
          GuiEdges,       \* edges the user may drag a screen to in the GUI
          Cursor          \* positions <<x, y>> the capture may report

Service == {"main", "accept", "hook", "keeper"}
Thread  == Service \cup ClientId
Free    == "free"

ASSUME ClientIdAssumption == (Service \cup {Free, NoClient}) \cap ClientId = {}

VARIABLES
  fate,         \* "running", or what made the process abort
  running,      \* Server::running_
  listening,    \* TcpServer::running_
  state,        \* state_
  active,       \* active_client_id_, NoClient when empty
  suppress,     \* the capture's suppress_ flag: local input is swallowed
  forgotten,    \* history: the client whose CLIENT_ACTIVE start() wrote over, until the
                \* client is told anew who has the input; NoClient if there is none
  mutex,        \* who holds clients_mutex_, Free if nobody
  clients,      \* keys of clients_
  layout,       \* layout_
  editing,      \* threads inside a call that changes layout_
  link,         \* the socket of a client's connection
  connected,    \* TcpConnection::connected_
  view,         \* what the last SCREEN_ENTER / SCREEN_LEAVE told the client
  hello,        \* clients whose HELLO has been read off the socket
  silent,       \* clients more than 3 s without a message at the keeper's now
  pc,           \* where each thread is
  target,       \* transition_to_client's argument
  peer,         \* on_client_connected's client
  todo,         \* entries keepalive_loop has not come to in this round
  joining,      \* client whose recv thread the mutex holder waits for in close()
  wasActive     \* the local was_active of keepalive_loop and on_client_disconnected

vars == <<fate, running, listening, state, active, suppress, forgotten, mutex, clients,
          layout, editing, link, connected, view, hello, silent, pc, target, peer, todo, joining,
          wasActive>>

\* Groups of variables for UNCHANGED.
switchVars == <<state, active, suppress, forgotten>>
connVars   == <<link, connected, view, hello>>
threadVars == <<target, peer, todo, joining, wasActive>>
lifeVars   == <<fate, running, listening>>
layoutVars == <<layout, editing>>

MainPc   == {"init", "bind", "capture", "spawn", "setLocal", "up", "edge", "joinHook",
             "joinAccept", "joinKeeper", "lock", "clear", "join", "stopped"}
AcceptPc == {"off", "accept", "insert"}
HookPc   == {"off", "idle", "enter", "grab", "setClient", "key", "leave", "release", "setLocal"}
KeeperPc == {"off", "test", "sleep", "lock", "scan", "join", "restore", "setLocal"}
RecvPc   == {"none", "loop", "recv", "hello", "adding", "keepalive", "erase",
             "forget", "exit"}

PcOK ==
  /\ pc \in [Thread -> MainPc \cup AcceptPc \cup HookPc \cup KeeperPc \cup RecvPc]
  /\ pc["main"] \in MainPc /\ pc["accept"] \in AcceptPc
  /\ pc["hook"] \in HookPc /\ pc["keeper"] \in KeeperPc
  /\ \A c \in ClientId : pc[c] \in RecvPc

TypeOK ==
  /\ fate \in {"running", "selfJoin", "tornLayout"}
  /\ running \in BOOLEAN /\ listening \in BOOLEAN /\ suppress \in BOOLEAN
  /\ state \in {"LOCAL_ACTIVE", "CLIENT_ACTIVE"}
  /\ active \in ClientId \cup {NoClient}
  /\ forgotten \in ClientId \cup {NoClient}
  /\ target \in ClientId \cup {NoClient}
  /\ peer \in ClientId \cup {NoClient}
  /\ joining \in ClientId \cup {NoClient}
  /\ mutex \in Thread \cup {Free}
  /\ clients \subseteq ClientId /\ hello \subseteq ClientId
  /\ silent \subseteq ClientId /\ todo \subseteq ClientId
  /\ editing \subseteq Thread
  /\ link \in [ClientId -> {"none", "open", "broken", "closed"}]
  /\ connected \in [ClientId -> BOOLEAN]
  /\ view \in [ClientId -> {"out", "in"}]
  /\ wasActive \in [ClientId \cup {"keeper"} -> BOOLEAN]
  /\ PcOK

Init ==
  /\ fate = "running" /\ running = FALSE /\ listening = FALSE
  /\ state = "LOCAL_ACTIVE" /\ active = NoClient /\ suppress = FALSE
  /\ forgotten = NoClient /\ mutex = Free /\ clients = {} /\ layout = <<>> /\ editing = {}
  /\ link = [c \in ClientId |-> "none"] /\ connected = [c \in ClientId |-> FALSE]
  /\ view = [c \in ClientId |-> "out"] /\ hello = {} /\ silent = {}
  /\ pc = [t \in Thread |-> IF t = "main" THEN "init"
                            ELSE IF t \in Service THEN "off" ELSE "none"]
  /\ target = NoClient /\ peer = NoClient /\ todo = {} /\ joining = NoClient
  /\ wasActive = [t \in ClientId \cup {"keeper"} |-> FALSE]

-------------------------------------------------------------------------------
(* What the steps are made of.                                               *)

\* The process has not aborted, and thread t is at label.
At(t, label) == fate = "running" /\ pc[t] = label

Goto(t, label) == pc' = [pc EXCEPT ![t] = label]

\* Thread t starts thread u, whose first step is at label first.
Spawn(t, label, u, first) == pc' = [pc EXCEPT ![t] = label, ![u] = first]

Lock(t) == mutex = Free /\ mutex' = t
Unlock  == mutex' = Free

\* TcpConnection::send to an entry of the map.  On a connection the peer has
\* left it may fail, and then clears connected_ under the feet of the recv thread.
Send(c, ok) ==
  /\ ok \/ link[c] = "broken"
  /\ connected' = [connected EXCEPT ![c] = @ /\ ok]

IsActive(c) == state = "CLIENT_ACTIVE" /\ active = c

\* Client c is told who has the input.
ToldAnew(c) == forgotten' = IF forgotten = c THEN NoClient ELSE forgotten

\* Erasing an entry runs ~TcpConnection: close() shuts the socket, then waits
\* for the recv thread; the caller t keeps the mutex for as long as that takes.
Destroy(t, c) ==
  /\ clients' = clients \ {c}
  /\ link' = [link EXCEPT ![c] = "closed"]
  /\ connected' = [connected EXCEPT ![c] = FALSE]
  /\ silent' = silent \ {c} /\ view' = [view EXCEPT ![c] = "out"]
  /\ joining' = c
  /\ Goto(t, "join")

\* A call of t that goes through layout_ is over.  If another thread was adding
\* an entry meanwhile (or t was, and another went through the vector), the call
\* had either result or met the vector half-way through its reallocation.
Edited(t, result) ==
  LET torn == \/ (editing \cap ClientId) \ {t} # {}
              \/ t \in ClientId \cap editing /\ editing # {t}
  IN  /\ editing' = editing \ {t}
      /\ \/ layout' = result /\ UNCHANGED fate
         \/ torn /\ fate' = "tornLayout" /\ UNCHANGED layout

-------------------------------------------------------------------------------
(* Peers and the network.                                                    *)

\* The client quits, its machine goes to sleep, the network resets the link.
PeerCloses(c) ==
  /\ fate = "running" /\ link[c] = "open"
  /\ link' = [link EXCEPT ![c] = "broken"]
  /\ UNCHANGED <<lifeVars, switchVars, layoutVars, threadVars, mutex, clients, connected, view,
                 hello, silent, pc>>

-------------------------------------------------------------------------------
(* accept_loop and on_client_connected.                                      *)

\* start_receive puts the recv thread to work before the entry is in the map.
Accept(c) ==
  /\ At("accept", "accept") /\ listening
  /\ link[c] = "none"
  /\ link' = [link EXCEPT ![c] = "open"]
  /\ connected' = [connected EXCEPT ![c] = TRUE]
  /\ peer' = c
  /\ Spawn("accept", "insert", c, "loop")
  /\ UNCHANGED <<lifeVars, switchVars, layoutVars, mutex, clients, view, hello, silent, target,
                 todo, joining, wasActive>>

\* Mutant: the map keyed by the peer string after it was moved from.
InsertMovedFrom ==
  /\ At("accept", "insert") /\ mutex = Free
  /\ clients' = clients \cup {NoClient}
  /\ peer' = NoClient
  /\ Goto("accept", "accept")
  /\ UNCHANGED <<lifeVars, switchVars, layoutVars, connVars, mutex, silent, target, todo,
                 joining, wasActive>>

Insert ==
  /\ At("accept", "insert") /\ mutex = Free
  /\ clients' = clients \cup {peer}
  /\ peer' = NoClient
  /\ Goto("accept", "accept")
  /\ UNCHANGED <<lifeVars, switchVars, layoutVars, connVars, mutex, silent, target, todo,
                 joining, wasActive>>

AcceptEnds ==
  /\ At("accept", "accept") /\ ~listening
  /\ Goto("accept", "off")
  /\ UNCHANGED <<lifeVars, switchVars, layoutVars, connVars, threadVars, mutex, clients, silent>>

-------------------------------------------------------------------------------
(* recv_loop of client c, with on_client_message and on_client_disconnected. *)

\* The loop test.  connected_ cleared by another thread's failed send ends the
\* thread here, and nobody is told.
RecvTest(c) ==
  /\ At(c, "loop")
  /\ Goto(c, IF connected[c] THEN "recv" ELSE "exit")
  /\ UNCHANGED <<lifeVars, switchVars, layoutVars, connVars, threadVars, mutex, clients, silent>>

\* on_client_disconnected starts by reading state_ and active_client_id_, before
\* it locks.
DisconnectReads(c) ==
  /\ wasActive' = [wasActive EXCEPT ![c] = IsActive(c)]
  /\ Goto(c, "erase")

RecvFails(c) ==
  /\ At(c, "recv") /\ link[c] \in {"broken", "closed"}
  /\ connected' = [connected EXCEPT ![c] = FALSE]
  /\ DisconnectReads(c)
  /\ UNCHANGED <<lifeVars, switchVars, layoutVars, mutex, clients, link, view, hello, silent,
                 target, peer, todo, joining>>

\* Whole messages arrive: a client sends HELLO first and once, then DISCONNECT or
\* keepalives (the server treats whatever else it may send like these).
RecvDisconnect(c) ==
  /\ At(c, "recv") /\ link[c] \in {"open", "broken"} /\ c \in hello
  /\ DisconnectReads(c)
  /\ UNCHANGED <<lifeVars, switchVars, layoutVars, connVars, mutex, clients, silent, target,
                 peer, todo, joining>>

RecvMessage(c) ==
  /\ At(c, "recv") /\ link[c] \in {"open", "broken"}
  /\ hello' = hello \cup {c}
  /\ Goto(c, IF c \in hello THEN "keepalive" ELSE "hello")
  /\ UNCHANGED <<lifeVars, switchVars, layoutVars, threadVars, mutex, clients, link, connected,
                 view, silent>>

\* HELLO, up to the change of layout_.  A client that is not in the map yet is
\* ignored, and so is its HELLO.
HelloLocks(c) ==
  /\ At(c, "hello") /\ mutex = Free
  /\ \/ /\ c \in clients
        /\ Lock(c) /\ Goto(c, "adding")
        /\ silent' = silent \ {c} /\ editing' = editing \cup {c}
     \/ /\ c \notin clients
        /\ Goto(c, "loop")
        /\ UNCHANGED <<mutex, silent, editing>>
  /\ UNCHANGED <<lifeVars, switchVars, connVars, threadVars, clients, layout>>

\* The entry's adjacent_edge is value-initialised: LEFT, at the origin.
HelloInfo(c) == [client_id |-> c, rect |-> [x |-> 0, y |-> 0, width |-> 2, height |-> 2],
                 adjacent_edge |-> "LEFT"]

HelloAdds(c, ok) ==
  /\ At(c, "adding")
  /\ Edited(c, AddClient(layout, HelloInfo(c)))
  /\ Send(c, ok)                                  \* HELLO_ACK
  /\ Unlock
  /\ Goto(c, "loop")
  /\ UNCHANGED <<running, listening, switchVars, threadVars, clients, link, view, hello, silent>>

KeepaliveArrives(c) ==
  /\ At(c, "keepalive") /\ mutex = Free
  /\ silent' = IF c \in clients THEN silent \ {c} ELSE silent
  /\ Goto(c, "loop")
  /\ UNCHANGED <<lifeVars, switchVars, layoutVars, connVars, threadVars, mutex, clients>>

\* Mutant: on_client_disconnected without the lock.
DisconnectErasesUnlocked(c) ==
  /\ At(c, "erase")
  /\ \/ c \in clients /\ clients' = clients \ {c} /\ fate' = "selfJoin" /\ UNCHANGED pc
     \/ c \notin clients /\ Goto(c, "forget") /\ UNCHANGED <<clients, fate>>
  /\ UNCHANGED <<running, listening, switchVars, layoutVars, connVars, threadVars, mutex, silent>>

\* The thread that runs this is the one ~TcpConnection joins: join() on itself
\* throws out of a destructor, which ends the process.
DisconnectErases(c) ==
  /\ At(c, "erase") /\ mutex = Free
  /\ \/ c \in clients /\ clients' = clients \ {c} /\ fate' = "selfJoin" /\ UNCHANGED pc
     \/ c \notin clients /\ Goto(c, "forget") /\ UNCHANGED <<clients, fate>>
  /\ UNCHANGED <<running, listening, switchVars, layoutVars, connVars, threadVars, mutex, silent>>

\* The rest of on_client_disconnected, without the lock, and back to the loop:
\* after a failed recv connected_ is false and the loop test ends the thread.
\* remove_client finds nothing to move (DisconnectFindsNothing), so here it only
\* reads the vector.
DisconnectForgets(c) ==
  /\ At(c, "forget")
  /\ Edited(c, RemoveClient(layout, c))
  /\ \/ wasActive[c] /\ suppress' = FALSE /\ active' = NoClient /\ state' = "LOCAL_ACTIVE"
     \/ ~wasActive[c] /\ UNCHANGED <<suppress, active, state>>
  /\ wasActive' = [wasActive EXCEPT ![c] = FALSE]
  /\ Goto(c, "loop")
  /\ UNCHANGED <<running, listening, forgotten, mutex, clients, connVars, silent, target, peer,
                 todo, joining>>
-------------------------------------------------------------------------------
(* The capture thread: one event at a time.                                  *)

\* A cursor position in LOCAL_ACTIVE.  check_edge takes no lock: while another
\* thread adds an entry it may crash, or answer from the old or the new entries.
CursorMoves(p) ==
  LET adding == editing \cap ClientId
      hit == CheckEdge(layout, Screen, p[1], p[2])
  IN  /\ At("hook", "idle") /\ state = "LOCAL_ACTIVE"
      /\ \/ /\ target' \in ClientId
            /\ \/ adding = {} /\ target' = hit
               \/ adding # {} /\ target' \in Ids(layout) \cup adding
            /\ Goto("hook", "enter") /\ UNCHANGED fate
         \/ adding # {} /\ fate' = "tornLayout" /\ UNCHANGED <<target, pc>>
      /\ UNCHANGED <<running, listening, switchVars, layoutVars, connVars, mutex, clients, silent,
                     peer, todo, joining, wasActive>>

\* Mutant: transition_to_client that never sends SCREEN_ENTER.
EnterUnannounced(ok) ==
  /\ At("hook", "enter") /\ mutex = Free /\ ok
  /\ \/ target \in clients /\ Lock("hook") /\ Goto("hook", "grab") /\ UNCHANGED target
     \/ target \notin clients /\ Goto("hook", "idle") /\ target' = NoClient /\ UNCHANGED mutex
  /\ UNCHANGED <<lifeVars, switchVars, layoutVars, connVars, clients, silent, peer, todo, joining,
                 wasActive>>

\* transition_to_client: lock, look the client up, send it the clipboard and
\* SCREEN_ENTER ...
Enter(ok) ==
  /\ At("hook", "enter") /\ mutex = Free
  /\ \/ /\ target \in clients
        /\ Lock("hook") /\ Goto("hook", "grab")
        /\ Send(target, ok)
        /\ view' = [view EXCEPT ![target] = IF ok THEN "in" ELSE @]
        /\ ToldAnew(target)
        /\ UNCHANGED target
     \/ /\ target \notin clients /\ ok
        /\ Goto("hook", "idle") /\ target' = NoClient
        /\ UNCHANGED <<forgotten, mutex, connected, view>>
  /\ UNCHANGED <<lifeVars, state, active, suppress, layoutVars, clients, link, hello, silent,
                 peer, todo, joining, wasActive>>

\* Mutant: the lock released before state_ is written.
EnterUnlocksEarly ==
  /\ At("hook", "grab")
  /\ suppress' = TRUE /\ active' = target
  /\ Unlock
  /\ Goto("hook", "setClient")
  /\ UNCHANGED <<lifeVars, state, forgotten, layoutVars, connVars, threadVars, clients, silent>>

\* ... then swallow local input and name the client active ...
EnterGrabs ==
  /\ At("hook", "grab")
  /\ suppress' = TRUE /\ active' = target
  /\ Goto("hook", "setClient")
  /\ UNCHANGED <<lifeVars, state, forgotten, layoutVars, connVars, threadVars, mutex, clients,
                 silent>>

\* ... then change state_, and unlock.
EnterSets ==
  /\ At("hook", "setClient")
  /\ state' = "CLIENT_ACTIVE"
  /\ Unlock
  /\ Goto("hook", "idle") /\ target' = NoClient
  /\ UNCHANGED <<lifeVars, active, suppress, forgotten, layoutVars, connVars, clients, silent,
                 peer, todo, joining, wasActive>>

\* An event other than a cursor position, in CLIENT_ACTIVE.  (Positions and
\* scrolling go to the UDP remote without a lock and change nothing here.)
KeyPressed ==
  /\ At("hook", "idle") /\ state = "CLIENT_ACTIVE"
  /\ Goto("hook", "key")
  /\ UNCHANGED <<lifeVars, switchVars, layoutVars, connVars, threadVars, mutex, clients, silent>>

KeySent(ok) ==
  /\ At("hook", "key") /\ mutex = Free
  /\ \/ active \in clients /\ Send(active, ok)
     \/ active \notin clients /\ ok /\ UNCHANGED connected
  /\ Goto("hook", "idle")
  /\ UNCHANGED <<lifeVars, switchVars, layoutVars, threadVars, mutex, clients, link, view, hello,
                 silent>>

\* Scroll Lock (F15 on macOS): obeyed only while input is being swallowed.
Escape ==
  /\ At("hook", "idle") /\ suppress
  /\ suppress' = FALSE
  /\ Goto("hook", IF active = NoClient THEN "release" ELSE "leave")
  /\ UNCHANGED <<lifeVars, state, active, forgotten, layoutVars, connVars, threadVars, mutex,
                 clients, silent>>

\* Mutant: transition_to_local that tells nobody.
LeaveSilently(ok) ==
  /\ At("hook", "leave") /\ mutex = Free /\ ok
  /\ Goto("hook", "release")
  /\ UNCHANGED <<lifeVars, switchVars, layoutVars, connVars, threadVars, mutex, clients, silent>>

\* transition_to_local: SCREEN_LEAVE to the active client, if it is still there ...
Leave(ok) ==
  /\ At("hook", "leave") /\ mutex = Free
  /\ \/ /\ active \in clients /\ Send(active, ok)
        /\ view' = [view EXCEPT ![active] = IF ok THEN "out" ELSE @]
     \/ active \notin clients /\ ok /\ UNCHANGED <<connected, view>>
  /\ ToldAnew(active)
  /\ Goto("hook", "release")
  /\ UNCHANGED <<lifeVars, state, active, suppress, layoutVars, threadVars, mutex, clients, link,
                 hello, silent>>

\* ... and back to local, without the lock.
LeaveReleases ==
  /\ At("hook", "release")
  /\ suppress' = FALSE /\ active' = NoClient
  /\ Goto("hook", "setLocal")
  /\ UNCHANGED <<lifeVars, state, forgotten, layoutVars, connVars, threadVars, mutex, clients,
                 silent>>

LeaveSets ==
  /\ At("hook", "setLocal")
  /\ state' = "LOCAL_ACTIVE"
  /\ Goto("hook", "idle")
  /\ UNCHANGED <<lifeVars, active, suppress, forgotten, layoutVars, connVars, threadVars, mutex,
                 clients, silent>>

CaptureEnds ==
  /\ At("hook", "idle") /\ pc["main"] = "joinHook"
  /\ Goto("hook", "off")
  /\ UNCHANGED <<lifeVars, switchVars, layoutVars, connVars, threadVars, mutex, clients, silent>>
-------------------------------------------------------------------------------
(* keepalive_loop.                                                           *)

KeeperTest ==
  /\ At("keeper", "test")
  /\ Goto("keeper", IF running THEN "sleep" ELSE "off")
  /\ UNCHANGED <<lifeVars, switchVars, layoutVars, connVars, threadVars, mutex, clients, silent>>

\* Mutant: a loop that never finds anybody's last message too old.
KeeperNeverLate(quiet) ==
  /\ At("keeper", "sleep")
  /\ quiet \subseteq clients \cup ({peer} \ {NoClient})
  /\ Goto("keeper", "lock")
  /\ UNCHANGED <<lifeVars, switchVars, layoutVars, connVars, threadVars, mutex, clients, silent>>

\* A second later the clock is read, once for the round: whose last message is
\* by then more than 3 s old is up to the peers.
KeeperWakes(quiet) ==
  /\ At("keeper", "sleep")
  /\ quiet \subseteq clients \cup ({peer} \ {NoClient})
  /\ silent' = silent \cup quiet
  /\ Goto("keeper", "lock")
  /\ UNCHANGED <<lifeVars, switchVars, layoutVars, connVars, threadVars, mutex, clients>>

KeeperLocks ==
  /\ At("keeper", "lock")
  /\ Lock("keeper")
  /\ todo' = clients
  /\ Goto("keeper", "scan")
  /\ UNCHANGED <<lifeVars, switchVars, layoutVars, connVars, clients, silent, target, peer, joining,
                 wasActive>>

KeeperBeats(c, ok) ==
  /\ At("keeper", "scan") /\ c \in todo \ silent
  /\ Send(c, ok)
  /\ todo' = todo \ {c}
  /\ UNCHANGED <<lifeVars, switchVars, layoutVars, mutex, clients, link, view, hello, silent, pc,
                 target, peer, joining, wasActive>>

KeeperExpires(c) ==
  /\ At("keeper", "scan") /\ c \in todo \cap silent
  /\ wasActive' = [wasActive EXCEPT !["keeper"] = IsActive(c)]
  /\ Destroy("keeper", c)
  /\ todo' = todo \ {c}
  /\ UNCHANGED <<lifeVars, switchVars, layoutVars, mutex, hello, target, peer>>

\* Mutant: the join that does not wait.
KeeperJoinsNobody ==
  /\ At("keeper", "join")
  /\ joining' = NoClient
  /\ Goto("keeper", IF wasActive["keeper"] THEN "restore" ELSE "scan")
  /\ UNCHANGED <<lifeVars, switchVars, layoutVars, connVars, mutex, clients, silent, target, peer,
                 todo, wasActive>>

\* Mutant: a timeout that forgets whether its client was the active one.
KeeperForgets ==
  /\ At("keeper", "join") /\ At(joining, "exit")
  /\ joining' = NoClient
  /\ Goto("keeper", "scan")
  /\ UNCHANGED <<lifeVars, switchVars, layoutVars, connVars, mutex, clients, silent, target, peer,
                 todo, wasActive>>

KeeperJoins ==
  /\ At("keeper", "join") /\ At(joining, "exit")
  /\ joining' = NoClient
  /\ Goto("keeper", IF wasActive["keeper"] THEN "restore" ELSE "scan")
  /\ UNCHANGED <<lifeVars, switchVars, layoutVars, connVars, mutex, clients, silent, target, peer,
                 todo, wasActive>>

\* Mutant: a timeout that leaves local input swallowed.
KeeperKeepsInput ==
  /\ At("keeper", "restore")
  /\ active' = NoClient
  /\ Goto("keeper", "setLocal")
  /\ UNCHANGED <<lifeVars, state, suppress, forgotten, layoutVars, connVars, threadVars, mutex,
                 clients, silent>>

KeeperRestores ==
  /\ At("keeper", "restore")
  /\ suppress' = FALSE /\ active' = NoClient
  /\ Goto("keeper", "setLocal")
  /\ UNCHANGED <<lifeVars, state, forgotten, layoutVars, connVars, threadVars, mutex, clients,
                 silent>>

KeeperSets ==
  /\ At("keeper", "setLocal")
  /\ state' = "LOCAL_ACTIVE"
  /\ wasActive' = [wasActive EXCEPT !["keeper"] = FALSE]
  /\ Goto("keeper", "scan")
  /\ UNCHANGED <<lifeVars, active, suppress, forgotten, layoutVars, connVars, mutex, clients,
                 silent, target, peer, todo, joining>>

\* Mutant: a round that ends without unlocking.
KeeperKeepsLock ==
  /\ At("keeper", "scan") /\ todo = {}
  /\ Goto("keeper", "test")
  /\ UNCHANGED <<lifeVars, switchVars, layoutVars, connVars, threadVars, mutex, clients, silent>>

KeeperUnlocks ==
  /\ At("keeper", "scan") /\ todo = {}
  /\ Unlock
  /\ Goto("keeper", "test")
  /\ UNCHANGED <<lifeVars, switchVars, layoutVars, connVars, threadVars, clients, silent>>

-------------------------------------------------------------------------------
(* start(), the GUI, stop().                                                 *)

StartListens ==
  /\ At("main", "init")
  /\ listening' = TRUE
  /\ Spawn("main", "bind", "accept", "accept")
  /\ UNCHANGED <<fate, running, switchVars, layoutVars, connVars, threadVars, mutex, clients,
                 silent>>

StartBindsUdp ==
  /\ At("main", "bind")
  /\ Goto("main", "capture")
  /\ UNCHANGED <<lifeVars, switchVars, layoutVars, connVars, threadVars, mutex, clients, silent>>

StartCaptures ==
  /\ At("main", "capture")
  /\ Spawn("main", "spawn", "hook", "idle")
  /\ UNCHANGED <<lifeVars, switchVars, layoutVars, connVars, threadVars, mutex, clients, silent>>

\* start() gives up (no socket, no UDP port, no permission to capture) and the
\* caller drops the Server, whose destructor calls stop().
StartFails ==
  /\ fate = "running" /\ pc["main"] \in {"init", "bind", "capture"}
  /\ listening' = FALSE
  /\ Goto("main", "joinAccept")
  /\ UNCHANGED <<fate, running, switchVars, layoutVars, connVars, threadVars, mutex, clients,
                 silent>>

StartSpawns ==
  /\ At("main", "spawn")
  /\ running' = TRUE
  /\ Spawn("main", "setLocal", "keeper", "test")
  /\ UNCHANGED <<fate, listening, switchVars, layoutVars, connVars, threadVars, mutex, clients,
                 silent>>

\* Whoever connected while start() ran may have the input by now: start() changes
\* state_ under it, and the client is not told.  (In transition_to_local it has
\* been told already.)
StartSets ==
  /\ At("main", "setLocal")
  /\ state' = "LOCAL_ACTIVE"
  /\ forgotten' = IF state = "CLIENT_ACTIVE" /\ pc["hook"] \notin {"release", "setLocal"}
                     THEN active ELSE NoClient
  /\ Goto("main", "up")
  /\ UNCHANGED <<lifeVars, active, suppress, layoutVars, connVars, threadVars, mutex,
                 clients, silent>>

\* The user drags a screen in the GUI's editor: set_client_edge, without a lock.
GuiMovesScreen ==
  /\ At("main", "up") /\ layout # <<>> /\ GuiEdges # {}
  /\ editing' = editing \cup {"main"}
  /\ Goto("main", "edge")
  /\ UNCHANGED <<lifeVars, switchVars, layout, connVars, threadVars, mutex, clients, silent>>

GuiMovedScreen(c, edge) ==
  /\ At("main", "edge")
  /\ Edited("main", SetClientEdge(layout, c, edge))
  /\ Goto("main", "up")
  /\ UNCHANGED <<running, listening, switchVars, connVars, threadVars, mutex, clients, silent>>

\* Mutant: a stop() that does not clear running_.
StopKeepsRunning ==
  /\ At("main", "up")
  /\ Goto("main", "joinHook")
  /\ UNCHANGED <<lifeVars, switchVars, layoutVars, connVars, threadVars, mutex, clients, silent>>

Stop ==
  /\ At("main", "up")
  /\ running' = FALSE
  /\ Goto("main", "joinHook")
  /\ UNCHANGED <<fate, listening, switchVars, layoutVars, connVars, threadVars, mutex, clients,
                 silent>>

StopJoinsHook ==
  /\ At("main", "joinHook") /\ pc["hook"] = "off"
  /\ listening' = FALSE
  /\ Goto("main", "joinAccept")
  /\ UNCHANGED <<fate, running, switchVars, layoutVars, connVars, threadVars, mutex, clients,
                 silent>>

\* Mutant: a TcpServer::stop that does not wait for the accept thread.
StopAbandonsAccept ==
  /\ At("main", "joinAccept")
  /\ Goto("main", "joinKeeper")
  /\ UNCHANGED <<lifeVars, switchVars, layoutVars, connVars, threadVars, mutex, clients, silent>>

StopJoinsAccept ==
  /\ At("main", "joinAccept") /\ pc["accept"] = "off"
  /\ Goto("main", "joinKeeper")
  /\ UNCHANGED <<lifeVars, switchVars, layoutVars, connVars, threadVars, mutex, clients, silent>>

StopJoinsKeeper ==
  /\ At("main", "joinKeeper") /\ pc["keeper"] = "off"
  /\ Goto("main", "lock")
  /\ UNCHANGED <<lifeVars, switchVars, layoutVars, connVars, threadVars, mutex, clients, silent>>

StopLocks ==
  /\ At("main", "lock")
  /\ Lock("main")
  /\ Goto("main", "clear")
  /\ UNCHANGED <<lifeVars, switchVars, layoutVars, connVars, threadVars, clients, silent>>

\* clients_.clear(), entry by entry.
StopClears(c) ==
  /\ At("main", "clear") /\ c \in clients
  /\ Destroy("main", c)
  /\ UNCHANGED <<lifeVars, switchVars, layoutVars, mutex, hello, target, peer, todo,
                 wasActive>>

StopJoins ==
  /\ At("main", "join") /\ At(joining, "exit")
  /\ joining' = NoClient
  /\ Goto("main", "clear")
  /\ UNCHANGED <<lifeVars, switchVars, layoutVars, connVars, mutex, clients, silent, target, peer,
                 todo, wasActive>>

StopEnds ==
  /\ At("main", "clear") /\ clients = {}
  /\ Unlock
  /\ Goto("main", "stopped")
  /\ UNCHANGED <<lifeVars, switchVars, layoutVars, connVars, threadVars, clients, silent>>

-------------------------------------------------------------------------------
\* Steps a thread takes of itself, once it is running.
RecvStep(c) ==
  \/ RecvTest(c) \/ RecvFails(c) \/ HelloLocks(c) \/ KeepaliveArrives(c)
  \/ DisconnectErases(c) \/ DisconnectForgets(c)
  \/ \E ok \in BOOLEAN : HelloAdds(c, ok)

AcceptStep == Insert \/ AcceptEnds

HookStep == \/ \E ok \in BOOLEAN : Enter(ok) \/ KeySent(ok) \/ Leave(ok)
            \/ EnterGrabs \/ EnterSets \/ LeaveReleases \/ LeaveSets \/ CaptureEnds

KeeperStep == \/ KeeperTest \/ KeeperLocks \/ KeeperJoins \/ KeeperRestores \/ KeeperSets
              \/ KeeperUnlocks
              \/ \E c \in ClientId : KeeperExpires(c) \/ \E ok \in BOOLEAN : KeeperBeats(c, ok)

MainStep == \/ StartBindsUdp \/ StartCaptures \/ StartSpawns \/ StartSets
            \/ StopJoinsHook \/ StopJoinsAccept \/ StopJoinsKeeper \/ StopLocks
            \/ StopJoins \/ StopEnds
            \/ \E c \in ClientId : StopClears(c) \/ \E e \in GuiEdges : GuiMovedScreen(c, e)

\* What users, peers, the network and the clock do, when they please.
Event == \/ \E c \in ClientId : PeerCloses(c) \/ Accept(c)
         \/ \E c \in ClientId : RecvMessage(c) \/ RecvDisconnect(c)
         \/ \E p \in Cursor : CursorMoves(p)
         \/ KeyPressed \/ Escape
         \/ \E quiet \in SUBSET ClientId : KeeperWakes(quiet)
         \/ StartListens \/ StartFails \/ GuiMovesScreen \/ Stop

Next == \/ Event \/ AcceptStep \/ HookStep \/ KeeperStep \/ MainStep
        \/ \E c \in ClientId : RecvStep(c)

Spec == Init /\ [][Next]_vars

\* Progress: every running thread goes on, and the clock keeper's sleep ends.
\* std::mutex promises no order, but whoever takes clients_mutex_ again has slept
\* a second or waited for the network or the user in between, so a thread that
\* keeps finding the lock free in the end gets it: strong fairness.  A broken
\* connection has finitely much left to receive, and once a recv thread is gone
\* its client's last message only gets older.
KeeperWakesLate ==
  \E quiet \in SUBSET ClientId :
     {c \in clients : pc[c] = "exit"} \subseteq quiet /\ KeeperWakes(quiet)

Fairness ==
  /\ WF_vars(MainStep) /\ SF_vars(StopLocks)
  /\ SF_vars(CaptureEnds) /\ SF_vars(AcceptStep) /\ SF_vars(HookStep)
  /\ SF_vars(KeeperStep) /\ SF_vars(KeeperWakesLate)
  /\ \A c \in ClientId : SF_vars(RecvStep(c)) /\ SF_vars(RecvFails(c))

FairSpec == Spec /\ Fairness

-------------------------------------------------------------------------------
(* What should hold.                                                         *)

\* No transition is under way: the hook thread is not inside one, and nobody
\* holds the lock.
Quiet == fate = "running" /\ mutex = Free /\ pc["hook"] \in {"off", "idle", "enter", "key"}

\* server.h:22: in LOCAL_ACTIVE input goes to the local machine.  Nothing is
\* active and nothing is swallowed, whichever of the hook, the keeper and a recv
\* thread was the last to bring the server back; all but one client, which start()
\* forgot, and whose input stays swallowed until the next transition.
LocalIsLocal ==
  Quiet /\ state = "LOCAL_ACTIVE" =>
    \/ ~suppress /\ active = NoClient
    \/ suppress /\ active = forgotten /\ forgotten # NoClient

\* server.h:23: in CLIENT_ACTIVE input is forwarded to a client: it is swallowed
\* here, and the active client is one that clients_ holds, so that keys have
\* somewhere to go.
ClientIsHere ==
  Quiet /\ state = "CLIENT_ACTIVE" /\ pc["main"] # "stopped" => suppress /\ active \in clients

\* Server and clients agree on who has the input: of the clients that can still
\* be told, the one last sent SCREEN_ENTER without a SCREEN_LEAVE after it is
\* the active one, and there is no other, except a client that start() forgot,
\* which goes on believing that the input is its own until it is told anew.
EnteredIsActive ==
  Quiet => \A c \in clients :
             connected[c] => (view[c] = "in") = (IsActive(c) \/ forgotten = c)

\* transition_to_client keeps a reference into the map from the lookup to its
\* end: the entry is not destroyed meanwhile.
EntryOutlivesTransition == pc["hook"] \in {"grab", "setClient"} => target \in clients

\* Nobody else takes an entry out of the map while keepalive_loop walks it (its
\* iterator stays valid), and an entry whose destructor is at work, waiting for a
\* recv thread, can no longer be found.
WalkIsSafe ==
  /\ mutex = "keeper" => todo \subseteq clients
  /\ joining # NoClient => joining \notin clients /\ mutex \in {"main", "keeper"}

\* The code that on_client_disconnected inlines from transition_to_local
\* (server.cpp:218-230) is never reached: whoever took a client that was active
\* out of the map did so in this very call, which does not survive it, or holds
\* the lock waiting for this thread.  Nor does remove_client there ever find the
\* client in the layout.
NothingToRestore == \A c \in ClientId : pc[c] = "forget" => ~wasActive[c]
NothingToForget  == \A c \in ClientId : pc[c] = "forget" => c \notin Ids(layout)
DisconnectFindsNothing == NothingToRestore /\ NothingToForget

\* When stop() returns no thread of the server is left that could call back into
\* the object, even if it stopped half-way through start().
StoppedMeansQuiet ==
  pc["main"] = "stopped" =>
    /\ pc["accept"] = "off" /\ pc["hook"] = "off" /\ pc["keeper"] = "off" /\ mutex = Free
    /\ \A c \in ClientId : pc[c] \in {"none", "exit"}

\* Keys reach a client only between its SCREEN_ENTER and its SCREEN_LEAVE.
KeysFollowEnter ==
  [][ pc["hook"] = "key" /\ pc'["hook"] = "idle" /\ active \in clients /\ connected[active]
        => view[active] = "in" ]_vars

\* The thread that holds the lock and joins waits for a thread that needs the
\* lock: neither will ever move again.
Wedged == joining # NoClient /\ pc[joining] \in {"recv", "hello", "keepalive", "erase"}

Dead == fate # "running" \/ Wedged

\* The escape hotkey always gets the input back: transition_to_local is not held
\* up for ever by the other users of the lock.
EscapeWorks ==
  pc["hook"] = "leave" ~> (pc["hook"] = "idle" /\ ~suppress) \/ pc["hook"] = "off" \/ Dead

\* stop() returns, from any point of the life of the server at which it is called.
StopReturns == pc["main"] = "joinHook" ~> pc["main"] = "stopped" \/ Dead

\* A connection that broke does not keep its entry: the recv thread or, where
\* that ended without a word, the keepalive timeout takes it out.
BrokenIsDropped ==
  \A c \in ClientId : link[c] = "broken" /\ c \in clients ~> c \notin clients \/ Dead

\* The server is a ScreenSwitch: the input goes straight from one client to
\* another never, and to a client only while the server holds its connection.
Switch == INSTANCE ScreenSwitch WITH
            Client <- ClientId, Local <- NoClient, present <- clients,
            owner <- IF state = "CLIENT_ACTIVE" THEN active ELSE NoClient
SwitchSpec == Switch!Spec

-------------------------------------------------------------------------------
(* What the repository says and the code does not do (README, section 4).   *)

\* server.cpp:229 "[Server] Switched to local (client disconnected)": when the
\* active client's connection is found broken, input comes back to the server.
DisconnectSwitchesToLocal ==
  \A c \in ClientId : pc[c] = "erase" /\ wasActive[c] ~> ~suppress /\ state = "LOCAL_ACTIVE"

\* server.h:22 "LOCAL_ACTIVE,   // Input goes to local machine".
LocalInputIsLocal == Quiet /\ state = "LOCAL_ACTIVE" => ~suppress

\* server.cpp:155 "Handle DISCONNECT outside the lock to avoid deadlock": no
\* thread waits, holding the lock, for on_client_disconnected to take it.
NoJoinDeadlock == joining # NoClient => pc[joining] # "erase"
===============================================================================
