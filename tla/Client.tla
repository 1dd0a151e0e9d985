-------------------------------- MODULE Client --------------------------------
(***************************************************************************)
(* The client of src/core/client.{h,cpp} with the TcpConnection and the    *)
(* UdpChannel it owns, at the grain at which its threads see one another:  *)
(*                                                                         *)
(*   "main"       the caller of connect() and disconnect()                 *)
(*   "recv"       recv_loop of tcp_: on_server_message,                    *)
(*                on_server_disconnected                                   *)
(*   "udp"        recv_loop of udp_: on_udp_message                        *)
(*   "keeper"     keepalive_loop                                           *)
(*   "reconnect"  reconnect_loop                                           *)
(*                                                                         *)
(* The client has no lock.  The server is what it may legally send.        *)
(***************************************************************************)
EXTENDS Integers, Sequences

CONSTANTS MaxInbox,       \* bound: messages on the connection not yet read
          MaxMoves        \* bound: datagrams under way

ASSUME BoundsAssumption == MaxInbox \in Nat /\ MaxMoves \in Nat

Thread == {"main", "recv", "udp", "keeper", "reconnect"}

VARIABLES
  fate,        \* "running", or what made the process abort
  state,       \* state_
  undone,      \* history: the ACTIVE that the recv thread wrote last has been
               \* written over by another thread
  running,     \* running_
  auto,        \* auto_reconnect_
  link,        \* the socket of tcp_
  connected,   \* tcp_.connected_
  held,        \* tcp_.recv_thread_ is a thread to join
  rcHeld,      \* reconnect_thread_ is a thread to join
  port,        \* what udp_ is bound to; the server sends to "default" only
  udpRunning,  \* udp_.running_
  udpHeld,     \* udp_.recv_thread_ is a thread to join
  pc,          \* where each thread is
  peer,        \* the server's side of the connection
  inbox,       \* what the server has sent on it and nobody has read
  moves        \* datagrams under way to the default port

vars == <<fate, state, undone, running, auto, link, connected, held, rcHeld, port, udpRunning,
          udpHeld, pc, peer, inbox, moves>>

viewVars == <<state, undone>>
flagVars == <<running, auto>>
tcpVars  == <<link, connected, held>>
udpVars  == <<port, udpRunning, udpHeld>>
netVars  == <<peer, inbox, moves>>

MainPc == {"init", "bind", "receive", "hold", "udp", "holdUdp", "hello", "run", "state", "keeper",
           "up", "quit", "bye", "closeTcp", "joinRecv", "closeUdp", "joinUdp", "joinReconnect",
           "joinKeeper", "setGone", "done"}
RecvPc == {"off", "loop", "recv", "close", "closeUdp", "joinUdp", "decide", "spawn", "return"}
UdpPc  == {"off", "loop", "recv", "inject"}
KeeperPc == {"off", "test", "sleep"}
ReconnectPc == {"off", "test", "sleep", "dial", "move", "closeUdp", "joinUdp", "rebind", "receive",
                "hold", "udp", "holdUdp", "hello", "set"}
Message == {"ack", "reject", "enter", "key", "leave", "disconnect"}

TypeOK ==
  /\ fate \in {"running", "selfJoin", "joinedTwice", "overwritten"}
  /\ state \in {"DISCONNECTED", "CONNECTED", "ACTIVE", "RECONNECTING"}
  /\ undone \in BOOLEAN /\ running \in BOOLEAN /\ auto \in BOOLEAN /\ connected \in BOOLEAN
  /\ held \in BOOLEAN /\ rcHeld \in BOOLEAN /\ udpRunning \in BOOLEAN /\ udpHeld \in BOOLEAN
  /\ link \in {"none", "open", "broken", "closed"}
  /\ port \in {"none", "default", "other", "closed"}
  /\ pc \in [Thread -> MainPc \cup RecvPc \cup UdpPc \cup KeeperPc \cup ReconnectPc]
  /\ pc["main"] \in MainPc /\ pc["recv"] \in RecvPc /\ pc["udp"] \in UdpPc
  /\ pc["keeper"] \in KeeperPc /\ pc["reconnect"] \in ReconnectPc
  /\ peer \in {"none", "new", "out", "in", "gone"}
  /\ inbox \in Seq(Message) /\ moves \in 0 .. MaxMoves

Init ==
  /\ fate = "running" /\ state = "DISCONNECTED" /\ undone = FALSE
  /\ running = FALSE /\ auto = TRUE
  /\ link = "none" /\ connected = FALSE /\ held = FALSE /\ rcHeld = FALSE
  /\ port = "none" /\ udpRunning = FALSE /\ udpHeld = FALSE
  /\ pc = [t \in Thread |-> IF t = "main" THEN "init" ELSE "off"]
  /\ peer = "none" /\ inbox = <<>> /\ moves = 0

-------------------------------------------------------------------------------
(* What the steps are made of.                                               *)

At(t, label) == fate = "running" /\ pc[t] = label

Goto(t, label) == pc' = [pc EXCEPT ![t] = label]

Spawn(t, label, u, first) == pc' = [pc EXCEPT ![t] = label, ![u] = first]

\* Steps that change nothing but where threads are.
Idle == UNCHANGED <<fate, viewVars, flagVars, tcpVars, rcHeld, udpVars, netVars>>
Passes(t, label, next) == At(t, label) /\ Goto(t, next) /\ Idle
Starts(t, label, next, u, first) == At(t, label) /\ Spawn(t, next, u, first) /\ Idle

\* tcp_.send fails on a socket that is gone, may fail on one the server has
\* left, and then clears connected_.
Send(ok) ==
  /\ ok \/ link # "open"
  /\ ok => link \in {"open", "broken"}
  /\ connected' = (connected /\ ok)

\* A fresh connection is told HELLO: from then on the server may talk.
Hello(ok) == Send(ok) /\ peer' = IF ok THEN "new" ELSE peer

\* The recv thread writes state_, or another thread does and does not look.
RecvWrites(s) == state' = s /\ undone' = FALSE
WritesOver(s) == state' = s /\ undone' = (undone \/ state = "ACTIVE")

CloseTcp == /\ connected' = FALSE
            /\ link' = IF link = "none" THEN link ELSE "closed"

CloseUdp == /\ udpRunning' = FALSE
            /\ port' = IF port = "none" THEN port ELSE "closed"
            /\ UNCHANGED udpHeld

\* The second half of udp_.close().
JoinUdp == /\ udpHeld => pc["udp"] = "off"
           /\ udpHeld' = FALSE
           /\ UNCHANGED <<port, udpRunning>>

-------------------------------------------------------------------------------
(* The server and the network.                                               *)

\* On one connection: HELLO_ACK first, keys between SCREEN_ENTER and SCREEN_LEAVE.
ServerSends(m) ==
  /\ fate = "running" /\ link = "open" /\ Len(inbox) < MaxInbox
  /\ \/ peer = "new" /\ m = "ack"    /\ peer' = "out"
     \/ peer = "new" /\ m = "reject" /\ peer' = "gone"
     \/ peer = "out" /\ m = "enter"  /\ peer' = "in"
     \/ peer = "in"  /\ m = "key"    /\ peer' = "in"
     \/ peer = "in"  /\ m = "leave"  /\ peer' = "out"
     \/ peer \in {"out", "in"} /\ m = "disconnect" /\ peer' = "gone"
  /\ inbox' = Append(inbox, m)
  /\ UNCHANGED <<fate, viewVars, flagVars, tcpVars, rcHeld, udpVars, pc, moves>>

ServerMoves ==
  /\ fate = "running" /\ peer = "in" /\ moves < MaxMoves
  /\ moves' = moves + 1
  /\ UNCHANGED <<fate, viewVars, flagVars, tcpVars, rcHeld, udpVars, pc, peer, inbox>>

MoveLost ==
  /\ fate = "running" /\ moves > 0
  /\ moves' = moves - 1
  /\ UNCHANGED <<fate, viewVars, flagVars, tcpVars, rcHeld, udpVars, pc, peer, inbox>>

LinkBreaks ==
  /\ fate = "running" /\ link = "open"
  /\ link' = "broken"
  /\ UNCHANGED <<fate, viewVars, flagVars, connected, held, rcHeld, udpVars, pc, netVars>>

-------------------------------------------------------------------------------
(* connect().                                                                *)

\* A connect() that gives up leaves the object to its destructor: disconnect().
ConnectDials(ok) ==
  /\ At("main", "init")
  /\ link' = IF ok THEN "open" ELSE "none"
  /\ connected' = ok
  /\ Goto("main", IF ok THEN "bind" ELSE "quit")
  /\ UNCHANGED <<fate, viewVars, flagVars, held, rcHeld, udpVars, netVars>>

\* The default port, any other when that is taken, or none.
ConnectBinds(p) ==
  /\ At("main", "bind")
  /\ \/ p # "none" /\ Goto("main", "receive") /\ UNCHANGED <<link, connected>>
     \/ p = "none" /\ Goto("main", "quit") /\ CloseTcp
  /\ port' = p
  /\ UNCHANGED <<fate, viewVars, flagVars, held, rcHeld, udpRunning, udpHeld, netVars>>

\* start_receive: the thread runs before its handle is in recv_thread_.
ConnectReceives == Starts("main", "receive", "hold", "recv", "loop")

ConnectHolds ==
  /\ At("main", "hold")
  /\ held' = TRUE
  /\ Goto("main", "udp")
  /\ UNCHANGED <<fate, viewVars, flagVars, link, connected, rcHeld, udpVars, netVars>>

ConnectReceivesUdp ==
  /\ At("main", "udp")
  /\ udpRunning' = TRUE
  /\ Spawn("main", "holdUdp", "udp", "loop")
  /\ UNCHANGED <<fate, viewVars, flagVars, tcpVars, rcHeld, port, udpHeld, netVars>>

ConnectHoldsUdp ==
  /\ At("main", "holdUdp")
  /\ udpHeld' = TRUE
  /\ Goto("main", "hello")
  /\ UNCHANGED <<fate, viewVars, flagVars, tcpVars, rcHeld, port, udpRunning, netVars>>

ConnectSaysHello(ok) ==
  /\ At("main", "hello")
  /\ Hello(ok)
  /\ Goto("main", "run")
  /\ UNCHANGED <<fate, viewVars, flagVars, link, held, rcHeld, udpVars, inbox, moves>>

ConnectRuns ==
  /\ At("main", "run")
  /\ running' = TRUE
  /\ Goto("main", "state")
  /\ UNCHANGED <<fate, viewVars, auto, tcpVars, rcHeld, udpVars, netVars>>

\* Whatever the recv thread has made of state_ by now is overwritten.
ConnectSets ==
  /\ At("main", "state")
  /\ WritesOver("CONNECTED")
  /\ Goto("main", "keeper")
  /\ UNCHANGED <<fate, flagVars, tcpVars, rcHeld, udpVars, netVars>>

ConnectEnds == Starts("main", "keeper", "up", "keeper", "test")

-------------------------------------------------------------------------------
(* disconnect().                                                             *)

UserQuits == Passes("main", "up", "quit")

\* Mutant: a disconnect() that does not clear running_.
QuitKeepsRunning ==
  /\ At("main", "quit")
  /\ auto' = FALSE
  /\ Goto("main", "bye")
  /\ UNCHANGED <<fate, viewVars, running, tcpVars, rcHeld, udpVars, netVars>>

QuitBegins ==
  /\ At("main", "quit")
  /\ running' = FALSE /\ auto' = FALSE
  /\ Goto("main", "bye")
  /\ UNCHANGED <<fate, viewVars, tcpVars, rcHeld, udpVars, netVars>>

QuitSaysBye(ok) ==
  /\ At("main", "bye")
  /\ \/ connected /\ Send(ok)
     \/ ~connected /\ ok /\ UNCHANGED connected
  /\ Goto("main", "closeTcp")
  /\ UNCHANGED <<fate, viewVars, flagVars, link, held, rcHeld, udpVars, netVars>>

QuitClosesTcp ==
  /\ At("main", "closeTcp")
  /\ CloseTcp
  /\ Goto("main", "joinRecv")
  /\ UNCHANGED <<fate, viewVars, flagVars, held, rcHeld, udpVars, netVars>>

QuitJoinsRecv ==
  /\ At("main", "joinRecv") /\ (held => pc["recv"] = "off")
  /\ held' = FALSE
  /\ Goto("main", "closeUdp")
  /\ UNCHANGED <<fate, viewVars, flagVars, link, connected, rcHeld, udpVars, netVars>>

QuitClosesUdp ==
  /\ At("main", "closeUdp")
  /\ CloseUdp
  /\ Goto("main", "joinUdp")
  /\ UNCHANGED <<fate, viewVars, flagVars, tcpVars, rcHeld, netVars>>

QuitJoinsUdp ==
  /\ At("main", "joinUdp")
  /\ JoinUdp
  /\ Goto("main", "joinReconnect")
  /\ UNCHANGED <<fate, viewVars, flagVars, tcpVars, rcHeld, netVars>>

\* Mutant: reconnect_thread_ left to itself.
QuitLeavesReconnect == Passes("main", "joinReconnect", "joinKeeper")

QuitJoinsReconnect ==
  /\ At("main", "joinReconnect") /\ (rcHeld => pc["reconnect"] = "off")
  /\ rcHeld' = FALSE
  /\ Goto("main", "joinKeeper")
  /\ UNCHANGED <<fate, viewVars, flagVars, tcpVars, udpVars, netVars>>

QuitJoinsKeeper == Passes("main", "joinKeeper", "setGone") /\ pc["keeper"] = "off"

QuitEnds ==
  /\ At("main", "setGone")
  /\ WritesOver("DISCONNECTED")
  /\ Goto("main", "done")
  /\ UNCHANGED <<fate, flagVars, tcpVars, rcHeld, udpVars, netVars>>

-------------------------------------------------------------------------------
(* recv_loop of tcp_, on_server_message and on_server_disconnected.          *)

RecvTests == Passes("recv", "loop", IF connected THEN "recv" ELSE "off")

\* A reset may cost messages that had already arrived.
RecvFails ==
  /\ At("recv", "recv") /\ link \in {"broken", "closed"}
  /\ connected' = FALSE
  /\ RecvWrites("DISCONNECTED")
  /\ Goto("recv", "close")
  /\ UNCHANGED <<fate, flagVars, link, held, rcHeld, udpVars, netVars>>

Arrives(m) == /\ At("recv", "recv") /\ link \in {"open", "broken"}
              /\ inbox # <<>> /\ Head(inbox) = m
              /\ inbox' = Tail(inbox)

\* HELLO_ACK, and keys and buttons, which go to the system whatever state_ is.
RecvPasses(m) ==
  /\ m \in {"ack", "key"} /\ Arrives(m)
  /\ Goto("recv", "loop")
  /\ UNCHANGED <<fate, viewVars, flagVars, tcpVars, rcHeld, udpVars, peer, moves>>

\* Mutant: SCREEN_ENTER that moves the cursor and leaves state_ alone.
RecvEntersUnseen ==
  /\ Arrives("enter")
  /\ Goto("recv", "loop")
  /\ UNCHANGED <<fate, viewVars, flagVars, tcpVars, rcHeld, udpVars, peer, moves>>

RecvEnters ==
  /\ Arrives("enter")
  /\ RecvWrites("ACTIVE")
  /\ Goto("recv", "loop")
  /\ UNCHANGED <<fate, flagVars, tcpVars, rcHeld, udpVars, peer, moves>>

\* Mutant: SCREEN_LEAVE that leaves state_ alone.
RecvLeavesUnseen ==
  /\ Arrives("leave")
  /\ Goto("recv", "loop")
  /\ UNCHANGED <<fate, viewVars, flagVars, tcpVars, rcHeld, udpVars, peer, moves>>

RecvLeaves ==
  /\ Arrives("leave")
  /\ RecvWrites("CONNECTED")
  /\ Goto("recv", "loop")
  /\ UNCHANGED <<fate, flagVars, tcpVars, rcHeld, udpVars, peer, moves>>

RecvDisconnected ==
  /\ Arrives("disconnect")
  /\ RecvWrites("DISCONNECTED")
  /\ Goto("recv", "close")
  /\ UNCHANGED <<fate, flagVars, tcpVars, rcHeld, udpVars, peer, moves>>

\* A HELLO_ACK that says no: disconnect() on the thread that tcp_.close() joins.
RecvRejected ==
  /\ Arrives("reject")
  /\ running' = FALSE /\ auto' = FALSE
  /\ CloseTcp
  /\ fate' = "selfJoin"
  /\ UNCHANGED <<viewVars, held, rcHeld, udpVars, pc, peer, moves>>

\* tcp_.close() in on_server_disconnected joins the thread it runs on, unless
\* start_receive has not come to store the handle yet.
RecvCloses ==
  /\ At("recv", "close")
  /\ CloseTcp
  /\ \/ held /\ fate' = "selfJoin" /\ UNCHANGED pc
     \/ ~held /\ Goto("recv", "closeUdp") /\ UNCHANGED fate
  /\ UNCHANGED <<viewVars, flagVars, held, rcHeld, udpVars, netVars>>

RecvClosesUdp ==
  /\ At("recv", "closeUdp")
  /\ CloseUdp
  /\ Goto("recv", "joinUdp")
  /\ UNCHANGED <<fate, viewVars, flagVars, tcpVars, rcHeld, netVars>>

RecvJoinsUdp ==
  /\ At("recv", "joinUdp")
  /\ JoinUdp
  /\ Goto("recv", "decide")
  /\ UNCHANGED <<fate, viewVars, flagVars, tcpVars, rcHeld, netVars>>

RecvDecides ==
  /\ At("recv", "decide")
  /\ \/ auto /\ running /\ RecvWrites("RECONNECTING") /\ Goto("recv", "spawn")
     \/ ~(auto /\ running) /\ Goto("recv", "off") /\ UNCHANGED viewVars
  /\ UNCHANGED <<fate, flagVars, tcpVars, rcHeld, udpVars, netVars>>

\* Assigning to a std::thread that has not been joined ends the process.
RecvReconnects ==
  /\ At("recv", "spawn")
  /\ \/ rcHeld /\ fate' = "overwritten" /\ UNCHANGED <<rcHeld, pc>>
     \/ ~rcHeld /\ rcHeld' = TRUE /\ Spawn("recv", "return", "reconnect", "test")
        /\ UNCHANGED fate
  /\ UNCHANGED <<viewVars, flagVars, tcpVars, udpVars, netVars>>

RecvReturns == Passes("recv", "return", "off")

-------------------------------------------------------------------------------
(* recv_loop of udp_, on_udp_message, keepalive_loop.                        *)

UdpTests == Passes("udp", "loop", IF udpRunning THEN "recv" ELSE "off")

UdpFails == Passes("udp", "recv", "loop") /\ port \in {"none", "closed"}

\* Mutant: recvfrom's result is not looked at.
UdpReceivesNothing ==
  /\ At("udp", "recv") /\ port = "default"
  /\ moves' = moves - 1
  /\ Goto("udp", IF state = "ACTIVE" THEN "inject" ELSE "loop")
  /\ UNCHANGED <<fate, viewVars, flagVars, tcpVars, rcHeld, udpVars, peer, inbox>>

UdpReceives ==
  /\ At("udp", "recv") /\ port = "default" /\ moves > 0
  /\ moves' = moves - 1
  /\ Goto("udp", IF state = "ACTIVE" THEN "inject" ELSE "loop")
  /\ UNCHANGED <<fate, viewVars, flagVars, tcpVars, rcHeld, udpVars, peer, inbox>>

UdpInjects == Passes("udp", "inject", "loop")

KeeperTests == Passes("keeper", "test", IF running THEN "sleep" ELSE "off")

KeeperBeats(ok) ==
  /\ At("keeper", "sleep")
  /\ \/ connected /\ Send(ok)
     \/ ~connected /\ ok /\ UNCHANGED connected
  /\ Goto("keeper", "test")
  /\ UNCHANGED <<fate, viewVars, flagVars, link, held, rcHeld, udpVars, netVars>>

-------------------------------------------------------------------------------
(* reconnect_loop.                                                           *)

ReconnectTests ==
  Passes("reconnect", "test",
         IF running /\ auto /\ state = "RECONNECTING" THEN "sleep" ELSE "off")

ReconnectWakes == Passes("reconnect", "sleep", IF running /\ auto THEN "dial" ELSE "off")

ReconnectDials(ok) == Passes("reconnect", "dial", IF ok THEN "move" ELSE "test")

\* Mutant: a move assignment that does not close what it replaces.
ReconnectReplaces ==
  /\ At("reconnect", "move")
  /\ link' = "open" /\ connected' = TRUE /\ held' = FALSE
  /\ peer' = "none" /\ inbox' = <<>>
  /\ Goto("reconnect", "closeUdp")
  /\ UNCHANGED <<fate, viewVars, flagVars, rcHeld, udpVars, moves>>

\* tcp_ = std::move(new_tcp): the old one, which the recv thread has closed, joins
\* its thread and takes over.
ReconnectMoves ==
  /\ At("reconnect", "move") /\ (held => pc["recv"] = "off")
  /\ link' = "open" /\ connected' = TRUE /\ held' = FALSE
  /\ peer' = "none" /\ inbox' = <<>>
  /\ Goto("reconnect", "closeUdp")
  /\ UNCHANGED <<fate, viewVars, flagVars, rcHeld, udpVars, moves>>

ReconnectClosesUdp ==
  /\ At("reconnect", "closeUdp")
  /\ CloseUdp
  /\ Goto("reconnect", "joinUdp")
  /\ UNCHANGED <<fate, viewVars, flagVars, tcpVars, rcHeld, netVars>>

ReconnectJoinsUdp ==
  /\ At("reconnect", "joinUdp")
  /\ JoinUdp
  /\ Goto("reconnect", "rebind")
  /\ UNCHANGED <<fate, viewVars, flagVars, tcpVars, rcHeld, netVars>>

\* udp_ is made anew, on whatever port is free; nobody looks whether there is one.
ReconnectRebinds(p) ==
  /\ At("reconnect", "rebind")
  /\ port' = p /\ udpRunning' = FALSE
  /\ Goto("reconnect", "receive")
  /\ UNCHANGED <<fate, viewVars, flagVars, tcpVars, rcHeld, udpHeld, netVars>>

ReconnectReceives == Starts("reconnect", "receive", "hold", "recv", "loop")

ReconnectHolds ==
  /\ At("reconnect", "hold")
  /\ held' = TRUE
  /\ Goto("reconnect", "udp")
  /\ UNCHANGED <<fate, viewVars, flagVars, link, connected, rcHeld, udpVars, netVars>>

ReconnectReceivesUdp ==
  /\ At("reconnect", "udp")
  /\ udpRunning' = TRUE
  /\ Spawn("reconnect", "holdUdp", "udp", "loop")
  /\ UNCHANGED <<fate, viewVars, flagVars, tcpVars, rcHeld, port, udpHeld, netVars>>

ReconnectHoldsUdp ==
  /\ At("reconnect", "holdUdp")
  /\ udpHeld' = TRUE
  /\ Goto("reconnect", "hello")
  /\ UNCHANGED <<fate, viewVars, flagVars, tcpVars, rcHeld, port, udpRunning, netVars>>

ReconnectSaysHello(ok) ==
  /\ At("reconnect", "hello")
  /\ Hello(ok)
  /\ Goto("reconnect", "set")
  /\ UNCHANGED <<fate, viewVars, flagVars, link, held, rcHeld, udpVars, inbox, moves>>

ReconnectSets ==
  /\ At("reconnect", "set")
  /\ WritesOver("CONNECTED")
  /\ Goto("reconnect", "off")
  /\ UNCHANGED <<fate, flagVars, tcpVars, rcHeld, udpVars, netVars>>

\* Two threads that join the same third: undefined.  Both return when it has ended,
\* or the later one throws.
JoinedTwice ==
  /\ fate = "running"
  /\ \/ held /\ pc["recv"] # "off" /\ pc["main"] = "joinRecv" /\ pc["reconnect"] = "move"
     \/ /\ udpHeld /\ pc["udp"] # "off"
        /\ \E t, u \in {"main", "recv", "reconnect"} :
             t # u /\ pc[t] = "joinUdp" /\ pc[u] = "joinUdp"
  /\ fate' = "joinedTwice"
  /\ UNCHANGED <<viewVars, flagVars, tcpVars, rcHeld, udpVars, pc, netVars>>

-------------------------------------------------------------------------------
ConnectStep == \/ ConnectReceives \/ ConnectHolds \/ ConnectReceivesUdp \/ ConnectHoldsUdp
               \/ ConnectRuns
               \/ ConnectSets \/ ConnectEnds
               \/ \E ok \in BOOLEAN : ConnectDials(ok) \/ ConnectSaysHello(ok)
               \/ \E p \in {"default", "other", "none"} : ConnectBinds(p)

QuitStep == \/ QuitBegins \/ QuitClosesTcp \/ QuitJoinsRecv \/ QuitClosesUdp \/ QuitJoinsUdp
            \/ QuitJoinsReconnect \/ QuitJoinsKeeper \/ QuitEnds
            \/ \E ok \in BOOLEAN : QuitSaysBye(ok)

RecvStep == \/ RecvTests \/ RecvFails \/ RecvEnters \/ RecvLeaves \/ RecvDisconnected
            \/ RecvRejected \/ RecvCloses \/ RecvClosesUdp \/ RecvJoinsUdp \/ RecvDecides
            \/ RecvReconnects \/ RecvReturns
            \/ \E m \in {"ack", "key"} : RecvPasses(m)

UdpStep == UdpTests \/ UdpFails \/ UdpReceives \/ UdpInjects

KeeperStep == KeeperTests \/ \E ok \in BOOLEAN : KeeperBeats(ok)

ReconnectStep == \/ ReconnectTests \/ ReconnectWakes \/ ReconnectMoves \/ ReconnectClosesUdp
                 \/ ReconnectJoinsUdp \/ ReconnectReceives \/ ReconnectHolds
                 \/ ReconnectReceivesUdp \/ ReconnectHoldsUdp \/ ReconnectSets
                 \/ \E p \in {"other", "none"} : ReconnectRebinds(p)
                 \/ \E ok \in BOOLEAN : ReconnectDials(ok) \/ ReconnectSaysHello(ok)

Network == \/ \E m \in Message : ServerSends(m)
           \/ ServerMoves \/ MoveLost \/ LinkBreaks

Next == \/ ConnectStep \/ UserQuits \/ QuitStep \/ RecvStep \/ UdpStep \/ KeeperStep
        \/ ReconnectStep \/ JoinedTwice \/ Network

Spec == Init /\ [][Next]_vars

\* Progress: every thread that can go on does, none needs another's leave to.
Fairness == /\ WF_vars(ConnectStep) /\ WF_vars(QuitStep) /\ WF_vars(RecvStep)
            /\ WF_vars(UdpStep) /\ WF_vars(KeeperStep) /\ WF_vars(ReconnectStep)

FairSpec == Spec /\ Fairness

-------------------------------------------------------------------------------
(* What should hold.                                                         *)

\* Client and server agree on who has the input whenever everything the server
\* sent has been read: client.h:21, ACTIVE is receiving input.  It is exactly when
\* connect(), reconnect_loop or disconnect() has written over the ACTIVE of the recv
\* thread, which has no lock to keep them out, that they do not (client.cpp:78).
AtRest == /\ fate = "running" /\ link = "open" /\ inbox = <<>>
          /\ pc["recv"] = "recv"
ActiveIsEntered == AtRest => (state = "ACTIVE") = (peer = "in" /\ ~undone)

\* A key or a button that the client hands to its system finds state_ ACTIVE, or
\* written over: on_server_message does not test it (client.cpp:164).
ReadsKey == /\ pc["recv"] = "recv" /\ inbox # <<>> /\ Head(inbox) = "key"
            /\ inbox' = Tail(inbox)
KeysWhenActive == [][ ReadsKey => state = "ACTIVE" \/ undone ]_vars

\* When connections are exchanged under a thread's feet, that thread has ended:
\* tcp_ and udp_ never have two receiving threads.
OneReceiver == /\ pc["reconnect"] \in {"closeUdp", "joinUdp", "rebind", "receive"}
                    => pc["recv"] = "off"
               /\ pc["reconnect"] \in {"rebind", "receive", "hold", "udp"} => pc["udp"] = "off"

\* disconnect() leaves no thread that dials or beats, even when the connection
\* was lost while it ran, unless reconnect_loop has given tcp_ a new thread behind
\* its back.
QuitEndsWorkers ==
  pc["main"] = "done" => /\ pc["keeper"] = "off" /\ ~running
                         /\ ~held => pc["reconnect"] = "off"

\* A disconnect() that has nobody to wake on the connection, because the receiver
\* has ended and reconnect_loop is not dialling, ends all threads and returns.
QuitReturns ==
  /\ pc["main"] = "bye" /\ pc["recv"] \in {"off", "return"}
  /\ pc["reconnect"] \in {"off", "test", "sleep"}
  ~> pc["main"] = "done"

-------------------------------------------------------------------------------
(* What the repository says and the code does not do (README, section 4).   *)

\* client.h:21, ACTIVE: "Receiving and injecting input".  A client that has been
\* entered and has read it is ACTIVE.
EnteredClientIsActive == AtRest /\ peer = "in" => state = "ACTIVE"

\* client.cpp:110, the end of disconnect(): "[Client] Disconnected".  A disconnect()
\* that finds the connection in order, and its receiver waiting, gets there.
QuitAlwaysReturns ==
  pc["main"] = "closeTcp" /\ link = "open" /\ pc["recv"] = "recv" ~> pc["main"] = "done"

\* client.h:47, auto_reconnect_: "Enable auto-reconnect".  A running client that
\* loses its connection comes to dial again, unless it is told to disconnect.
LostIsRedialled ==
  pc["recv"] = "close" /\ running /\ auto ~> pc["reconnect"] = "dial" \/ ~running
===============================================================================
