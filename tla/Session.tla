-------------------------------- MODULE Session --------------------------------
(***************************************************************************)
(* A server and its clients together (src/core/server.cpp, client.cpp),    *)
(* over what connects them: per client a TCP stream with room for so many  *)
(* messages, and the UDP target of mouse moves.                            *)
(*                                                                         *)
(* Server shows the server's threads against one another and takes sends   *)
(* for granted; here a handler is as coarse as clients_mutex_ allows, but  *)
(* a send waits for room in the stream, holding the mutex, as send_raw     *)
(* does on a blocking socket.  A handler that sends is begun (lock, look   *)
(* up, decide what to send), pushes its messages one by one, and ends.     *)
(* A client's handlers are single steps: nothing in them waits.            *)
(***************************************************************************)
EXTENDS Naturals, FiniteSetsExt, SequencesExt

CONSTANTS Conn,         \* connections, each the life of one client process
          Windows,      \* those whose client runs on Windows, not macOS
          Faulty,       \* those that may quit, lose the network, or stop reading
          Contents,     \* what the server's clipboard may hold, of {"text", "html"}
          Room,         \* bound: messages a stream takes before a send waits
          MaxKeys       \* bound: keys typed for a client and not yet injected

Service == {"hook", "keeper"}
Free    == "free"
NoConn == "none"

ASSUME ConnAssumption == (Service \cup {Free, NoConn}) \cap Conn = {}
ASSUME WindowsAssumption == Windows \subseteq Conn /\ Faulty \subseteq Conn
ASSUME SessionBoundsAssumption == Room \in Nat \ {0} /\ MaxKeys \in Nat

VARIABLES
  fate,       \* "running", or what stopped the server: "selfJoin", "wedged"
  active,     \* active_client_id_; state_ is CLIENT_ACTIVE exactly when it is set
  suppress,   \* local input is swallowed
  clients,    \* keys of clients_
  layout,     \* clients with an entry in layout_
  content,    \* the server's clipboard
  mutex,      \* who holds clients_mutex_
  to, out,    \* the connection the holder is sending on, and what it has yet to send
  hook,       \* where the capture thread is: what it is doing or waiting to do
  target,     \* transition_to_client's argument
  todo,       \* entries keepalive_loop has not come to in this round
  receiving,  \* connections whose recv thread runs on the server
  greeting,   \* those whose HELLO the server has not read
  connected,  \* TcpConnection::connected_ on the server's side
  link,       \* the TCP connection
  down,       \* what the server has sent and the client not read
  process,    \* state_ of the client process, or whether there is one
  paste,      \* the client's clipboard
  owed        \* history: the keys typed for each client and not yet injected there

vars == <<fate, active, suppress, clients, layout, content, mutex, to, out, hook, target,
          todo, receiving, greeting, connected, link, down, process, paste,
          owed>>

switchVars == <<active, suppress>>
lockVars   == <<mutex, to, out>>
hookVars   == <<hook, target, content>>
recvVars   == <<receiving, greeting>>
clientVars == <<process, paste>>

\* A message is a tuple whose head is its type.
Message == {<<"other">>, <<"enter">>, <<"leave">>}
           \cup {<<"clip", what>> : what \in Contents} \cup {<<"key", n>> : n \in 1..MaxKeys}

TypeOK ==
  /\ fate \in {"running", "selfJoin", "wedged"}
  /\ active \in Conn \cup {NoConn}
  /\ target \in Conn \cup {NoConn}
  /\ suppress \in BOOLEAN
  /\ clients \subseteq Conn /\ layout \subseteq Conn /\ todo \subseteq Conn /\ greeting \subseteq Conn
  /\ receiving \subseteq Conn /\ connected \subseteq Conn
  /\ content \in Contents \cup {"none"}
  /\ mutex \in Conn \cup Service \cup {Free} /\ to \in Conn \cup {NoConn}
  /\ out \in Seq(Message)
  /\ hook \in {"idle", "enter", "key", "leave"}
  /\ link \in [Conn -> {"none", "open", "broken"}]
  /\ process \in [Conn -> {"none", "CONNECTED", "ACTIVE", "gone"}]
  /\ down \in [Conn -> Seq(Message)] /\ \A c \in Conn : Len(down[c]) <= Room
  /\ owed \in [Conn -> Seq(1..MaxKeys)]
  /\ paste \in [Conn -> Contents \cup {"own", "emptied"}]

Init ==
  /\ fate = "running" /\ active = NoConn /\ suppress = FALSE
  /\ clients = {} /\ layout = {} /\ content = "none"
  /\ mutex = Free /\ to = NoConn /\ out = <<>>
  /\ hook = "idle" /\ target = NoConn /\ todo = {}
  /\ receiving = {} /\ greeting = {} /\ connected = {}
  /\ link = [c \in Conn |-> "none"]
  /\ down = [c \in Conn |-> <<>>]
  /\ process = [c \in Conn |-> "none"] /\ paste = [c \in Conn |-> "own"]
  /\ owed = [c \in Conn |-> <<>>]

-------------------------------------------------------------------------------
(* What the steps are made of.                                               *)

Running == fate = "running"

\* Thread t takes the mutex, to send messages ms on c ...
Begin(t, c, ms) == mutex = Free /\ mutex' = t /\ to' = c /\ out' = ms

\* ... and lets go of it when all of them are in the stream or lost.
Ready(t) == mutex = t /\ out = <<>>
End(t)   == Ready(t) /\ mutex' = Free /\ to' = NoConn /\ out' = out

\* The way back: what transition_to_local, the timeout and the end of a
\* connection all do to the switch.
BackToLocal == active' = NoConn /\ suppress' = FALSE

-------------------------------------------------------------------------------
(* send_raw.                                                                 *)

\* Mutant: a non-blocking send that drops what does not fit.
PushOrDrop ==
  /\ Running /\ out # <<>>
  /\ link[to] = "open"
  /\ down' = IF Len(down[to]) < Room THEN [down EXCEPT ![to] = Append(@, Head(out))] ELSE down
  /\ out' = Tail(out)
  /\ UNCHANGED <<fate, switchVars, clients, layout, mutex, to, hookVars, todo, recvVars,
                 connected, link, clientVars, owed>>

Push ==
  /\ Running /\ out # <<>>
  /\ link[to] = "open" /\ Len(down[to]) < Room
  /\ down' = [down EXCEPT ![to] = Append(@, Head(out))]
  /\ out' = Tail(out)
  /\ UNCHANGED <<fate, switchVars, clients, layout, mutex, to, hookVars, todo, recvVars,
                 connected, link, clientVars, owed>>

\* On a connection the client has left, a send may be told, and clears connected_.
PushFails(told) ==
  /\ Running /\ out # <<>>
  /\ link[to] = "broken"
  /\ out' = Tail(out)
  /\ connected' = IF told THEN connected \ {to} ELSE connected
  /\ UNCHANGED <<fate, switchVars, clients, layout, mutex, to, hookVars, todo, recvVars,
                 link, down, clientVars, owed>>

-------------------------------------------------------------------------------
(* The server: accept_loop, on_client_connected, recv_loop, the handlers.    *)

\* A client process starts, connects and says HELLO; the server accepts.  (A HELLO
\* that overtakes the insertion is lost: see Server.  Here it does not.)
Connects(c) ==
  /\ Running /\ process[c] = "none" /\ mutex = Free
  /\ process' = [process EXCEPT ![c] = "CONNECTED"]
  /\ link' = [link EXCEPT ![c] = "open"]
  /\ receiving' = receiving \cup {c} /\ greeting' = greeting \cup {c}
  /\ connected' = connected \cup {c} /\ clients' = clients \cup {c}
  /\ UNCHANGED <<fate, switchVars, layout, lockVars, hookVars, todo, down, paste, owed>>

\* HELLO.
HelloBegins(c) ==
  /\ Running /\ c \in receiving \cap greeting \cap clients
  /\ Begin(c, c, << <<"other">> >>)
  /\ greeting' = greeting \ {c} /\ layout' = layout \cup {c}
  /\ UNCHANGED <<fate, switchVars, clients, hookVars, todo, receiving, connected, link, down,
                 clientVars, owed>>

HelloEnds(c) ==
  /\ Running /\ End(c)
  /\ UNCHANGED <<fate, switchVars, clients, layout, hookVars, todo, recvVars, connected,
                 link, down, clientVars, owed>>

\* The loop test of recv_loop finds connected_ cleared by a send that failed.
RecvStops(c) ==
  /\ Running /\ c \in receiving \ connected /\ mutex # c
  /\ receiving' = receiving \ {c}
  /\ UNCHANGED <<fate, switchVars, clients, layout, lockVars, hookVars, todo, greeting,
                 connected, link, down, clientVars, owed>>

\* DISCONNECT, or the connection is found broken: on_client_disconnected joins the
\* thread it runs on.  (It finds no entry to erase only before the insertion.)
RecvEnds(c) ==
  /\ Running /\ c \in receiving \cap clients /\ mutex = Free /\ link[c] = "broken"
  /\ fate' = "selfJoin"
  /\ UNCHANGED <<switchVars, clients, layout, lockVars, hookVars, todo, recvVars, connected, link,
                 down, clientVars, owed>>

-------------------------------------------------------------------------------
(* The capture thread.                                                       *)

UserCopies(what) ==
  /\ Running /\ hook = "idle" /\ active = NoConn
  /\ content' = what
  /\ UNCHANGED <<fate, switchVars, clients, layout, lockVars, hook, target, todo, recvVars,
                 connected, link, down, clientVars, owed>>

\* check_edge: which entry of the layout the cursor may hit is up to the edges the
\* screens have been dragged to (see ScreenLayout).
CursorHits(c) ==
  /\ Running /\ hook = "idle" /\ active = NoConn /\ c \in layout
  /\ target' = c
  /\ hook' = "enter"
  /\ UNCHANGED <<fate, switchVars, clients, layout, content, lockVars, todo, recvVars, connected,
                 link, down, clientVars, owed>>

\* What transition_to_client sends: the clipboard, if there is one, and SCREEN_ENTER.
Handover == IF content = "none" THEN << <<"enter">> >> ELSE << <<"clip", content>>, <<"enter">> >>

\* Mutant: the screen first, the clipboard when it is there.
EnterBeginsEager ==
  /\ Running /\ hook = "enter" /\ target \in clients
  /\ Begin("hook", target, Reverse(Handover))
  /\ UNCHANGED <<fate, switchVars, clients, layout, hookVars, todo, recvVars, connected,
                 link, down, clientVars, owed>>

\* Mutant: the client is looked up before the mutex is taken.
EnterBeginsUnchecked ==
  /\ Running /\ hook = "enter"
  /\ Begin("hook", target, Handover)
  /\ UNCHANGED <<fate, switchVars, clients, layout, hookVars, todo, recvVars, connected,
                 link, down, clientVars, owed>>

EnterBegins ==
  /\ Running /\ hook = "enter" /\ target \in clients
  /\ Begin("hook", target, Handover)
  /\ UNCHANGED <<fate, switchVars, clients, layout, hookVars, todo, recvVars, connected,
                 link, down, clientVars, owed>>

\* The layout may name a client that clients_ does not have (any more).
EnterFindsNobody ==
  /\ Running /\ hook = "enter" /\ target \notin clients /\ mutex = Free
  /\ hook' = "idle" /\ target' = NoConn
  /\ UNCHANGED <<fate, switchVars, clients, layout, content, lockVars, todo, recvVars,
                 connected, link, down, clientVars, owed>>

EnterEnds ==
  /\ Running /\ hook = "enter" /\ End("hook")
  /\ active' = target /\ suppress' = TRUE
  /\ hook' = "idle" /\ target' = NoConn
  /\ UNCHANGED <<fate, clients, layout, content, todo, recvVars, connected, link, down,
                 clientVars, owed>>

\* An event that goes by TCP, in CLIENT_ACTIVE.  Keys are told apart by a number
\* no other key under way has.
KeyTyped ==
  /\ Running /\ hook = "idle" /\ active # NoConn
  /\ \E n \in 1..MaxKeys \ Range(owed[active]) :
       /\ \A k \in 1..MaxKeys \ Range(owed[active]) : n <= k
       /\ owed' = [owed EXCEPT ![active] = Append(@, n)]
  /\ hook' = "key"
  /\ UNCHANGED <<fate, switchVars, clients, layout, target, content, lockVars, todo,
                 recvVars, connected, link, down, clientVars>>

KeyBegins ==
  /\ Running /\ hook = "key" /\ active \in clients
  /\ Begin("hook", active, << <<"key", Last(owed[active])>> >>)
  /\ UNCHANGED <<fate, switchVars, clients, layout, hookVars, todo, recvVars, connected,
                 link, down, clientVars, owed>>

KeyFindsNobody ==
  /\ Running /\ hook = "key" /\ active \notin clients /\ mutex = Free
  /\ hook' = "idle"
  /\ UNCHANGED <<fate, switchVars, clients, layout, target, content, lockVars, todo,
                 recvVars, connected, link, down, clientVars, owed>>

KeyEnds ==
  /\ Running /\ hook = "key" /\ End("hook")
  /\ hook' = "idle"
  /\ UNCHANGED <<fate, switchVars, clients, layout, target, content, todo, recvVars,
                 connected, link, down, clientVars, owed>>

\* The escape key gives the machine its input back before anything else.
Escape ==
  /\ Running /\ hook = "idle" /\ suppress
  /\ suppress' = FALSE
  /\ hook' = "leave"
  /\ UNCHANGED <<fate, active, clients, layout, target, content, lockVars, todo,
                 recvVars, connected, link, down, clientVars, owed>>

LeaveBegins ==
  /\ Running /\ hook = "leave" /\ active \in clients
  /\ Begin("hook", active, << <<"leave">> >>)
  /\ UNCHANGED <<fate, switchVars, clients, layout, hookVars, todo, recvVars, connected,
                 link, down, clientVars, owed>>

\* Mutant: input that comes back without being taken from the client.
LeaveForgets ==
  /\ Running /\ hook = "leave"
  /\ \/ End("hook")
     \/ active \notin clients /\ (active = NoConn \/ mutex = Free) /\ UNCHANGED lockVars
  /\ hook' = "idle"
  /\ UNCHANGED <<fate, switchVars, clients, layout, target, content, todo, recvVars, connected,
                 link, down, clientVars, owed>>

\* The end of transition_to_local; with nobody to tell, also the whole of it, and
\* with nobody active it does not even take the mutex.
LeaveEnds ==
  /\ Running /\ hook = "leave"
  /\ \/ End("hook")
     \/ active \notin clients /\ (active = NoConn \/ mutex = Free) /\ UNCHANGED lockVars
  /\ BackToLocal
  /\ hook' = "idle"
  /\ UNCHANGED <<fate, clients, layout, target, content, todo, recvVars, connected, link,
                 down, clientVars, owed>>

-------------------------------------------------------------------------------
(* keepalive_loop.                                                           *)

KeeperLocks ==
  /\ Running /\ Begin("keeper", NoConn, <<>>)
  /\ todo' = clients
  /\ UNCHANGED <<fate, switchVars, clients, layout, hookVars, recvVars, connected, link, down,
                 clientVars, owed>>

KeeperBeats(c) ==
  /\ Running /\ Ready("keeper") /\ c \in todo
  /\ to' = c /\ out' = << <<"other">> >>
  /\ todo' = todo \ {c}
  /\ UNCHANGED <<fate, switchVars, clients, layout, mutex, hookVars, recvVars, connected,
                 link, down, clientVars, owed>>

\* The destructor waits for the recv thread, which if it lives will wait for the
\* mutex; the layout keeps its entry.
KeeperExpires(c) ==
  /\ Running /\ Ready("keeper") /\ c \in todo
  /\ todo' = todo \ {c} /\ clients' = clients \ {c}
  /\ link' = [link EXCEPT ![c] = "broken"] /\ connected' = connected \ {c}
  /\ fate' = IF c \in receiving THEN "wedged" ELSE "running"
  /\ \/ active = c /\ BackToLocal
     \/ active # c /\ UNCHANGED switchVars
  /\ UNCHANGED <<layout, lockVars, hookVars, recvVars, down, clientVars, owed>>

KeeperUnlocks ==
  /\ Running /\ End("keeper") /\ todo = {}
  /\ UNCHANGED <<fate, switchVars, clients, layout, hookVars, todo, recvVars, connected, link,
                 down, clientVars, owed>>

-------------------------------------------------------------------------------
(* The clients.                                                              *)

Reads(c, type) ==
  /\ Running /\ process[c] \in {"CONNECTED", "ACTIVE"}
  /\ down[c] # <<>> /\ Head(down[c])[1] = type
  /\ down' = [down EXCEPT ![c] = Tail(@)]
  /\ UNCHANGED <<fate, switchVars, clients, layout, lockVars, hookVars, todo, recvVars,
                 connected, link>>

\* HELLO_ACK, KEEPALIVE.
ReadsNothing(c) ==
  /\ Reads(c, "other")
  /\ UNCHANGED <<process, paste, owed>>

\* set_content.  macOS takes any format; Windows does nothing while another program
\* has its clipboard open, else empties it, and then has nothing to do for HTML.
Pasted(c, what) == IF what = "html" /\ c \in Windows THEN "emptied" ELSE what

ReadsClipboard(c) ==
  /\ Reads(c, "clip")
  /\ \/ paste' = [paste EXCEPT ![c] = Pasted(c, Head(down[c])[2])]
     \/ c \in Windows /\ UNCHANGED paste
  /\ UNCHANGED <<process, owed>>

\* Mutant: SCREEN_ENTER that leaves state_ alone.
ReadsEnterUnseen(c) == Reads(c, "enter") /\ UNCHANGED <<process, paste, owed>>

ReadsEnter(c) ==
  /\ Reads(c, "enter")
  /\ process' = [process EXCEPT ![c] = "ACTIVE"]
  /\ UNCHANGED <<paste, owed>>

ReadsLeave(c) ==
  /\ Reads(c, "leave")
  /\ process' = [process EXCEPT ![c] = "CONNECTED"]
  /\ UNCHANGED <<paste, owed>>

ReadsKey(c) ==
  /\ Reads(c, "key")
  /\ owed' = [owed EXCEPT ![c] = RemoveFirst(@, Head(down[c])[2])]
  /\ UNCHANGED <<process, paste>>

\* disconnect().
Quits(c) ==
  /\ Running /\ c \in Faulty /\ process[c] \in {"CONNECTED", "ACTIVE"} /\ link[c] = "open"
  /\ link' = [link EXCEPT ![c] = "broken"] /\ down' = [down EXCEPT ![c] = <<>>]
  /\ process' = [process EXCEPT ![c] = "gone"]
  /\ UNCHANGED <<fate, switchVars, clients, layout, lockVars, hookVars, todo, recvVars,
                 connected, paste, owed>>

\* The network drops the connection, or the client process is killed.
LinkBreaks(c) ==
  /\ Running /\ c \in Faulty /\ link[c] = "open"
  /\ link' = [link EXCEPT ![c] = "broken"]
  /\ UNCHANGED <<fate, switchVars, clients, layout, lockVars, hookVars, todo, recvVars,
                 connected, down, clientVars, owed>>

\* on_server_disconnected ends the client's process (see Client).
LosesServer(c) ==
  /\ Running /\ process[c] \in {"CONNECTED", "ACTIVE"} /\ link[c] = "broken"
  /\ process' = [process EXCEPT ![c] = "gone"]
  /\ down' = [down EXCEPT ![c] = <<>>]
  /\ UNCHANGED <<fate, switchVars, clients, layout, lockVars, hookVars, todo, recvVars,
                 connected, link, paste, owed>>

-------------------------------------------------------------------------------
Sends == Push \/ \E told \in BOOLEAN : PushFails(told)

HookStep == \/ EnterBegins \/ EnterFindsNobody \/ EnterEnds
            \/ KeyBegins \/ KeyFindsNobody \/ KeyEnds \/ LeaveBegins \/ LeaveEnds

KeeperStep == \/ KeeperUnlocks
              \/ \E c \in Conn : KeeperBeats(c) \/ KeeperExpires(c)

RecvStep(c) == HelloBegins(c) \/ HelloEnds(c) \/ RecvStops(c) \/ RecvEnds(c)

ClientStep(c) == \/ ReadsNothing(c) \/ ReadsClipboard(c) \/ ReadsEnter(c) \/ ReadsLeave(c)
                 \/ ReadsKey(c) \/ LosesServer(c)

\* What users and the network do, when they please.
Event == \/ KeyTyped \/ Escape \/ KeeperLocks
         \/ \E what \in Contents : UserCopies(what)
         \/ \E c \in Conn : Connects(c) \/ CursorHits(c) \/ Quits(c) \/ LinkBreaks(c)

Next == \/ Event \/ Sends \/ HookStep \/ KeeperStep
        \/ \E c \in Conn : RecvStep(c) \/ ClientStep(c)

Spec == Init /\ [][Next]_vars

\* Threads go on when they can; whoever waits for the mutex gets it in the end, as
\* Server says why.  A client that is not faulty goes on reading.
Fairness ==
  /\ WF_vars(Sends) /\ SF_vars(HookStep) /\ SF_vars(KeeperStep)
  /\ \A c \in Conn : SF_vars(RecvStep(c))
  /\ \A c \in Conn \ Faulty : WF_vars(ClientStep(c))

FairSpec == Spec /\ Fairness

-------------------------------------------------------------------------------
(* What should hold.                                                         *)

\* c can be told: nobody has noticed an end of its connection.
Reachable(c) == Running /\ link[c] = "open" /\ c \in connected

\* What c has still to read, and what the thread that sends to it has still to push.
Pending(c) == down[c] \o (IF to = c THEN out ELSE <<>>)

\* What a client in a given state will believe when it has read messages ms.
SwitchesIn(ms) == {i \in DOMAIN ms : ms[i][1] \in {"enter", "leave"}}
ActiveAfter(ms, state) == IF SwitchesIn(ms) = {} THEN state = "ACTIVE"
                          ELSE ms[Max(SwitchesIn(ms))][1] = "enter"
WillBeActive(c) == ActiveAfter(Pending(c), process[c])

Switching == mutex = "hook" /\ hook \in {"enter", "leave"}

\* Both ends agree on who has the input once what is under way has arrived: for
\* every client that can be told, server.h:23 CLIENT_ACTIVE and client.h:21 ACTIVE
\* are the same fact, however long the stream between them.
EndsAgree == ~Switching => \A c \in Conn : Reachable(c) => WillBeActive(c) = (active = c)

\* README.md:47 "Keystrokes | TCP | Must arrive in order": every key typed for a
\* client that can be told, and not injected there yet, is on its way, once and in
\* the order of typing; none goes anywhere else.
KeysUpTo(ms) == LET keys[i \in 0..Len(ms)] ==
                      IF i = 0 THEN <<>>
                      ELSE IF ms[i][1] = "key" THEN Append(keys[i - 1], ms[i][2])
                      ELSE keys[i - 1]
                IN  keys
KeysIn(ms) == KeysUpTo(ms)[Len(ms)]
KeysInOrder ==
  \A c \in Conn : Reachable(c) =>
    owed[c] = KeysIn(Pending(c)) \o (IF hook = "key" /\ active = c /\ mutex # "hook"
                                     THEN <<Last(owed[c])>> ELSE <<>>)

\* A key finds the client ACTIVE, which client.cpp:162 does not check.
KeysFindActive ==
  [][ \A c \in Conn : Len(owed'[c]) < Len(owed[c]) => process[c] = "ACTIVE" ]_vars

\* The session delivers keys as KeyDelivery promises: typed for the client that has
\* the input, injected there in the order of typing, also while the input moves on.
Delivery == INSTANCE KeyDelivery WITH
              Client <- Conn, Local <- NoConn, Key <- 1..MaxKeys,
              owner <- active, present <- clients, typed <- owed
DeliverySpec == Delivery!Spec

\* c knows that it has the input, and what the server's clipboard held at the hand-over
\* it holds still: who copies has his input there.
HasTheInput(c) ==
  /\ Reachable(c) /\ active = c /\ process[c] = "ACTIVE"
  /\ \A i \in DOMAIN Pending(c) : Pending(c)[i][1] # "enter"

\* The clipboard comes along, ahead of the input: a macOS client that knows it has the
\* input pastes what the server's clipboard holds, not what came with an earlier visit.
ClipboardComesAlong ==
  \A c \in Conn \ Windows : HasTheInput(c) /\ content # "none" => paste[c] = content

\* Somebody holds the mutex and waits for a client, not always the active one, to
\* make room in its stream.
Choked == out # <<>> /\ to \in Faulty /\ link[to] = "open" /\ Len(down[to]) = Room

\* The escape key works, and the client is told, unless the server stops, or is choked
\* from some time on for ever, by a client that never reads again and stays connected:
\* one that reads late delays the key, no more.
EscapeWorks == hook = "leave" ~> (hook = "idle" /\ active = NoConn) \/ ~Running \/ []Choked

-------------------------------------------------------------------------------
(* What the repository says and the code does not do (README, section 4).   *)

\* win_input_capture.cpp:109 "emergency escape hotkey (always goes back to local)": it does,
\* also when a client has stopped reading.
EscapeAlwaysWorks == hook = "leave" ~> (hook = "idle" /\ active = NoConn) \/ ~Running

\* README.md:10 "Clipboard Sync -- Copy on one machine, paste on the other (text, HTML,
\* images)": so does every client, whichever system it runs on.
ClipboardIsPasted == \A c \in Conn : HasTheInput(c) /\ content # "none" => paste[c] = content
===============================================================================
