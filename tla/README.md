# s-mouse: specification and verification

s-mouse shares one keyboard and mouse between machines. The *server* is the machine they
are plugged into; when the cursor reaches an edge of its screen, the *client* whose screen
sits at that edge gets the input until the user presses the escape key. This directory
holds TLA+ models of that program, the TLC configurations that check them, and theorems
checked by TLAPS. Paths below are relative to `src/src/` of the repository unless they
start with `README.md` or `tests/`.

Contents: [1 the system](#1-the-system), [2 the modules](#2-the-modules),
[3 the runs](#3-the-runs), [4 what was found](#4-what-the-runs-found),
[5 the proofs](#5-the-proofs), [6 what is left out](#6-what-is-left-out),
[7 the plan](#7-the-plan).

## 1 The system

### Components

| component | state it keeps | operations | modelled in |
|---|---|---|---|
| `core/server` | `state_`, `active_client_id_`, `clients_` (under `clients_mutex_`), `layout_`, `running_` | start, stop, on_client_connected / message / disconnected, on_input_event, transition_to_client / local, keepalive_loop | `Server`, `Session` |
| `core/screen_layout` | the server's rect, a vector of (client, rect, edge) | add, remove, clear, set edge; check_edge, map_to_client | `LayoutOps`, `ScreenLayout` |
| `core/client` | `state_`, `running_`, `auto_reconnect_`, `tcp_`, `udp_`, two threads | connect, disconnect, on_server_message / disconnected, on_udp_message, keepalive_loop, reconnect_loop | `Client`, `Session` |
| `core/protocol` | the sequence counter | serialize, deserialize for every message type | `Bytes`, `Protocol`, `Wire` |
| `net/tcp_connection` | socket, `connected_`, `recv_thread_`, `send_mutex_` | connect, send, start_receive, recv_loop, close, move; TcpServer listen / accept_loop / stop | `Wire` (bytes), `Server`, `Client` (threads), `Session` (full sockets) |
| `net/udp_channel` | socket, remote, `running_`, `recv_thread_` | bind, send, recv_loop, close | `Client`, `Protocol` |
| `platform/*/..._input_capture` | `suppress_`, hook thread, run loop | start, stop, one callback per event, set_suppress, escape hotkey | `Server` (thread `hook`), `Keyboard` (keys), `Workers` (its thread) |
| `platform/*/..._input_inject` | none | key, button, move, scroll | `Keyboard` (keys) |
| `core/keymap` | none (tables) | VK to USB HID and back | `KeyMap` |
| `core/clipboard`, `platform/*/..._clipboard` | last change count, polling thread or message window | start, stop, get content, set content | `Workers` (thread), `Session` (what is pasted) |
| `platform/*/..._screen` | none | query displays | not modelled |
| `net/discovery`, `net/tls_context`, `net/ble_proximity` | | | not modelled: nothing in the program calls them |
| `gui/screen_editor`, `gui/mainwindow` | `screens_`, `dragging_index_`; the queue of callbacks | press, move, release, clear, add screen; refresh, start, disconnect | `Arrangement`; calls into the core are steps of `main` in `Server` |
| `daemon`, the rest of `gui` | settings | call start, stop | their calls are steps of `main` in `Server` |

### How they interact

On the server four kinds of threads call into one `Server` object: the thread that called
`start()` (and, in the GUI, edits the layout), TcpServer's accept thread, the capture
thread, `keepalive_loop`, and one recv thread per connection. They share `clients_` under
`clients_mutex_`, and `state_`, `active_client_id_`, `layout_`, `suppress_` and every
`connected_` mostly without it. Destroying a `TcpConnection` joins its recv thread, so
`clients_.erase` waits for a thread that may itself be waiting for the mutex: this is where
the design is fragile. On the client five threads share everything with no lock at all.
Between the two, one TCP stream carries HELLO, keys, enter, leave, clipboard and keepalives
in order, and UDP carries mouse moves out of order or not at all. A send on a full stream
waits, holding `clients_mutex_`. The GUI hears of the server through callbacks queued for its
own thread and talks back by editing the layout.

### What is hard here

* threads that join one another while holding, or being, what the other needs
  (`server.cpp:212`, `:374`, `:116`, `client.cpp:175`);
* a recv thread that runs before its connection is registered (`server.cpp:137`) or before
  its own handle is stored (`tcp_connection.cpp:96`);
* state written by two threads in sequence, half under a lock (`server.cpp:97`, `:318`,
  `client.cpp:78`);
* a connection that ends in the middle of a message, or is ended by another thread's send;
* 16-bit lengths, signed and unsigned coordinates, hand-written key tables;
* keys held while the input changes hands;
* one mutex held across sends to clients that may not read (`server.cpp:387`);
* an editor that is rebuilt in the middle of a drag (`screen_editor.cpp:195`);
* threads that are told to stop before they listen (`macos_input_capture.mm:242`).

`PROJECT.json` lists each hazard at its line with the properties that watch it, or the
reason why none does yet.

### What makes each component correct

* **Server**: between two hand-overs the input has one owner, and server, capture and
  clients agree on who it is; it can always be had back; no thread touches what another has
  destroyed; `stop()` returns and leaves nothing running; a dead client is dropped.
* **ScreenLayout**: one entry per client; the cursor leaves only through the border of the
  client's edge, never through a corner; every edge's client can be reached.
* **Client**: `ACTIVE` while the server says so; one receiver per connection; `disconnect()`
  ends every thread and returns; a lost connection is redialled.
* **Wire**: what is delivered is what was sent, whole and in order, and nothing is held
  back; the end of a connection is noticed wherever it comes.
* **Keyboard**: a key pressed and released on a machine does not stick there, and is the same
  key on both.
* **Session**: server and client agree on who has the input once what is under way has
  arrived; keys arrive once and in order, at a client that knows it is entered; the clipboard
  arrives before the screen; the escape key gives the input back.
* **Arrangement**: what the user has let go of is where the server has it; every client can
  be arranged; a drag keeps hold of its screen.
* **Workers**: `stop()` returns and leaves no thread that calls back.

Not all of it holds. Sections 3 and 5 say what does, with every exception part of the
property's statement; section 4 says what does not.

## 2 The modules

| module | what it is |
|---|---|
| `LayoutOps` | the pure operators of ScreenLayout: edges, dead zones, entry points |
| `ScreenLayout`, `MCScreenLayout` | the ScreenLayout object as a state machine |
| `Lemmas` | lemmas on sequences, and induction over them by least elements; what the operators of `LayoutOps` return and keep |
| `LayoutProofs` | the theorems of `ScreenLayout` |
| `ScreenSwitch` | abstract: what the server promises of the input's owner |
| `Server`, `MCServer` | the server's threads, over `LayoutOps` |
| `ServerProofs` | the server's inductive invariant and theorems |
| `Client`, `ClientProofs` | the client's threads; their invariant and theorems |
| `Bytes` | byte sequences kept by their runs, so that 65 KB clipboards stay small |
| `Protocol` | the wire format |
| `Wire`, `MCWire` | one direction of a connection: senders, stream, reader |
| `WireProofs` | that the format gives back what it was given; the theorems of `Wire` |
| `KeyDelivery` | abstract: `ScreenSwitch`, with keys that are typed and delivered |
| `Session`, `SessionProofs` | a server and its clients, over streams with little room; the theorems |
| `Arrangement`, `MCArrangement`, `ArrangementProofs` | the GUI's screen editor next to the server's layout; the theorems |
| `Workers` | capture and clipboard threads, their start and stop; its specification is `WorkersSpec` |
| `KeyMap` | the key tables and their inverses, as functions |
| `Keyboard`, `MCKeyboard` | keys of a server and of its client, each macOS or Windows |
| `PlatformProofs` | the theorems of the platform objects, `Keyboard` and `Workers` |

Definitions keep the names of the source where TLA+ allows it; `PROJECT.json` maps each to
its lines. A definition whose comment begins with "Mutant" is a wrong variant of the one
that follows it, kept so that each property can be seen to fail when the code is changed
that way; no specification uses them.

### Server

`pc[t]` says where thread `t` is; each label is a point at which another thread can observe
or disturb it. What a thread does under `clients_mutex_` and nobody can see is one step;
writes of `state_`, `active_client_id_`, `suppress_`, `layout_` and `connected_`, which are
read without the mutex, are separate steps. So `transition_to_client` is `CursorMoves` (the
unlocked `check_edge`), `Enter` (lock, look up, SCREEN_ENTER), `EnterGrabs` (suppress and
name the client), `EnterSets` (`state_`, unlock). `Destroy` is `clients_.erase`: it closes
the socket and sends its thread to `join`, still holding the mutex, until the recv thread is
at `exit`. When the joined thread is the joining one, std::thread throws
and `fate` becomes `"selfJoin"`: the process is gone and no action is enabled.

`layout_` is a vector changed and walked by three threads without a lock. A call that
changes it has a begin and an end (`editing`); when two overlap, the outcome is any result
the build can produce: the old vector, the new one, or a crash (`fate = "tornLayout"`).

Time is the set `silent`: when `keepalive_loop` wakes, any set of clients may have been
quiet for more than three seconds. Sends succeed, or fail on a connection the peer has left,
and then clear `connected_`, as `send_raw` does. A client's id, its address and port, is
never reused: a reconnecting client is another connection.

`start()` writes `state_` last (`server.cpp:97`), when clients may have connected and even been
entered; `forgotten` is history, the client whose `CLIENT_ACTIVE` it has written over, until
that client is told anew.

### Client

The same grain, with no lock to hide anything: every assignment to shared state has its
step. `held`, `udpHeld` and `rcHeld` say whether `recv_thread_` of `tcp_` and of `udp_` and
`reconnect_thread_` are threads to join, which differs from whether the threads run: each
`start_receive` is one step that starts the thread and one that stores its handle. A close is
likewise in parts: the flag and the socket, then the join. `fate` is what ended the process: a
thread that joins itself (`selfJoin`), two that join the same one (`joinedTwice`), a thread
assigned over one that was not joined (`overwritten`). The plain bools of the code are modelled
as atomic. The server's side is what it may legally send: HELLO_ACK first, keys between enter
and leave, a DISCONNECT last, all of it as soon as it has the HELLO.

`connect()` and `reconnect_loop` write `CONNECTED` when the recv thread is already at work
(`client.cpp:78`, `:273`), and `disconnect()` writes `DISCONNECTED`. `undone` is history: the
`ACTIVE` that the recv thread wrote last has been written over. It ends with the next
enter, leave or loss of the connection.

### Session

The composition: all connections of a server, each the life of one client process. `Server`
shows the server's threads against one another and takes sends for granted; `Session` is
coarser on the threads and finer on the sends. A handler that sends is *begun* (lock, look
up, decide what to send: `Begin`), pushes its messages one by one (`Push`, which waits for
room in the stream), and *ends* (`End`: unlock, set the state). So `transition_to_client` is
`CursorHits`, `EnterBegins` (CLIPBOARD_UPDATE if there is something on the clipboard, then
SCREEN_ENTER), `Push`es, `EnterEnds`. Client handlers are single steps. What `Server` shows
to be possible, a recv thread joining itself and the keeper's deadlock, ends the session
(`fate`). Which client the cursor may run into is left open: `ScreenLayout` decides that.

`owed` is history: the keys typed for a client and not yet injected there, numbered so that
those under way at one time differ; `KeyDelivery` is the promise about it. `Faulty` clients may quit, lose the network or stop
reading; the others read on.

`Pasted` is `set_content`: a Windows client does nothing while another program has the
clipboard open (`win_clipboard.cpp:93`), and HTML empties it (`:124`). `HasTheInput` is a
client that has read SCREEN_ENTER and not yet a leave.

### Arrangement

`screens_` behind the server's own, `dragging_index_`, the signals queued for the GUI thread,
and what the server's threads do to `clients_` and `layout_`. `Refresh` rebuilds the editor
from `get_clients()`, whose order is a hash map's: any order after an insertion. `Release` is
the only way back: `detect_edge`, with Qt's rectangles as they are (`right()` is the last
pixel, `center()` rounds towards zero), and `set_client_edge`. A move or a release with an
index behind the end of a rebuilt vector is undefined behaviour: `fate = "undefined"`.

Each change of state puts all screens back in a row on the right while the layout keeps their
edges, so that a mere click on one then sends it to the right; no document forbids it.

### Workers

The four threads behind the server's platform objects, by how they can be told to stop: a run
loop (capture, macOS), a message queue (capture, Windows), a message window (clipboard,
Windows), a flag they poll (clipboard, macOS). `stop()` clears the flag, tells, joins. A stop
that comes before the address is published, or before the run loop runs, tells nobody
(`missed`), and the join may then last for ever; low-level hooks are called inside of
GetMessage, so that the capture threads do not come to test their flag.

### Protocol, Wire

A message is a type, its integer fields and at most one tail (the clipboard's data, the
HELLO's name). `SerializeMessage` and `DeserializeMessage` work on bytes as the code does,
integers truncated to the width of their field, names cut at 255 bytes, lengths of 8, 16 and
32 bits. `Wire` puts threads in front (make and number the message, take `send_mutex_`,
write what the socket takes) and `recv_loop` behind (eight bytes of header, then
`payload_length` bytes), with a connection that may be cut between any two bytes and, on a
reset, lose what was not read. `FitsHeader` says which messages the payload structs and the
16 bits of `payload_length` have room for: all but a clipboard of more than 65,530 bytes.
`Parse` yields a message, or `Malformed`, or `OverRead` where `5 + data_len`, 32 bits wide,
wraps (`protocol.cpp:187`) and the copy goes past the payload; no message that is sent and
fits gets there (`CountNeverWraps`).

A byte sequence is a function from the places where a run of equal bytes ends to the byte:
equal sequences are equal functions, TLC carries 65 KB as one pair, and no recursion is
needed to take a sequence apart, so that the prover can follow. `Pack` and `Unpack` lead from
and to ordinary sequences.

### Keyboard

The key path of a macOS or Windows server, its event tap or hook, the message, and a macOS or
Windows client's injection, as one step per event: all of it happens on the capture thread
and in order. `held` is the keyboard, `local` and `remote` what the two systems take to be down.

macOS has a kind of event of its own for modifiers, Caps Lock and Fn (`FlagKeys`), which does
not say which way the key went; `FlagSet` is what `handle_event` reads off the flags. A modifier's flag
is set with either of its two keys down (`ModifierClass`); that of Caps Lock is a toggle
(`capsOn`), and its release comes with no event (`CapsLockUp`); Fn has no case, and counts as
pressed. `Distinct` says of a key that neither the tables nor the flags confuse it with another
key in use; for Caps Lock it never holds.

`fresh` is the set of keys whose state changed since the input last changed hands: a key
carried across a hand-over is released on the other machine and stays down on the first one,
which is what the code does and no document forbids.

### ScreenLayout

One action per member function; queries are checked in every reachable state at every pixel
on either side of a comparison. Positions of `map_to_client` are eighths instead of floats.

## 3 The runs

| run | module, cfg | states | what it shows |
|---|---|---|---|
| `screen_layout` | `MCScreenLayout` | 10,443 | one entry per client; hits only on the edge's border and never in a corner; the oldest client of each edge can be reached; entry points are pixels of the client's screen |
| `server` | `MCServer` | 2,959,653 | everything listed under *Server* below, two connections |
| `server_live` | `MCServerLive.cfg` | 30,202 | the escape key, `stop()` and the timeout do their work, one connection and a user editing the layout |
| `server_disconnect` | `MCServerDisconnect.cfg` | violation | a client that quits while active takes the server process with it |
| `server_timeout` | `MCServerTimeout.cfg` | violation | the keepalive timeout deadlocks with the recv thread |
| `client` | `MCClient` | 455,449 | everything listed under *Client* below |
| `wire` | `MCWire` | 10,406 | delivery is whole, ordered and complete; the end is noticed; every message survives the format |
| `wire_clipboard` | `MCWireClipboard.cfg` | violation | a clipboard of 65,531 bytes puts the reader out of step |
| `keyboard` | `MCKeyboard` | 2,818,080 | no key sticks that was not carried across, but those that tables and flags confuse; which these are |
| `session` | `MCSession.cfg` | 325,340 | everything listed under *Session* below |
| `arrangement` | `MCArrangement` | 594,602 | editor and layout fit together each time the user lets go or the callbacks have run |
| `workers` | `MCWorkers.cfg` | 244 | a stopped worker is quiet; `stop()` returns unless it came before there was somebody to tell |

### Server properties

* `LocalIsLocal`, `ClientIsHere`: when no hand-over is under way, `LOCAL_ACTIVE` means
  nothing is swallowed and nobody is named active, and `CLIENT_ACTIVE` means that input is
  swallowed for a client the map holds. Three threads write these variables, two of them
  without the lock. `LocalIsLocal` has one exception, which it names: the client that `start()`
  has forgotten (section 4), for which input stays swallowed.
* `EnteredIsActive`, `KeysFollowEnter`: the server and every client that can still be told
  agree on who has the input, and keys go only to a client that was told. The forgotten client
  is, again exactly, the one that believes it has the input and has not.
* `EntryOutlivesTransition`, `WalkIsSafe`: the reference and the iterator that two threads
  hold into `clients_` stay valid.
* `DisconnectFindsNothing`: the part of `on_client_disconnected` after the lookup
  (`server.cpp:216-230`) has nothing to do whenever it is reached.
* `StoppedMeansQuiet`: once `stop()` has returned no thread is left that could call back
  into the object, also when `start()` had given up half-way.
* `SwitchSpec`: the server implements `ScreenSwitch` (input goes from the server to one
  connected client and back, never from client to client), with
  `owner <- IF state = "CLIENT_ACTIVE" THEN active ELSE NoClient`.
* `EscapeWorks`, `StopReturns`, `BrokenIsDropped`: liveness, each with the escape clause
  `Dead` (the process has aborted, joining itself or on a torn layout vector, or the
  deadlock of `server_timeout` has happened). They say that those defects are the *only*
  ways in which the server fails to get there.

### Client properties

* `ActiveIsEntered`: when everything sent has been read, the client is `ACTIVE` exactly if the
  server has entered it and no other thread has written over that since (`undone`). Neither the
  server nor the user is taken to wait for `connect()` to return.
* `KeysWhenActive`: a key is injected by a client that is `ACTIVE`, or whose `ACTIVE` was written
  over; never by one that was not entered, or was left.
* `OneReceiver`: when `reconnect_loop` exchanges `tcp_` and `udp_`, the old receivers have
  ended.
* `QuitEndsWorkers`: a `disconnect()` that returns leaves no dialling or beating thread, unless
  `reconnect_loop` has given `tcp_` a new receiver behind its back (`held`).
* `QuitReturns`: a `disconnect()` that has nobody to wake on the connection, since the receiver
  has ended and `reconnect_loop` is not dialling, returns. That is all there is to promise: where
  a receiver waits, which is the ordinary case, closing the socket wakes it and it ends the
  process (section 4).

### Session properties

* `EndsAgree`: unless the capture thread is in the middle of a hand-over, for every client
  that can be told, the client will be `ACTIVE` after reading what is under way exactly when
  the server names it active.
* `KeysInOrder`: what was typed for a client and not injected yet is on its way to it, once
  and in the order of typing.
* `KeysFindActive`: a key is injected only by a client in `ACTIVE`, which `inject_event` does
  not test.
* `DeliverySpec`: the session implements `KeyDelivery` with `owner <- active`,
  `present <- clients`, `typed <- owed`: keys are typed for the one client that `ScreenSwitch`
  says has the input, each client injects its own in the order of typing and none twice, and
  hand-overs, however far ahead, neither take nor add any. An active client that
  times out loses the input together with its place in the map (`LoseOwner`); what is under
  way to a client whose connection breaks stays undelivered.
* `ClipboardComesAlong`: a macOS client that has the input has pasted what the server's
  clipboard holds, and nothing older. Of a Windows client that cannot be said (section 4).
* `EscapeWorks`: the escape key leads to `LOCAL_ACTIVE`, unless the server stops, or is `Choked`
  from some time on for ever: a thread holds the mutex and waits for a client that stays
  connected and never reads again. That client need not be the active one, which is the hazard
  at `server.cpp:387`. A client that reads late delays the key and is no excuse.

### Arrangement and Workers properties

* `ReleasedIsArranged`: a screen that stands where the user let go of it has, in the layout,
  the edge it is at in the editor.
* `EditorCatchesUp`: with no callback under way every client is shown, and once.
* `DragHoldsItsScreen`: the drag's index is that of the screen that was pressed, unless the
  editor was rebuilt meanwhile (`overtaken`): the rebuild is the only way to lose it.
* `StoppedIsQuiet`, `StopReturns`: see *Workers* above; the escape clause of `StopReturns` is
  `missed`.

### Bounds, and why they are enough

* **Server**: two connections and no GUI edits in `server` (symmetric, so the second stands
  for any other), one connection with GUI edits in `server_live`. Two is the least at
  which input could go from client to client, a ghost entry shadow another client, and the
  keeper destroy one client while another is active; the theorems below hold for any
  number. One cursor position, at the right border where an unplaced client sits, because
  `check_edge` itself is checked in `screen_layout`. No counter is unbounded.
* **Client**: `MaxInbox = 3` messages unread and `MaxMoves = 1` datagram under way: enough
  for an enter, a key and a leave (or a DISCONNECT) to wait together while another thread
  works. Reconnection may recur without bound.
* **Wire**: two senders, two messages, one short write of 1 or 8 bytes; the messages have no
  payload, a fixed one, a name one byte too long, and clipboards of 3 and 65,530 bytes.
  Two messages show interleaving and loss of step, one short write splits any frame in its
  header or behind it, and the reader carries no state from one message to the next but
  its place in the stream. `RoundTrip` takes every type at the limits of each field. The
  theorems hold for any number of each.
* **Keyboard**: of a Mac both Shifts, left Command, Caps Lock, Fn and F15, which escapes: a
  pair that shares a flag, a modifier alone, the two keys with a case of their own. Of Windows a
  letter, F13, which has no usage, a Shift and Scroll Lock. `MCKeyboard` has TLC evaluate which
  keys of *whole* keyboards are confused: none of the 255 of Windows; of the 128 of a Mac F5 and
  F12, the modifiers with their twins, and Caps Lock, if the client has it; with only one
  modifier of each kind in use, none of these.
* **ScreenLayout**: three clients, displays of 16 by 15 pixels at and off the origin (every
  dead zone, border and interior pixel exists), client screens of 1 and 12 pixels.
* **Session**: one client of each system, the macOS one faulty, streams of one message
  (`Room = 1`, so that each second message of a hand-over waits), two keys under way
  (`MaxKeys = 2`, the least that can be out of order), a clipboard that is empty or has text: a
  macOS client treats all formats alike. Connections are not reused; two show input going from one
  client to the other and one client choking another. With `Room = 2` (1.6 million states)
  the invariants hold as well.
* **Arrangement**: two clients, a landscape and a portrait screen, four spots on different
  sides of the server's screen and on a diagonal, two callbacks queued.
* **Workers**: nothing is bounded.

### Fairness

* **Server**: a running thread goes on, so weak fairness on each; strong fairness where the
  thread needs `clients_mutex_` or shares its choice with events. std::mutex promises no
  order, but whoever takes the mutex again has slept a second or waited for the network or
  the user in between, so a waiting thread finds it free infinitely often and in the
  end gets it. `RecvFails` is strongly fair because a broken socket has finitely much left
  to read; `KeeperWakesLate` because a client whose recv thread is gone can only get
  quieter. Users, peers and the network owe nothing.
* **Client**: weak fairness for each thread; nothing is locked.
* **Wire**: weak fairness on the three steps of `recv_loop` only. For two of them the
  enabling condition is written out, which spares TLC from parsing bytes to find it.
* **Session**: weak fairness where a step needs only its own thread, strong where it needs
  the mutex, for the reason given for the server; clients that are not `Faulty` read on.
* **Workers**: threads run when they can, and the polling thread wakes up by itself. A thread
  that has been told quits in the end (strong fairness), however many events keep it busy.

Deadlock checking is off where the system may rightly stop: a stopped or aborted server, a
client that is gone, senders with nothing to send. It is on for the layout and the keyboard.

## 4 What the runs found

Each is a `violation` run with an entry under `findings`, next to the line of the
repository that says otherwise.

1. `server_disconnect`: `on_client_disconnected` erases the connection on that connection's
   own recv thread (`server.cpp:212`); the destructor joins the thread it runs on, and
   std::system_error ends the process. Both a DISCONNECT message and a broken connection get
   here. The return to local input that the function goes on to describe is never reached,
   which `DisconnectFindsNothing` states, and `DisconnectFindsNothingHolds` and
   `NothingToRestoreHolds` prove.
2. `server_timeout`: `keepalive_loop` erases a silent client under `clients_mutex_`
   (`server.cpp:374`) and joins a recv thread that wakes, finds its socket closed and goes
   for the same mutex. `stop()` does the same at `server.cpp:116`.
3. `wire_clipboard`: `payload_length` is 16 bits wide (`protocol.cpp:225`), a clipboard may
   be 10 MB. The limit is exact: up to 65,530 bytes the theorems of `WireProofs` hold, the run
   sends one byte more.

The models show more. Each of the following is a definition at the end of its module, that
states what the repository says and the code does not do; a run of it is had by giving the cfg
that definition for its only property (an invariant, or `PROPERTY` where marked), and ends after
the states counted here.

| definition | cfg | states | what happens |
|---|---|---|---|
| `LocalInputIsLocal` | `MCServer` | 16 | `start()` writes `LOCAL_ACTIVE` last (`server.cpp:97`): a client that has connected and been entered by then is forgotten, local input stays swallowed and goes nowhere. server.h:22 says "Input goes to local machine" |
| `EnteredClientIsActive` | `MCClient` | 17 | `connect()` writes `CONNECTED` over the `ACTIVE` of a client that was entered (`client.cpp:78`, in `reconnect_loop` `:273`), which then drops every mouse move (`:186`). client.h:21 says of `ACTIVE` "Receiving and injecting input" |
| `QuitAlwaysReturns` (`PROPERTY`) | `MCClient` | 22 | `disconnect()` of a connection in order shuts the socket, the recv thread wakes and calls `tcp_.close()` (`client.cpp:175`), which joins the thread it runs on: the process ends before "[Client] Disconnected" (`:110`) |
| `LostIsRedialled` (`PROPERTY`) | `MCClient` | 18 | the same happens when a connection is lost, three lines before `auto_reconnect_` is looked at; reconnection is reached only in the instant before `start_receive` has stored the thread. client.h:47 says "Enable auto-reconnect" |
| `FlagTellsPressed` | `MCKeyboard` | 3 | Caps Lock is pressed and released and stays down at the client until it is pressed again (`macos_input_capture.mm:396`); with `MacKeys = {56, 60}`, a Shift stays down that is released before its twin (`:392`). `:389` says "Determine if key is pressed or released based on the flag state" |
| `FunctionKeysAreThemselves` | `MCKeyboard`, `MacKeys = {96}` | 3 | F5 is pressed and a Windows client presses F11: rows of the table are shifted (`macos_input_capture.mm:113`), and F2, F3, F5, F6 and F10 to F12 arrive as other keys. The row says "kVK_F5 = 0x60 -> KEY_F5" |
| `ClipboardIsPasted` | `MCSession` | 14 | a Windows client keeps its old clipboard when another program has it open (`win_clipboard.cpp:93`), and loses it when it is sent HTML (`:124`, with `Contents = {"html"}`). README.md:10 says "Copy on one machine, paste on the other (text, HTML, images)" |
| `EscapeAlwaysWorks` (`PROPERTY`) | `MCSession` | 16 | a thread waits, with the mutex, for a client that has stopped reading; the escape key waits for the mutex, and so does whoever would time the client out. win_input_capture.cpp:109 says "always goes back to local" |
| `EditorShowsWhoIsThere` | `MCArrangement` | 5 | a client that does not have the input times out, the state callback is not called (`server.cpp:376`), and its screen stays. mainwindow.cpp:240 says "Refresh screen editor when client list changes" |
| `EdgeFollowsDrag` (`PROPERTY`) | `MCArrangement` | 9 | a callback rebuilds the editor in the middle of a drag, in another order: another client gets the edge (`screen_editor.cpp:202`). mainwindow.cpp:126 says "When user drags a client screen, update the server layout edge" |
| `StopAlwaysReturns` (`PROPERTY`) | `MCWorkers` | 13 | `stop()` comes before there is somebody to tell (`macos_input_capture.mm:242`, `win_input_capture.cpp:96`, `win_clipboard.cpp:49`) and joins a thread that goes on. platform.h:21 says "Stop capturing", clipboard.h:20 "Stop monitoring" |

What the properties of section 3 say is, next to these, what remains true: that there is no other
way for the server and its clients to disagree, for a key to stick, for the escape key or `stop()`
to fail.

And two things seen in the operators:

* `add_client` takes LEFT at (0, 0) for "no edge chosen" (`screen_layout.cpp:18`), so that
  the unit test LeftEdgeHit (`tests/test_screen_layout.cpp:21-32`) cannot find its client.
* A key without a usage is sent as usage 0, and `hid_to_macos_vk` finds 0 at the first hole of
  the table, key 0x34.

## 5 The proofs

A run shows a property for the instance in its cfg; the theorems below hold for any set of
clients, any displays, screens and cursor positions, any room in the streams and any length
of the queues, unless an assumption is named.

| theorem | states |
|---|---|
| **`ServerProofs`** | for any GUI edits |
| `TypeCorrect` | `[]TypeOK` |
| `LocalIsLocalHolds`, `ClientIsHereHolds` | the input has one owner, here or at a connected client, but for a client that `start()` forgot |
| `EnteredIsActiveHolds`, `KeysFollowEnterHolds` | a client that can be told knows whether that is itself, but for the forgotten one, and gets keys only when it was entered |
| `EntryOutlivesTransitionHolds`, `WalkIsSafeHolds` | references and iterators into the map stay valid |
| `DisconnectFindsNothingHolds`, `NothingToRestoreHolds` | what `on_client_disconnected` does after the lookup is dead code |
| `StoppedMeansQuietHolds` | nothing runs after `stop()` |
| `Refinement` | `Spec => SwitchSpec`: the server implements `ScreenSwitch` |
| **`SessionProofs`** | for any number of clients and keys under way |
| `TypeCorrect` | the types, and that no stream exceeds its room |
| `EndsAgreeHolds` | both ends agree on who has the input once what is under way has arrived |
| `KeysInOrderHolds`, `KeysFindActiveHolds` | keys arrive once, in order, at a client that was entered |
| `ClipboardComesAlongHolds` | at a macOS client the clipboard is there before the screen is entered |
| `DeliveryHolds` | `Spec => DeliverySpec`: the session implements `KeyDelivery` |
| **`ClientProofs`** | for inboxes of any length, and a server that waits for nobody |
| `TypeCorrect` | the types, and which labels each thread has |
| `OneReceiverHolds` | sockets are exchanged when their receivers have ended |
| `QuitEndsWorkersHolds` | `disconnect()` leaves no worker, but for a socket that was given a new receiver meanwhile |
| `ActiveIsEnteredHolds`, `KeysWhenActiveHolds` | `ACTIVE` means entered, exactly unless it was written over, and keys find it so |
| **`LayoutProofs`** | for any display large enough and any client screens |
| `TypeCorrect`, `OneEntryPerClientHolds` | types; one entry per client |
| `HitIsOnBorderHolds`, `OldestOfEdgeIsReachableHolds` | where `check_edge` finds whom |
| `EntersInsideScreenHolds` | entry points are pixels of the client's screen |
| **`ArrangementProofs`** | for any screens, places and queued callbacks |
| `TypeCorrect`, `ReleasedIsArrangedHolds`, `EditorCatchesUpHolds`, `DragHoldsItsScreenHolds` | editor and layout fit together |
| **`WireProofs`** | for any threads, short writes, and messages that a header can announce |
| `FormatIs`, `RoundTripHolds` | every message survives the format, followed by another byte too, and is not recognised in less than all of it |
| `TypeCorrect` | the types, and that only byte sequences are on their way |
| `InOrderHolds` | what is delivered is what was sent, whole and in order |
| `NothingHeldBackHolds` | a reader that waits, with nobody in `send()`, has had everything |
| **`PlatformProofs`** | for any keys in use, on either system |
| `WorkersTypeCorrect`, `StoppedIsQuietHolds` | no thread is left of a worker that was stopped, told or not |
| `TypeCorrect` | on a machine only its own keys are ever down, whatever the tables make of a key |
| `FreshKeysAreRightHolds` | no key sticks that tables and flags tell from the others in use, whatever becomes of those |

**Assumptions.** Each is declared with the constant it is about and evaluated by the runs.

* Names: connection ids are none of the thread names, nor "no client" (`ClientIdAssumption`,
  `ConnAssumption`). Bounds are natural numbers, `Room` at least one.
* Geometry: a display has more pixels on each side than two dead zones
  (`ScreensAssumption`, a dead zone being five pixels; with fewer no border could be hit), and
  a screen reported by a client has some (`RectsAssumption`, `SizesAssumption`).
* Keys are key codes of their system (`KeysAssumption`).
* `MessagesFit`, for `TypeCorrect`, `InOrder` and `NothingHeldBack` of the wire: every message
  the threads may send satisfies `FitsHeader`. It is a hypothesis because a clipboard may be
  larger, and then the last two are false (section 4); that it holds of the messages of `wire`
  and not of those of `wire_clipboard`, `MCWire` has TLC evaluate.

**Server.** None of the properties is inductive by itself: that the active client is in the map
depends on who may erase it, which depends on who holds the mutex, which depends on where
each thread is. `Inv` states the missing links as nine named parts beside `TypeOK`:

* `MutexInv`: the holder of the mutex is the thread whose `pc` says so;
* `JoinInv`: a client being destroyed is out of the map, what the keeper has left to visit
  is in it;
* `ThreadInv`: a connection has a thread from the accept on, the map only holds such;
* `LifeInv`: `start()` and `stop()` bring threads up and down in order, while clients come
  and are entered at any time between;
* `LocalsInv`: `transition_to_client`'s reference is to an entry; a recv thread's
  `was_active` is true at most between its reading and the lookup;
* `SwitchInv`: the values of `state_`, `active_client_id_` and `suppress_` at each place of
  the hook thread and the keeper. Its crux is that the hook's way to a client (`enter`,
  `grab`, `setClient`) starts from `LOCAL_ACTIVE`, the keeper restores only from
  `CLIENT_ACTIVE`, and both hold the mutex where they could meet. `LOCAL_ACTIVE` with a client
  named active is then left to the middle of a hand-over, and to the client that `start()` has
  forgotten, which stays forgotten until it is told anew;
* `LayoutInv`: `layout_` has entries only of clients that were in the map when they said
  HELLO; a thread that the lookup has missed, and so gives its client up, has none there;
* `LiveInv`, while the process has not aborted: a live recv thread belongs to an entry,
  one about to be inserted, or one being joined; an active client missing from the map is
  the one the keeper is about to switch away from;
* `ViewInv`, likewise: a client that can be told has been told exactly if it is the one
  `Told` names, which follows the hook thread through a hand-over.

Each lemma `Next...` has one step per action, in the order of `Server`; `NextInv` puts them
together, `Invariance` is the temporal step, and each theorem follows from the parts it
needs. `Refinement` maps every step to `Connect`, `Lose`, `Enter`, `Return` or a stutter.

**Session.** A stream holds the past: what its reader will do is fixed by messages that the
server has long forgotten. `IInv` therefore speaks of what *will* be. `LockInv` says what each
thread still has to send while it holds the mutex, `LinkInv` what may be known of a connection
at each stage of its life. `EndsInv` has the client that will be active after the last message
be the one that the server *means* (`Meant`: a switch counts from its lock on, not from its
last line). `OwedInv` has the keys under way be a prefix of the keys owed, and all of
them where nothing was lost (`Arrived`, `UnderWay`); `GuardInv` has every key in a stream come
after an enter; `ClipInv` has the last clipboard under way be the current one, with an enter
behind it. The lemmas it rests on say what pushing, reading and cutting do to such a
statement about a sequence; the steps have one lemma per part (`TypeStep`, `LockStep`,
`LinkStep`, ...).

**Client.** Four parts place the threads: nothing is lost or redialled before `connect()` has set
`running_` (`StartInv`); a thread that runs is held by its handle, or by the one that is about to
store it (`HeldInv`); how far `disconnect()` is (`QuitInv`); and `OneReceiver` itself. What the
receiver has read last is then `Entered` (`ACTIVE`, or written over), whoever writes `state_` in
between: only a thread that listens has read an enter (`ActiveInv`), what was written over is
not there (`OverwrittenInv`), nothing comes before HELLO (`FreshInv`). `ViewInv` has the messages
under way lead from there to the server's view: there is a value of `Entered` before each
unread message (`Follows`), and a key comes only where it is true.

**Layout and arrangement.** `Once` (one entry per client) is inductive with `TypeOK`. The
geometry then follows for *all* positions: a hit lies on one border, since the dead zones of a
display that is large enough exclude the rest. `ArrangementProofs` adds that clients and shown
screens have layout entries (`ListInv`), and that the edge in the layout is the one a released
screen is at (`ScreenInv`). What a rebuild yields (`Row`), and what `erase(remove_if)` leaves
(`Keep`), are recursive functions over a vector. The library's induction theorems take an
operator as parameter, which the provers here cannot instantiate; `Lemmas` has them for
*sets* instead (`SetInduction`, from the least element of a set of numbers), and that is enough
for what `KeptUpTo`, `RowUpTo` and the keys in a stream come to.

**Keyboard.** `FreshKeysAreRight` is inductive once `held` and `fresh` are among the keys in use.
Tables and flags enter in two places, key by key and with no hypothesis on the keyboard: a press
or release of any key, confused or not, is injected as a key that no `Distinct` key but itself is
injected as (`Unconfused`), and the flag of a `Distinct` key says what the key does (`FlagIsKey`).
`PassesRight` is what an event does, from these two; hand-overs start with no fresh key.
`TypeCorrect` walks the tables: an entry of `MacTable` is a usage, a usage has the least of some
keys or none (`MinIsIn`).

**Wire.** `InOrder` says nothing of the bytes, so nothing follows from it. What is inductive is
that there is *one* sequence of bytes, `total`, made of the messages of `sent` one after the
other (`Framed`, with `at[k]` the number of bytes before message k + 1), of which the socket
has taken the first `w` and the reader has had the first `r`: the stream is what lies between
(`Carried`), `r` is the start of a message or of its payload, whose header is then in
`reading` (`Reads`), and what lies behind `w` is what the holder of `send_mutex_` has left to
write (`Taken`; with the lock free, nothing). Whoever waits for the lock has a message in full
(`Ready`). `SendLocks` lengthens `total` by a message, each write moves `w`, each read moves
`r`, and a reset moves `w` back to `r`. `Flows` says that there are such `total`, `at`, `r` and
`w`; TLC cannot look for them: of the inductive invariant, the run checks `InOrder`.

That the reader makes of a message what was sent rests on `FormatIs`. Its lemmas go up from
`Bytes` (`JoinPack`, `SlicePack`: cutting and joining runs is cutting and joining sequences)
over integers (`FieldReadsBack`: two's complement included) and payloads (`ParsesBack`: fields
lie side by side, `ShapesAre`, for each of the eight layouts there are) to headers and whole
messages (`HeaderReadsBack`, `MessageReadsBack`, `CutShort`). `FramedMessage` and
`FramedAppend` then use messages only through these lemmas.

**Workers.** `StoppedIsQuiet` is inductive with the types: `stop()` joins the capture before it
turns to the clipboard, and threads that have ended do nothing any more.

**Model-checked only.**

* Liveness of server, client, wire, session and workers: it rests on fairness and ENABLED,
  which are out of the prover's reach.
* Which keys are `Distinct`: enumerated from the rows of the tables (`MCKeyboard`), for whole
  keyboards.

## 6 What is left out

* **The UDP target** that `transition_to_client` sets, and with it where moves go when a
  client has reconnected on another port (`client.cpp:246`). `Client` keeps the port, so
  the case is visible, but no property is about it.
* **Clipboard conversions**: what `get_content` reads is a member of `Contents`; the server's
  change callback does nothing (`server.cpp:87-89`).
* **Screen query**: any rect, and none, are inputs of the models.
* **Discovery, TLS, BLE proximity**: nothing in the daemon or the GUI calls them.
* **Daemon, the rest of the GUI**: settings, painting, the tray; their calls into the core
  are steps of `main`.
* **Mouse events**: conversion of coordinates, buttons and scrolling has no state and is not
  modelled.
* **Windows key names**: `GetKeyState` and the modifier masks sent with each key, which no
  client reads.
* The types of `Wire`, `Session`, `Arrangement` and `Keyboard` are proved; their runs check what
  can go wrong instead.
* **Data races as such.** Unsynchronised flags and enums are read and written whole. Only
  the vector of the layout, where a race corrupts memory, is torn.
* `switch_to_client`, `switch_to_local`, `map_to_client` have no callers; the last is
  modelled all the same.

## 7 The plan

Done: the models of the layout, the server, its abstraction, the client, the wire, the
keyboard, the session, the arrangement and the workers; every safety invariant and action
property that a run checks is a theorem of section 5. To come:

1. **Moves**: the UDP target and moves that arrive before the enter or after the leave; the
   wrap of negative coordinates.
2. **Oversized clipboards**: once the header has a length wide enough, `LargestClipboard`
   becomes the 10 MB of `protocol.h:23`, and `wire_clipboard` a run that passes.
