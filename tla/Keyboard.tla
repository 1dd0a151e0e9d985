------------------------------- MODULE Keyboard -------------------------------
(***************************************************************************)
(* Where keys go: the keyboard of a macOS or Windows server, its event tap *)
(* or hook (src/platform/macos/macos_input_capture.mm,                     *)
(* src/platform/windows/win_input_capture.cpp), what on_input_event sends, *)
(* and what a macOS or Windows client injects.  All of it happens on the   *)
(* capture thread, one event at a time, and the connection keeps order, so *)
(* that an event and its arrival are one step.                             *)
(***************************************************************************)
EXTENDS KeyMap

CONSTANTS MacKeys, WinKeys   \* the keys in use on a server that runs macOS, Windows

System == {"mac", "windows"}

ASSUME KeysAssumption == MacKeys \subseteq 0 .. 127 /\ WinKeys \subseteq 1 .. 255

VARIABLES
  host,      \* the server's system
  system,    \* the client's
  suppress,  \* suppress_: the client has the input
  held,      \* keys that are pressed on the keyboard
  capsOn,    \* the AlphaShift flag of a macOS server: Caps Lock is on
  local,     \* keys the server's own system takes to be down
  remote,    \* keys the client's system takes to be down
  fresh      \* keys pressed or released since the input last changed hands

vars == <<host, system, suppress, held, capsOn, local, remote, fresh>>

Keys == IF host = "mac" THEN MacKeys ELSE WinKeys

\* F15, and Scroll Lock.
EscapeKey == IF host = "mac" THEN \h71 ELSE \h91

\* What the server says of a key, and what the client's system can be told of it.
UsageOn(h, vk) == IF h = "mac" THEN macos_vk_to_hid[vk] ELSE win_vk_to_hid[vk]
KeyOn(s, hid)  == IF s = "mac" THEN hid_to_macos_vk[hid] ELSE hid_to_win_vk[hid]
NoKeyOn(s)     == IF s = "mac" THEN NoMacKey ELSE NoWinKey

Usage(vk)      == UsageOn(host, vk)
ClientKey(hid) == KeyOn(system, hid)
NoClientKey    == NoKeyOn(system)

TypeOK ==
  /\ host \in System /\ system \in System /\ suppress \in BOOLEAN /\ capsOn \in BOOLEAN
  /\ held \subseteq Keys /\ local \subseteq Keys /\ fresh \subseteq Keys
  /\ remote \subseteq IF system = "mac" THEN 0 .. 127 ELSE 1 .. 255

Init ==
  /\ host \in System /\ system \in System /\ suppress = FALSE /\ capsOn \in BOOLEAN
  /\ held = {} /\ local = {} /\ remote = {} /\ fresh = {}

-------------------------------------------------------------------------------
\* key_down, key_up of the client; a usage its table does not have is ignored.
Injects(hid, pressed) ==
  LET vk == ClientKey(hid)
  IN  remote' = IF vk = NoClientKey THEN remote
                ELSE IF pressed THEN remote \cup {vk} ELSE remote \ {vk}

\* The event of a key that went down or up: callback_ is told pressed, and sends it when
\* a client is active; the system gets the event itself, unless it is suppressed.
Passes(vk, pressed, down) ==
  \/ suppress /\ Injects(Usage(vk), pressed) /\ UNCHANGED local
  \/ /\ ~suppress
     /\ local' = IF down THEN local \cup {vk} ELSE local \ {vk}
     /\ UNCHANGED remote

\* Only macOS has a kind of event of its own for modifiers.
IsModifier(vk) == host = "mac" /\ vk \in FlagKeys

\* A key is pressed, or repeats, and is released: handle_event's KeyDown and KeyUp,
\* keyboard_proc.
KeyDown(vk) ==
  /\ ~IsModifier(vk) /\ ~(vk = EscapeKey /\ suppress)
  /\ held' = held \cup {vk} /\ fresh' = fresh \cup (held' \ held)
  /\ Passes(vk, TRUE, TRUE)
  /\ UNCHANGED <<host, system, suppress, capsOn>>

KeyUp(vk) ==
  /\ vk \in held /\ ~IsModifier(vk)
  /\ held' = held \ {vk} /\ fresh' = fresh \cup {vk}
  /\ Passes(vk, FALSE, FALSE)
  /\ UNCHANGED <<host, system, suppress, capsOn>>

\* Mutant: the Command keys are left out of the switch.
FlagSetButCommand(vk, down, on) ==
  \/ \E c \in ModifierClass \ {{\h37, \h36}} : vk \in c /\ c \cap down # {}
  \/ vk = CapsLock /\ on
  \/ vk \in {Fn, \h37, \h36}

\* What the switch makes of the flags: that of a modifier is set with either of its keys
\* down, that of Caps Lock while it is on, and a key without a case is always pressed.
FlagSet(vk, down, on) ==
  \/ \E c \in ModifierClass : vk \in c /\ c \cap down # {}
  \/ vk = CapsLock /\ on
  \/ vk = Fn

\* FlagsChanged does not say which way: the flag decides.
FlagsChanged(vk) ==
  /\ IsModifier(vk) /\ ~(vk = CapsLock /\ vk \in held)
  /\ held' = IF vk \in held THEN held \ {vk} ELSE held \cup {vk}
  /\ capsOn' = IF vk = CapsLock THEN ~capsOn ELSE capsOn
  /\ fresh' = fresh \cup {vk}
  /\ Passes(vk, FlagSet(vk, held', capsOn'), vk \in held')
  /\ UNCHANGED <<host, system, suppress>>

\* macOS has no event for the release of Caps Lock.
CapsLockUp(vk) ==
  /\ IsModifier(vk) /\ vk = CapsLock /\ vk \in held
  /\ held' = held \ {vk} /\ local' = local \ {vk}
  /\ fresh' = fresh \cup {vk}
  /\ UNCHANGED <<host, system, suppress, capsOn, remote>>

\* The cursor reaches the client's edge: transition_to_client.
Enter ==
  /\ ~suppress
  /\ suppress' = TRUE /\ fresh' = {}
  /\ UNCHANGED <<host, system, held, capsOn, local, remote>>

\* The escape hotkey, consumed: transition_to_local.
Escape ==
  /\ suppress /\ EscapeKey \in Keys
  /\ suppress' = FALSE /\ fresh' = {}
  /\ held' = held \cup {EscapeKey}
  /\ UNCHANGED <<host, system, capsOn, local, remote>>

Next == \/ \E vk \in Keys : KeyDown(vk) \/ KeyUp(vk) \/ FlagsChanged(vk) \/ CapsLockUp(vk)
        \/ Enter \/ Escape

Spec == Init /\ [][Next]_vars

-------------------------------------------------------------------------------
\* A key of system h that system s can be told of by a key of its own.  (Keys without a
\* usage all arrive at a macOS client as the first hole of its table.)
HasKey(h, s, vk) == UsageOn(h, vk) # NoKey /\ KeyOn(s, UsageOn(h, vk)) # NoKeyOn(s)

\* ... and that is not confused with another of the keys in use, neither by the tables
\* from h to s, nor, on macOS, by the flags, which tell nothing of Caps Lock.
Distinct(h, s, keys, vk) ==
  /\ HasKey(h, s, vk)
  /\ \A w \in keys \ {vk} : KeyOn(s, UsageOn(h, w)) # KeyOn(s, UsageOn(h, vk))
  /\ h = "mac" => vk # CapsLock /\ \A c \in ModifierClass : vk \in c => c \cap keys = {vk}

-------------------------------------------------------------------------------
(* What should hold.                                                         *)

\* The machine that has the input sees a key down exactly while it is held, if it
\* was last pressed or released there: nothing sticks that was not carried across.
\* At a client that is so of every key that the tables and flags tell from the others
\* in use, whatever these do.
FreshKeysAreRight ==
  \A vk \in fresh :
    IF suppress
    THEN Distinct(host, system, Keys, vk) => (ClientKey(Usage(vk)) \in remote) = (vk \in held)
    ELSE (vk \in local) = (vk \in held)

-------------------------------------------------------------------------------
(* What the repository says and the code does not do (README, section 4).   *)

\* macos_input_capture.mm:389 "Determine if key is pressed or released based on the flag
\* state": a modifier or Caps Lock is down at the client while it is held.
FlagTellsPressed ==
  \A vk \in fresh : suppress /\ IsModifier(vk) /\ HasKey(host, system, vk)
                      => (ClientKey(Usage(vk)) \in remote) = (vk \in held)

\* macos_input_capture.mm:113 "kVK_F5 = 0x60 -> KEY_F5", and so on for the others: the
\* function keys of a Mac are those of the same name at a Windows client.
FunctionKeysAreThemselves ==
  \A n \in 1 .. 12 :
    host = "mac" /\ system = "windows" /\ suppress /\ MacF[n] \in fresh \cap held
      => WinF[n] \in remote
===============================================================================
