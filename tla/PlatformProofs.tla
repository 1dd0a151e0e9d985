---------------------------- MODULE PlatformProofs ----------------------------
(***************************************************************************)
(* What holds of the platform objects, on macOS and on Windows.            *)
(*                                                                         *)
(* Keyboard: no key sticks that was not carried across a hand-over and is  *)
(* told from the others in use, whichever keys these are.                  *)
(*                                                                         *)
(* Workers: a worker that Server::stop has stopped is quiet, because       *)
(* stop() joins the capture before it turns to the clipboard, and threads  *)
(* that have ended do nothing any more.                                    *)
(***************************************************************************)
EXTENDS Keyboard, Workers, Lemmas

-------------------------------------------------------------------------------
(* The tables: what they yield for every key of a keyboard.                  *)

LEMMA MacUsages ==
  ASSUME NEW vk \in 0 .. 127
  PROVE  macos_vk_to_hid[vk] \in 0 .. 255
<1>1. Len(MacTable) = 128
  BY DEF MacTable
<1>2. \A i \in 1 .. 128 : MacTable[i] \in 0 .. 255
  BY DEF MacTable
<1>3. vk \in 0 .. 255 /\ vk + 1 \in 1 .. 128
  OBVIOUS
<1>4. vk < Len(MacTable)
  BY <1>1
<1>5. macos_vk_to_hid[vk] = MacTable[vk + 1]
  BY <1>3, <1>4, Zenon DEF macos_vk_to_hid
<1> QED BY <1>2, <1>3, <1>5

LEMMA WinUsages ==
  ASSUME NEW vk \in 0 .. 255
  PROVE  win_vk_to_hid[vk] \in 0 .. 255
<1>1. \A r \in WinRuns : /\ r.hid \in Nat /\ r.vks[1] \in Nat /\ r.vks[2] \in Nat
                         /\ r.hid + r.vks[2] - r.vks[1] <= 255
  BY DEF WinRuns
<1> DEFINE runs == {r \in WinRuns : r.vks[1] <= vk /\ vk <= r.vks[2]}
           run  == CHOOSE r \in runs : TRUE
<1>2. win_vk_to_hid[vk] = IF runs = {} THEN NoKey ELSE run.hid + vk - run.vks[1]
  BY DEF win_vk_to_hid
<1>3. CASE runs = {}
  <2>1. win_vk_to_hid[vk] = NoKey
    BY <1>2, <1>3, Zenon
  <2> QED BY <2>1 DEF NoKey
<1>4. CASE runs # {}
  <2>1. run \in runs
    BY <1>4, Zenon
  <2> HIDE DEF run
  <2>2. run \in WinRuns /\ run.vks[1] <= vk /\ vk <= run.vks[2]
    BY <2>1
  <2>3. /\ run.hid \in Nat /\ run.vks[1] \in Nat /\ run.vks[2] \in Nat
        /\ run.hid + run.vks[2] - run.vks[1] <= 255
    BY <1>1, <2>2
  <2>4. run.hid + vk - run.vks[1] \in 0 .. 255
    <3>1. ASSUME NEW a \in Nat, NEW b \in Nat, NEW c \in Nat, b <= vk, vk <= c, a + c - b <= 255
          PROVE  a + vk - b \in 0 .. 255
      BY <3>1
    <3> QED BY <2>2, <2>3, <3>1
  <2>5. win_vk_to_hid[vk] = run.hid + vk - run.vks[1]
    BY <1>2, <1>4, Zenon
  <2> QED BY <2>4, <2>5
<1> QED BY <1>3, <1>4

\* The least of the keys with a usage is one of them.
LEMMA MinIsIn ==
  ASSUME NEW S, S \subseteq Nat, S # {}
  PROVE  Min(S) \in S
<1>1. \E n \in S : \A y \in S : n <= y
  BY Least
<1> QED BY <1>1 DEF Min

LEMMA MacKeysAre ==
  ASSUME NEW hid \in 0 .. 255, hid_to_macos_vk[hid] # NoMacKey
  PROVE  hid_to_macos_vk[hid] \in 0 .. 127
<1> DEFINE vks == {vk \in 0 .. Len(MacTable) - 1 : macos_vk_to_hid[vk] = hid}
<1>1. Len(MacTable) = 128
  BY DEF MacTable
<1>2. vks \subseteq 0 .. 127
  BY <1>1
<1>3. hid_to_macos_vk[hid] = IF vks = {} THEN NoMacKey ELSE Min(vks)
  BY Zenon DEF hid_to_macos_vk
<1> HIDE DEF vks
<1>4. vks # {} /\ hid_to_macos_vk[hid] = Min(vks)
  BY <1>3, Zenon
<1>5. Min(vks) \in vks
  <2>1. vks \subseteq Nat
    BY <1>2
  <2> QED BY <1>4, <2>1, MinIsIn, Zenon
<1>6. hid_to_macos_vk[hid] \in vks
  BY <1>4, <1>5
<1> QED BY <1>2, <1>6

LEMMA WinKeysAre ==
  ASSUME NEW hid \in 0 .. 255, hid_to_win_vk[hid] # NoWinKey
  PROVE  hid_to_win_vk[hid] \in 1 .. 255
<1> DEFINE vks == {vk \in 0 .. 255 : win_vk_to_hid[vk] = hid}
<1>2. vks \subseteq 0 .. 255
  OBVIOUS
<1>3. hid_to_win_vk[hid] = IF vks = {} THEN NoWinKey ELSE Min(vks)
  BY Zenon DEF hid_to_win_vk
<1> HIDE DEF vks
<1>4. vks # {} => Min(vks) \in vks
  <2>1. vks \subseteq Nat
    BY <1>2
  <2> QED BY <2>1, MinIsIn, Zenon
<1>5. vks # {} /\ hid_to_win_vk[hid] = Min(vks)
  BY <1>3, Zenon
<1>6. hid_to_win_vk[hid] \in 0 .. 255
  BY <1>2, <1>4, <1>5
<1> QED BY <1>6 DEF NoWinKey

\* Whatever the two systems, a key of the server is injected as a key of the client.
LEMMA KeysArrive ==
  ASSUME TypeOK, NEW vk \in Keys, NEW pressed \in BOOLEAN, Injects(Usage(vk), pressed)
  PROVE  remote' \subseteq IF system = "mac" THEN 0 .. 127 ELSE 1 .. 255
<1> DEFINE k == ClientKey(Usage(vk))
<1>1. Usage(vk) \in 0 .. 255
  <2>1. host = "mac" => vk \in 0 .. 127
    BY KeysAssumption DEF Keys
  <2>2. host # "mac" => vk \in 0 .. 255
    BY KeysAssumption DEF Keys
  <2> QED BY <2>1, <2>2, MacUsages, WinUsages DEF Usage, UsageOn
<1>2. system = "mac" => k = NoClientKey \/ k \in 0 .. 127
  <2> SUFFICES ASSUME system = "mac" PROVE k = NoClientKey \/ k \in 0 .. 127
    OBVIOUS
  <2>1. k = hid_to_macos_vk[Usage(vk)] /\ NoClientKey = NoMacKey
    BY Zenon DEF ClientKey, KeyOn, NoClientKey, NoKeyOn
  <2>2. hid_to_macos_vk[Usage(vk)] # NoMacKey => hid_to_macos_vk[Usage(vk)] \in 0 .. 127
    BY <1>1, MacKeysAre
  <2> HIDE DEF k
  <2> QED BY <2>1, <2>2, Zenon
<1>3. system # "mac" => k = NoClientKey \/ k \in 1 .. 255
  <2> SUFFICES ASSUME system # "mac" PROVE k = NoClientKey \/ k \in 1 .. 255
    OBVIOUS
  <2>1. k = hid_to_win_vk[Usage(vk)] /\ NoClientKey = NoWinKey
    BY Zenon DEF ClientKey, KeyOn, NoClientKey, NoKeyOn
  <2> QED BY <1>1, <2>1, WinKeysAre, Zenon
<1>4. k # NoClientKey => remote' \subseteq remote \cup {k}
  BY DEF Injects
<1>5. k = NoClientKey => remote' = remote
  BY DEF Injects
<1> HIDE DEF k
<1>6. CASE system = "mac"
  BY <1>2, <1>4, <1>5, <1>6 DEF TypeOK
<1>7. CASE system # "mac"
  BY <1>3, <1>4, <1>5, <1>7 DEF TypeOK
<1> QED BY <1>6, <1>7

\* Type correctness: on either machine only its own keys are ever down.
THEOREM TypeCorrect == Spec => []TypeOK
<1>1. Init => TypeOK
  BY DEF Init, TypeOK
<1>2. ASSUME TypeOK, NEW vk \in Keys, NEW pressed \in BOOLEAN, NEW down, Passes(vk, pressed, down),
             UNCHANGED <<host, system, suppress>>, held' \subseteq held \cup {vk},
             fresh' \subseteq fresh \cup {vk}, capsOn' \in BOOLEAN
      PROVE  TypeOK'
  <2>1. Keys' = Keys
    BY <1>2 DEF Keys
  <2>2. local' \subseteq Keys
    BY <1>2 DEF Passes, TypeOK
  <2>3. remote' \subseteq IF system = "mac" THEN 0 .. 127 ELSE 1 .. 255
    <3>1. CASE suppress
      BY <1>2, <3>1, KeysArrive DEF Passes
    <3>2. CASE ~suppress
      BY <1>2, <3>2 DEF Passes, TypeOK
    <3> QED BY <3>1, <3>2
  <2> QED BY <1>2, <2>1, <2>2, <2>3 DEF TypeOK
<1>3. ASSUME TypeOK, NEW vk \in Keys,
             KeyDown(vk) \/ KeyUp(vk) \/ FlagsChanged(vk) \/ CapsLockUp(vk)
      PROVE  TypeOK'
  <2>1. CASE KeyDown(vk)
    <3>1. capsOn' \in BOOLEAN
      BY <1>3, <2>1 DEF KeyDown, TypeOK
    <3> QED BY <1>2, <1>3, <2>1, <3>1 DEF KeyDown
  <2>2. CASE KeyUp(vk)
    <3>1. capsOn' \in BOOLEAN
      BY <1>3, <2>2 DEF KeyUp, TypeOK
    <3> QED BY <1>2, <1>3, <2>2, <3>1 DEF KeyUp
  <2>3. CASE FlagsChanged(vk)
    <3>1. FlagSet(vk, held', capsOn') \in BOOLEAN
      BY Zenon DEF FlagSet
    <3>2. capsOn' \in BOOLEAN
      BY <1>3, <2>3 DEF FlagsChanged, TypeOK
    <3> QED BY <1>2, <1>3, <2>3, <3>1, <3>2 DEF FlagsChanged
  <2>4. CASE CapsLockUp(vk)
    <3>1. /\ UNCHANGED <<host, system, suppress, capsOn, remote>> /\ held' \subseteq held
          /\ local' \subseteq local /\ fresh' = fresh \cup {vk} /\ Keys' = Keys
      BY <2>4 DEF CapsLockUp, Keys
    <3> QED BY <1>3, <3>1 DEF TypeOK
  <2> QED BY <1>3, <2>1, <2>2, <2>3, <2>4
<1>4. ASSUME TypeOK, Enter \/ Escape \/ UNCHANGED vars PROVE TypeOK'
  <2>1. /\ UNCHANGED <<host, system, capsOn, local, remote>> /\ suppress' \in BOOLEAN
        /\ fresh' \subseteq fresh /\ held' \subseteq held \cup {EscapeKey}
        /\ EscapeKey \in Keys \/ held' = held
    BY <1>4 DEF Enter, Escape, vars, TypeOK
  <2>2. Keys' = Keys
    BY <2>1 DEF Keys
  <2> QED BY <1>4, <2>1, <2>2 DEF TypeOK
<1>5. TypeOK /\ [Next]_vars => TypeOK'
  BY <1>3, <1>4 DEF Next
<1> QED BY <1>1, <1>5, PTL DEF Spec

-------------------------------------------------------------------------------
(* Keys that are pressed or released where the input is.                     *)

\* The client's key for a key of the server, and whether it is told from the others.
Lands(vk) == ClientKey(Usage(vk))
Told(vk)  == Distinct(host, system, Keys, vk)

Inv == held \subseteq Keys /\ fresh \subseteq Keys /\ FreshKeysAreRight

\* What a key says of itself stays what it is.
Same == UNCHANGED <<host, system>>

LEMMA SameKeys ==
  ASSUME Same
  PROVE  Keys' = Keys /\ \A vk : Lands(vk)' = Lands(vk) /\ Told(vk)' = Told(vk)
<1>1. Keys' = Keys
  BY DEF Same, Keys
<1>2. \A vk : Usage(vk)' = Usage(vk)
  BY DEF Same, Usage
<1>3. \A hid : ClientKey(hid)' = ClientKey(hid)
  BY DEF Same, ClientKey
<1>4. \A vk : Lands(vk)' = Lands(vk)
  BY <1>2, <1>3 DEF Lands
<1>5. \A vk : Told(vk)' = Told(vk)
  BY <1>1 DEF Told, Same
<1> QED BY <1>1, <1>4, <1>5

\* A key that is told from the others has a key of its own at the client.
LEMMA Unconfused ==
  ASSUME NEW v \in Keys, NEW w \in Keys, Told(v)
  PROVE  Lands(v) # NoClientKey /\ (v # w => Lands(w) # Lands(v))
  BY DEF Told, Distinct, HasKey, Lands, Usage, ClientKey, NoClientKey

\* An event leaves every machine right, if what is sent of it is what the keyboard does to
\* the key, or the key is none that must be right.
LEMMA PassesRight ==
  ASSUME Inv, Same, NEW vk \in Keys, NEW pressed, NEW down,
         Passes(vk, pressed, down), UNCHANGED suppress,
         down => held' = held \cup {vk}, ~down => held' = held \ {vk},
         fresh' \subseteq fresh \cup {vk}, Told(vk) => (pressed <=> down)
  PROVE  Inv'
<1> USE DEF Inv
<1>1. held' \subseteq Keys' /\ fresh' \subseteq Keys'
  BY SameKeys
<1>2. ASSUME NEW v \in fresh', ~suppress PROVE (v \in local') = (v \in held')
  <2>1. down => local' = local \cup {vk}
    BY <1>2 DEF Passes
  <2>2. ~down => local' = local \ {vk}
    BY <1>2 DEF Passes
  <2>3. v # vk => (v \in local) = (v \in held)
    BY <1>2 DEF FreshKeysAreRight
  <2> QED BY <2>1, <2>2, <2>3
<1>3. ASSUME NEW v \in fresh', suppress, Told(v)
      PROVE  (Lands(v) \in remote') = (v \in held')
  <2>1. v \in Keys /\ Lands(v) # NoClientKey
    BY <1>1, <1>3, SameKeys, Unconfused
  <2>2. Lands(vk) = NoClientKey => remote' = remote
    BY <1>3 DEF Passes, Injects, Lands
  <2>3. Lands(vk) # NoClientKey /\ pressed => remote' = remote \cup {Lands(vk)}
    BY <1>3 DEF Passes, Injects, Lands
  <2>4. Lands(vk) # NoClientKey /\ ~pressed => remote' = remote \ {Lands(vk)}
    BY <1>3 DEF Passes, Injects, Lands
  <2>5. CASE v = vk
    BY <1>3, <2>1, <2>3, <2>4, <2>5
  <2>6. CASE v # vk
    <3>1. Lands(vk) # Lands(v)
      BY <1>3, <2>1, <2>6, Unconfused
    <3>2. (Lands(v) \in remote) = (v \in held)
      BY <1>3, <2>6 DEF FreshKeysAreRight, Told, Lands
    <3> QED BY <2>2, <2>3, <2>4, <2>6, <3>1, <3>2
  <2> QED BY <2>5, <2>6
<1>4. FreshKeysAreRight'
  <2>1. ASSUME NEW v \in fresh', suppress', Told(v)' PROVE (Lands(v)' \in remote') = (v \in held')
    BY <1>3, <2>1, SameKeys
  <2>2. ASSUME NEW v \in fresh', ~suppress' PROVE (v \in local') = (v \in held')
    BY <1>2, <2>2
  <2> QED BY <2>1, <2>2 DEF FreshKeysAreRight, Told, Lands
<1> QED BY <1>1, <1>4

\* Fn has no usage.
LEMMA FnIsNoKey == UsageOn("mac", Fn) = NoKey
<1>1. Len(MacTable) = 128 /\ MacTable[64] = NoKey
  BY DEF MacTable, NoKey
<1>2. 63 \in 0 .. 255 /\ 63 < Len(MacTable)
  BY <1>1
<1>3. macos_vk_to_hid[63] = MacTable[64]
  BY <1>2 DEF macos_vk_to_hid
<1> QED BY <1>1, <1>3 DEF UsageOn, Fn

\* The flag of a modifier that is the only one of its kind in use is that of the key.
LEMMA FlagIsKey ==
  ASSUME NEW vk \in Keys, NEW down, down \subseteq Keys, NEW on, IsModifier(vk), Told(vk)
  PROVE  FlagSet(vk, down, on) <=> vk \in down
<1>1. host = "mac" /\ vk # CapsLock /\ vk # Fn
  BY FnIsNoKey DEF IsModifier, Told, Distinct, HasKey
<1>2. \A c \in ModifierClass : vk \in c => c \cap Keys = {vk}
  BY <1>1 DEF Told, Distinct
<1>3. PICK c \in ModifierClass : vk \in c
  BY <1>1 DEF IsModifier, FlagKeys
<1>4. ASSUME FlagSet(vk, down, on) PROVE vk \in down
  <2>1. PICK d \in ModifierClass : vk \in d /\ d \cap down # {}
    BY <1>1, <1>4 DEF FlagSet
  <2> QED BY <1>2, <2>1
<1>5. ASSUME vk \in down PROVE FlagSet(vk, down, on)
  BY <1>3, <1>5 DEF FlagSet
<1> QED BY <1>4, <1>5

\* Every event leaves the machine that has the input right about its fresh keys.
LEMMA NextInv ==
  ASSUME Inv, [Next]_vars
  PROVE  Inv'
<1>1. ASSUME NEW vk \in Keys, KeyDown(vk) PROVE Inv'
  <2>1. /\ Same /\ UNCHANGED suppress /\ Passes(vk, TRUE, TRUE) /\ held' = held \cup {vk}
        /\ fresh' \subseteq fresh \cup {vk}
    BY <1>1 DEF KeyDown, Same
  <2> QED BY <2>1, PassesRight
<1>2. ASSUME NEW vk \in Keys, KeyUp(vk) PROVE Inv'
  <2>1. /\ Same /\ UNCHANGED suppress /\ Passes(vk, FALSE, FALSE) /\ held' = held \ {vk}
        /\ fresh' \subseteq fresh \cup {vk}
    BY <1>2 DEF KeyUp, Same
  <2> QED BY <2>1, PassesRight
<1>3. ASSUME NEW vk \in Keys, FlagsChanged(vk) PROVE Inv'
  <2> DEFINE pressed == FlagSet(vk, held', capsOn')
             down    == vk \in held'
  <2>1. /\ Same /\ UNCHANGED suppress /\ Passes(vk, pressed, down) /\ IsModifier(vk)
        /\ fresh' \subseteq fresh \cup {vk}
    BY <1>3 DEF FlagsChanged, Same
  <2>2. /\ vk \in held => held' = held \ {vk}
        /\ vk \notin held => held' = held \cup {vk}
    BY <1>3 DEF FlagsChanged
  <2>3. Told(vk) => (pressed <=> down)
    <3>1. held' \subseteq Keys
      BY <2>2 DEF Inv
    <3> QED BY <2>1, <3>1, FlagIsKey
  <2>4. (down => held' = held \cup {vk}) /\ (~down => held' = held \ {vk})
    BY <2>2
  <2> HIDE DEF pressed, down
  <2> QED BY <2>1, <2>3, <2>4, PassesRight
<1>4. ASSUME NEW vk \in Keys, CapsLockUp(vk) PROVE Inv'
  <2>1. /\ Same /\ UNCHANGED <<suppress, remote>> /\ held' = held \ {vk} /\ local' = local \ {vk}
        /\ fresh' = fresh \cup {vk} /\ host = "mac" /\ vk = CapsLock
    BY <1>4 DEF CapsLockUp, IsModifier, Same
  <2>2. ~Told(vk)
    BY <2>1 DEF Told, Distinct
  <2>3. held' \subseteq Keys' /\ fresh' \subseteq Keys'
    BY <2>1, SameKeys DEF Inv
  <2>4. ASSUME NEW v \in fresh', suppress', Told(v)' PROVE (Lands(v)' \in remote') = (v \in held')
    <3>1. v \in fresh /\ v # vk /\ Told(v)
      BY <2>1, <2>2, <2>4, SameKeys
    <3>2. (Lands(v) \in remote) = (v \in held)
      BY <2>1, <2>4, <3>1 DEF Inv, FreshKeysAreRight, Told, Lands
    <3> QED BY <2>1, <3>1, <3>2, SameKeys
  <2>5. ASSUME NEW v \in fresh', ~suppress' PROVE (v \in local') = (v \in held')
    BY <2>1, <2>5 DEF Inv, FreshKeysAreRight
  <2> QED BY <2>3, <2>4, <2>5 DEF Inv, FreshKeysAreRight, Told, Lands
<1>5. CASE Enter \/ Escape
  <2>1. Same /\ fresh' = {} /\ held' \subseteq Keys
    BY <1>5 DEF Enter, Escape, Same, Inv
  <2> QED BY <2>1, SameKeys DEF Inv, FreshKeysAreRight
<1>6. CASE UNCHANGED vars
  <2>1. Same /\ UNCHANGED <<suppress, held, local, remote, fresh>>
    BY <1>6 DEF vars, Same
  <2> QED BY <2>1, SameKeys DEF Inv, FreshKeysAreRight, Lands, Told
<1> QED BY <1>1, <1>2, <1>3, <1>4, <1>5, <1>6 DEF Next

\* The machine that has the input sees each key as it is, if it was last pressed or
\* released there and, at a client, is told from the others in use: however many keys are
\* down, whichever they are and whatever events come.
THEOREM FreshKeysAreRightHolds == Spec => []FreshKeysAreRight
<1>1. Init => Inv
  BY DEF Init, Inv, FreshKeysAreRight
<1>2. Inv => FreshKeysAreRight
  BY DEF Inv
<1> QED BY NextInv, <1>1, <1>2, PTL DEF Spec

-------------------------------------------------------------------------------
(* The threads of the platform objects: Workers.  StoppedIsQuiet is          *)
(* inductive next to the types.                                              *)

ThreadStates == {"none", "starting", "waiting", "busy", "ended"}

\* What a step of worker w's own thread may do: nothing once it has ended.
ThreadStep(w) == /\ thread[w] \in {"starting", "waiting", "busy"}
                 /\ \E state \in ThreadStates : thread' = [thread EXCEPT ![w] = state]
                 /\ address' \in [Worker -> BOOLEAN]
                 /\ UNCHANGED <<platform, main, at, flag, told, missed>>

LEMMA WorkersThreadSteps ==
  ASSUME WorkersTypeOK, NEW w \in Worker, Thread(w) \/ Wakes(w)
  PROVE  ThreadStep(w)
<1>1. CASE Publishes(w)
  BY <1>1 DEF Publishes, Becomes, ThreadStep, ThreadStates, WorkersTypeOK
<1>2. CASE WindowFails(w)
  BY <1>2 DEF WindowFails, Becomes, ThreadStep, ThreadStates, WorkersTypeOK
<1>3. CASE Loops(w)
  BY <1>3 DEF Loops, Becomes, ThreadStep, ThreadStates, WorkersTypeOK
<1>4. CASE Wakes(w)
  BY <1>4 DEF Wakes, Becomes, ThreadStep, ThreadStates, WorkersTypeOK
<1>5. CASE Returns(w)
  BY <1>5 DEF Returns, Becomes, ThreadStep, ThreadStates, WorkersTypeOK
<1>6. CASE Quits(w)
  BY <1>6 DEF Quits, Becomes, ThreadStep, ThreadStates, WorkersTypeOK
<1> QED BY <1>1, <1>2, <1>3, <1>4, <1>5, <1>6 DEF Thread

LEMMA WorkersTypeStep == WorkersTypeOK /\ [WorkersNext]_WorkersVars => WorkersTypeOK'
<1> SUFFICES ASSUME WorkersTypeOK, [WorkersNext]_WorkersVars PROVE WorkersTypeOK'
  OBVIOUS
<1>1. CASE Starts("capture", "off", "half")
  BY <1>1 DEF Starts, WorkersTypeOK, Worker
<1>2. CASE Starts("clipboard", "half", "on")
  BY <1>2 DEF Starts, WorkersTypeOK, Worker
<1>3. CASE StopBegins
  BY <1>3 DEF StopBegins, WorkersTypeOK, Worker
<1>4. CASE Main
  <2>1. PICK w \in Worker : Clears(w) \/ Tells(w) \/ Joins(w)
    BY <1>4 DEF Main
  <2>2. CASE Clears(w)
    BY <2>2 DEF Clears, WorkersTypeOK
  <2>3. CASE Tells(w)
    <3>1. Hears(w) \in BOOLEAN
      BY DEF Hears
    <3>2. told' \in [Worker -> BOOLEAN]
      BY <2>3, <3>1 DEF Tells, WorkersTypeOK
    <3>3. (Kind(w) # "poll" /\ ~Hears(w)) \in BOOLEAN
      OBVIOUS
    <3>4. missed' \in [Worker -> BOOLEAN]
      BY <2>3, <3>3 DEF Tells, WorkersTypeOK
    <3> QED BY <2>3, <3>2, <3>4 DEF Tells, WorkersTypeOK
  <2>4. CASE Joins(w)
    BY <2>4 DEF Joins, WorkersTypeOK, Worker
  <2> QED BY <2>1, <2>2, <2>3, <2>4
<1>5. CASE Renew
  BY <1>5 DEF Renew, WorkersTypeOK, Nothing
<1>6. CASE \E w \in Worker : Thread(w) \/ Wakes(w)
  <2>1. PICK w \in Worker : ThreadStep(w)
    BY <1>6, WorkersThreadSteps
  <2> QED BY <2>1 DEF ThreadStep, ThreadStates, WorkersTypeOK
<1>7. CASE UNCHANGED WorkersVars
  BY <1>7 DEF WorkersVars, WorkersTypeOK
<1> QED BY <1>1, <1>2, <1>3, <1>4, <1>5, <1>6, <1>7 DEF WorkersNext

\* The types of Workers, with no assumption at all.
THEOREM WorkersTypeCorrect == WorkersSpec => []WorkersTypeOK
<1>1. WorkersInit => WorkersTypeOK
  BY DEF WorkersInit, WorkersTypeOK, Nothing, Worker
<1> QED BY <1>1, WorkersTypeStep, PTL DEF WorkersSpec

LEMMA WorkersQuietStep == WorkersTypeOK /\ StoppedIsQuiet /\ [WorkersNext]_WorkersVars => StoppedIsQuiet'
<1> SUFFICES ASSUME WorkersTypeOK, StoppedIsQuiet, [WorkersNext]_WorkersVars PROVE StoppedIsQuiet'
  OBVIOUS
<1>1. CASE Starts("capture", "off", "half")
  BY <1>1 DEF Starts, StoppedIsQuiet
<1>2. CASE Starts("clipboard", "half", "on")
  BY <1>2 DEF Starts, StoppedIsQuiet
<1>3. CASE StopBegins
  BY <1>3 DEF StopBegins, StoppedIsQuiet
<1>4. CASE Main
  <2>1. PICK w \in Worker : Clears(w) \/ Tells(w) \/ Joins(w)
    BY <1>4 DEF Main
  <2>2. CASE Clears(w)
    BY <2>2 DEF Clears, StoppedIsQuiet
  <2>3. CASE Tells(w)
    BY <2>3 DEF Tells, StoppedIsQuiet
  \* The one that is joined has ended; the other one was joined before it.
  <2>4. CASE Joins(w)
    BY <2>4 DEF Joins, StoppedIsQuiet, Worker
  <2> QED BY <2>1, <2>2, <2>3, <2>4
<1>5. CASE Renew
  BY <1>5 DEF Renew, StoppedIsQuiet
<1>6. CASE \E w \in Worker : Thread(w) \/ Wakes(w)
  <2>1. PICK w \in Worker : ThreadStep(w)
    BY <1>6, WorkersThreadSteps
  <2> QED BY <2>1 DEF ThreadStep, StoppedIsQuiet, WorkersTypeOK
<1>7. CASE UNCHANGED WorkersVars
  BY <1>7 DEF WorkersVars, StoppedIsQuiet
<1> QED BY <1>1, <1>2, <1>3, <1>4, <1>5, <1>6, <1>7 DEF WorkersNext

\* When Server::stop has stopped a worker, the worker's thread is gone, so that no
\* callback reaches the server it goes on to take down (server.cpp:102-118).
THEOREM StoppedIsQuietHolds == WorkersSpec => []StoppedIsQuiet
<1>1. WorkersInit => StoppedIsQuiet
  BY DEF WorkersInit, StoppedIsQuiet
<1> QED BY <1>1, WorkersTypeCorrect, WorkersQuietStep, PTL DEF WorkersSpec
===============================================================================
