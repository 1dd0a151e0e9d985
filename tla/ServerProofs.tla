----------------------------- MODULE ServerProofs -----------------------------
(***************************************************************************)
(* Theorems about the server for any number of connections, any layout and *)
(* any cursor positions: the inductive invariant, the proof that every     *)
(* step keeps it, what follows from it, and that the server implements     *)
(* ScreenSwitch.                                                           *)
(*                                                                         *)
(* Each lemma about Next has one step per action, in the order of Server.  *)
(***************************************************************************)
EXTENDS Server, Lemmas

-------------------------------------------------------------------------------
(* The parts of the inductive invariant.                                     *)

\* Who holds the mutex, by where the threads are.
MutexInv ==
  /\ mutex = "hook" <=> pc["hook"] \in {"grab", "setClient"}
  /\ mutex = "keeper" <=> pc["keeper"] \in {"scan", "join", "restore", "setLocal"}
  /\ mutex = "main" <=> pc["main"] \in {"clear", "join"}
  /\ \A c \in ClientId : mutex = c <=> pc[c] = "adding"
  /\ mutex # "accept"

\* What is being destroyed is out of the map, and what keepalive_loop walks is in it.
JoinInv ==
  /\ joining # NoClient <=> pc["keeper"] = "join" \/ pc["main"] = "join"
  /\ joining \notin clients
  /\ mutex = "keeper" => todo \subseteq clients

\* Life of a connection: its thread starts when the socket is accepted, and the
\* map holds only connections whose thread was started.
ThreadInv ==
  /\ peer # NoClient <=> pc["accept"] = "insert"
  /\ \A c \in ClientId : /\ pc[c] = "none" <=> link[c] = "none"
                         /\ c \in clients \/ peer = c => pc[c] # "none"

\* start() brings up the threads one by one; stop() takes them down one by one.
LifeInv ==
  /\ pc["main"] = "init" => pc["accept"] = "off"
  /\ pc["main"] \in {"init", "bind", "capture"} => pc["hook"] = "off"
  /\ pc["main"] \in {"init", "bind", "capture", "spawn"} => pc["keeper"] = "off"
  /\ pc["main"] \in {"joinAccept", "joinKeeper", "lock", "clear", "join", "stopped"} =>
       pc["hook"] = "off"
  /\ pc["main"] \in {"joinKeeper", "lock", "clear", "join", "stopped"} => pc["accept"] = "off"
  /\ pc["main"] \in {"lock", "clear", "join", "stopped"} => pc["keeper"] = "off"
  /\ pc["main"] = "stopped" => clients = {} /\ fate = "running"

\* What threads keep in locals: the reference transition_to_client holds is to an
\* entry of the map, and was_active of a recv thread is true at most between being
\* read and the lookup in the map.
LocalsInv ==
  /\ pc["hook"] \in {"grab", "setClient"} => target \in clients
  /\ \A c \in ClientId : wasActive[c] => pc[c] = "erase"

\* How state_, active_client_id_ and the suppress flag hang together, by where
\* the hook thread is, and the keeper in the middle of its own way back to local.
\* In LOCAL_ACTIVE a client is named active only while a transition is under way,
\* or if start() forgot it.
SwitchInv ==
  /\ pc["hook"] \in {"off", "idle", "enter", "key"} /\ pc["keeper"] # "setLocal" =>
       /\ suppress <=> active # NoClient
       /\ state = "CLIENT_ACTIVE" => active # NoClient
  /\ pc["keeper"] = "setLocal" => ~suppress /\ active = NoClient
  /\ pc["hook"] \in {"enter", "grab", "setClient"} => state = "LOCAL_ACTIVE"
  /\ pc["hook"] = "grab" => active \in {NoClient, forgotten, target}
  /\ pc["hook"] = "setClient" => active = target /\ suppress
  /\ pc["hook"] \in {"grab", "setClient"} => forgotten # target
  /\ pc["hook"] \in {"leave", "release", "setLocal"} => ~suppress
  /\ pc["hook"] = "setLocal" => active = NoClient
  /\ active # NoClient /\ pc["hook"] \notin {"grab", "setClient", "release"} =>
       state = "CLIENT_ACTIVE" \/ active = forgotten
  /\ forgotten # NoClient /\ active = forgotten => state = "LOCAL_ACTIVE"
  /\ pc["main"] \in {"init", "bind", "capture", "spawn", "setLocal"} => forgotten = NoClient

\* While the process lives: a live recv thread belongs to an entry, to one about to
\* be inserted or to one being destroyed; an active client that is gone is one that
\* keepalive_loop (or stop) is taking out; and a recv thread that found its client
\* active still has it in the map, or is being joined.
LiveInv ==
  /\ \A c \in ClientId :
       pc[c] \notin {"none", "exit"} => c \in clients \/ peer = c \/ joining = c
  /\ active # NoClient /\ active \notin clients =>
       /\ joining = active \/ pc[active] = "exit"
       /\ pc["main"] \notin {"clear", "join", "stopped"} /\ state = "CLIENT_ACTIVE" =>
            pc["keeper"] \in {"join", "restore"} /\ wasActive["keeper"]
  /\ \A c \in ClientId : wasActive[c] => c \in clients \/ joining = c

\* The client has been sent SCREEN_ENTER, and no SCREEN_LEAVE yet, as far as the hook
\* thread got: it has the input, is getting it, or had it when start() forgot it.
Told(c) == \/ state = "CLIENT_ACTIVE" /\ active = c /\ pc["hook"] \notin {"release", "setLocal"}
           \/ pc["hook"] \in {"grab", "setClient"} /\ target = c
           \/ forgotten = c

\* Nobody has accepted the client yet, or on_client_connected is about to insert it.
Newcomer(c) == link[c] = "none" \/ peer = c

\* While the process lives: a client that can still be told knows whether the input
\* is its own; nothing has been sent to a newcomer; and keepalive_loop is on its way
\* back to local for a client that is out of the map.
ViewInv ==
  /\ \A c \in clients : connected[c] => (view[c] = "in" <=> Told(c))
  /\ \A c \in ClientId : Newcomer(c) => c \notin clients /\ view[c] = "out" /\ active # c /\ forgotten # c
  /\ pc["keeper"] \in {"join", "restore"} /\ (wasActive["keeper"] \/ pc["keeper"] = "restore") =>
       active \notin clients

\* layout_ holds entries of clients that were in the map when
\* they said HELLO, and so none of a client that was not when its thread gave it up.
Entry == Entries(ClientId, {[x |-> 0, y |-> 0, width |-> 2, height |-> 2]}, Edge \cup GuiEdges)
LayoutInv ==
  /\ layout \in Seq(Entry)
  /\ \A c \in ClientId : pc[c] = "adding" => c \in clients
  /\ \A c \in ClientId : Newcomer(c) \/ pc[c] = "forget" => c \notin Ids(layout)

Inv == /\ TypeOK /\ MutexInv /\ JoinInv /\ ThreadInv /\ LifeInv /\ LocalsInv /\ SwitchInv
       /\ LayoutInv
       /\ fate = "running" => LiveInv /\ ViewInv

-------------------------------------------------------------------------------
(* What the prover needs to know of threads and of pc.                       *)

\* Every recv thread is a thread, and none of the others.
LEMMA Clients ==
  \A c \in ClientId : /\ c \in Thread /\ c # Free /\ c # NoClient
                      /\ c # "main" /\ c # "accept" /\ c # "hook" /\ c # "keeper"
  BY ClientIdAssumption DEF Thread, Service

\* A thread that starts another one moves these two and nobody else.
LEMMA SpawnPc ==
  ASSUME PcOK, NEW t \in Thread, NEW u \in Thread \ {t}, NEW label, NEW first,
         Spawn(t, label, u, first)
  PROVE  /\ pc'[t] = label /\ pc'[u] = first
         /\ \A v \in Thread \ {t, u} : pc'[v] = pc[v]
  BY DEF PcOK, Spawn

\* on_client_connected moves the accept thread and the recv thread it starts.
LEMMA AcceptPcs ==
  ASSUME PcOK, NEW c \in ClientId, Accept(c)
  PROVE  /\ pc["accept"] = "accept" /\ pc'["accept"] = "insert" /\ pc'[c] = "loop"
         /\ \A t \in Thread \ {"accept", c} : pc'[t] = pc[t]
  <1>1. "accept" \in Thread /\ c \in Thread \ {"accept"}
    BY Clients DEF Thread, Service
  <1>q. QED
    BY <1>1, SpawnPc DEF Accept, At

-------------------------------------------------------------------------------
(* Every step keeps every part of the invariant.                             *)

\* Every thread stays at labels of its own.
LEMMA NextPcOK ==
  ASSUME PcOK, [Next]_vars
  PROVE  PcOK'
  <1> USE ClientIdAssumption DEF PcOK, Thread, Service, Goto
  <1>1. ASSUME NEW c \in ClientId, PeerCloses(c) PROVE PcOK'
    BY <1>1 DEF PeerCloses
  <1>2. ASSUME NEW c \in ClientId, Accept(c) PROVE PcOK'
    BY <1>2 DEF Accept, Spawn, AcceptPc, RecvPc
  <1>3. CASE Insert
    BY <1>3 DEF Insert, AcceptPc
  <1>4. CASE AcceptEnds
    BY <1>4 DEF AcceptEnds, AcceptPc
  <1>5. ASSUME NEW c \in ClientId, RecvTest(c) PROVE PcOK'
    BY <1>5 DEF RecvTest, RecvPc
  <1>6. ASSUME NEW c \in ClientId, RecvFails(c) PROVE PcOK'
    BY <1>6 DEF RecvFails, DisconnectReads, RecvPc
  <1>7. ASSUME NEW c \in ClientId, RecvDisconnect(c) PROVE PcOK'
    BY <1>7 DEF RecvDisconnect, DisconnectReads, RecvPc
  <1>8. ASSUME NEW c \in ClientId, RecvMessage(c) PROVE PcOK'
    BY <1>8 DEF RecvMessage, RecvPc
  <1>9. ASSUME NEW c \in ClientId, HelloLocks(c) PROVE PcOK'
    BY <1>9 DEF HelloLocks, RecvPc
  <1>10. ASSUME NEW c \in ClientId, NEW ok \in BOOLEAN, HelloAdds(c, ok) PROVE PcOK'
    BY <1>10 DEF HelloAdds, RecvPc
  <1>11. ASSUME NEW c \in ClientId, KeepaliveArrives(c) PROVE PcOK'
    BY <1>11 DEF KeepaliveArrives, RecvPc
  <1>12. ASSUME NEW c \in ClientId, DisconnectErases(c) PROVE PcOK'
    BY <1>12 DEF DisconnectErases, RecvPc
  <1>13. ASSUME NEW c \in ClientId, DisconnectForgets(c) PROVE PcOK'
    BY <1>13 DEF DisconnectForgets, RecvPc
  <1>14. ASSUME NEW p \in Cursor, CursorMoves(p) PROVE PcOK'
    BY <1>14 DEF CursorMoves, HookPc
  <1>15. ASSUME NEW ok \in BOOLEAN, Enter(ok) PROVE PcOK'
    BY <1>15 DEF Enter, HookPc
  <1>16. CASE EnterGrabs
    BY <1>16 DEF EnterGrabs, HookPc
  <1>17. CASE EnterSets
    BY <1>17 DEF EnterSets, HookPc
  <1>18. CASE KeyPressed
    BY <1>18 DEF KeyPressed, HookPc
  <1>19. ASSUME NEW ok \in BOOLEAN, KeySent(ok) PROVE PcOK'
    BY <1>19 DEF KeySent, HookPc
  <1>20. CASE Escape
    BY <1>20 DEF Escape, HookPc
  <1>21. ASSUME NEW ok \in BOOLEAN, Leave(ok) PROVE PcOK'
    BY <1>21 DEF Leave, HookPc
  <1>22. CASE LeaveReleases
    BY <1>22 DEF LeaveReleases, HookPc
  <1>23. CASE LeaveSets
    BY <1>23 DEF LeaveSets, HookPc
  <1>24. CASE CaptureEnds
    BY <1>24 DEF CaptureEnds, HookPc
  <1>25. CASE KeeperTest
    BY <1>25 DEF KeeperTest, KeeperPc
  <1>26. ASSUME NEW quiet \in SUBSET ClientId, KeeperWakes(quiet) PROVE PcOK'
    BY <1>26 DEF KeeperWakes, KeeperPc
  <1>27. CASE KeeperLocks
    BY <1>27 DEF KeeperLocks, KeeperPc
  <1>28. ASSUME NEW c \in ClientId, NEW ok \in BOOLEAN, KeeperBeats(c, ok) PROVE PcOK'
    BY <1>28 DEF KeeperBeats
  <1>29. ASSUME NEW c \in ClientId, KeeperExpires(c) PROVE PcOK'
    BY <1>29 DEF KeeperExpires, Destroy, KeeperPc
  <1>30. CASE KeeperJoins
    BY <1>30 DEF KeeperJoins, KeeperPc
  <1>31. CASE KeeperRestores
    BY <1>31 DEF KeeperRestores, KeeperPc
  <1>32. CASE KeeperSets
    BY <1>32 DEF KeeperSets, KeeperPc
  <1>33. CASE KeeperUnlocks
    BY <1>33 DEF KeeperUnlocks, KeeperPc
  <1>34. CASE StartListens
    BY <1>34 DEF StartListens, Spawn, MainPc, AcceptPc
  <1>35. CASE StartBindsUdp
    BY <1>35 DEF StartBindsUdp, MainPc
  <1>36. CASE StartCaptures
    BY <1>36 DEF StartCaptures, Spawn, MainPc, HookPc
  <1>37. CASE StartFails
    BY <1>37 DEF StartFails, MainPc
  <1>38. CASE StartSpawns
    BY <1>38 DEF StartSpawns, Spawn, MainPc, KeeperPc
  <1>39. CASE StartSets
    BY <1>39 DEF StartSets, MainPc
  <1>40. CASE GuiMovesScreen
    BY <1>40 DEF GuiMovesScreen, MainPc
  <1>41. ASSUME NEW c \in ClientId, NEW e \in GuiEdges, GuiMovedScreen(c, e) PROVE PcOK'
    BY <1>41 DEF GuiMovedScreen, MainPc
  <1>42. CASE Stop
    BY <1>42 DEF Stop, MainPc
  <1>43. CASE StopJoinsHook
    BY <1>43 DEF StopJoinsHook, MainPc
  <1>44. CASE StopJoinsAccept
    BY <1>44 DEF StopJoinsAccept, MainPc
  <1>45. CASE StopJoinsKeeper
    BY <1>45 DEF StopJoinsKeeper, MainPc
  <1>46. CASE StopLocks
    BY <1>46 DEF StopLocks, MainPc
  <1>47. ASSUME NEW c \in ClientId, StopClears(c) PROVE PcOK'
    BY <1>47 DEF StopClears, Destroy, MainPc
  <1>48. CASE StopJoins
    BY <1>48 DEF StopJoins, MainPc
  <1>49. CASE StopEnds
    BY <1>49 DEF StopEnds, MainPc
  <1>50. CASE UNCHANGED vars
    BY <1>50 DEF vars
  <1>q. QED
    <2>1. CASE Event
      BY <2>1, <1>1, <1>2, <1>7, <1>8, <1>14, <1>18, <1>20, <1>26, <1>34, <1>37, <1>40, <1>42
      DEF Event
    <2>2. CASE AcceptStep
      BY <2>2, <1>3, <1>4 DEF AcceptStep
    <2>3. CASE HookStep
      BY <2>3, <1>15, <1>16, <1>17, <1>19, <1>21, <1>22, <1>23, <1>24 DEF HookStep
    <2>4. CASE KeeperStep
      BY <2>4, <1>25, <1>27, <1>28, <1>29, <1>30, <1>31, <1>32, <1>33 DEF KeeperStep
    <2>5. CASE MainStep
      BY <2>5, <1>35, <1>36, <1>38, <1>39, <1>41, <1>43, <1>44, <1>45, <1>46, <1>47, <1>48, <1>49
      DEF MainStep
    <2>6. ASSUME NEW c \in ClientId, RecvStep(c) PROVE PcOK'
      BY <2>6, <1>5, <1>6, <1>9, <1>10, <1>11, <1>12, <1>13 DEF RecvStep
    <2>q. QED
      BY <1>50, <2>1, <2>2, <2>3, <2>4, <2>5, <2>6 DEF Next

\* Type correctness needs to know that a connection about to be inserted has a name.
LEMMA NextTypeOK ==
  ASSUME TypeOK, ThreadInv, [Next]_vars
  PROVE  TypeOK'
  <1>0. PcOK'
    BY NextPcOK DEF TypeOK
  <1> USE <1>0
      DEF Thread, Service, At, lifeVars, switchVars, layoutVars, connVars, threadVars, TypeOK
  <1>1. ASSUME NEW c \in ClientId, PeerCloses(c) PROVE TypeOK'
    BY <1>1 DEF PeerCloses
  <1>2. ASSUME NEW c \in ClientId, Accept(c) PROVE TypeOK'
    BY <1>2, SpawnPc DEF Accept
  <1>3. CASE Insert
    BY <1>3 DEF Insert, ThreadInv
  <1>4. CASE AcceptEnds
    BY <1>4 DEF AcceptEnds
  <1>5. ASSUME NEW c \in ClientId, RecvTest(c) PROVE TypeOK'
    BY <1>5 DEF RecvTest
  <1>6. ASSUME NEW c \in ClientId, RecvFails(c) PROVE TypeOK'
    BY <1>6 DEF RecvFails, DisconnectReads, IsActive
  <1>7. ASSUME NEW c \in ClientId, RecvDisconnect(c) PROVE TypeOK'
    BY <1>7 DEF RecvDisconnect, DisconnectReads, IsActive
  <1>8. ASSUME NEW c \in ClientId, RecvMessage(c) PROVE TypeOK'
    BY <1>8 DEF RecvMessage
  <1>9. ASSUME NEW c \in ClientId, HelloLocks(c) PROVE TypeOK'
    BY <1>9 DEF HelloLocks, Lock
  <1>10. ASSUME NEW c \in ClientId, NEW ok \in BOOLEAN, HelloAdds(c, ok) PROVE TypeOK'
    BY <1>10 DEF HelloAdds, Edited, Send, Unlock
  <1>11. ASSUME NEW c \in ClientId, KeepaliveArrives(c) PROVE TypeOK'
    BY <1>11 DEF KeepaliveArrives
  <1>12. ASSUME NEW c \in ClientId, DisconnectErases(c) PROVE TypeOK'
    BY <1>12 DEF DisconnectErases
  <1>13. ASSUME NEW c \in ClientId, DisconnectForgets(c) PROVE TypeOK'
    <2>1. suppress' \in BOOLEAN
      <3>1. CASE wasActive[c]
        BY <1>13, <3>1, Zenon DEF DisconnectForgets
      <3>2. CASE ~wasActive[c]
        BY <1>13, <3>2, Zenon DEF DisconnectForgets
      <3>q. QED
        BY <3>1, <3>2
    <2>2. fate' \in {"running", "selfJoin", "tornLayout"} /\ editing' \subseteq Thread
      BY <1>13 DEF DisconnectForgets, Edited
    <2>3. state' \in {"LOCAL_ACTIVE", "CLIENT_ACTIVE"} /\ active' \in ClientId \cup {NoClient}
      BY <1>13 DEF DisconnectForgets
    <2>4. wasActive' \in [ClientId \cup {"keeper"} -> BOOLEAN]
      BY <1>13 DEF DisconnectForgets
    <2>q. QED
      BY <1>13, <2>1, <2>2, <2>3, <2>4 DEF DisconnectForgets
  <1>14. ASSUME NEW p \in Cursor, CursorMoves(p) PROVE TypeOK'
    BY <1>14 DEF CursorMoves
  <1>15. ASSUME NEW ok \in BOOLEAN, Enter(ok) PROVE TypeOK'
    BY <1>15 DEF Enter, Lock, Send, ToldAnew
  <1>16. CASE EnterGrabs
    BY <1>16 DEF EnterGrabs
  <1>17. CASE EnterSets
    BY <1>17 DEF EnterSets, Unlock
  <1>18. CASE KeyPressed
    BY <1>18 DEF KeyPressed
  <1>19. ASSUME NEW ok \in BOOLEAN, KeySent(ok) PROVE TypeOK'
    BY <1>19 DEF KeySent, Send
  <1>20. CASE Escape
    BY <1>20 DEF Escape
  <1>21. ASSUME NEW ok \in BOOLEAN, Leave(ok) PROVE TypeOK'
    BY <1>21 DEF Leave, Send, ToldAnew
  <1>22. CASE LeaveReleases
    BY <1>22 DEF LeaveReleases
  <1>23. CASE LeaveSets
    BY <1>23 DEF LeaveSets
  <1>24. CASE CaptureEnds
    BY <1>24 DEF CaptureEnds
  <1>25. CASE KeeperTest
    BY <1>25 DEF KeeperTest
  <1>26. ASSUME NEW quiet \in SUBSET ClientId, KeeperWakes(quiet) PROVE TypeOK'
    BY <1>26 DEF KeeperWakes
  <1>27. CASE KeeperLocks
    BY <1>27 DEF KeeperLocks, Lock
  <1>28. ASSUME NEW c \in ClientId, NEW ok \in BOOLEAN, KeeperBeats(c, ok) PROVE TypeOK'
    BY <1>28 DEF KeeperBeats, Send
  <1>29. ASSUME NEW c \in ClientId, KeeperExpires(c) PROVE TypeOK'
    BY <1>29 DEF KeeperExpires, Destroy, IsActive
  <1>30. CASE KeeperJoins
    BY <1>30 DEF KeeperJoins
  <1>31. CASE KeeperRestores
    BY <1>31 DEF KeeperRestores
  <1>32. CASE KeeperSets
    BY <1>32 DEF KeeperSets
  <1>33. CASE KeeperUnlocks
    BY <1>33 DEF KeeperUnlocks, Unlock
  <1>34. CASE StartListens
    BY <1>34, SpawnPc DEF StartListens
  <1>35. CASE StartBindsUdp
    BY <1>35 DEF StartBindsUdp
  <1>36. CASE StartCaptures
    BY <1>36, SpawnPc DEF StartCaptures
  <1>37. CASE StartFails
    BY <1>37 DEF StartFails
  <1>38. CASE StartSpawns
    BY <1>38, SpawnPc DEF StartSpawns
  <1>39. CASE StartSets
    BY <1>39 DEF StartSets
  <1>40. CASE GuiMovesScreen
    BY <1>40 DEF GuiMovesScreen
  <1>41. ASSUME NEW c \in ClientId, NEW e \in GuiEdges, GuiMovedScreen(c, e) PROVE TypeOK'
    BY <1>41 DEF GuiMovedScreen, Edited
  <1>42. CASE Stop
    BY <1>42 DEF Stop
  <1>43. CASE StopJoinsHook
    BY <1>43 DEF StopJoinsHook
  <1>44. CASE StopJoinsAccept
    BY <1>44 DEF StopJoinsAccept
  <1>45. CASE StopJoinsKeeper
    BY <1>45 DEF StopJoinsKeeper
  <1>46. CASE StopLocks
    BY <1>46 DEF StopLocks, Lock
  <1>47. ASSUME NEW c \in ClientId, StopClears(c) PROVE TypeOK'
    BY <1>47 DEF StopClears, Destroy
  <1>48. CASE StopJoins
    BY <1>48 DEF StopJoins
  <1>49. CASE StopEnds
    BY <1>49 DEF StopEnds, Unlock
  <1>50. CASE UNCHANGED vars
    BY <1>50 DEF vars
  <1>q. QED
    <2>1. CASE Event
      BY <2>1, <1>1, <1>2, <1>7, <1>8, <1>14, <1>18, <1>20, <1>26, <1>34, <1>37, <1>40, <1>42 DEF
         Event
    <2>2. CASE AcceptStep
      BY <2>2, <1>3, <1>4 DEF AcceptStep
    <2>3. CASE HookStep
      BY <2>3, <1>15, <1>16, <1>17, <1>19, <1>21, <1>22, <1>23, <1>24 DEF HookStep
    <2>4. CASE KeeperStep
      BY <2>4, <1>25, <1>27, <1>28, <1>29, <1>30, <1>31, <1>32, <1>33 DEF KeeperStep
    <2>5. CASE MainStep
      BY <2>5, <1>35, <1>36, <1>38, <1>39, <1>41, <1>43, <1>44, <1>45, <1>46, <1>47, <1>48, <1>49
         DEF MainStep
    <2>6. ASSUME NEW c \in ClientId, RecvStep(c) PROVE TypeOK'
      BY <2>6, <1>5, <1>6, <1>9, <1>10, <1>11, <1>12, <1>13 DEF RecvStep
    <2>q. QED
      BY <1>50, <2>1, <2>2, <2>3, <2>4, <2>5, <2>6 DEF Next

\* The mutex and the places where it is held change together.
LEMMA NextMutexInv ==
  ASSUME PcOK, ThreadInv, LifeInv, MutexInv, [Next]_vars
  PROVE  MutexInv'
  <1> USE Clients
      DEF PcOK, Thread, Service, Free, NoClient, At, Goto, lifeVars, switchVars, layoutVars,
          connVars, threadVars, MutexInv, LifeInv
  <1>1. ASSUME NEW c \in ClientId, PeerCloses(c) PROVE MutexInv'
    BY <1>1 DEF PeerCloses
  <1>2. ASSUME NEW c \in ClientId, Accept(c) PROVE MutexInv'
    <2>1. c \in Thread \ {"accept"}
      BY DEF Accept
    <2>2. /\ pc'["accept"] = "insert" /\ pc'[c] = "loop"
          /\ \A t \in Thread \ {"accept", c} : pc'[t] = pc[t]
      BY <1>2, <2>1, SpawnPc DEF Accept
    <2>3. pc["accept"] = "accept" /\ link[c] = "none"
      BY <1>2 DEF Accept
    <2>4. /\ link' = [link EXCEPT ![c] = "open"] /\ peer' = c
          /\ UNCHANGED <<switchVars, mutex, clients, target, todo, joining, wasActive>>
      BY <1>2 DEF Accept
    <2>q. QED
      BY <2>2, <2>3, <2>4 DEF ThreadInv
  <1>3. CASE Insert
    BY <1>3 DEF Insert
  <1>4. CASE AcceptEnds
    BY <1>4 DEF AcceptEnds
  <1>5. ASSUME NEW c \in ClientId, RecvTest(c) PROVE MutexInv'
    BY <1>5 DEF RecvTest
  <1>6. ASSUME NEW c \in ClientId, RecvFails(c) PROVE MutexInv'
    BY <1>6 DEF RecvFails, DisconnectReads, IsActive
  <1>7. ASSUME NEW c \in ClientId, RecvDisconnect(c) PROVE MutexInv'
    BY <1>7 DEF RecvDisconnect, DisconnectReads, IsActive
  <1>8. ASSUME NEW c \in ClientId, RecvMessage(c) PROVE MutexInv'
    BY <1>8 DEF RecvMessage
  <1>9. ASSUME NEW c \in ClientId, HelloLocks(c) PROVE MutexInv'
    <2>1. /\ At(c, "hello")
          /\ \/ c \in clients /\ Lock(c) /\ Goto(c, "adding")
             \/ c \notin clients /\ UNCHANGED mutex /\ Goto(c, "loop")
          /\ UNCHANGED <<switchVars, threadVars, clients, link>>
      BY <1>9 DEF HelloLocks, Lock
    <2>q. QED
      BY <2>1 DEF Lock
  <1>10. ASSUME NEW c \in ClientId, NEW ok \in BOOLEAN, HelloAdds(c, ok) PROVE MutexInv'
    BY <1>10 DEF HelloAdds, Edited, Send, Unlock
  <1>11. ASSUME NEW c \in ClientId, KeepaliveArrives(c) PROVE MutexInv'
    BY <1>11 DEF KeepaliveArrives
  <1>12. ASSUME NEW c \in ClientId, DisconnectErases(c) PROVE MutexInv'
    <2>1. /\ At(c, "erase") /\ mutex = Free
          /\ \/ c \in clients /\ clients' = clients \ {c} /\ fate' = "selfJoin" /\ UNCHANGED pc
             \/ c \notin clients /\ UNCHANGED clients /\ Goto(c, "forget")
          /\ UNCHANGED <<switchVars, threadVars, mutex, link>>
      BY <1>12 DEF DisconnectErases
    <2>q. QED
      BY <2>1
  <1>13. ASSUME NEW c \in ClientId, DisconnectForgets(c) PROVE MutexInv'
    BY <1>13 DEF DisconnectForgets, Edited
  <1>14. ASSUME NEW p \in Cursor, CursorMoves(p) PROVE MutexInv'
    <2>1. /\ At("hook", "idle") /\ state = "LOCAL_ACTIVE"
          /\ Goto("hook", "enter") \/ UNCHANGED pc
          /\ UNCHANGED <<switchVars, mutex, clients, link, peer, todo, joining, wasActive>>
      BY <1>14 DEF CursorMoves
    <2>q. QED
      BY <2>1
  <1>15. ASSUME NEW ok \in BOOLEAN, Enter(ok) PROVE MutexInv'
    <2>1. /\ At("hook", "enter")
          /\ \/ target \in clients /\ Lock("hook") /\ Goto("hook", "grab") /\ UNCHANGED target
             \/ target \notin clients /\ UNCHANGED mutex /\ Goto("hook", "idle")
          /\ UNCHANGED <<fate, state, active, suppress, clients, link, peer, todo, joining,
                         wasActive>>
      BY <1>15 DEF Enter, Lock
    <2>q. QED
      BY <2>1 DEF Lock
  <1>16. CASE EnterGrabs
    BY <1>16 DEF EnterGrabs
  <1>17. CASE EnterSets
    BY <1>17 DEF EnterSets, Unlock
  <1>18. CASE KeyPressed
    BY <1>18 DEF KeyPressed
  <1>19. ASSUME NEW ok \in BOOLEAN, KeySent(ok) PROVE MutexInv'
    BY <1>19 DEF KeySent, Send
  <1>20. CASE Escape
    BY <1>20 DEF Escape
  <1>21. ASSUME NEW ok \in BOOLEAN, Leave(ok) PROVE MutexInv'
    BY <1>21 DEF Leave, Send
  <1>22. CASE LeaveReleases
    BY <1>22 DEF LeaveReleases
  <1>23. CASE LeaveSets
    BY <1>23 DEF LeaveSets
  <1>24. CASE CaptureEnds
    BY <1>24 DEF CaptureEnds
  <1>25. CASE KeeperTest
    BY <1>25 DEF KeeperTest
  <1>26. ASSUME NEW quiet \in SUBSET ClientId, KeeperWakes(quiet) PROVE MutexInv'
    BY <1>26 DEF KeeperWakes
  <1>27. CASE KeeperLocks
    BY <1>27 DEF KeeperLocks, Lock
  <1>28. ASSUME NEW c \in ClientId, NEW ok \in BOOLEAN, KeeperBeats(c, ok) PROVE MutexInv'
    BY <1>28 DEF KeeperBeats, Send
  <1>29. ASSUME NEW c \in ClientId, KeeperExpires(c) PROVE MutexInv'
    BY <1>29 DEF KeeperExpires, Destroy, IsActive
  <1>30. CASE KeeperJoins
    BY <1>30 DEF KeeperJoins
  <1>31. CASE KeeperRestores
    BY <1>31 DEF KeeperRestores
  <1>32. CASE KeeperSets
    BY <1>32 DEF KeeperSets
  <1>33. CASE KeeperUnlocks
    BY <1>33 DEF KeeperUnlocks, Unlock
  <1>34. CASE StartListens
    <2>1. /\ At("main", "init") /\ UNCHANGED <<link, peer>>
          /\ pc'["main"] = "bind" /\ pc'["accept"] = "accept"
          /\ \A t \in Thread \ {"main", "accept"} : pc'[t] = pc[t]
          /\ UNCHANGED <<switchVars, mutex, clients, target, todo, joining, wasActive>>
      BY <1>34, SpawnPc DEF StartListens
    <2>q. QED
      BY <2>1
  <1>35. CASE StartBindsUdp
    BY <1>35 DEF StartBindsUdp
  <1>36. CASE StartCaptures
    <2>1. /\ At("main", "capture") /\ UNCHANGED <<link, peer>>
          /\ pc'["main"] = "spawn" /\ pc'["hook"] = "idle"
          /\ \A t \in Thread \ {"main", "hook"} : pc'[t] = pc[t]
          /\ UNCHANGED <<switchVars, mutex, clients, target, todo, joining, wasActive>>
      BY <1>36, SpawnPc DEF StartCaptures
    <2>q. QED
      BY <2>1
  <1>37. CASE StartFails
    BY <1>37 DEF StartFails
  <1>38. CASE StartSpawns
    <2>1. /\ At("main", "spawn") /\ UNCHANGED <<link, peer>>
          /\ pc'["main"] = "setLocal" /\ pc'["keeper"] = "test"
          /\ \A t \in Thread \ {"main", "keeper"} : pc'[t] = pc[t]
          /\ UNCHANGED <<switchVars, mutex, clients, target, todo, joining, wasActive>>
      BY <1>38, SpawnPc DEF StartSpawns
    <2>q. QED
      BY <2>1
  <1>39. CASE StartSets
    BY <1>39 DEF StartSets
  <1>40. CASE GuiMovesScreen
    BY <1>40 DEF GuiMovesScreen
  <1>41. ASSUME NEW c \in ClientId, NEW e \in GuiEdges, GuiMovedScreen(c, e) PROVE MutexInv'
    BY <1>41 DEF GuiMovedScreen, Edited
  <1>42. CASE Stop
    BY <1>42 DEF Stop
  <1>43. CASE StopJoinsHook
    BY <1>43 DEF StopJoinsHook
  <1>44. CASE StopJoinsAccept
    BY <1>44 DEF StopJoinsAccept
  <1>45. CASE StopJoinsKeeper
    BY <1>45 DEF StopJoinsKeeper
  <1>46. CASE StopLocks
    BY <1>46 DEF StopLocks, Lock
  <1>47. ASSUME NEW c \in ClientId, StopClears(c) PROVE MutexInv'
    BY <1>47 DEF StopClears, Destroy
  <1>48. CASE StopJoins
    BY <1>48 DEF StopJoins
  <1>49. CASE StopEnds
    BY <1>49 DEF StopEnds, Unlock
  <1>50. CASE UNCHANGED vars
    BY <1>50 DEF vars
  <1>q. QED
    <2>1. CASE Event
      BY <2>1, <1>1, <1>2, <1>7, <1>8, <1>14, <1>18, <1>20, <1>26, <1>34, <1>37, <1>40, <1>42 DEF
         Event
    <2>2. CASE AcceptStep
      BY <2>2, <1>3, <1>4 DEF AcceptStep
    <2>3. CASE HookStep
      BY <2>3, <1>15, <1>16, <1>17, <1>19, <1>21, <1>22, <1>23, <1>24 DEF HookStep
    <2>4. CASE KeeperStep
      BY <2>4, <1>25, <1>27, <1>28, <1>29, <1>30, <1>31, <1>32, <1>33 DEF KeeperStep
    <2>5. CASE MainStep
      BY <2>5, <1>35, <1>36, <1>38, <1>39, <1>41, <1>43, <1>44, <1>45, <1>46, <1>47, <1>48, <1>49
         DEF MainStep
    <2>6. ASSUME NEW c \in ClientId, RecvStep(c) PROVE MutexInv'
      BY <2>6, <1>5, <1>6, <1>9, <1>10, <1>11, <1>12, <1>13 DEF RecvStep
    <2>q. QED
      BY <1>50, <2>1, <2>2, <2>3, <2>4, <2>5, <2>6 DEF Next

\* What is joined has left the map, and what the keeper walks has not.
LEMMA NextJoinInv ==
  ASSUME TypeOK, MutexInv, ThreadInv, LifeInv, JoinInv, [Next]_vars
  PROVE  JoinInv'
  <1> USE Clients
      DEF PcOK, Thread, Service, Free, NoClient, At, Goto, lifeVars, switchVars, layoutVars,
          connVars, threadVars, TypeOK, MutexInv, LifeInv, JoinInv
  <1>1. ASSUME NEW c \in ClientId, PeerCloses(c) PROVE JoinInv'
    BY <1>1 DEF PeerCloses
  <1>2. ASSUME NEW c \in ClientId, Accept(c) PROVE JoinInv'
    <2>1. /\ pc["accept"] = "accept" /\ pc'["accept"] = "insert" /\ pc'[c] = "loop"
          /\ \A t \in Thread \ {"accept", c} : pc'[t] = pc[t]
      BY <1>2, AcceptPcs
    <2>2. UNCHANGED <<mutex, clients, todo, joining>>
      BY <1>2 DEF Accept
    <2>q. QED
      BY <2>1, <2>2
  <1>3. CASE Insert
    BY <1>3 DEF Insert, ThreadInv
  <1>4. CASE AcceptEnds
    BY <1>4 DEF AcceptEnds
  <1>5. ASSUME NEW c \in ClientId, RecvTest(c) PROVE JoinInv'
    BY <1>5 DEF RecvTest
  <1>6. ASSUME NEW c \in ClientId, RecvFails(c) PROVE JoinInv'
    BY <1>6 DEF RecvFails, DisconnectReads, IsActive
  <1>7. ASSUME NEW c \in ClientId, RecvDisconnect(c) PROVE JoinInv'
    BY <1>7 DEF RecvDisconnect, DisconnectReads, IsActive
  <1>8. ASSUME NEW c \in ClientId, RecvMessage(c) PROVE JoinInv'
    BY <1>8 DEF RecvMessage
  <1>9. ASSUME NEW c \in ClientId, HelloLocks(c) PROVE JoinInv'
    BY <1>9 DEF HelloLocks, Lock
  <1>10. ASSUME NEW c \in ClientId, NEW ok \in BOOLEAN, HelloAdds(c, ok) PROVE JoinInv'
    BY <1>10 DEF HelloAdds, Edited, Send, Unlock
  <1>11. ASSUME NEW c \in ClientId, KeepaliveArrives(c) PROVE JoinInv'
    BY <1>11 DEF KeepaliveArrives
  <1>12. ASSUME NEW c \in ClientId, DisconnectErases(c) PROVE JoinInv'
    BY <1>12 DEF DisconnectErases
  <1>13. ASSUME NEW c \in ClientId, DisconnectForgets(c) PROVE JoinInv'
    BY <1>13 DEF DisconnectForgets, Edited
  <1>14. ASSUME NEW p \in Cursor, CursorMoves(p) PROVE JoinInv'
    BY <1>14 DEF CursorMoves
  <1>15. ASSUME NEW ok \in BOOLEAN, Enter(ok) PROVE JoinInv'
    BY <1>15 DEF Enter, Lock, Send
  <1>16. CASE EnterGrabs
    BY <1>16 DEF EnterGrabs
  <1>17. CASE EnterSets
    BY <1>17 DEF EnterSets, Unlock
  <1>18. CASE KeyPressed
    BY <1>18 DEF KeyPressed
  <1>19. ASSUME NEW ok \in BOOLEAN, KeySent(ok) PROVE JoinInv'
    BY <1>19 DEF KeySent, Send
  <1>20. CASE Escape
    BY <1>20 DEF Escape
  <1>21. ASSUME NEW ok \in BOOLEAN, Leave(ok) PROVE JoinInv'
    BY <1>21 DEF Leave, Send
  <1>22. CASE LeaveReleases
    BY <1>22 DEF LeaveReleases
  <1>23. CASE LeaveSets
    BY <1>23 DEF LeaveSets
  <1>24. CASE CaptureEnds
    BY <1>24 DEF CaptureEnds
  <1>25. CASE KeeperTest
    BY <1>25 DEF KeeperTest
  <1>26. ASSUME NEW quiet \in SUBSET ClientId, KeeperWakes(quiet) PROVE JoinInv'
    BY <1>26 DEF KeeperWakes
  <1>27. CASE KeeperLocks
    BY <1>27 DEF KeeperLocks, Lock
  <1>28. ASSUME NEW c \in ClientId, NEW ok \in BOOLEAN, KeeperBeats(c, ok) PROVE JoinInv'
    BY <1>28 DEF KeeperBeats, Send
  <1>29. ASSUME NEW c \in ClientId, KeeperExpires(c) PROVE JoinInv'
    BY <1>29 DEF KeeperExpires, Destroy, IsActive
  <1>30. CASE KeeperJoins
    BY <1>30 DEF KeeperJoins
  <1>31. CASE KeeperRestores
    BY <1>31 DEF KeeperRestores
  <1>32. CASE KeeperSets
    BY <1>32 DEF KeeperSets
  <1>33. CASE KeeperUnlocks
    BY <1>33 DEF KeeperUnlocks, Unlock
  <1>34. CASE StartListens
    BY <1>34, SpawnPc DEF StartListens
  <1>35. CASE StartBindsUdp
    BY <1>35 DEF StartBindsUdp
  <1>36. CASE StartCaptures
    BY <1>36, SpawnPc DEF StartCaptures
  <1>37. CASE StartFails
    BY <1>37 DEF StartFails
  <1>38. CASE StartSpawns
    BY <1>38, SpawnPc DEF StartSpawns
  <1>39. CASE StartSets
    BY <1>39 DEF StartSets
  <1>40. CASE GuiMovesScreen
    BY <1>40 DEF GuiMovesScreen
  <1>41. ASSUME NEW c \in ClientId, NEW e \in GuiEdges, GuiMovedScreen(c, e) PROVE JoinInv'
    BY <1>41 DEF GuiMovedScreen, Edited
  <1>42. CASE Stop
    BY <1>42 DEF Stop
  <1>43. CASE StopJoinsHook
    BY <1>43 DEF StopJoinsHook
  <1>44. CASE StopJoinsAccept
    BY <1>44 DEF StopJoinsAccept
  <1>45. CASE StopJoinsKeeper
    BY <1>45 DEF StopJoinsKeeper
  <1>46. CASE StopLocks
    BY <1>46 DEF StopLocks, Lock
  <1>47. ASSUME NEW c \in ClientId, StopClears(c) PROVE JoinInv'
    BY <1>47 DEF StopClears, Destroy
  <1>48. CASE StopJoins
    BY <1>48 DEF StopJoins
  <1>49. CASE StopEnds
    BY <1>49 DEF StopEnds, Unlock
  <1>50. CASE UNCHANGED vars
    BY <1>50 DEF vars
  <1>q. QED
    <2>1. CASE Event
      BY <2>1, <1>1, <1>2, <1>7, <1>8, <1>14, <1>18, <1>20, <1>26, <1>34, <1>37, <1>40, <1>42 DEF
         Event
    <2>2. CASE AcceptStep
      BY <2>2, <1>3, <1>4 DEF AcceptStep
    <2>3. CASE HookStep
      BY <2>3, <1>15, <1>16, <1>17, <1>19, <1>21, <1>22, <1>23, <1>24 DEF HookStep
    <2>4. CASE KeeperStep
      BY <2>4, <1>25, <1>27, <1>28, <1>29, <1>30, <1>31, <1>32, <1>33 DEF KeeperStep
    <2>5. CASE MainStep
      BY <2>5, <1>35, <1>36, <1>38, <1>39, <1>41, <1>43, <1>44, <1>45, <1>46, <1>47, <1>48, <1>49
         DEF MainStep
    <2>6. ASSUME NEW c \in ClientId, RecvStep(c) PROVE JoinInv'
      BY <2>6, <1>5, <1>6, <1>9, <1>10, <1>11, <1>12, <1>13 DEF RecvStep
    <2>q. QED
      BY <1>50, <2>1, <2>2, <2>3, <2>4, <2>5, <2>6 DEF Next

\* Threads, sockets and entries come to life in one order.
LEMMA NextThreadInv ==
  ASSUME TypeOK, ThreadInv, JoinInv, MutexInv, LifeInv, [Next]_vars
  PROVE  ThreadInv'
  <1>0. /\ PcOK /\ clients \subseteq ClientId /\ peer \in ClientId \cup {NoClient}
        /\ link \in [ClientId -> {"none", "open", "broken", "closed"}]
    BY DEF TypeOK
  <1> USE <1>0, Clients
      DEF PcOK, Thread, Service, Free, NoClient, At, Goto, lifeVars, switchVars, layoutVars,
          connVars, threadVars, ThreadInv, LifeInv, MutexInv
  <1>1. ASSUME NEW c \in ClientId, PeerCloses(c) PROVE ThreadInv'
    BY <1>1 DEF PeerCloses
  <1>2. ASSUME NEW c \in ClientId, Accept(c) PROVE ThreadInv'
    <2>1. c \in Thread \ {"accept"}
      BY DEF Accept
    <2>2. /\ pc'["accept"] = "insert" /\ pc'[c] = "loop"
          /\ \A t \in Thread \ {"accept", c} : pc'[t] = pc[t]
      BY <1>2, <2>1, SpawnPc DEF Accept
    <2>3. pc["accept"] = "accept" /\ link[c] = "none"
      BY <1>2 DEF Accept
    <2>4. /\ link' = [link EXCEPT ![c] = "open"] /\ peer' = c
          /\ UNCHANGED <<switchVars, mutex, clients, target, todo, joining, wasActive>>
      BY <1>2 DEF Accept
    <2>5. link'[c] = "open" /\ \A d \in ClientId \ {c} : link'[d] = link[d] /\ pc'[d] = pc[d]
      BY <2>2, <2>4
    <2>6. ASSUME NEW d \in ClientId
          PROVE  /\ pc'[d] = "none" <=> link'[d] = "none"
                 /\ d \in clients' \/ peer' = d => pc'[d] # "none"
      BY <2>2, <2>4, <2>5
    <2>q. QED
      BY <2>2, <2>4, <2>6
  <1>3. CASE Insert
    BY <1>3 DEF Insert
  <1>4. CASE AcceptEnds
    BY <1>4 DEF AcceptEnds
  <1>5. ASSUME NEW c \in ClientId, RecvTest(c) PROVE ThreadInv'
    BY <1>5 DEF RecvTest
  <1>6. ASSUME NEW c \in ClientId, RecvFails(c) PROVE ThreadInv'
    BY <1>6 DEF RecvFails, DisconnectReads, IsActive
  <1>7. ASSUME NEW c \in ClientId, RecvDisconnect(c) PROVE ThreadInv'
    BY <1>7 DEF RecvDisconnect, DisconnectReads, IsActive
  <1>8. ASSUME NEW c \in ClientId, RecvMessage(c) PROVE ThreadInv'
    BY <1>8 DEF RecvMessage
  <1>9. ASSUME NEW c \in ClientId, HelloLocks(c) PROVE ThreadInv'
    <2>1. /\ At(c, "hello")
          /\ \/ c \in clients /\ Lock(c) /\ Goto(c, "adding")
             \/ c \notin clients /\ UNCHANGED mutex /\ Goto(c, "loop")
          /\ UNCHANGED <<switchVars, threadVars, clients, link>>
      BY <1>9 DEF HelloLocks, Lock
    <2>q. QED
      BY <2>1 DEF Lock
  <1>10. ASSUME NEW c \in ClientId, NEW ok \in BOOLEAN, HelloAdds(c, ok) PROVE ThreadInv'
    BY <1>10 DEF HelloAdds, Edited, Send, Unlock
  <1>11. ASSUME NEW c \in ClientId, KeepaliveArrives(c) PROVE ThreadInv'
    BY <1>11 DEF KeepaliveArrives
  <1>12. ASSUME NEW c \in ClientId, DisconnectErases(c) PROVE ThreadInv'
    <2>1. pc[c] = "erase" /\ UNCHANGED <<link, peer>> /\ clients' \subseteq clients
      BY <1>12 DEF DisconnectErases
    <2>2. pc'[c] # "none" /\ \A t \in Thread \ {c} : pc'[t] = pc[t]
      BY <1>12 DEF DisconnectErases
    <2>q. QED
      BY <2>1, <2>2
  <1>13. ASSUME NEW c \in ClientId, DisconnectForgets(c) PROVE ThreadInv'
    BY <1>13 DEF DisconnectForgets, Edited
  <1>14. ASSUME NEW p \in Cursor, CursorMoves(p) PROVE ThreadInv'
    <2>1. \A t \in Thread \ {"hook"} : pc'[t] = pc[t]
      BY <1>14 DEF CursorMoves
    <2>2. UNCHANGED <<clients, link, peer>>
      BY <1>14 DEF CursorMoves
    <2>q. QED
      BY <2>1, <2>2
  <1>15. ASSUME NEW ok \in BOOLEAN, Enter(ok) PROVE ThreadInv'
    <2>1. \A t \in Thread \ {"hook"} : pc'[t] = pc[t]
      BY <1>15 DEF Enter
    <2>2. UNCHANGED <<clients, link, peer>>
      BY <1>15 DEF Enter
    <2>q. QED
      BY <2>1, <2>2
  <1>16. CASE EnterGrabs
    BY <1>16 DEF EnterGrabs
  <1>17. CASE EnterSets
    BY <1>17 DEF EnterSets, Unlock
  <1>18. CASE KeyPressed
    BY <1>18 DEF KeyPressed
  <1>19. ASSUME NEW ok \in BOOLEAN, KeySent(ok) PROVE ThreadInv'
    BY <1>19 DEF KeySent, Send
  <1>20. CASE Escape
    BY <1>20 DEF Escape
  <1>21. ASSUME NEW ok \in BOOLEAN, Leave(ok) PROVE ThreadInv'
    BY <1>21 DEF Leave, Send
  <1>22. CASE LeaveReleases
    BY <1>22 DEF LeaveReleases
  <1>23. CASE LeaveSets
    BY <1>23 DEF LeaveSets
  <1>24. CASE CaptureEnds
    BY <1>24 DEF CaptureEnds
  <1>25. CASE KeeperTest
    BY <1>25 DEF KeeperTest
  <1>26. ASSUME NEW quiet \in SUBSET ClientId, KeeperWakes(quiet) PROVE ThreadInv'
    BY <1>26 DEF KeeperWakes
  <1>27. CASE KeeperLocks
    BY <1>27 DEF KeeperLocks, Lock
  <1>28. ASSUME NEW c \in ClientId, NEW ok \in BOOLEAN, KeeperBeats(c, ok) PROVE ThreadInv'
    BY <1>28 DEF KeeperBeats, Send
  <1>29. ASSUME NEW c \in ClientId, KeeperExpires(c) PROVE ThreadInv'
    <2>1. /\ c \in clients /\ clients' = clients \ {c} /\ Goto("keeper", "join")
          /\ link' = [link EXCEPT ![c] = "closed"] /\ UNCHANGED peer
      BY <1>29 DEF KeeperExpires, Destroy, JoinInv
    <2>q. QED
      BY <2>1
  <1>30. CASE KeeperJoins
    BY <1>30 DEF KeeperJoins
  <1>31. CASE KeeperRestores
    BY <1>31 DEF KeeperRestores
  <1>32. CASE KeeperSets
    BY <1>32 DEF KeeperSets
  <1>33. CASE KeeperUnlocks
    BY <1>33 DEF KeeperUnlocks, Unlock
  <1>34. CASE StartListens
    <2>1. /\ At("main", "init") /\ UNCHANGED <<link, peer>>
          /\ pc'["main"] = "bind" /\ pc'["accept"] = "accept"
          /\ \A t \in Thread \ {"main", "accept"} : pc'[t] = pc[t]
          /\ UNCHANGED <<switchVars, mutex, clients, target, todo, joining, wasActive>>
      BY <1>34, SpawnPc DEF StartListens
    <2>q. QED
      BY <2>1
  <1>35. CASE StartBindsUdp
    BY <1>35 DEF StartBindsUdp
  <1>36. CASE StartCaptures
    <2>1. /\ At("main", "capture") /\ UNCHANGED <<link, peer>>
          /\ pc'["main"] = "spawn" /\ pc'["hook"] = "idle"
          /\ \A t \in Thread \ {"main", "hook"} : pc'[t] = pc[t]
          /\ UNCHANGED <<switchVars, mutex, clients, target, todo, joining, wasActive>>
      BY <1>36, SpawnPc DEF StartCaptures
    <2>q. QED
      BY <2>1
  <1>37. CASE StartFails
    BY <1>37 DEF StartFails
  <1>38. CASE StartSpawns
    <2>1. /\ At("main", "spawn") /\ UNCHANGED <<link, peer>>
          /\ pc'["main"] = "setLocal" /\ pc'["keeper"] = "test"
          /\ \A t \in Thread \ {"main", "keeper"} : pc'[t] = pc[t]
          /\ UNCHANGED <<switchVars, mutex, clients, target, todo, joining, wasActive>>
      BY <1>38, SpawnPc DEF StartSpawns
    <2>q. QED
      BY <2>1
  <1>39. CASE StartSets
    BY <1>39 DEF StartSets
  <1>40. CASE GuiMovesScreen
    BY <1>40 DEF GuiMovesScreen
  <1>41. ASSUME NEW c \in ClientId, NEW e \in GuiEdges, GuiMovedScreen(c, e) PROVE ThreadInv'
    BY <1>41 DEF GuiMovedScreen, Edited
  <1>42. CASE Stop
    BY <1>42 DEF Stop
  <1>43. CASE StopJoinsHook
    BY <1>43 DEF StopJoinsHook
  <1>44. CASE StopJoinsAccept
    BY <1>44 DEF StopJoinsAccept
  <1>45. CASE StopJoinsKeeper
    BY <1>45 DEF StopJoinsKeeper
  <1>46. CASE StopLocks
    BY <1>46 DEF StopLocks, Lock
  <1>47. ASSUME NEW c \in ClientId, StopClears(c) PROVE ThreadInv'
    BY <1>47 DEF StopClears, Destroy
  <1>48. CASE StopJoins
    BY <1>48 DEF StopJoins
  <1>49. CASE StopEnds
    BY <1>49 DEF StopEnds, Unlock
  <1>50. CASE UNCHANGED vars
    BY <1>50 DEF vars
  <1>q. QED
    <2>1. CASE Event
      BY <2>1, <1>1, <1>2, <1>7, <1>8, <1>14, <1>18, <1>20, <1>26, <1>34, <1>37, <1>40, <1>42 DEF
         Event
    <2>2. CASE AcceptStep
      BY <2>2, <1>3, <1>4 DEF AcceptStep
    <2>3. CASE HookStep
      BY <2>3, <1>15, <1>16, <1>17, <1>19, <1>21, <1>22, <1>23, <1>24 DEF HookStep
    <2>4. CASE KeeperStep
      BY <2>4, <1>25, <1>27, <1>28, <1>29, <1>30, <1>31, <1>32, <1>33 DEF KeeperStep
    <2>5. CASE MainStep
      BY <2>5, <1>35, <1>36, <1>38, <1>39, <1>41, <1>43, <1>44, <1>45, <1>46, <1>47, <1>48, <1>49
         DEF MainStep
    <2>6. ASSUME NEW c \in ClientId, RecvStep(c) PROVE ThreadInv'
      BY <2>6, <1>5, <1>6, <1>9, <1>10, <1>11, <1>12, <1>13 DEF RecvStep
    <2>q. QED
      BY <1>50, <2>1, <2>2, <2>3, <2>4, <2>5, <2>6 DEF Next

\* start() and stop() go through their stages one by one, and nobody dies after stop().
LEMMA NextLifeInv ==
  ASSUME TypeOK, ThreadInv, LifeInv, MutexInv, JoinInv, fate = "running" => LiveInv,
         [Next]_vars
  PROVE  LifeInv'
  <1>0. PcOK /\ clients \subseteq ClientId
    BY DEF TypeOK
  <1> USE <1>0, Clients
      DEF PcOK, Thread, Service, Free, NoClient, At, Goto, lifeVars, switchVars, layoutVars,
          connVars, threadVars, ThreadInv, LifeInv, MutexInv, JoinInv
  <1>1. ASSUME NEW c \in ClientId, PeerCloses(c) PROVE LifeInv'
    BY <1>1 DEF PeerCloses
  <1>2. ASSUME NEW c \in ClientId, Accept(c) PROVE LifeInv'
    <2>1. /\ pc["accept"] = "accept" /\ pc'["accept"] = "insert" /\ pc'[c] = "loop"
          /\ \A t \in Thread \ {"accept", c} : pc'[t] = pc[t]
      BY <1>2, AcceptPcs
    <2>2. UNCHANGED <<clients, fate>>
      BY <1>2 DEF Accept
    <2>q. QED
      BY <2>1, <2>2
  <1>3. CASE Insert
    BY <1>3 DEF Insert
  <1>4. CASE AcceptEnds
    BY <1>4 DEF AcceptEnds
  <1>5. ASSUME NEW c \in ClientId, RecvTest(c) PROVE LifeInv'
    BY <1>5 DEF RecvTest
  <1>6. ASSUME NEW c \in ClientId, RecvFails(c) PROVE LifeInv'
    BY <1>6 DEF RecvFails, DisconnectReads, IsActive
  <1>7. ASSUME NEW c \in ClientId, RecvDisconnect(c) PROVE LifeInv'
    BY <1>7 DEF RecvDisconnect, DisconnectReads, IsActive
  <1>8. ASSUME NEW c \in ClientId, RecvMessage(c) PROVE LifeInv'
    BY <1>8 DEF RecvMessage
  <1>9. ASSUME NEW c \in ClientId, HelloLocks(c) PROVE LifeInv'
    BY <1>9 DEF HelloLocks, Lock
  <1>10. ASSUME NEW c \in ClientId, NEW ok \in BOOLEAN, HelloAdds(c, ok) PROVE LifeInv'
    BY <1>10 DEF HelloAdds, Edited, Send, Unlock, LiveInv
  <1>11. ASSUME NEW c \in ClientId, KeepaliveArrives(c) PROVE LifeInv'
    BY <1>11 DEF KeepaliveArrives
  <1>12. ASSUME NEW c \in ClientId, DisconnectErases(c) PROVE LifeInv'
    BY <1>12 DEF DisconnectErases
  <1>13. ASSUME NEW c \in ClientId, DisconnectForgets(c) PROVE LifeInv'
    BY <1>13 DEF DisconnectForgets, Edited, LiveInv
  <1>14. ASSUME NEW p \in Cursor, CursorMoves(p) PROVE LifeInv'
    <2>1. /\ At("hook", "idle") /\ state = "LOCAL_ACTIVE"
          /\ Goto("hook", "enter") \/ UNCHANGED pc
          /\ UNCHANGED <<switchVars, mutex, clients, link, peer, todo, joining, wasActive>>
      BY <1>14 DEF CursorMoves
    <2>q. QED
      BY <2>1
  <1>15. ASSUME NEW ok \in BOOLEAN, Enter(ok) PROVE LifeInv'
    <2>1. /\ At("hook", "enter")
          /\ \/ target \in clients /\ Lock("hook") /\ Goto("hook", "grab") /\ UNCHANGED target
             \/ target \notin clients /\ UNCHANGED mutex /\ Goto("hook", "idle")
          /\ UNCHANGED <<fate, state, active, suppress, clients, link, peer, todo, joining,
                         wasActive>>
      BY <1>15 DEF Enter, Lock
    <2>q. QED
      BY <2>1 DEF Lock
  <1>16. CASE EnterGrabs
    BY <1>16 DEF EnterGrabs
  <1>17. CASE EnterSets
    BY <1>17 DEF EnterSets, Unlock
  <1>18. CASE KeyPressed
    BY <1>18 DEF KeyPressed
  <1>19. ASSUME NEW ok \in BOOLEAN, KeySent(ok) PROVE LifeInv'
    BY <1>19 DEF KeySent, Send
  <1>20. CASE Escape
    BY <1>20 DEF Escape
  <1>21. ASSUME NEW ok \in BOOLEAN, Leave(ok) PROVE LifeInv'
    BY <1>21 DEF Leave, Send
  <1>22. CASE LeaveReleases
    BY <1>22 DEF LeaveReleases
  <1>23. CASE LeaveSets
    BY <1>23 DEF LeaveSets
  <1>24. CASE CaptureEnds
    BY <1>24 DEF CaptureEnds
  <1>25. CASE KeeperTest
    BY <1>25 DEF KeeperTest
  <1>26. ASSUME NEW quiet \in SUBSET ClientId, KeeperWakes(quiet) PROVE LifeInv'
    BY <1>26 DEF KeeperWakes
  <1>27. CASE KeeperLocks
    BY <1>27 DEF KeeperLocks, Lock
  <1>28. ASSUME NEW c \in ClientId, NEW ok \in BOOLEAN, KeeperBeats(c, ok) PROVE LifeInv'
    BY <1>28 DEF KeeperBeats, Send
  <1>29. ASSUME NEW c \in ClientId, KeeperExpires(c) PROVE LifeInv'
    BY <1>29 DEF KeeperExpires, Destroy, IsActive
  <1>30. CASE KeeperJoins
    BY <1>30 DEF KeeperJoins
  <1>31. CASE KeeperRestores
    BY <1>31 DEF KeeperRestores
  <1>32. CASE KeeperSets
    BY <1>32 DEF KeeperSets
  <1>33. CASE KeeperUnlocks
    BY <1>33 DEF KeeperUnlocks, Unlock
  <1>34. CASE StartListens
    <2>1. /\ At("main", "init") /\ UNCHANGED <<link, peer>>
          /\ pc'["main"] = "bind" /\ pc'["accept"] = "accept"
          /\ \A t \in Thread \ {"main", "accept"} : pc'[t] = pc[t]
          /\ UNCHANGED <<switchVars, mutex, clients, target, todo, joining, wasActive>>
      BY <1>34, SpawnPc DEF StartListens
    <2>q. QED
      BY <2>1
  <1>35. CASE StartBindsUdp
    BY <1>35 DEF StartBindsUdp
  <1>36. CASE StartCaptures
    <2>1. /\ At("main", "capture") /\ UNCHANGED <<link, peer>>
          /\ pc'["main"] = "spawn" /\ pc'["hook"] = "idle"
          /\ \A t \in Thread \ {"main", "hook"} : pc'[t] = pc[t]
          /\ UNCHANGED <<switchVars, mutex, clients, target, todo, joining, wasActive>>
      BY <1>36, SpawnPc DEF StartCaptures
    <2>q. QED
      BY <2>1
  <1>37. CASE StartFails
    BY <1>37 DEF StartFails
  <1>38. CASE StartSpawns
    <2>1. /\ At("main", "spawn") /\ UNCHANGED <<link, peer>>
          /\ pc'["main"] = "setLocal" /\ pc'["keeper"] = "test"
          /\ \A t \in Thread \ {"main", "keeper"} : pc'[t] = pc[t]
          /\ UNCHANGED <<switchVars, mutex, clients, target, todo, joining, wasActive>>
      BY <1>38, SpawnPc DEF StartSpawns
    <2>q. QED
      BY <2>1
  <1>39. CASE StartSets
    BY <1>39 DEF StartSets
  <1>40. CASE GuiMovesScreen
    BY <1>40 DEF GuiMovesScreen
  <1>41. ASSUME NEW c \in ClientId, NEW e \in GuiEdges, GuiMovedScreen(c, e) PROVE LifeInv'
    BY <1>41 DEF GuiMovedScreen, Edited
  <1>42. CASE Stop
    BY <1>42 DEF Stop
  <1>43. CASE StopJoinsHook
    BY <1>43 DEF StopJoinsHook
  <1>44. CASE StopJoinsAccept
    BY <1>44 DEF StopJoinsAccept
  <1>45. CASE StopJoinsKeeper
    BY <1>45 DEF StopJoinsKeeper
  <1>46. CASE StopLocks
    BY <1>46 DEF StopLocks, Lock
  <1>47. ASSUME NEW c \in ClientId, StopClears(c) PROVE LifeInv'
    BY <1>47 DEF StopClears, Destroy
  <1>48. CASE StopJoins
    BY <1>48 DEF StopJoins
  <1>49. CASE StopEnds
    BY <1>49 DEF StopEnds, Unlock
  <1>50. CASE UNCHANGED vars
    BY <1>50 DEF vars
  <1>q. QED
    <2>1. CASE Event
      BY <2>1, <1>1, <1>2, <1>7, <1>8, <1>14, <1>18, <1>20, <1>26, <1>34, <1>37, <1>40, <1>42 DEF
         Event
    <2>2. CASE AcceptStep
      BY <2>2, <1>3, <1>4 DEF AcceptStep
    <2>3. CASE HookStep
      BY <2>3, <1>15, <1>16, <1>17, <1>19, <1>21, <1>22, <1>23, <1>24 DEF HookStep
    <2>4. CASE KeeperStep
      BY <2>4, <1>25, <1>27, <1>28, <1>29, <1>30, <1>31, <1>32, <1>33 DEF KeeperStep
    <2>5. CASE MainStep
      BY <2>5, <1>35, <1>36, <1>38, <1>39, <1>41, <1>43, <1>44, <1>45, <1>46, <1>47, <1>48, <1>49
         DEF MainStep
    <2>6. ASSUME NEW c \in ClientId, RecvStep(c) PROVE LifeInv'
      BY <2>6, <1>5, <1>6, <1>9, <1>10, <1>11, <1>12, <1>13 DEF RecvStep
    <2>q. QED
      BY <1>50, <2>1, <2>2, <2>3, <2>4, <2>5, <2>6 DEF Next

\* Nobody takes an entry out of the map while the hook thread holds the mutex; a recv
\* thread that gets past the lookup in the map was not the active client's.
LEMMA NextLocalsInv ==
  ASSUME TypeOK, MutexInv, JoinInv, ThreadInv, LifeInv, LocalsInv, fate = "running" => LiveInv,
         [Next]_vars
  PROVE  LocalsInv'
  <1>0. PcOK /\ wasActive \in [ClientId \cup {"keeper"} -> BOOLEAN]
    BY DEF TypeOK
  <1> USE <1>0, Clients
      DEF PcOK, Thread, Service, Free, NoClient, At, Goto, lifeVars, switchVars, layoutVars,
          connVars, threadVars, MutexInv, LocalsInv
  <1>1. ASSUME NEW c \in ClientId, PeerCloses(c) PROVE LocalsInv'
    BY <1>1 DEF PeerCloses
  <1>2. ASSUME NEW c \in ClientId, Accept(c) PROVE LocalsInv'
    <2>1. /\ pc["accept"] = "accept" /\ pc'["accept"] = "insert" /\ pc'[c] = "loop"
          /\ \A t \in Thread \ {"accept", c} : pc'[t] = pc[t]
      BY <1>2, AcceptPcs
    <2>2. link[c] = "none" /\ UNCHANGED <<clients, target, wasActive>>
      BY <1>2 DEF Accept
    <2>3. pc[c] = "none"
      BY <2>2 DEF ThreadInv
    <2>q. QED
      BY <2>1, <2>2, <2>3
  <1>3. CASE Insert
    BY <1>3 DEF Insert
  <1>4. CASE AcceptEnds
    BY <1>4 DEF AcceptEnds
  <1>5. ASSUME NEW c \in ClientId, RecvTest(c) PROVE LocalsInv'
    BY <1>5 DEF RecvTest
  <1>6. ASSUME NEW c \in ClientId, RecvFails(c) PROVE LocalsInv'
    BY <1>6 DEF RecvFails, DisconnectReads, IsActive
  <1>7. ASSUME NEW c \in ClientId, RecvDisconnect(c) PROVE LocalsInv'
    BY <1>7 DEF RecvDisconnect, DisconnectReads, IsActive
  <1>8. ASSUME NEW c \in ClientId, RecvMessage(c) PROVE LocalsInv'
    BY <1>8 DEF RecvMessage
  <1>9. ASSUME NEW c \in ClientId, HelloLocks(c) PROVE LocalsInv'
    BY <1>9 DEF HelloLocks, Lock
  <1>10. ASSUME NEW c \in ClientId, NEW ok \in BOOLEAN, HelloAdds(c, ok) PROVE LocalsInv'
    BY <1>10 DEF HelloAdds, Edited, Send, Unlock
  <1>11. ASSUME NEW c \in ClientId, KeepaliveArrives(c) PROVE LocalsInv'
    BY <1>11 DEF KeepaliveArrives
  <1>12. ASSUME NEW c \in ClientId, DisconnectErases(c) PROVE LocalsInv'
    <2>1. /\ pc[c] = "erase" /\ mutex = Free
          /\ \/ clients' = clients \ {c} /\ UNCHANGED pc
             \/ c \notin clients /\ UNCHANGED clients /\ pc' = [pc EXCEPT ![c] = "forget"]
          /\ UNCHANGED <<target, wasActive>>
      BY <1>12 DEF DisconnectErases
    <2>2. wasActive[c] => c \in clients \/ joining = c
      BY <1>12 DEF LiveInv, DisconnectErases
    <2>3. joining = NoClient
      BY <2>1 DEF JoinInv
    <2>q. QED
      BY <2>1, <2>2, <2>3
  <1>13. ASSUME NEW c \in ClientId, DisconnectForgets(c) PROVE LocalsInv'
    BY <1>13 DEF DisconnectForgets, Edited
  <1>14. ASSUME NEW p \in Cursor, CursorMoves(p) PROVE LocalsInv'
    BY <1>14 DEF CursorMoves
  <1>15. ASSUME NEW ok \in BOOLEAN, Enter(ok) PROVE LocalsInv'
    BY <1>15 DEF Enter, Lock, Send
  <1>16. CASE EnterGrabs
    BY <1>16 DEF EnterGrabs
  <1>17. CASE EnterSets
    BY <1>17 DEF EnterSets, Unlock
  <1>18. CASE KeyPressed
    BY <1>18 DEF KeyPressed
  <1>19. ASSUME NEW ok \in BOOLEAN, KeySent(ok) PROVE LocalsInv'
    BY <1>19 DEF KeySent, Send
  <1>20. CASE Escape
    BY <1>20 DEF Escape
  <1>21. ASSUME NEW ok \in BOOLEAN, Leave(ok) PROVE LocalsInv'
    BY <1>21 DEF Leave, Send
  <1>22. CASE LeaveReleases
    BY <1>22 DEF LeaveReleases
  <1>23. CASE LeaveSets
    BY <1>23 DEF LeaveSets
  <1>24. CASE CaptureEnds
    BY <1>24 DEF CaptureEnds
  <1>25. CASE KeeperTest
    BY <1>25 DEF KeeperTest
  <1>26. ASSUME NEW quiet \in SUBSET ClientId, KeeperWakes(quiet) PROVE LocalsInv'
    BY <1>26 DEF KeeperWakes
  <1>27. CASE KeeperLocks
    BY <1>27 DEF KeeperLocks, Lock
  <1>28. ASSUME NEW c \in ClientId, NEW ok \in BOOLEAN, KeeperBeats(c, ok) PROVE LocalsInv'
    BY <1>28 DEF KeeperBeats, Send
  <1>29. ASSUME NEW c \in ClientId, KeeperExpires(c) PROVE LocalsInv'
    BY <1>29 DEF KeeperExpires, Destroy, IsActive
  <1>30. CASE KeeperJoins
    BY <1>30 DEF KeeperJoins
  <1>31. CASE KeeperRestores
    BY <1>31 DEF KeeperRestores
  <1>32. CASE KeeperSets
    BY <1>32 DEF KeeperSets
  <1>33. CASE KeeperUnlocks
    BY <1>33 DEF KeeperUnlocks, Unlock
  <1>34. CASE StartListens
    <2>1. /\ pc'["main"] = "bind" /\ pc'["accept"] = "accept"
          /\ \A t \in Thread \ {"main", "accept"} : pc'[t] = pc[t]
      BY <1>34, SpawnPc DEF StartListens
    <2>2. UNCHANGED <<clients, target, wasActive>>
      BY <1>34 DEF StartListens
    <2>q. QED
      BY <2>1, <2>2
  <1>35. CASE StartBindsUdp
    BY <1>35 DEF StartBindsUdp
  <1>36. CASE StartCaptures
    <2>1. /\ pc'["main"] = "spawn" /\ pc'["hook"] = "idle"
          /\ \A t \in Thread \ {"main", "hook"} : pc'[t] = pc[t]
      BY <1>36, SpawnPc DEF StartCaptures
    <2>2. UNCHANGED <<clients, target, wasActive>>
      BY <1>36 DEF StartCaptures
    <2>q. QED
      BY <2>1, <2>2
  <1>37. CASE StartFails
    BY <1>37 DEF StartFails
  <1>38. CASE StartSpawns
    <2>1. /\ pc'["main"] = "setLocal" /\ pc'["keeper"] = "test"
          /\ \A t \in Thread \ {"main", "keeper"} : pc'[t] = pc[t]
      BY <1>38, SpawnPc DEF StartSpawns
    <2>2. UNCHANGED <<clients, target, wasActive>>
      BY <1>38 DEF StartSpawns
    <2>q. QED
      BY <2>1, <2>2
  <1>39. CASE StartSets
    BY <1>39 DEF StartSets
  <1>40. CASE GuiMovesScreen
    BY <1>40 DEF GuiMovesScreen
  <1>41. ASSUME NEW c \in ClientId, NEW e \in GuiEdges, GuiMovedScreen(c, e) PROVE LocalsInv'
    BY <1>41 DEF GuiMovedScreen, Edited
  <1>42. CASE Stop
    BY <1>42 DEF Stop
  <1>43. CASE StopJoinsHook
    BY <1>43 DEF StopJoinsHook
  <1>44. CASE StopJoinsAccept
    BY <1>44 DEF StopJoinsAccept
  <1>45. CASE StopJoinsKeeper
    BY <1>45 DEF StopJoinsKeeper
  <1>46. CASE StopLocks
    BY <1>46 DEF StopLocks, Lock
  <1>47. ASSUME NEW c \in ClientId, StopClears(c) PROVE LocalsInv'
    BY <1>47 DEF StopClears, Destroy
  <1>48. CASE StopJoins
    BY <1>48 DEF StopJoins
  <1>49. CASE StopEnds
    BY <1>49 DEF StopEnds, Unlock
  <1>50. CASE UNCHANGED vars
    BY <1>50 DEF vars
  <1>q. QED
    <2>1. CASE Event
      BY <2>1, <1>1, <1>2, <1>7, <1>8, <1>14, <1>18, <1>20, <1>26, <1>34, <1>37, <1>40, <1>42 DEF
         Event
    <2>2. CASE AcceptStep
      BY <2>2, <1>3, <1>4 DEF AcceptStep
    <2>3. CASE HookStep
      BY <2>3, <1>15, <1>16, <1>17, <1>19, <1>21, <1>22, <1>23, <1>24 DEF HookStep
    <2>4. CASE KeeperStep
      BY <2>4, <1>25, <1>27, <1>28, <1>29, <1>30, <1>31, <1>32, <1>33 DEF KeeperStep
    <2>5. CASE MainStep
      BY <2>5, <1>35, <1>36, <1>38, <1>39, <1>41, <1>43, <1>44, <1>45, <1>46, <1>47, <1>48, <1>49
         DEF MainStep
    <2>6. ASSUME NEW c \in ClientId, RecvStep(c) PROVE LocalsInv'
      BY <2>6, <1>5, <1>6, <1>9, <1>10, <1>11, <1>12, <1>13 DEF RecvStep
    <2>q. QED
      BY <1>50, <2>1, <2>2, <2>3, <2>4, <2>5, <2>6 DEF Next

\* state_, active_client_id_ and the suppress flag change in the orders SwitchInv allows.
LEMMA NextSwitchInv ==
  ASSUME TypeOK, MutexInv, ThreadInv, LifeInv, LocalsInv, SwitchInv, fate = "running" => LiveInv,
         [Next]_vars
  PROVE  SwitchInv'
  <1> USE Clients
      DEF PcOK, Thread, Service, Free, NoClient, At, Goto, lifeVars, switchVars, layoutVars,
          connVars, threadVars, TypeOK, MutexInv, ThreadInv, LifeInv, LocalsInv, SwitchInv,
          LiveInv
  <1>1. ASSUME NEW c \in ClientId, PeerCloses(c) PROVE SwitchInv'
    BY <1>1 DEF PeerCloses
  <1>2. ASSUME NEW c \in ClientId, Accept(c) PROVE SwitchInv'
    <2>1. /\ pc["accept"] = "accept" /\ pc'["accept"] = "insert" /\ pc'[c] = "loop"
          /\ \A t \in Thread \ {"accept", c} : pc'[t] = pc[t]
      BY <1>2, AcceptPcs
    <2>2. UNCHANGED <<switchVars, target>>
      BY <1>2 DEF Accept
    <2>q. QED
      BY <2>1, <2>2
  <1>3. CASE Insert
    BY <1>3 DEF Insert
  <1>4. CASE AcceptEnds
    BY <1>4 DEF AcceptEnds
  <1>5. ASSUME NEW c \in ClientId, RecvTest(c) PROVE SwitchInv'
    BY <1>5 DEF RecvTest
  <1>6. ASSUME NEW c \in ClientId, RecvFails(c) PROVE SwitchInv'
    BY <1>6 DEF RecvFails, DisconnectReads, IsActive
  <1>7. ASSUME NEW c \in ClientId, RecvDisconnect(c) PROVE SwitchInv'
    BY <1>7 DEF RecvDisconnect, DisconnectReads, IsActive
  <1>8. ASSUME NEW c \in ClientId, RecvMessage(c) PROVE SwitchInv'
    BY <1>8 DEF RecvMessage
  <1>9. ASSUME NEW c \in ClientId, HelloLocks(c) PROVE SwitchInv'
    BY <1>9 DEF HelloLocks, Lock
  <1>10. ASSUME NEW c \in ClientId, NEW ok \in BOOLEAN, HelloAdds(c, ok) PROVE SwitchInv'
    BY <1>10 DEF HelloAdds, Edited, Send, Unlock
  <1>11. ASSUME NEW c \in ClientId, KeepaliveArrives(c) PROVE SwitchInv'
    BY <1>11 DEF KeepaliveArrives
  <1>12. ASSUME NEW c \in ClientId, DisconnectErases(c) PROVE SwitchInv'
    BY <1>12 DEF DisconnectErases
  <1>13. ASSUME NEW c \in ClientId, DisconnectForgets(c) PROVE SwitchInv'
    BY <1>13 DEF DisconnectForgets, Edited
  <1>14. ASSUME NEW p \in Cursor, CursorMoves(p) PROVE SwitchInv'
    BY <1>14 DEF CursorMoves
  <1>15. ASSUME NEW ok \in BOOLEAN, Enter(ok) PROVE SwitchInv'
    BY <1>15 DEF Enter, Lock, Send, ToldAnew
  <1>16. CASE EnterGrabs
    BY <1>16 DEF EnterGrabs
  <1>17. CASE EnterSets
    BY <1>17 DEF EnterSets, Unlock
  <1>18. CASE KeyPressed
    BY <1>18 DEF KeyPressed
  <1>19. ASSUME NEW ok \in BOOLEAN, KeySent(ok) PROVE SwitchInv'
    BY <1>19 DEF KeySent, Send
  <1>20. CASE Escape
    BY <1>20 DEF Escape
  <1>21. ASSUME NEW ok \in BOOLEAN, Leave(ok) PROVE SwitchInv'
    BY <1>21 DEF Leave, Send, ToldAnew
  <1>22. CASE LeaveReleases
    BY <1>22 DEF LeaveReleases
  <1>23. CASE LeaveSets
    BY <1>23 DEF LeaveSets
  <1>24. CASE CaptureEnds
    BY <1>24 DEF CaptureEnds
  <1>25. CASE KeeperTest
    BY <1>25 DEF KeeperTest
  <1>26. ASSUME NEW quiet \in SUBSET ClientId, KeeperWakes(quiet) PROVE SwitchInv'
    BY <1>26 DEF KeeperWakes
  <1>27. CASE KeeperLocks
    BY <1>27 DEF KeeperLocks, Lock
  <1>28. ASSUME NEW c \in ClientId, NEW ok \in BOOLEAN, KeeperBeats(c, ok) PROVE SwitchInv'
    BY <1>28 DEF KeeperBeats, Send
  <1>29. ASSUME NEW c \in ClientId, KeeperExpires(c) PROVE SwitchInv'
    BY <1>29 DEF KeeperExpires, Destroy, IsActive
  <1>30. CASE KeeperJoins
    BY <1>30 DEF KeeperJoins
  <1>31. CASE KeeperRestores
    BY <1>31 DEF KeeperRestores
  <1>32. CASE KeeperSets
    BY <1>32 DEF KeeperSets
  <1>33. CASE KeeperUnlocks
    BY <1>33 DEF KeeperUnlocks, Unlock
  <1>34. CASE StartListens
    BY <1>34, SpawnPc DEF StartListens
  <1>35. CASE StartBindsUdp
    BY <1>35 DEF StartBindsUdp
  <1>36. CASE StartCaptures
    BY <1>36, SpawnPc DEF StartCaptures
  <1>37. CASE StartFails
    BY <1>37 DEF StartFails
  <1>38. CASE StartSpawns
    BY <1>38, SpawnPc DEF StartSpawns
  <1>39. CASE StartSets
    BY <1>39 DEF StartSets
  <1>40. CASE GuiMovesScreen
    BY <1>40 DEF GuiMovesScreen
  <1>41. ASSUME NEW c \in ClientId, NEW e \in GuiEdges, GuiMovedScreen(c, e) PROVE SwitchInv'
    BY <1>41 DEF GuiMovedScreen, Edited
  <1>42. CASE Stop
    BY <1>42 DEF Stop
  <1>43. CASE StopJoinsHook
    BY <1>43 DEF StopJoinsHook
  <1>44. CASE StopJoinsAccept
    BY <1>44 DEF StopJoinsAccept
  <1>45. CASE StopJoinsKeeper
    BY <1>45 DEF StopJoinsKeeper
  <1>46. CASE StopLocks
    BY <1>46 DEF StopLocks, Lock
  <1>47. ASSUME NEW c \in ClientId, StopClears(c) PROVE SwitchInv'
    BY <1>47 DEF StopClears, Destroy
  <1>48. CASE StopJoins
    BY <1>48 DEF StopJoins
  <1>49. CASE StopEnds
    BY <1>49 DEF StopEnds, Unlock
  <1>50. CASE UNCHANGED vars
    BY <1>50 DEF vars
  <1>q. QED
    <2>1. CASE Event
      BY <2>1, <1>1, <1>2, <1>7, <1>8, <1>14, <1>18, <1>20, <1>26, <1>34, <1>37, <1>40, <1>42 DEF
         Event
    <2>2. CASE AcceptStep
      BY <2>2, <1>3, <1>4 DEF AcceptStep
    <2>3. CASE HookStep
      BY <2>3, <1>15, <1>16, <1>17, <1>19, <1>21, <1>22, <1>23, <1>24 DEF HookStep
    <2>4. CASE KeeperStep
      BY <2>4, <1>25, <1>27, <1>28, <1>29, <1>30, <1>31, <1>32, <1>33 DEF KeeperStep
    <2>5. CASE MainStep
      BY <2>5, <1>35, <1>36, <1>38, <1>39, <1>41, <1>43, <1>44, <1>45, <1>46, <1>47, <1>48, <1>49
         DEF MainStep
    <2>6. ASSUME NEW c \in ClientId, RecvStep(c) PROVE SwitchInv'
      BY <2>6, <1>5, <1>6, <1>9, <1>10, <1>11, <1>12, <1>13 DEF RecvStep
    <2>q. QED
      BY <1>50, <2>1, <2>2, <2>3, <2>4, <2>5, <2>6 DEF Next

\* A step that the process survives keeps live threads and the active client accounted for.
LEMMA NextLiveInv ==
  ASSUME Inv, LiveInv, fate' = "running", [Next]_vars
  PROVE  LiveInv'
  <1>0. /\ PcOK /\ clients \subseteq ClientId
        /\ peer \in ClientId \cup {NoClient} /\ active \in ClientId \cup {NoClient}
        /\ wasActive \in [ClientId \cup {"keeper"} -> BOOLEAN]
        /\ MutexInv /\ JoinInv /\ ThreadInv /\ LifeInv /\ LocalsInv /\ SwitchInv
    BY DEF Inv, TypeOK
  <1> USE <1>0, Clients
      DEF PcOK, Thread, Service, Free, NoClient, At, Goto, lifeVars, switchVars, layoutVars,
          connVars, threadVars, MutexInv, JoinInv, ThreadInv, LifeInv, LocalsInv, SwitchInv,
          LiveInv
  <1>1. ASSUME NEW c \in ClientId, PeerCloses(c) PROVE LiveInv'
    BY <1>1 DEF PeerCloses
  <1>2. ASSUME NEW c \in ClientId, Accept(c) PROVE LiveInv'
    <2>1. /\ pc["accept"] = "accept" /\ pc'["accept"] = "insert" /\ pc'[c] = "loop"
          /\ \A t \in Thread \ {"accept", c} : pc'[t] = pc[t]
      BY <1>2, AcceptPcs
    <2>2. /\ link[c] = "none" /\ peer' = c
          /\ UNCHANGED <<switchVars, clients, joining, wasActive>>
      BY <1>2 DEF Accept
    <2>3. pc[c] = "none" /\ ~wasActive[c] /\ peer = NoClient
      BY <2>1, <2>2
    <2>4. /\ \A d \in ClientId \ {c} : pc'[d] = pc[d]
          /\ pc'["keeper"] = pc["keeper"] /\ pc'["main"] = pc["main"]
      BY <2>1
    <2>5. \A d \in ClientId :
             pc'[d] \notin {"none", "exit"} => d \in clients' \/ peer' = d \/ joining' = d
      BY <2>1, <2>2, <2>3, <2>4
    <2>6. active # NoClient /\ active \notin clients => joining' = active \/ pc'[active] = "exit"
      BY <2>2, <2>3, <2>4
    <2>q. QED
      BY <2>2, <2>4, <2>5, <2>6
  <1>3. CASE Insert
    BY <1>3 DEF Insert
  <1>4. CASE AcceptEnds
    BY <1>4 DEF AcceptEnds
  <1>5. ASSUME NEW c \in ClientId, RecvTest(c) PROVE LiveInv'
    BY <1>5 DEF RecvTest
  <1>6. ASSUME NEW c \in ClientId, RecvFails(c) PROVE LiveInv'
    BY <1>6 DEF RecvFails, DisconnectReads, IsActive
  <1>7. ASSUME NEW c \in ClientId, RecvDisconnect(c) PROVE LiveInv'
    BY <1>7 DEF RecvDisconnect, DisconnectReads, IsActive
  <1>8. ASSUME NEW c \in ClientId, RecvMessage(c) PROVE LiveInv'
    BY <1>8 DEF RecvMessage
  <1>9. ASSUME NEW c \in ClientId, HelloLocks(c) PROVE LiveInv'
    <2>1. /\ pc[c] = "hello" /\ pc'[c] \in {"adding", "loop"}
          /\ pc' = [pc EXCEPT ![c] = pc'[c]]
      BY <1>9 DEF HelloLocks
    <2>2. UNCHANGED <<switchVars, clients, peer, joining, wasActive>>
      BY <1>9 DEF HelloLocks
    <2>3. pc'["keeper"] = pc["keeper"] /\ pc'["main"] = pc["main"]
      BY <2>1
    <2>4. \A d \in ClientId \ {c} : pc'[d] = pc[d]
      BY <2>1
    <2>q. QED
      BY <2>1, <2>2, <2>3, <2>4
  <1>10. ASSUME NEW c \in ClientId, NEW ok \in BOOLEAN, HelloAdds(c, ok) PROVE LiveInv'
    BY <1>10 DEF HelloAdds, Edited, Send, Unlock
  <1>11. ASSUME NEW c \in ClientId, KeepaliveArrives(c) PROVE LiveInv'
    BY <1>11 DEF KeepaliveArrives
  <1>12. ASSUME NEW c \in ClientId, DisconnectErases(c) PROVE LiveInv'
    <2>1. /\ pc[c] = "erase" /\ mutex = Free /\ c \notin clients
          /\ pc' = [pc EXCEPT ![c] = "forget"]
          /\ UNCHANGED <<switchVars, clients, peer, joining, wasActive>>
      BY <1>12 DEF DisconnectErases
    <2>2. joining = NoClient /\ ~wasActive[c]
      BY <2>1
    <2>3. pc'["keeper"] = pc["keeper"] /\ pc'["main"] = pc["main"] /\ pc'[c] = "forget"
      BY <2>1
    <2>4. \A d \in ClientId \ {c} : pc'[d] = pc[d]
      BY <2>1
    <2>q. QED
      BY <2>1, <2>2, <2>3, <2>4
  <1>13. ASSUME NEW c \in ClientId, DisconnectForgets(c) PROVE LiveInv'
    BY <1>13 DEF DisconnectForgets, Edited
  <1>14. ASSUME NEW p \in Cursor, CursorMoves(p) PROVE LiveInv'
    <2>1. /\ At("hook", "idle") /\ state = "LOCAL_ACTIVE"
          /\ Goto("hook", "enter") \/ UNCHANGED pc
          /\ UNCHANGED <<switchVars, mutex, clients, link, peer, todo, joining, wasActive>>
      BY <1>14 DEF CursorMoves
    <2>q. QED
      BY <2>1
  <1>15. ASSUME NEW ok \in BOOLEAN, Enter(ok) PROVE LiveInv'
    <2>1. /\ At("hook", "enter")
          /\ \/ target \in clients /\ Lock("hook") /\ Goto("hook", "grab") /\ UNCHANGED target
             \/ target \notin clients /\ UNCHANGED mutex /\ Goto("hook", "idle")
          /\ UNCHANGED <<fate, state, active, suppress, clients, link, peer, todo, joining,
                         wasActive>>
      BY <1>15 DEF Enter, Lock
    <2>q. QED
      BY <2>1 DEF Lock
  <1>16. CASE EnterGrabs
    BY <1>16 DEF EnterGrabs
  <1>17. CASE EnterSets
    BY <1>17 DEF EnterSets, Unlock
  <1>18. CASE KeyPressed
    BY <1>18 DEF KeyPressed
  <1>19. ASSUME NEW ok \in BOOLEAN, KeySent(ok) PROVE LiveInv'
    BY <1>19 DEF KeySent, Send
  <1>20. CASE Escape
    BY <1>20 DEF Escape
  <1>21. ASSUME NEW ok \in BOOLEAN, Leave(ok) PROVE LiveInv'
    BY <1>21 DEF Leave, Send
  <1>22. CASE LeaveReleases
    BY <1>22 DEF LeaveReleases
  <1>23. CASE LeaveSets
    BY <1>23 DEF LeaveSets
  <1>24. CASE CaptureEnds
    BY <1>24 DEF CaptureEnds
  <1>25. CASE KeeperTest
    BY <1>25 DEF KeeperTest
  <1>26. ASSUME NEW quiet \in SUBSET ClientId, KeeperWakes(quiet) PROVE LiveInv'
    BY <1>26 DEF KeeperWakes
  <1>27. CASE KeeperLocks
    BY <1>27 DEF KeeperLocks, Lock
  <1>28. ASSUME NEW c \in ClientId, NEW ok \in BOOLEAN, KeeperBeats(c, ok) PROVE LiveInv'
    BY <1>28 DEF KeeperBeats, Send
  <1>29. ASSUME NEW c \in ClientId, KeeperExpires(c) PROVE LiveInv'
    BY <1>29 DEF KeeperExpires, Destroy, IsActive
  <1>30. CASE KeeperJoins
    BY <1>30 DEF KeeperJoins
  <1>31. CASE KeeperRestores
    BY <1>31 DEF KeeperRestores
  <1>32. CASE KeeperSets
    BY <1>32 DEF KeeperSets
  <1>33. CASE KeeperUnlocks
    BY <1>33 DEF KeeperUnlocks, Unlock
  <1>34. CASE StartListens
    <2>1. /\ At("main", "init") /\ UNCHANGED <<link, peer>>
          /\ pc'["main"] = "bind" /\ pc'["accept"] = "accept"
          /\ \A t \in Thread \ {"main", "accept"} : pc'[t] = pc[t]
          /\ UNCHANGED <<switchVars, mutex, clients, target, todo, joining, wasActive>>
      BY <1>34, SpawnPc DEF StartListens
    <2>q. QED
      BY <2>1
  <1>35. CASE StartBindsUdp
    BY <1>35 DEF StartBindsUdp
  <1>36. CASE StartCaptures
    <2>1. /\ At("main", "capture") /\ UNCHANGED <<link, peer>>
          /\ pc'["main"] = "spawn" /\ pc'["hook"] = "idle"
          /\ \A t \in Thread \ {"main", "hook"} : pc'[t] = pc[t]
          /\ UNCHANGED <<switchVars, mutex, clients, target, todo, joining, wasActive>>
      BY <1>36, SpawnPc DEF StartCaptures
    <2>q. QED
      BY <2>1
  <1>37. CASE StartFails
    BY <1>37 DEF StartFails
  <1>38. CASE StartSpawns
    <2>1. /\ At("main", "spawn") /\ UNCHANGED <<link, peer>>
          /\ pc'["main"] = "setLocal" /\ pc'["keeper"] = "test"
          /\ \A t \in Thread \ {"main", "keeper"} : pc'[t] = pc[t]
          /\ UNCHANGED <<switchVars, mutex, clients, target, todo, joining, wasActive>>
      BY <1>38, SpawnPc DEF StartSpawns
    <2>q. QED
      BY <2>1
  <1>39. CASE StartSets
    BY <1>39 DEF StartSets
  <1>40. CASE GuiMovesScreen
    BY <1>40 DEF GuiMovesScreen
  <1>41. ASSUME NEW c \in ClientId, NEW e \in GuiEdges, GuiMovedScreen(c, e) PROVE LiveInv'
    BY <1>41 DEF GuiMovedScreen, Edited
  <1>42. CASE Stop
    BY <1>42 DEF Stop
  <1>43. CASE StopJoinsHook
    BY <1>43 DEF StopJoinsHook
  <1>44. CASE StopJoinsAccept
    BY <1>44 DEF StopJoinsAccept
  <1>45. CASE StopJoinsKeeper
    BY <1>45 DEF StopJoinsKeeper
  <1>46. CASE StopLocks
    BY <1>46 DEF StopLocks, Lock
  <1>47. ASSUME NEW c \in ClientId, StopClears(c) PROVE LiveInv'
    BY <1>47 DEF StopClears, Destroy
  <1>48. CASE StopJoins
    BY <1>48 DEF StopJoins
  <1>49. CASE StopEnds
    BY <1>49 DEF StopEnds, Unlock
  <1>50. CASE UNCHANGED vars
    BY <1>50 DEF vars
  <1>q. QED
    <2>1. CASE Event
      BY <2>1, <1>1, <1>2, <1>7, <1>8, <1>14, <1>18, <1>20, <1>26, <1>34, <1>37, <1>40, <1>42 DEF
         Event
    <2>2. CASE AcceptStep
      BY <2>2, <1>3, <1>4 DEF AcceptStep
    <2>3. CASE HookStep
      BY <2>3, <1>15, <1>16, <1>17, <1>19, <1>21, <1>22, <1>23, <1>24 DEF HookStep
    <2>4. CASE KeeperStep
      BY <2>4, <1>25, <1>27, <1>28, <1>29, <1>30, <1>31, <1>32, <1>33 DEF KeeperStep
    <2>5. CASE MainStep
      BY <2>5, <1>35, <1>36, <1>38, <1>39, <1>41, <1>43, <1>44, <1>45, <1>46, <1>47, <1>48, <1>49
         DEF MainStep
    <2>6. ASSUME NEW c \in ClientId, RecvStep(c) PROVE LiveInv'
      BY <2>6, <1>5, <1>6, <1>9, <1>10, <1>11, <1>12, <1>13 DEF RecvStep
    <2>q. QED
      BY <1>50, <2>1, <2>2, <2>3, <2>4, <2>5, <2>6 DEF Next

\* A client is told when it gets the input and when it loses it, and whoever is taken
\* out of the map while it has the input is followed by the way back to local.
LEMMA NextViewInv ==
  ASSUME Inv, fate = "running", fate' = "running", [Next]_vars
  PROVE  ViewInv'
  <1>0. /\ PcOK /\ clients \subseteq ClientId
        /\ peer \in ClientId \cup {NoClient} /\ active \in ClientId \cup {NoClient}
        /\ target \in ClientId \cup {NoClient}
        /\ wasActive \in [ClientId \cup {"keeper"} -> BOOLEAN]
        /\ connected \in [ClientId -> BOOLEAN] /\ view \in [ClientId -> {"out", "in"}]
        /\ link \in [ClientId -> {"none", "open", "broken", "closed"}]
        /\ MutexInv /\ JoinInv /\ ThreadInv /\ LocalsInv /\ SwitchInv /\ LiveInv /\ ViewInv
        /\ pc["main"] = "capture" => pc["hook"] = "off"
    BY DEF Inv, TypeOK, LifeInv
  <1> USE <1>0, Clients
      DEF PcOK, Thread, Service, Free, NoClient, At, Goto, lifeVars, switchVars, layoutVars,
          connVars, threadVars, MutexInv, JoinInv, ThreadInv, LocalsInv, SwitchInv,
          ViewInv, Told, Newcomer
  <1>1. ASSUME NEW c \in ClientId, PeerCloses(c) PROVE ViewInv'
    BY <1>1 DEF PeerCloses
  <1>2. ASSUME NEW c \in ClientId, Accept(c) PROVE ViewInv'
    <2>1. /\ pc["accept"] = "accept" /\ pc'["accept"] = "insert" /\ pc'[c] = "loop"
          /\ \A t \in Thread \ {"accept", c} : pc'[t] = pc[t]
      BY <1>2, AcceptPcs
    <2>2. /\ link[c] = "none" /\ peer' = c /\ link' = [link EXCEPT ![c] = "open"]
          /\ connected' = [connected EXCEPT ![c] = TRUE]
          /\ UNCHANGED <<switchVars, clients, view, target, wasActive>>
      BY <1>2 DEF Accept
    <2>3. peer = NoClient /\ c \notin clients /\ view[c] = "out" /\ active # c
      BY <2>1, <2>2
    <2>4. pc'["keeper"] = pc["keeper"] /\ pc'["hook"] = pc["hook"]
      BY <2>1
    <2>5. \A d \in clients : d # c /\ connected'[d] = connected[d]
      BY <2>2, <2>3
    <2>q. QED
      BY <2>2, <2>3, <2>4, <2>5
  <1>3. CASE Insert
    BY <1>3 DEF Insert
  <1>4. CASE AcceptEnds
    BY <1>4 DEF AcceptEnds
  <1>5. ASSUME NEW c \in ClientId, RecvTest(c) PROVE ViewInv'
    BY <1>5 DEF RecvTest
  <1>6. ASSUME NEW c \in ClientId, RecvFails(c) PROVE ViewInv'
    BY <1>6 DEF RecvFails, DisconnectReads
  <1>7. ASSUME NEW c \in ClientId, RecvDisconnect(c) PROVE ViewInv'
    BY <1>7 DEF RecvDisconnect, DisconnectReads
  <1>8. ASSUME NEW c \in ClientId, RecvMessage(c) PROVE ViewInv'
    BY <1>8 DEF RecvMessage
  <1>9. ASSUME NEW c \in ClientId, HelloLocks(c) PROVE ViewInv'
    BY <1>9 DEF HelloLocks, Lock
  <1>10. ASSUME NEW c \in ClientId, NEW ok \in BOOLEAN, HelloAdds(c, ok) PROVE ViewInv'
    BY <1>10 DEF HelloAdds, Edited, Send, Unlock
  <1>11. ASSUME NEW c \in ClientId, KeepaliveArrives(c) PROVE ViewInv'
    BY <1>11 DEF KeepaliveArrives
  <1>12. ASSUME NEW c \in ClientId, DisconnectErases(c) PROVE ViewInv'
    BY <1>12 DEF DisconnectErases
  <1>13. ASSUME NEW c \in ClientId, DisconnectForgets(c) PROVE ViewInv'
    BY <1>13 DEF DisconnectForgets, Edited
  <1>14. ASSUME NEW p \in Cursor, CursorMoves(p) PROVE ViewInv'
    BY <1>14 DEF CursorMoves
  <1>15. ASSUME NEW ok \in BOOLEAN, Enter(ok) PROVE ViewInv'
    BY <1>15 DEF Enter, Lock, Send, ToldAnew
  <1>16. CASE EnterGrabs
    BY <1>16 DEF EnterGrabs
  <1>17. CASE EnterSets
    BY <1>17 DEF EnterSets, Unlock
  <1>18. CASE KeyPressed
    BY <1>18 DEF KeyPressed
  <1>19. ASSUME NEW ok \in BOOLEAN, KeySent(ok) PROVE ViewInv'
    BY <1>19 DEF KeySent, Send
  <1>20. CASE Escape
    BY <1>20 DEF Escape
  <1>21. ASSUME NEW ok \in BOOLEAN, Leave(ok) PROVE ViewInv'
    BY <1>21 DEF Leave, Send, ToldAnew
  <1>22. CASE LeaveReleases
    BY <1>22 DEF LeaveReleases
  <1>23. CASE LeaveSets
    BY <1>23 DEF LeaveSets
  <1>24. CASE CaptureEnds
    BY <1>24 DEF CaptureEnds
  <1>25. CASE KeeperTest
    BY <1>25 DEF KeeperTest
  <1>26. ASSUME NEW quiet \in SUBSET ClientId, KeeperWakes(quiet) PROVE ViewInv'
    BY <1>26 DEF KeeperWakes
  <1>27. CASE KeeperLocks
    BY <1>27 DEF KeeperLocks, Lock
  <1>28. ASSUME NEW c \in ClientId, NEW ok \in BOOLEAN, KeeperBeats(c, ok) PROVE ViewInv'
    BY <1>28 DEF KeeperBeats, Send
  <1>29. ASSUME NEW c \in ClientId, KeeperExpires(c) PROVE ViewInv'
    <2>1. /\ c \in todo /\ pc["keeper"] = "scan" /\ pc' = [pc EXCEPT !["keeper"] = "join"]
          /\ clients' = clients \ {c} /\ view' = [view EXCEPT ![c] = "out"]
          /\ link' = [link EXCEPT ![c] = "closed"] /\ connected' = [connected EXCEPT ![c] = FALSE]
          /\ wasActive' = [wasActive EXCEPT !["keeper"] = IsActive(c)]
          /\ UNCHANGED <<switchVars, target, peer>>
      BY <1>29 DEF KeeperExpires, Destroy
    <2>2. wasActive'["keeper"] <=> state = "CLIENT_ACTIVE" /\ active = c
      <3>1. "keeper" \in DOMAIN wasActive
        OBVIOUS
      <3>2. wasActive'["keeper"] = IsActive(c)
        BY <2>1, <3>1, Zenon
      <3>q. QED
        BY <3>2 DEF IsActive
    <2>3. pc'["keeper"] = "join" /\ pc'["hook"] = pc["hook"]
      BY <2>1
    <2>4. \A d \in clients' : /\ d \in clients /\ d # c /\ view'[d] = view[d]
                              /\ connected'[d] = connected[d]
      BY <2>1
    <2>5. \A d \in clients' : connected'[d] => (view'[d] = "in" <=> Told(d)')
      BY <2>1, <2>3, <2>4
    <2>6. \A d \in ClientId : Newcomer(d)' => /\ d \notin clients' /\ view'[d] = "out"
                                             /\ active' # d /\ forgotten' # d
      BY <2>1
    <2>7. wasActive'["keeper"] => active' \notin clients'
      BY <2>1, <2>2
    <2>q. QED
      BY <2>3, <2>5, <2>6, <2>7
  <1>30. CASE KeeperJoins
    BY <1>30 DEF KeeperJoins
  <1>31. CASE KeeperRestores
    BY <1>31 DEF KeeperRestores
  <1>32. CASE KeeperSets
    BY <1>32 DEF KeeperSets
  <1>33. CASE KeeperUnlocks
    BY <1>33 DEF KeeperUnlocks, Unlock
  <1>34. CASE StartListens
    <2>1. /\ At("main", "init") /\ UNCHANGED <<link, peer, connected, view>>
          /\ pc'["main"] = "bind" /\ pc'["accept"] = "accept"
          /\ \A t \in Thread \ {"main", "accept"} : pc'[t] = pc[t]
          /\ UNCHANGED <<switchVars, clients, target, wasActive>>
      BY <1>34, SpawnPc DEF StartListens
    <2>q. QED
      BY <2>1
  <1>35. CASE StartBindsUdp
    BY <1>35 DEF StartBindsUdp
  <1>36. CASE StartCaptures
    <2>1. /\ At("main", "capture") /\ UNCHANGED <<link, peer, connected, view>>
          /\ pc'["main"] = "spawn" /\ pc'["hook"] = "idle"
          /\ \A t \in Thread \ {"main", "hook"} : pc'[t] = pc[t]
          /\ UNCHANGED <<switchVars, clients, target, wasActive>>
      BY <1>36, SpawnPc DEF StartCaptures
    <2>q. QED
      BY <2>1
  <1>37. CASE StartFails
    BY <1>37 DEF StartFails
  <1>38. CASE StartSpawns
    <2>1. /\ At("main", "spawn") /\ UNCHANGED <<link, peer, connected, view>>
          /\ pc'["main"] = "setLocal" /\ pc'["keeper"] = "test"
          /\ \A t \in Thread \ {"main", "keeper"} : pc'[t] = pc[t]
          /\ UNCHANGED <<switchVars, clients, target, wasActive>>
      BY <1>38, SpawnPc DEF StartSpawns
    <2>q. QED
      BY <2>1
  <1>39. CASE StartSets
    BY <1>39 DEF StartSets
  <1>40. CASE GuiMovesScreen
    BY <1>40 DEF GuiMovesScreen
  <1>41. ASSUME NEW c \in ClientId, NEW e \in GuiEdges, GuiMovedScreen(c, e) PROVE ViewInv'
    BY <1>41 DEF GuiMovedScreen, Edited
  <1>42. CASE Stop
    BY <1>42 DEF Stop
  <1>43. CASE StopJoinsHook
    BY <1>43 DEF StopJoinsHook
  <1>44. CASE StopJoinsAccept
    BY <1>44 DEF StopJoinsAccept
  <1>45. CASE StopJoinsKeeper
    BY <1>45 DEF StopJoinsKeeper
  <1>46. CASE StopLocks
    BY <1>46 DEF StopLocks, Lock
  <1>47. ASSUME NEW c \in ClientId, StopClears(c) PROVE ViewInv'
    BY <1>47 DEF StopClears, Destroy
  <1>48. CASE StopJoins
    BY <1>48 DEF StopJoins
  <1>49. CASE StopEnds
    BY <1>49 DEF StopEnds, Unlock
  <1>50. CASE UNCHANGED vars
    BY <1>50 DEF vars
  <1>q. QED
    <2>1. CASE Event
      BY <2>1, <1>1, <1>2, <1>7, <1>8, <1>14, <1>18, <1>20, <1>26, <1>34, <1>37, <1>40, <1>42 DEF
         Event
    <2>2. CASE AcceptStep
      BY <2>2, <1>3, <1>4 DEF AcceptStep
    <2>3. CASE HookStep
      BY <2>3, <1>15, <1>16, <1>17, <1>19, <1>21, <1>22, <1>23, <1>24 DEF HookStep
    <2>4. CASE KeeperStep
      BY <2>4, <1>25, <1>27, <1>28, <1>29, <1>30, <1>31, <1>32, <1>33 DEF KeeperStep
    <2>5. CASE MainStep
      BY <2>5, <1>35, <1>36, <1>38, <1>39, <1>41, <1>43, <1>44, <1>45, <1>46, <1>47, <1>48, <1>49
         DEF MainStep
    <2>6. ASSUME NEW c \in ClientId, RecvStep(c) PROVE ViewInv'
      BY <2>6, <1>5, <1>6, <1>9, <1>10, <1>11, <1>12, <1>13 DEF RecvStep
    <2>q. QED
      BY <1>50, <2>1, <2>2, <2>3, <2>4, <2>5, <2>6 DEF Next

\* The HELLO of a client leaves an entry for it, and entries for nobody else.
LEMMA EntryAdded ==
  ASSUME NEW l \in Seq(Entry), NEW c \in ClientId
  PROVE  /\ AddClient(l, HelloInfo(c)) \in Seq(Entry)
         /\ Ids(AddClient(l, HelloInfo(c))) = Ids(l) \cup {c}
  <1> DEFINE R == {[x |-> 0, y |-> 0, width |-> 2, height |-> 2]}
             E == Edge \cup GuiEdges
  <1>1. Entry = Entries(ClientId, R, E) /\ Edge \subseteq E
    BY DEF Entry
  <1>2. HelloInfo(c) \in Entry /\ HelloInfo(c).client_id = c
    BY DEF HelloInfo, Entry, Entries, Edge
  <1> HIDE DEF R, E
  <1>3. /\ l \in Seq(Entries(ClientId, R, E))
        /\ HelloInfo(c) \in Entries(ClientId, R, E)
    BY <1>1, <1>2, Zenon
  <1>4. /\ AddClient(l, HelloInfo(c)) \in Seq(Entries(ClientId, R, E))
        /\ Ids(AddClient(l, HelloInfo(c))) = Ids(l) \cup {HelloInfo(c).client_id}
    BY <1>1, <1>3, AddClientAdds
  <1>q. QED
    BY <1>1, <1>2, <1>4, Zenon

\* The screen editor moves entries, and neither adds nor removes one.
LEMMA EntryMoved ==
  ASSUME NEW l \in Seq(Entry), NEW c \in ClientId, NEW e \in GuiEdges
  PROVE  /\ SetClientEdge(l, c, e) \in Seq(Entry)
         /\ Ids(SetClientEdge(l, c, e)) = Ids(l)
  <1> DEFINE R == {[x |-> 0, y |-> 0, width |-> 2, height |-> 2]}
             E == Edge \cup GuiEdges
  <1>1. Entry = Entries(ClientId, R, E) /\ e \in E
    BY DEF Entry
  <1> HIDE DEF R, E
  <1>2. l \in Seq(Entries(ClientId, R, E))
    BY <1>1, Zenon
  <1>3. /\ SetClientEdge(l, c, e) \in Seq(Entries(ClientId, R, E))
        /\ Ids(SetClientEdge(l, c, e)) = Ids(l)
    BY <1>1, <1>2, SetClientEdgeSets
  <1>q. QED
    BY <1>1, <1>3, Zenon

\* An entry is added for a client of the map, and so for none that nobody has inserted
\* yet and for none that a recv thread has already erased: both find no entry.
LEMMA NextLayoutInv ==
  ASSUME Inv, fate = "running", [Next]_vars
  PROVE  LayoutInv'
  <1>0. /\ PcOK /\ clients \subseteq ClientId
        /\ peer \in ClientId \cup {NoClient}
        /\ link \in [ClientId -> {"none", "open", "broken", "closed"}]
        /\ MutexInv /\ JoinInv /\ ThreadInv /\ LiveInv /\ ViewInv /\ LayoutInv
    BY DEF Inv, TypeOK
  <1>a. \A c \in ClientId : Newcomer(c) => c \notin clients
    BY <1>0 DEF ViewInv
  <1> USE <1>0, Clients
      DEF PcOK, Thread, Service, Free, NoClient, At, Goto, lifeVars, switchVars, layoutVars,
          connVars, threadVars, MutexInv, JoinInv, ThreadInv, LayoutInv, Newcomer
  <1>1. ASSUME NEW c \in ClientId, PeerCloses(c) PROVE LayoutInv'
    BY <1>1 DEF PeerCloses
  <1>2. ASSUME NEW c \in ClientId, Accept(c) PROVE LayoutInv'
    <2>1. /\ pc["accept"] = "accept" /\ pc'["accept"] = "insert" /\ pc'[c] = "loop"
          /\ \A t \in Thread \ {"accept", c} : pc'[t] = pc[t]
      BY <1>2, AcceptPcs
    <2>2. /\ link[c] = "none" /\ peer' = c /\ link' = [link EXCEPT ![c] = "open"]
          /\ UNCHANGED <<layout, clients>>
      BY <1>2 DEF Accept
    <2>3. peer = NoClient /\ \A d \in ClientId \ {c} : pc'[d] = pc[d]
      BY <2>1, <2>2
    <2>q. QED
      BY <2>1, <2>2, <2>3
  <1>3. CASE Insert
    BY <1>3 DEF Insert
  <1>4. CASE AcceptEnds
    BY <1>4 DEF AcceptEnds
  <1>5. ASSUME NEW c \in ClientId, RecvTest(c) PROVE LayoutInv'
    BY <1>5 DEF RecvTest
  <1>6. ASSUME NEW c \in ClientId, RecvFails(c) PROVE LayoutInv'
    BY <1>6 DEF RecvFails, DisconnectReads
  <1>7. ASSUME NEW c \in ClientId, RecvDisconnect(c) PROVE LayoutInv'
    BY <1>7 DEF RecvDisconnect, DisconnectReads
  <1>8. ASSUME NEW c \in ClientId, RecvMessage(c) PROVE LayoutInv'
    BY <1>8 DEF RecvMessage
  <1>9. ASSUME NEW c \in ClientId, HelloLocks(c) PROVE LayoutInv'
    <2>1. /\ pc[c] = "hello" /\ UNCHANGED <<layout, link, clients, peer>>
          /\ \/ c \in clients /\ pc' = [pc EXCEPT ![c] = "adding"]
             \/ pc' = [pc EXCEPT ![c] = "loop"]
      BY <1>9 DEF HelloLocks
    <2>q. QED
      BY <2>1
  <1>10. ASSUME NEW c \in ClientId, NEW ok \in BOOLEAN, HelloAdds(c, ok) PROVE LayoutInv'
    <2>1. /\ layout' = AddClient(layout, HelloInfo(c)) \/ layout' = layout
          /\ pc[c] = "adding"
          /\ pc' = [pc EXCEPT ![c] = "loop"] /\ UNCHANGED <<link, peer, clients>>
      BY <1>10 DEF HelloAdds, Edited, Send
    <2>2. /\ AddClient(layout, HelloInfo(c)) \in Seq(Entry)
          /\ Ids(AddClient(layout, HelloInfo(c))) = Ids(layout) \cup {c}
      BY EntryAdded
    <2>3. layout' \in Seq(Entry) /\ Ids(layout') \subseteq Ids(layout) \cup {c}
      BY <2>1, <2>2
    <2>4. c \in clients /\ ~Newcomer(c)
      BY <1>a, <2>1
    <2>5. ASSUME NEW d \in ClientId, Newcomer(d)' \/ pc'[d] = "forget" PROVE d \notin Ids(layout')
      BY <2>1, <2>3, <2>4, <2>5
    <2>6. \A d \in ClientId : pc'[d] = "adding" => d \in clients'
      BY <2>1
    <2>q. QED
      BY <2>3, <2>5, <2>6 DEF Ids
  <1>11. ASSUME NEW c \in ClientId, KeepaliveArrives(c) PROVE LayoutInv'
    BY <1>11 DEF KeepaliveArrives
  <1>12. ASSUME NEW c \in ClientId, DisconnectErases(c) PROVE LayoutInv'
    <2>1. /\ pc[c] = "erase" /\ mutex = Free /\ UNCHANGED <<layout, link, peer>>
          /\ \/ c \in clients /\ clients' = clients \ {c} /\ UNCHANGED pc
             \/ c \notin clients /\ clients' = clients /\ pc' = [pc EXCEPT ![c] = "forget"]
      BY <1>12 DEF DisconnectErases
    <2>2. joining # c /\ pc[c] \notin {"none", "exit"}
      BY <2>1
    <2>3. CASE c \in clients
      BY <2>1, <2>3
    <2>4. CASE c \notin clients
      <3>1. peer = c
        BY <2>2, <2>4 DEF LiveInv
      <3>2. pc' = [pc EXCEPT ![c] = "forget"] /\ UNCHANGED <<layout, link, clients, peer>>
        BY <2>1, <2>4
      <3>q. QED
        BY <3>1, <3>2
    <2>q. QED
      BY <2>3, <2>4
  <1>13. ASSUME NEW c \in ClientId, DisconnectForgets(c) PROVE LayoutInv'
    <2>1. /\ layout' = RemoveClient(layout, c) \/ layout' = layout
          /\ pc[c] = "forget"
          /\ pc' = [pc EXCEPT ![c] = "loop"] /\ UNCHANGED <<link, peer, clients>>
      BY <1>13 DEF DisconnectForgets, Edited
    <2>2. layout' \in Seq(Entry) /\ Ids(layout') \subseteq Ids(layout)
      BY <2>1, RemoveClientRemoves
    <2>3. ASSUME NEW d \in ClientId, Newcomer(d)' \/ pc'[d] = "forget" PROVE d \notin Ids(layout')
      BY <2>1, <2>2, <2>3
    <2>4. \A d \in ClientId : pc'[d] = "adding" => d \in clients'
      BY <2>1
    <2>q. QED
      BY <2>2, <2>3, <2>4 DEF Ids
  <1>14. ASSUME NEW p \in Cursor, CursorMoves(p) PROVE LayoutInv'
    BY <1>14 DEF CursorMoves
  <1>15. ASSUME NEW ok \in BOOLEAN, Enter(ok) PROVE LayoutInv'
    <2>1. /\ UNCHANGED <<layout, link, clients, peer>>
          /\ \/ pc' = [pc EXCEPT !["hook"] = "grab"]
             \/ pc' = [pc EXCEPT !["hook"] = "idle"]
      BY <1>15 DEF Enter
    <2>q. QED
      BY <2>1
  <1>16. CASE EnterGrabs
    BY <1>16 DEF EnterGrabs
  <1>17. CASE EnterSets
    BY <1>17 DEF EnterSets, Unlock
  <1>18. CASE KeyPressed
    BY <1>18 DEF KeyPressed
  <1>19. ASSUME NEW ok \in BOOLEAN, KeySent(ok) PROVE LayoutInv'
    BY <1>19 DEF KeySent
  <1>20. CASE Escape
    BY <1>20 DEF Escape
  <1>21. ASSUME NEW ok \in BOOLEAN, Leave(ok) PROVE LayoutInv'
    BY <1>21 DEF Leave
  <1>22. CASE LeaveReleases
    BY <1>22 DEF LeaveReleases
  <1>23. CASE LeaveSets
    BY <1>23 DEF LeaveSets
  <1>24. CASE CaptureEnds
    BY <1>24 DEF CaptureEnds
  <1>25. CASE KeeperTest
    BY <1>25 DEF KeeperTest
  <1>26. ASSUME NEW quiet \in SUBSET ClientId, KeeperWakes(quiet) PROVE LayoutInv'
    BY <1>26 DEF KeeperWakes
  <1>27. CASE KeeperLocks
    BY <1>27 DEF KeeperLocks, Lock
  <1>28. ASSUME NEW c \in ClientId, NEW ok \in BOOLEAN, KeeperBeats(c, ok) PROVE LayoutInv'
    BY <1>28 DEF KeeperBeats
  <1>29. ASSUME NEW c \in ClientId, KeeperExpires(c) PROVE LayoutInv'
    BY <1>29 DEF KeeperExpires, Destroy
  <1>30. CASE KeeperJoins
    BY <1>30 DEF KeeperJoins
  <1>31. CASE KeeperRestores
    BY <1>31 DEF KeeperRestores
  <1>32. CASE KeeperSets
    BY <1>32 DEF KeeperSets
  <1>33. CASE KeeperUnlocks
    BY <1>33 DEF KeeperUnlocks, Unlock
  <1>34. CASE StartListens
    <2>1. /\ pc'["main"] = "bind" /\ pc'["accept"] = "accept"
          /\ \A t \in Thread \ {"main", "accept"} : pc'[t] = pc[t]
          /\ UNCHANGED <<layout, link, peer, clients>>
      BY <1>34, SpawnPc DEF StartListens
    <2>q. QED
      BY <2>1
  <1>35. CASE StartBindsUdp
    BY <1>35 DEF StartBindsUdp
  <1>36. CASE StartCaptures
    <2>1. /\ pc'["main"] = "spawn" /\ pc'["hook"] = "idle"
          /\ \A t \in Thread \ {"main", "hook"} : pc'[t] = pc[t]
          /\ UNCHANGED <<layout, link, peer, clients>>
      BY <1>36, SpawnPc DEF StartCaptures
    <2>q. QED
      BY <2>1
  <1>37. CASE StartFails
    BY <1>37 DEF StartFails
  <1>38. CASE StartSpawns
    <2>1. /\ pc'["main"] = "setLocal" /\ pc'["keeper"] = "test"
          /\ \A t \in Thread \ {"main", "keeper"} : pc'[t] = pc[t]
          /\ UNCHANGED <<layout, link, peer, clients>>
      BY <1>38, SpawnPc DEF StartSpawns
    <2>q. QED
      BY <2>1
  <1>39. CASE StartSets
    BY <1>39 DEF StartSets
  <1>40. CASE GuiMovesScreen
    BY <1>40 DEF GuiMovesScreen
  <1>41. ASSUME NEW c \in ClientId, NEW e \in GuiEdges, GuiMovedScreen(c, e) PROVE LayoutInv'
    <2>1. /\ layout' = SetClientEdge(layout, c, e) \/ layout' = layout
          /\ pc' = [pc EXCEPT !["main"] = "up"]
          /\ UNCHANGED <<link, peer, clients>>
      BY <1>41 DEF GuiMovedScreen, Edited
    <2>a. /\ SetClientEdge(layout, c, e) \in Seq(Entry)
          /\ Ids(SetClientEdge(layout, c, e)) = Ids(layout)
      BY EntryMoved
    <2>2. layout' \in Seq(Entry) /\ Ids(layout') = Ids(layout)
      BY <2>1, <2>a
    <2>3. ASSUME NEW d \in ClientId, Newcomer(d)' \/ pc'[d] = "forget" PROVE d \notin Ids(layout')
      BY <2>1, <2>2, <2>3
    <2>4. \A d \in ClientId : pc'[d] = "adding" => d \in clients'
      BY <2>1
    <2>q. QED
      BY <2>2, <2>3, <2>4 DEF Ids
  <1>42. CASE Stop
    BY <1>42 DEF Stop
  <1>43. CASE StopJoinsHook
    BY <1>43 DEF StopJoinsHook
  <1>44. CASE StopJoinsAccept
    BY <1>44 DEF StopJoinsAccept
  <1>45. CASE StopJoinsKeeper
    BY <1>45 DEF StopJoinsKeeper
  <1>46. CASE StopLocks
    BY <1>46 DEF StopLocks, Lock
  <1>47. ASSUME NEW c \in ClientId, StopClears(c) PROVE LayoutInv'
    BY <1>47 DEF StopClears, Destroy
  <1>48. CASE StopJoins
    BY <1>48 DEF StopJoins
  <1>49. CASE StopEnds
    BY <1>49 DEF StopEnds, Unlock
  <1>50. CASE UNCHANGED vars
    BY <1>50 DEF vars
  <1>q. QED
    <2>1. CASE Event
      BY <2>1, <1>1, <1>2, <1>7, <1>8, <1>14, <1>18, <1>20, <1>26, <1>34, <1>37, <1>40, <1>42 DEF
         Event
    <2>2. CASE AcceptStep
      BY <2>2, <1>3, <1>4 DEF AcceptStep
    <2>3. CASE HookStep
      BY <2>3, <1>15, <1>16, <1>17, <1>19, <1>21, <1>22, <1>23, <1>24 DEF HookStep
    <2>4. CASE KeeperStep
      BY <2>4, <1>25, <1>27, <1>28, <1>29, <1>30, <1>31, <1>32, <1>33 DEF KeeperStep
    <2>5. CASE MainStep
      BY <2>5, <1>35, <1>36, <1>38, <1>39, <1>41, <1>43, <1>44, <1>45, <1>46, <1>47, <1>48, <1>49
         DEF MainStep
    <2>6. ASSUME NEW c \in ClientId, RecvStep(c) PROVE LayoutInv'
      BY <2>6, <1>5, <1>6, <1>9, <1>10, <1>11, <1>12, <1>13 DEF RecvStep
    <2>q. QED
      BY <1>50, <2>1, <2>2, <2>3, <2>4, <2>5, <2>6 DEF Next

-------------------------------------------------------------------------------
(* The invariant holds.                                                      *)

\* The server starts in the invariant.
LEMMA InitInv == Init => Inv
  <1> SUFFICES ASSUME Init PROVE Inv
    OBVIOUS
  <1>1. pc["main"] = "init" /\ pc["accept"] = "off" /\ pc["hook"] = "off" /\ pc["keeper"] = "off"
    BY DEF Init, Thread, Service
  <1>2. \A c \in ClientId : pc[c] = "none"
    BY Clients DEF Init, Service
  <1>3. PcOK
    BY <1>1, <1>2 DEF Init, PcOK, Thread, Service, MainPc, AcceptPc, HookPc, KeeperPc, RecvPc
  <1>4. TypeOK
    BY <1>3 DEF Init, TypeOK
  <1>5. MutexInv
    BY <1>1, <1>2, Clients DEF Init, MutexInv, Free
  <1>6. JoinInv /\ ThreadInv /\ LifeInv /\ LocalsInv /\ SwitchInv /\ LiveInv
    BY <1>1, <1>2, Clients
    DEF Init, JoinInv, ThreadInv, LifeInv, LocalsInv, SwitchInv, LiveInv, Free, NoClient
  <1>7. ViewInv /\ LayoutInv
    <2>1. layout \in Seq(Entry) /\ Ids(layout) = {}
      BY DEF Init, Ids
    <2>2. /\ clients = {} /\ active = NoClient /\ forgotten = NoClient
          /\ pc["hook"] = "off" /\ pc["keeper"] = "off"
          /\ \A c \in ClientId : view[c] = "out" /\ pc[c] = "none" /\ c # NoClient
      BY <1>1, <1>2, Clients DEF Init
    <2>q. QED
      BY <2>1, <2>2 DEF ViewInv, LayoutInv
  <1>q. QED
    BY <1>4, <1>5, <1>6, <1>7 DEF Inv

\* Nothing moves in a process that has aborted.
LEMMA OnlyTheLivingMove ==
  ASSUME [Next]_vars
  PROVE  fate = "running" \/ UNCHANGED vars
  <1>1. CASE Event
    BY <1>1
    DEF At, Event, PeerCloses, Accept, RecvDisconnect, RecvMessage, CursorMoves, KeyPressed,
        Escape, KeeperWakes, StartListens, StartFails, GuiMovesScreen, Stop
  <1>2. CASE AcceptStep
    BY <1>2
    DEF At, AcceptStep, Insert, AcceptEnds
  <1>3. CASE HookStep
    BY <1>3
    DEF At, HookStep, Enter, EnterGrabs, EnterSets, KeySent, Leave, LeaveReleases, LeaveSets,
        CaptureEnds
  <1>4. CASE KeeperStep
    BY <1>4
    DEF At, KeeperStep, KeeperTest, KeeperLocks, KeeperBeats, KeeperExpires, KeeperJoins,
        KeeperRestores, KeeperSets, KeeperUnlocks
  <1>5. CASE MainStep
    BY <1>5
    DEF At, MainStep, StartBindsUdp, StartCaptures, StartSpawns, StartSets, GuiMovedScreen,
        StopJoinsHook, StopJoinsAccept, StopJoinsKeeper, StopLocks, StopClears, StopJoins,
        StopEnds
  <1>6. ASSUME NEW c \in ClientId, RecvStep(c) PROVE fate = "running"
    BY <1>6
    DEF At, RecvStep, RecvTest, RecvFails, HelloLocks, HelloAdds, KeepaliveArrives,
        DisconnectErases, DisconnectForgets
  <1>q. QED
    BY <1>1, <1>2, <1>3, <1>4, <1>5, <1>6 DEF Next

\* Every step keeps the invariant.
LEMMA NextInv ==
  ASSUME Inv, [Next]_vars
  PROVE  Inv'
  <1>1. /\ TypeOK /\ PcOK /\ MutexInv /\ JoinInv /\ ThreadInv /\ LifeInv /\ LocalsInv /\ SwitchInv
        /\ fate = "running" => LiveInv
        /\ LayoutInv
    BY DEF Inv, TypeOK
  <1>2. fate' = "running" => fate = "running"
    BY OnlyTheLivingMove DEF vars
  <1>3. TypeOK'
    BY <1>1, NextTypeOK
  <1>4. MutexInv' /\ JoinInv' /\ ThreadInv' /\ LifeInv'
    BY <1>1, NextMutexInv, NextJoinInv, NextThreadInv, NextLifeInv
  <1>5. LocalsInv' /\ SwitchInv'
    BY <1>1, NextLocalsInv, NextSwitchInv
  <1>6. fate' = "running" => LiveInv' /\ ViewInv'
    BY <1>1, <1>2, NextLiveInv, NextViewInv
  <1>7. LayoutInv'
    <2>1. CASE fate = "running"
      BY <2>1, NextLayoutInv
    <2>2. CASE UNCHANGED vars
      BY <1>1, <2>2 DEF vars, LayoutInv, Newcomer
    <2>q. QED
      BY <2>1, <2>2, OnlyTheLivingMove
  <1>q. QED
    BY <1>3, <1>4, <1>5, <1>6, <1>7 DEF Inv

\* The invariant holds in every behaviour.
THEOREM Invariance ==
  Spec => []Inv
  <1>1. Inv /\ [Next]_vars => Inv'
    BY NextInv
  <1>q. QED
    BY InitInv, <1>1, PTL DEF Spec

-------------------------------------------------------------------------------
(* What follows from it.                                                     *)

\* Type correctness.
THEOREM TypeCorrect ==
  Spec => []TypeOK
  <1>1. Inv => TypeOK
    BY DEF Inv
  <1>q. QED
    BY Invariance, <1>1, PTL

\* server.h:22: between two transitions, LOCAL_ACTIVE means that local input is not
\* swallowed and that no client is named active, whoever switched back last; unless
\* start() wrote state_ over a client that connected before it was done.
THEOREM LocalIsLocalHolds ==
  Spec => []LocalIsLocal
  <1>1. Inv => LocalIsLocal
    BY DEF Inv, LocalIsLocal, Quiet, MutexInv, SwitchInv, Free
  <1>q. QED
    BY Invariance, <1>1, PTL

\* server.h:23: between two transitions, CLIENT_ACTIVE means that local input is
\* swallowed and goes to a client whose connection the server holds.
THEOREM ClientIsHereHolds ==
  Spec => []ClientIsHere
  <1>1. ASSUME Inv, Quiet, state = "CLIENT_ACTIVE", pc["main"] # "stopped"
        PROVE  suppress /\ active \in clients
    <2>1. /\ MutexInv /\ SwitchInv /\ LiveInv /\ mutex = Free
          /\ pc["hook"] \in {"off", "idle", "enter", "key"}
      BY <1>1 DEF Inv, Quiet
    <2>2. /\ pc["keeper"] \notin {"scan", "join", "restore", "setLocal"}
          /\ pc["main"] \notin {"clear", "join"}
      BY <2>1 DEF MutexInv, Free
    <2>3. suppress /\ active # NoClient
      BY <1>1, <2>1, <2>2 DEF SwitchInv
    <2>q. QED
      BY <1>1, <2>1, <2>2, <2>3 DEF LiveInv
  <1>2. Inv => ClientIsHere
    BY <1>1 DEF ClientIsHere
  <1>q. QED
    BY Invariance, <1>2, PTL

\* The entry transition_to_client has looked up stays in the map until its end.
THEOREM EntryOutlivesTransitionHolds ==
  Spec => []EntryOutlivesTransition
  <1>1. Inv => EntryOutlivesTransition
    BY DEF Inv, LocalsInv, EntryOutlivesTransition
  <1>q. QED
    BY Invariance, <1>1, PTL

\* keepalive_loop's walk over the map, and the entries being destroyed in it, are
\* disturbed by nobody.
THEOREM WalkIsSafeHolds ==
  Spec => []WalkIsSafe
  <1>1. Inv => WalkIsSafe
    BY DEF Inv, JoinInv, MutexInv, WalkIsSafe
  <1>q. QED
    BY Invariance, <1>1, PTL

\* The way back to local that on_client_disconnected inlines is dead code: a recv
\* thread that gets so far never had the active client.
THEOREM NothingToRestoreHolds ==
  Spec => []NothingToRestore
  <1>1. Inv => NothingToRestore
    BY DEF Inv, LocalsInv, NothingToRestore
  <1>q. QED
    BY Invariance, <1>1, PTL

\* Nor does it find an entry to take out of layout_: only a client of the map gets one.
\* With NothingToRestore, neither half of on_client_disconnected's tail has work to do.
THEOREM DisconnectFindsNothingHolds ==
  Spec => []DisconnectFindsNothing
  <1>1. ASSUME Inv, NEW c \in ClientId, pc[c] = "forget"
        PROVE  ~wasActive[c] /\ c \notin Ids(layout)
    BY <1>1 DEF Inv, LocalsInv, LayoutInv
  <1>2. Inv => DisconnectFindsNothing
    BY <1>1 DEF DisconnectFindsNothing, NothingToRestore, NothingToForget
  <1>q. QED
    BY Invariance, <1>2, PTL

\* Between two transitions server and clients agree on who has the input: of the
\* clients that can still be told, the one last sent SCREEN_ENTER is the active one or
\* the one that start() forgot.
THEOREM EnteredIsActiveHolds ==
  Spec => []EnteredIsActive
  <1>1. ASSUME Inv, Quiet, NEW c \in clients, connected[c]
        PROVE  (view[c] = "in") = (IsActive(c) \/ forgotten = c)
    <2>1. ViewInv /\ SwitchInv /\ pc["hook"] \in {"off", "idle", "enter", "key"}
      BY <1>1 DEF Inv, Quiet
    <2>2. view[c] = "in" <=> Told(c)
      BY <1>1, <2>1 DEF ViewInv
    <2>3. Told(c) <=> IsActive(c) \/ forgotten = c
      BY <2>1 DEF Told, IsActive
    <2>q. QED
      BY <2>2, <2>3, Zenon DEF IsActive
  <1>2. Inv => EnteredIsActive
    BY <1>1 DEF EnteredIsActive
  <1>q. QED
    BY Invariance, <1>2, PTL

\* A key that is forwarded to a client finds it between its SCREEN_ENTER and its
\* SCREEN_LEAVE.
THEOREM KeysFollowEnterHolds ==
  Spec => KeysFollowEnter
  <1> DEFINE Goes == /\ pc["hook"] = "key" /\ pc'["hook"] = "idle"
                     /\ active \in clients /\ connected[active]
  <1>1. ASSUME Inv, Next, Goes PROVE view[active] = "in"
    <2>1. pc["hook"] = "key" /\ active \in clients /\ connected[active] /\ ~UNCHANGED vars
      BY <1>1 DEF vars
    <2>2. ViewInv /\ SwitchInv /\ clients \subseteq ClientId
      BY <1>1, <2>1, OnlyTheLivingMove DEF Inv, TypeOK
    <2>3. active # NoClient
      BY <2>1, <2>2, Clients
    <2>4. Told(active)
      BY <2>1, <2>2, <2>3 DEF Told, SwitchInv
    <2>q. QED
      BY <2>1, <2>2, <2>4 DEF ViewInv
  <1>2. Inv /\ [Next]_vars => [Goes => view[active] = "in"]_vars
    BY <1>1
  <1>q. QED
    BY Invariance, <1>2, PTL DEF Spec, KeysFollowEnter

\* When stop() returns, every thread of the server has ended and the mutex is free.
THEOREM StoppedMeansQuietHolds ==
  Spec => []StoppedMeansQuiet
  <1>1. ASSUME Inv, pc["main"] = "stopped"
        PROVE  /\ pc["accept"] = "off" /\ pc["hook"] = "off" /\ pc["keeper"] = "off"
               /\ mutex = Free /\ \A c \in ClientId : pc[c] \in {"none", "exit"}
    <2>1. /\ MutexInv /\ JoinInv /\ ThreadInv /\ LifeInv /\ mutex \in Thread \cup {Free}
          /\ fate = "running" => LiveInv
      BY <1>1 DEF Inv, TypeOK
    <2>2. /\ pc["accept"] = "off" /\ pc["hook"] = "off" /\ pc["keeper"] = "off"
          /\ clients = {} /\ fate = "running"
      BY <1>1, <2>1 DEF LifeInv
    <2>3. peer = NoClient /\ joining = NoClient
      BY <1>1, <2>1, <2>2 DEF ThreadInv, JoinInv
    <2>4. \A c \in ClientId : pc[c] \in {"none", "exit"}
      BY <2>1, <2>2, <2>3, Clients DEF LiveInv
    <2>5. mutex = Free
      BY <1>1, <2>1, <2>2, <2>4 DEF MutexInv, Thread, Service
    <2>q. QED
      BY <2>2, <2>4, <2>5
  <1>2. Inv => StoppedMeansQuiet
    BY <1>1 DEF StoppedMeansQuiet
  <1>q. QED
    BY Invariance, <1>2, PTL

-------------------------------------------------------------------------------
(* The server implements the switch of ScreenSwitch.                         *)

\* A step of the switch, in the server's terms.
SwitchStep == Switch!Next \/ UNCHANGED Switch!vars

\* Every step of the server is a step of the switch or changes nothing of it: the
\* input never goes from one client to another, and only to one that is present.
LEMMA NextSwitchStep ==
  ASSUME Inv, [Next]_vars
  PROVE  SwitchStep
  <1>0. TypeOK /\ ThreadInv /\ LocalsInv /\ SwitchInv
    BY DEF Inv
  <1> USE <1>0 DEF SwitchStep, Switch!Next, Switch!vars, switchVars
  <1>1. ASSUME NEW c \in ClientId, PeerCloses(c) PROVE SwitchStep
    BY <1>1 DEF PeerCloses
  <1>2. ASSUME NEW c \in ClientId, Accept(c) PROVE SwitchStep
    BY <1>2 DEF Accept
  <1>3. CASE Insert
    <2>1. clients' = clients \cup {peer} /\ peer \in ClientId /\ UNCHANGED <<state, active>>
      BY <1>3 DEF Insert, At, ThreadInv, TypeOK
    <2>2. CASE peer \in clients
      <3>1. clients' = clients
        BY <2>1, <2>2
      <3>q. QED
        BY <2>1, <3>1
    <2>3. CASE peer \notin clients
      BY <2>1, <2>3 DEF Switch!Connect
    <2>q. QED
      BY <2>2, <2>3
  <1>4. CASE AcceptEnds
    BY <1>4 DEF AcceptEnds
  <1>5. ASSUME NEW c \in ClientId, RecvTest(c) PROVE SwitchStep
    BY <1>5 DEF RecvTest
  <1>6. ASSUME NEW c \in ClientId, RecvFails(c) PROVE SwitchStep
    BY <1>6 DEF RecvFails
  <1>7. ASSUME NEW c \in ClientId, RecvDisconnect(c) PROVE SwitchStep
    BY <1>7 DEF RecvDisconnect
  <1>8. ASSUME NEW c \in ClientId, RecvMessage(c) PROVE SwitchStep
    BY <1>8 DEF RecvMessage
  <1>9. ASSUME NEW c \in ClientId, HelloLocks(c) PROVE SwitchStep
    BY <1>9 DEF HelloLocks
  <1>10. ASSUME NEW c \in ClientId, NEW ok \in BOOLEAN, HelloAdds(c, ok) PROVE SwitchStep
    BY <1>10 DEF HelloAdds
  <1>11. ASSUME NEW c \in ClientId, KeepaliveArrives(c) PROVE SwitchStep
    BY <1>11 DEF KeepaliveArrives
  <1>12. ASSUME NEW c \in ClientId, DisconnectErases(c) PROVE SwitchStep
    BY <1>12 DEF DisconnectErases, Switch!Lose
  <1>13. ASSUME NEW c \in ClientId, DisconnectForgets(c) PROVE SwitchStep
    BY <1>13 DEF DisconnectForgets, At, LocalsInv
  <1>14. ASSUME NEW p \in Cursor, CursorMoves(p) PROVE SwitchStep
    BY <1>14 DEF CursorMoves
  <1>15. ASSUME NEW ok \in BOOLEAN, Enter(ok) PROVE SwitchStep
    BY <1>15 DEF Enter
  <1>16. CASE EnterGrabs
    BY <1>16 DEF EnterGrabs, At, SwitchInv
  <1>17. CASE EnterSets
    <2>1. /\ state' = "CLIENT_ACTIVE" /\ UNCHANGED <<active, clients>>
          /\ state = "LOCAL_ACTIVE" /\ active = target /\ target \in clients
      BY <1>17 DEF EnterSets, At, SwitchInv, LocalsInv
    <2>q. QED
      BY <2>1 DEF Switch!Enter, TypeOK
  <1>18. CASE KeyPressed
    BY <1>18 DEF KeyPressed
  <1>19. ASSUME NEW ok \in BOOLEAN, KeySent(ok) PROVE SwitchStep
    BY <1>19 DEF KeySent
  <1>20. CASE Escape
    BY <1>20 DEF Escape
  <1>21. ASSUME NEW ok \in BOOLEAN, Leave(ok) PROVE SwitchStep
    BY <1>21 DEF Leave
  <1>22. CASE LeaveReleases
    BY <1>22 DEF LeaveReleases, Switch!Return
  <1>23. CASE LeaveSets
    BY <1>23 DEF LeaveSets, Switch!Return
  <1>24. CASE CaptureEnds
    BY <1>24 DEF CaptureEnds
  <1>25. CASE KeeperTest
    BY <1>25 DEF KeeperTest
  <1>26. ASSUME NEW quiet \in SUBSET ClientId, KeeperWakes(quiet) PROVE SwitchStep
    BY <1>26 DEF KeeperWakes
  <1>27. CASE KeeperLocks
    BY <1>27 DEF KeeperLocks
  <1>28. ASSUME NEW c \in ClientId, NEW ok \in BOOLEAN, KeeperBeats(c, ok) PROVE SwitchStep
    BY <1>28 DEF KeeperBeats
  <1>29. ASSUME NEW c \in ClientId, KeeperExpires(c) PROVE SwitchStep
    BY <1>29 DEF KeeperExpires, Destroy, Switch!Lose
  <1>30. CASE KeeperJoins
    BY <1>30 DEF KeeperJoins
  <1>31. CASE KeeperRestores
    BY <1>31 DEF KeeperRestores, Switch!Return
  <1>32. CASE KeeperSets
    BY <1>32 DEF KeeperSets, Switch!Return
  <1>33. CASE KeeperUnlocks
    BY <1>33 DEF KeeperUnlocks
  <1>34. CASE StartListens
    BY <1>34 DEF StartListens
  <1>35. CASE StartBindsUdp
    BY <1>35 DEF StartBindsUdp
  <1>36. CASE StartCaptures
    BY <1>36 DEF StartCaptures
  <1>37. CASE StartFails
    BY <1>37 DEF StartFails
  <1>38. CASE StartSpawns
    BY <1>38 DEF StartSpawns
  <1>39. CASE StartSets
    BY <1>39 DEF StartSets, Switch!Return
  <1>40. CASE GuiMovesScreen
    BY <1>40 DEF GuiMovesScreen
  <1>41. ASSUME NEW c \in ClientId, NEW e \in GuiEdges, GuiMovedScreen(c, e) PROVE SwitchStep
    BY <1>41 DEF GuiMovedScreen
  <1>42. CASE Stop
    BY <1>42 DEF Stop
  <1>43. CASE StopJoinsHook
    BY <1>43 DEF StopJoinsHook
  <1>44. CASE StopJoinsAccept
    BY <1>44 DEF StopJoinsAccept
  <1>45. CASE StopJoinsKeeper
    BY <1>45 DEF StopJoinsKeeper
  <1>46. CASE StopLocks
    BY <1>46 DEF StopLocks
  <1>47. ASSUME NEW c \in ClientId, StopClears(c) PROVE SwitchStep
    BY <1>47 DEF StopClears, Destroy, Switch!Lose
  <1>48. CASE StopJoins
    BY <1>48 DEF StopJoins
  <1>49. CASE StopEnds
    BY <1>49 DEF StopEnds
  <1>50. CASE UNCHANGED vars
    BY <1>50 DEF vars
  <1>q. QED
    <2>1. CASE Event
      BY <2>1, <1>1, <1>2, <1>7, <1>8, <1>14, <1>18, <1>20, <1>26, <1>34, <1>37, <1>40, <1>42
      DEF Event
    <2>2. CASE AcceptStep
      BY <2>2, <1>3, <1>4 DEF AcceptStep
    <2>3. CASE HookStep
      BY <2>3, <1>15, <1>16, <1>17, <1>19, <1>21, <1>22, <1>23, <1>24 DEF HookStep
    <2>4. CASE KeeperStep
      BY <2>4, <1>25, <1>27, <1>28, <1>29, <1>30, <1>31, <1>32, <1>33 DEF KeeperStep
    <2>5. CASE MainStep
      BY <2>5, <1>35, <1>36, <1>38, <1>39, <1>41, <1>43, <1>44, <1>45, <1>46, <1>47, <1>48, <1>49
      DEF MainStep
    <2>6. ASSUME NEW c \in ClientId, RecvStep(c) PROVE SwitchStep
      BY <2>6, <1>5, <1>6, <1>9, <1>10, <1>11, <1>12, <1>13 DEF RecvStep
    <2>q. QED
      BY <1>50, <2>1, <2>2, <2>3, <2>4, <2>5, <2>6 DEF Next

\* The server is a ScreenSwitch.
THEOREM Refinement ==
  Spec => SwitchSpec
  <1>1. Init => Switch!Init
    BY DEF Init, Switch!Init
  <1>2. Inv /\ [Next]_vars => [Switch!Next]_Switch!vars
    BY NextSwitchStep DEF SwitchStep
  <1>q. QED
    BY Invariance, <1>1, <1>2, PTL DEF Spec, SwitchSpec, Switch!Spec
===============================================================================
