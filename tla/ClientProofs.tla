----------------------------- MODULE ClientProofs -----------------------------
(***************************************************************************)
(* The client's five threads and no lock: what its flags and handles say   *)
(* of where the threads are, and what it believes of who has the input.    *)
(***************************************************************************)
EXTENDS Client, TLAPS

\* connect() has not come to set running_.
Early == {"init", "bind", "receive", "hold", "udp", "holdUdp", "hello", "run"}

\* Nothing is lost, and nothing reconnects, before connect() has set running_.
StartInv ==
  /\ running \/ pc["recv"] = "spawn" \/ pc["reconnect"] # "off" => pc["main"] \notin Early
  /\ pc["main"] \in {"init", "bind", "receive"} => pc["recv"] = "off"

\* A thread that runs is held by who is to join it, or about to be.
HeldInv ==
  /\ pc["recv"] # "off" /\ ~held => pc["main"] = "hold" \/ pc["reconnect"] = "hold"
  /\ pc["udp"] # "off" /\ ~udpHeld => pc["main"] = "holdUdp" \/ pc["reconnect"] = "holdUdp"
  /\ pc["reconnect"] # "off" => rcHeld
  /\ pc["reconnect"] \in {"test", "sleep", "dial", "move", "closeUdp", "joinUdp", "rebind",
                          "receive"} =>
       pc["recv"] \in {"return", "off"}

\* What disconnect() has done by the time it is where it is.
QuitInv ==
  /\ pc["main"] \in {"bye", "closeTcp", "joinRecv", "closeUdp", "joinUdp", "joinReconnect",
                     "joinKeeper", "setGone", "done"} => ~running
  /\ pc["main"] \in {"setGone", "done"} => pc["keeper"] = "off"
  /\ pc["main"] \in {"joinKeeper", "setGone", "done"} =>
       /\ pc["reconnect"] \in {"off", "test"}
       /\ ~held => pc["reconnect"] = "off"

\* The last of SCREEN_ENTER and SCREEN_LEAVE that the receiver has read was an enter.
Entered == state = "ACTIVE" \/ undone = TRUE

\* Only a thread that listens has read one.
ActiveInv ==
  \/ pc["main"] \in {"init", "bind", "receive"}
  \/ pc["recv"] \in {"close", "closeUdp", "joinUdp", "decide", "spawn", "return"}
  \/ pc["reconnect"] \in {"test", "sleep", "dial", "move", "closeUdp", "joinUdp", "rebind",
                          "receive"}
  => ~Entered

\* What has been written over is not there.
OverwrittenInv == undone = TRUE => state # "ACTIVE"

\* Nothing comes on a connection before HELLO.
FreshInv ==
  \/ pc["main"] \in Early \ {"run"}
  \/ pc["reconnect"] \in {"closeUdp", "joinUdp", "rebind", "receive", "hold", "udp", "holdUdp",
                          "hello"}
  => peer = "none" /\ inbox = <<>>

PlaceInv == StartInv /\ HeldInv /\ QuitInv /\ OneReceiver

ThreadInv == TypeOK /\ PlaceInv /\ ActiveInv /\ OverwrittenInv /\ FreshInv

\* Before each message under way the client will have been entered or not, from what
\* it has read by now to what the server takes it to be; a key comes when it has.
Becomes(was, m, is) ==
  /\ m = "enter" => is
  /\ m = "leave" => ~is
  /\ m = "key" => was /\ is
  /\ m = "ack" => (is <=> was)

Follows(ms) ==
  \E active \in [0..Len(ms) -> BOOLEAN] :
    /\ active[0] <=> Entered
    /\ active[Len(ms)] <=> peer = "in"
    /\ \A i \in 1..Len(ms) : Becomes(active[i - 1], ms[i], active[i])

Listening == pc["recv"] \in {"loop", "recv"} /\ link \in {"open", "broken"}
ViewInv == Listening => Follows(inbox)

IInv == ThreadInv /\ ViewInv
-------------------------------------------------------------------------------
(* What is under way, and what the server takes the client to be.            *)

LEMMA MessageSent ==
  ASSUME TypeOK, NEW m \in Message, inbox' = Append(inbox, m), Entered' <=> Entered,
         Follows(inbox), Becomes(peer = "in", m, peer' = "in")
  PROVE  Follows(inbox)'
<1> DEFINE n == Len(inbox)
<1>1. /\ n \in Nat /\ Len(inbox') = n + 1 /\ inbox'[n + 1] = m
      /\ \A i \in 1..n : inbox'[i] = inbox[i]
  BY DEF TypeOK
<1>2. PICK active \in [0..n -> BOOLEAN] :
        /\ active[0] <=> Entered
        /\ active[n] <=> peer = "in"
        /\ \A i \in 1..n : Becomes(active[i - 1], inbox[i], active[i])
  BY DEF Follows
<1> HIDE DEF n
<1>p. PICK p \in BOOLEAN : p <=> peer' = "in"
  <2>1. (TRUE <=> peer' = "in") \/ (FALSE <=> peer' = "in")
    OBVIOUS
  <2> QED BY <2>1, Zenon
<1> DEFINE next == [i \in 0..(n + 1) |-> IF i = n + 1 THEN p ELSE active[i]]
<1>3. next \in [0..(n + 1) -> BOOLEAN]
  <2>1. ASSUME NEW i \in 0..(n + 1), i # n + 1 PROVE i \in 0..n
    BY <1>1, <2>1
  <2>2. ASSUME NEW i \in 0..(n + 1) PROVE (IF i = n + 1 THEN p ELSE active[i]) \in BOOLEAN
    BY <1>2, <2>1, Zenon
  <2> QED BY <2>2
<1>4. next[0] <=> Entered'
  BY <1>1, <1>2
<1>5. next[n + 1] <=> peer' = "in"
  BY <1>1, <1>p
<1>6. ASSUME NEW i \in 1..(n + 1) PROVE Becomes(next[i - 1], inbox'[i], next[i])
  <2>1. CASE i = n + 1
    <3>1. i - 1 = n /\ n \in 0..(n + 1) /\ n # n + 1 /\ inbox'[i] = m
      BY <1>1, <2>1
    <3>2. (next[i - 1] <=> peer = "in") /\ (next[i] <=> peer' = "in")
      BY <1>2, <1>5, <2>1, <3>1
    <3> QED BY <3>1, <3>2 DEF Becomes
  <2>2. CASE i # n + 1
    <3>1. i \in 1..n /\ i - 1 \in 0..n
      BY <1>1, <2>2
    <3>2. next[i - 1] = active[i - 1] /\ next[i] = active[i] /\ inbox'[i] = inbox[i]
      BY <1>1, <3>1
    <3> QED BY <1>2, <3>1, <3>2
  <2> QED BY <2>1, <2>2
<1> HIDE DEF next
<1> QED BY <1>1, <1>3, <1>4, <1>5, <1>6 DEF Follows

LEMMA MessageRead ==
  ASSUME TypeOK, inbox # <<>>, inbox' = Tail(inbox), peer' = peer, Follows(inbox),
         \/ Head(inbox) = "enter" /\ Entered'
         \/ Head(inbox) = "leave" /\ ~Entered'
         \/ Head(inbox) \in {"ack", "key"} /\ (Entered' <=> Entered)
  PROVE  Follows(inbox)'
<1> DEFINE n == Len(inbox')
<1>1. /\ n \in Nat /\ Len(inbox) = n + 1 /\ inbox[1] = Head(inbox)
      /\ \A i \in 1..n : inbox'[i] = inbox[i + 1]
  BY DEF TypeOK
<1>2. PICK active \in [0..(n + 1) -> BOOLEAN] :
        /\ active[0] <=> Entered
        /\ active[n + 1] <=> peer = "in"
        /\ \A i \in 1..(n + 1) : Becomes(active[i - 1], inbox[i], active[i])
  BY <1>1 DEF Follows
<1> HIDE DEF n
<1> DEFINE next == [i \in 0..n |-> active[i + 1]]
<1>3. next \in [0..n -> BOOLEAN]
  BY <1>1, <1>2
<1>4. next[0] <=> Entered'
  <2>1. Becomes(active[0], Head(inbox), active[1]) /\ next[0] = active[1]
    BY <1>1, <1>2
  <2> QED BY <1>2, <2>1 DEF Becomes
<1>5. next[n] <=> peer' = "in"
  BY <1>1, <1>2
<1>6. ASSUME NEW i \in 1..n PROVE Becomes(next[i - 1], inbox'[i], next[i])
  <2>1. i + 1 \in 1..(n + 1) /\ i - 1 \in 0..n /\ (i + 1) - 1 = i /\ (i - 1) + 1 = i /\ i \in 0..n
    BY <1>1
  <2>2. next[i - 1] = active[i] /\ next[i] = active[i + 1] /\ inbox'[i] = inbox[i + 1]
    BY <1>1, <2>1
  <2>3. Becomes(active[(i + 1) - 1], inbox[i + 1], active[i + 1])
    BY <1>2, <2>1
  <2> QED BY <2>1, <2>2, <2>3
<1> HIDE DEF next
<1> QED BY <1>1, <1>3, <1>4, <1>5, <1>6 DEF Follows, n

\* A connection on which nothing has come.
LEMMA NothingUnderWay ==
  ASSUME inbox' = <<>>, peer' = "none", ~Entered'
  PROVE  Follows(inbox)'
<1> DEFINE active == [i \in 0..0 |-> FALSE]
<1>1. /\ Len(inbox') = 0 /\ active \in [0..0 -> BOOLEAN]
      /\ ~active[0] /\ ~(peer' = "in")
  OBVIOUS
<1>2. \A i \in 1..0 : Becomes(active[i - 1], inbox'[i], active[i])
  OBVIOUS
<1> HIDE DEF active
<1> QED BY <1>1, <1>2 DEF Follows

\* A step that reads nothing, sends nothing and starts no receiver.  Others may write
\* over state_ by it.
LEMMA NothingRead ==
  ASSUME ViewInv, Listening' => Listening, Entered' <=> Entered, inbox' = inbox,
         peer' = "in" <=> peer = "in"
  PROVE  ViewInv'
<1>1. Follows(inbox) => Follows(inbox)'
  BY Zenon DEF Follows
<1> QED BY <1>1 DEF ViewInv

-------------------------------------------------------------------------------
(* Every step keeps each part of the invariant.                              *)

LEMMA TypeStep == TypeOK /\ [Next]_vars => TypeOK'
<1> SUFFICES ASSUME TypeOK, [Next]_vars PROVE TypeOK'
  OBVIOUS
<1> USE DEF viewVars, flagVars, tcpVars, udpVars, netVars, At, Goto, Spawn, Idle, Passes, Starts, Send, Hello, CloseTcp,
           CloseUdp, JoinUdp, RecvWrites, WritesOver, TypeOK, Thread, MainPc, RecvPc, UdpPc, KeeperPc, ReconnectPc
<1>1. CASE ConnectReceives
  BY <1>1 DEF ConnectReceives
<1>2. CASE ConnectHolds
  BY <1>2 DEF ConnectHolds
<1>3. CASE ConnectReceivesUdp
  BY <1>3 DEF ConnectReceivesUdp
<1>4. CASE ConnectRuns
  BY <1>4 DEF ConnectRuns
<1>5. CASE ConnectSets
  BY <1>5 DEF ConnectSets
<1>6. CASE ConnectEnds
  BY <1>6 DEF ConnectEnds
<1>7. ASSUME NEW ok \in BOOLEAN, ConnectDials(ok) PROVE TypeOK'
  BY <1>7 DEF ConnectDials
<1>8. ASSUME NEW ok \in BOOLEAN, ConnectSaysHello(ok) PROVE TypeOK'
  BY <1>8 DEF ConnectSaysHello
<1>9. ASSUME NEW p \in {"default", "other", "none"}, ConnectBinds(p) PROVE TypeOK'
  <2>1. connected' \in BOOLEAN
    BY <1>9, Zenon DEF ConnectBinds
  <2> QED BY <1>9, <2>1 DEF ConnectBinds
<1>10. CASE UserQuits
  BY <1>10 DEF UserQuits
<1>11. CASE QuitBegins
  <2>1. running' \in BOOLEAN /\ auto' \in BOOLEAN
    BY <1>11, Zenon DEF QuitBegins
  <2> QED BY <1>11, <2>1 DEF QuitBegins
<1>12. CASE QuitClosesTcp
  <2>1. connected' \in BOOLEAN
    BY <1>12, Zenon DEF QuitClosesTcp
  <2> QED BY <1>12, <2>1 DEF QuitClosesTcp
<1>13. CASE QuitJoinsRecv
  <2>1. held' \in BOOLEAN
    BY <1>13, Zenon DEF QuitJoinsRecv
  <2> QED BY <1>13, <2>1 DEF QuitJoinsRecv
<1>14. CASE QuitClosesUdp
  <2>1. udpRunning' \in BOOLEAN
    BY <1>14, Zenon DEF QuitClosesUdp
  <2> QED BY <1>14, <2>1 DEF QuitClosesUdp
<1>15. CASE QuitJoinsUdp
  <2>1. udpHeld' \in BOOLEAN
    BY <1>15, Zenon DEF QuitJoinsUdp
  <2> QED BY <1>15, <2>1 DEF QuitJoinsUdp
<1>16. CASE QuitJoinsReconnect
  <2>1. rcHeld' \in BOOLEAN
    BY <1>16, Zenon DEF QuitJoinsReconnect
  <2> QED BY <1>16, <2>1 DEF QuitJoinsReconnect
<1>17. CASE QuitJoinsKeeper
  BY <1>17 DEF QuitJoinsKeeper
<1>18. CASE QuitEnds
  BY <1>18 DEF QuitEnds
<1>19. ASSUME NEW ok \in BOOLEAN, QuitSaysBye(ok) PROVE TypeOK'
  BY <1>19 DEF QuitSaysBye
<1>20. CASE RecvTests
  BY <1>20 DEF RecvTests
<1>21. CASE RecvFails
  <2>1. connected' \in BOOLEAN /\ undone' \in BOOLEAN
    BY <1>21, Zenon DEF RecvFails
  <2> QED BY <1>21, <2>1 DEF RecvFails
<1>22. CASE RecvEnters
  <2>1. inbox' \in Seq(Message)
    BY <1>22 DEF RecvEnters, Arrives
  <2>2. undone' \in BOOLEAN
    BY <1>22, Zenon DEF RecvEnters
  <2> QED BY <1>22, <2>1, <2>2 DEF RecvEnters, Arrives
<1>23. CASE RecvLeaves
  <2>1. inbox' \in Seq(Message)
    BY <1>23 DEF RecvLeaves, Arrives
  <2>2. undone' \in BOOLEAN
    BY <1>23, Zenon DEF RecvLeaves
  <2> QED BY <1>23, <2>1, <2>2 DEF RecvLeaves, Arrives
<1>24. CASE RecvDisconnected
  <2>1. inbox' \in Seq(Message)
    BY <1>24 DEF RecvDisconnected, Arrives
  <2>2. undone' \in BOOLEAN
    BY <1>24, Zenon DEF RecvDisconnected
  <2> QED BY <1>24, <2>1, <2>2 DEF RecvDisconnected, Arrives
<1>25. CASE RecvRejected
  <2>1. running' \in BOOLEAN /\ auto' \in BOOLEAN /\ connected' \in BOOLEAN
    BY <1>25, Zenon DEF RecvRejected, Arrives
  <2>2. inbox' \in Seq(Message)
    BY <1>25 DEF RecvRejected, Arrives
  <2> QED BY <1>25, <2>1, <2>2 DEF RecvRejected, Arrives
<1>26. CASE RecvCloses
  <2>1. connected' \in BOOLEAN
    BY <1>26, Zenon DEF RecvCloses
  <2> QED BY <1>26, <2>1 DEF RecvCloses
<1>27. CASE RecvClosesUdp
  <2>1. udpRunning' \in BOOLEAN
    BY <1>27, Zenon DEF RecvClosesUdp
  <2> QED BY <1>27, <2>1 DEF RecvClosesUdp
<1>28. CASE RecvJoinsUdp
  <2>1. udpHeld' \in BOOLEAN
    BY <1>28, Zenon DEF RecvJoinsUdp
  <2> QED BY <1>28, <2>1 DEF RecvJoinsUdp
<1>29. CASE RecvDecides
  <2>1. undone' \in BOOLEAN
    BY <1>29, Zenon DEF RecvDecides
  <2> QED BY <1>29, <2>1 DEF RecvDecides
<1>30. CASE RecvReconnects
  <2>1. rcHeld' \in BOOLEAN
    BY <1>30, Zenon DEF RecvReconnects
  <2> QED BY <1>30, <2>1 DEF RecvReconnects
<1>31. CASE RecvReturns
  BY <1>31 DEF RecvReturns
<1>32. ASSUME NEW m \in {"ack", "key"}, RecvPasses(m) PROVE TypeOK'
  <2>1. inbox' \in Seq(Message)
    BY <1>32 DEF RecvPasses, Arrives
  <2> QED BY <1>32, <2>1 DEF RecvPasses, Arrives
<1>33. CASE UdpTests
  BY <1>33 DEF UdpTests
<1>34. CASE UdpFails
  BY <1>34 DEF UdpFails
<1>35. CASE UdpReceives
  BY <1>35, BoundsAssumption DEF UdpReceives
<1>36. CASE UdpInjects
  BY <1>36 DEF UdpInjects
<1>37. CASE KeeperTests
  BY <1>37 DEF KeeperTests
<1>38. ASSUME NEW ok \in BOOLEAN, KeeperBeats(ok) PROVE TypeOK'
  BY <1>38 DEF KeeperBeats
<1>39. CASE ReconnectTests
  BY <1>39 DEF ReconnectTests
<1>40. CASE ReconnectWakes
  BY <1>40 DEF ReconnectWakes
<1>41. CASE ReconnectMoves
  <2>1. connected' \in BOOLEAN /\ held' \in BOOLEAN
    BY <1>41, Zenon DEF ReconnectMoves
  <2>2. inbox' \in Seq(Message)
    BY <1>41 DEF ReconnectMoves
  <2> QED BY <1>41, <2>1, <2>2 DEF ReconnectMoves
<1>42. ASSUME NEW p \in {"other", "none"}, ReconnectRebinds(p) PROVE TypeOK'
  <2>1. udpRunning' \in BOOLEAN
    BY <1>42, Zenon DEF ReconnectRebinds
  <2> QED BY <1>42, <2>1 DEF ReconnectRebinds
<1>43. CASE ReconnectReceives
  BY <1>43 DEF ReconnectReceives
<1>44. CASE ReconnectHolds
  BY <1>44 DEF ReconnectHolds
<1>45. CASE ReconnectReceivesUdp
  BY <1>45 DEF ReconnectReceivesUdp
<1>46. CASE ReconnectSets
  BY <1>46 DEF ReconnectSets
<1>47. ASSUME NEW ok \in BOOLEAN, ReconnectDials(ok) PROVE TypeOK'
  BY <1>47 DEF ReconnectDials
<1>48. ASSUME NEW ok \in BOOLEAN, ReconnectSaysHello(ok) PROVE TypeOK'
  BY <1>48 DEF ReconnectSaysHello
<1>49. CASE ServerMoves
  BY <1>49, BoundsAssumption DEF ServerMoves
<1>50. CASE MoveLost
  BY <1>50, BoundsAssumption DEF MoveLost
<1>51. CASE LinkBreaks
  BY <1>51 DEF LinkBreaks
<1>52. ASSUME NEW m \in Message, ServerSends(m) PROVE TypeOK'
  <2>1. inbox' \in Seq(Message)
    BY <1>52 DEF ServerSends
  <2> QED BY <1>52, <2>1 DEF ServerSends
<1>53. CASE UNCHANGED vars
  BY <1>53 DEF vars
<1>54. CASE ConnectHoldsUdp
  BY <1>54 DEF ConnectHoldsUdp
<1>55. CASE ReconnectClosesUdp
  <2>1. udpRunning' \in BOOLEAN
    BY <1>55, Zenon DEF ReconnectClosesUdp
  <2> QED BY <1>55, <2>1 DEF ReconnectClosesUdp
<1>56. CASE ReconnectJoinsUdp
  <2>1. udpHeld' \in BOOLEAN
    BY <1>56, Zenon DEF ReconnectJoinsUdp
  <2> QED BY <1>56, <2>1 DEF ReconnectJoinsUdp
<1>57. CASE ReconnectHoldsUdp
  BY <1>57 DEF ReconnectHoldsUdp
<1>58. CASE JoinedTwice
  BY <1>58 DEF JoinedTwice
<1> QED
  <2>1. CASE ConnectStep
    BY <2>1, <1>1, <1>2, <1>3, <1>4, <1>5, <1>6, <1>7, <1>8, <1>9, <1>54 DEF ConnectStep
  <2>2. CASE QuitStep
    BY <2>2, <1>11, <1>12, <1>13, <1>14, <1>15, <1>16, <1>17, <1>18, <1>19 DEF QuitStep
  <2>3. CASE RecvStep
    BY <2>3, <1>20, <1>21, <1>22, <1>23, <1>24, <1>25, <1>26, <1>27, <1>28, <1>29, <1>30, <1>31, <1>32 DEF RecvStep, Message
  <2>4. CASE UdpStep
    BY <2>4, <1>33, <1>34, <1>35, <1>36 DEF UdpStep
  <2>5. CASE KeeperStep
    BY <2>5, <1>37, <1>38 DEF KeeperStep
  <2>6. CASE ReconnectStep
    BY <2>6, <1>39, <1>40, <1>41, <1>42, <1>43, <1>44, <1>45, <1>46, <1>47, <1>48,
       <1>55, <1>56, <1>57 DEF ReconnectStep
  <2>7. CASE Network
    BY <2>7, <1>49, <1>50, <1>51, <1>52 DEF Network
  <2> QED BY <1>10, <1>53, <1>58, <2>1, <2>2, <2>3, <2>4, <2>5, <2>6, <2>7 DEF Next

LEMMA PlaceStep == TypeOK /\ PlaceInv /\ [Next]_vars => PlaceInv'
<1> SUFFICES ASSUME TypeOK, PlaceInv, [Next]_vars PROVE PlaceInv'
  OBVIOUS
<1> USE DEF viewVars, flagVars, tcpVars, udpVars, netVars, At, Goto, Spawn, Idle, Passes, Starts, Send, Hello, CloseTcp,
           CloseUdp, JoinUdp, TypeOK, Thread,
           PlaceInv, StartInv, HeldInv, QuitInv, OneReceiver, Early
<1>1. CASE ConnectReceives
  BY <1>1 DEF ConnectReceives
<1>2. CASE ConnectHolds
  BY <1>2 DEF ConnectHolds
<1>3. CASE ConnectReceivesUdp
  BY <1>3 DEF ConnectReceivesUdp
<1>4. CASE ConnectRuns
  BY <1>4 DEF ConnectRuns
<1>5. CASE ConnectSets
  BY <1>5 DEF ConnectSets
<1>6. CASE ConnectEnds
  BY <1>6 DEF ConnectEnds
<1>7. ASSUME NEW ok \in BOOLEAN, ConnectDials(ok) PROVE PlaceInv'
  BY <1>7 DEF ConnectDials
<1>8. ASSUME NEW ok \in BOOLEAN, ConnectSaysHello(ok) PROVE PlaceInv'
  BY <1>8 DEF ConnectSaysHello
<1>9. ASSUME NEW p \in {"default", "other", "none"}, ConnectBinds(p) PROVE PlaceInv'
  BY <1>9 DEF ConnectBinds
<1>10. CASE UserQuits
  BY <1>10 DEF UserQuits
<1>11. CASE QuitBegins
  BY <1>11 DEF QuitBegins
<1>12. CASE QuitClosesTcp
  BY <1>12 DEF QuitClosesTcp
<1>13. CASE QuitJoinsRecv
  BY <1>13 DEF QuitJoinsRecv
<1>14. CASE QuitClosesUdp
  BY <1>14 DEF QuitClosesUdp
<1>15. CASE QuitJoinsUdp
  BY <1>15 DEF QuitJoinsUdp
<1>16. CASE QuitJoinsReconnect
  BY <1>16 DEF QuitJoinsReconnect
<1>17. CASE QuitJoinsKeeper
  BY <1>17 DEF QuitJoinsKeeper
<1>18. CASE QuitEnds
  BY <1>18 DEF QuitEnds
<1>19. ASSUME NEW ok \in BOOLEAN, QuitSaysBye(ok) PROVE PlaceInv'
  BY <1>19 DEF QuitSaysBye
<1>20. CASE RecvTests
  BY <1>20 DEF RecvTests
<1>21. CASE RecvFails
  BY <1>21 DEF RecvFails
<1>22. CASE RecvEnters
  BY <1>22 DEF RecvEnters, Arrives
<1>23. CASE RecvLeaves
  BY <1>23 DEF RecvLeaves, Arrives
<1>24. CASE RecvDisconnected
  BY <1>24 DEF RecvDisconnected, Arrives
<1>25. CASE RecvRejected
  BY <1>25 DEF RecvRejected, Arrives
<1>26. CASE RecvCloses
  BY <1>26 DEF RecvCloses
<1>27. CASE RecvClosesUdp
  BY <1>27 DEF RecvClosesUdp
<1>28. CASE RecvJoinsUdp
  BY <1>28 DEF RecvJoinsUdp
<1>29. CASE RecvDecides
  BY <1>29 DEF RecvDecides
<1>30. CASE RecvReconnects
  BY <1>30 DEF RecvReconnects
<1>31. CASE RecvReturns
  BY <1>31 DEF RecvReturns
<1>32. ASSUME NEW m \in {"ack", "key"}, RecvPasses(m) PROVE PlaceInv'
  BY <1>32 DEF RecvPasses, Arrives
<1>33. CASE UdpTests
  BY <1>33 DEF UdpTests
<1>34. CASE UdpFails
  BY <1>34 DEF UdpFails
<1>35. CASE UdpReceives
  BY <1>35 DEF UdpReceives
<1>36. CASE UdpInjects
  BY <1>36 DEF UdpInjects
<1>37. CASE KeeperTests
  BY <1>37 DEF KeeperTests
<1>38. ASSUME NEW ok \in BOOLEAN, KeeperBeats(ok) PROVE PlaceInv'
  BY <1>38 DEF KeeperBeats
<1>39. CASE ReconnectTests
  BY <1>39 DEF ReconnectTests
<1>40. CASE ReconnectWakes
  BY <1>40 DEF ReconnectWakes
<1>41. CASE ReconnectMoves
  BY <1>41 DEF ReconnectMoves
<1>42. ASSUME NEW p \in {"other", "none"}, ReconnectRebinds(p) PROVE PlaceInv'
  BY <1>42 DEF ReconnectRebinds
<1>43. CASE ReconnectReceives
  BY <1>43 DEF ReconnectReceives
<1>44. CASE ReconnectHolds
  BY <1>44 DEF ReconnectHolds
<1>45. CASE ReconnectReceivesUdp
  BY <1>45 DEF ReconnectReceivesUdp
<1>46. CASE ReconnectSets
  BY <1>46 DEF ReconnectSets
<1>47. ASSUME NEW ok \in BOOLEAN, ReconnectDials(ok) PROVE PlaceInv'
  BY <1>47 DEF ReconnectDials
<1>48. ASSUME NEW ok \in BOOLEAN, ReconnectSaysHello(ok) PROVE PlaceInv'
  BY <1>48 DEF ReconnectSaysHello
<1>49. CASE ServerMoves
  BY <1>49 DEF ServerMoves
<1>50. CASE MoveLost
  BY <1>50 DEF MoveLost
<1>51. CASE LinkBreaks
  BY <1>51 DEF LinkBreaks
<1>52. ASSUME NEW m \in Message, ServerSends(m) PROVE PlaceInv'
  BY <1>52 DEF ServerSends
<1>53. CASE UNCHANGED vars
  BY <1>53 DEF vars
<1>54. CASE ConnectHoldsUdp
  BY <1>54 DEF ConnectHoldsUdp
<1>55. CASE ReconnectClosesUdp
  BY <1>55 DEF ReconnectClosesUdp
<1>56. CASE ReconnectJoinsUdp
  BY <1>56 DEF ReconnectJoinsUdp
<1>57. CASE ReconnectHoldsUdp
  BY <1>57 DEF ReconnectHoldsUdp
<1>58. CASE JoinedTwice
  BY <1>58 DEF JoinedTwice
<1> QED
  <2>1. CASE ConnectStep
    BY <2>1, <1>1, <1>2, <1>3, <1>4, <1>5, <1>6, <1>7, <1>8, <1>9, <1>54 DEF ConnectStep
  <2>2. CASE QuitStep
    BY <2>2, <1>11, <1>12, <1>13, <1>14, <1>15, <1>16, <1>17, <1>18, <1>19 DEF QuitStep
  <2>3. CASE RecvStep
    BY <2>3, <1>20, <1>21, <1>22, <1>23, <1>24, <1>25, <1>26, <1>27, <1>28, <1>29, <1>30, <1>31, <1>32 DEF RecvStep, Message
  <2>4. CASE UdpStep
    BY <2>4, <1>33, <1>34, <1>35, <1>36 DEF UdpStep
  <2>5. CASE KeeperStep
    BY <2>5, <1>37, <1>38 DEF KeeperStep
  <2>6. CASE ReconnectStep
    BY <2>6, <1>39, <1>40, <1>41, <1>42, <1>43, <1>44, <1>45, <1>46, <1>47, <1>48,
       <1>55, <1>56, <1>57 DEF ReconnectStep
  <2>7. CASE Network
    BY <2>7, <1>49, <1>50, <1>51, <1>52 DEF Network
  <2> QED BY <1>10, <1>53, <1>58, <2>1, <2>2, <2>3, <2>4, <2>5, <2>6, <2>7 DEF Next

LEMMA FreshStep ==
  TypeOK /\ PlaceInv /\ ActiveInv /\ OverwrittenInv /\ FreshInv /\ [Next]_vars
    => ActiveInv' /\ OverwrittenInv' /\ FreshInv'
<1> SUFFICES ASSUME TypeOK, PlaceInv, ActiveInv, OverwrittenInv, FreshInv, [Next]_vars
             PROVE  ActiveInv' /\ OverwrittenInv' /\ FreshInv'
  OBVIOUS
<1> USE DEF viewVars, flagVars, tcpVars, udpVars, netVars, At, Goto, Spawn, Idle, Passes, Starts, Send, Hello, CloseTcp,
           CloseUdp, JoinUdp, RecvWrites, WritesOver, TypeOK, Thread,
           PlaceInv, StartInv, HeldInv, ActiveInv, OverwrittenInv, FreshInv, Entered, Early
<1>1. CASE ConnectReceives
  BY <1>1 DEF ConnectReceives
<1>2. CASE ConnectHolds
  BY <1>2 DEF ConnectHolds
<1>3. CASE ConnectReceivesUdp
  BY <1>3 DEF ConnectReceivesUdp
<1>4. CASE ConnectRuns
  BY <1>4 DEF ConnectRuns
<1>5. CASE ConnectSets
  BY <1>5 DEF ConnectSets
<1>6. CASE ConnectEnds
  BY <1>6 DEF ConnectEnds
<1>7. ASSUME NEW ok \in BOOLEAN, ConnectDials(ok) PROVE ActiveInv' /\ OverwrittenInv' /\ FreshInv'
  BY <1>7 DEF ConnectDials
<1>8. ASSUME NEW ok \in BOOLEAN, ConnectSaysHello(ok) PROVE ActiveInv' /\ OverwrittenInv' /\ FreshInv'
  BY <1>8 DEF ConnectSaysHello
<1>9. ASSUME NEW p \in {"default", "other", "none"}, ConnectBinds(p) PROVE ActiveInv' /\ OverwrittenInv' /\ FreshInv'
  BY <1>9 DEF ConnectBinds
<1>10. CASE UserQuits
  BY <1>10 DEF UserQuits
<1>11. CASE QuitBegins
  BY <1>11 DEF QuitBegins
<1>12. CASE QuitClosesTcp
  BY <1>12 DEF QuitClosesTcp
<1>13. CASE QuitJoinsRecv
  BY <1>13 DEF QuitJoinsRecv
<1>14. CASE QuitClosesUdp
  BY <1>14 DEF QuitClosesUdp
<1>15. CASE QuitJoinsUdp
  BY <1>15 DEF QuitJoinsUdp
<1>16. CASE QuitJoinsReconnect
  BY <1>16 DEF QuitJoinsReconnect
<1>17. CASE QuitJoinsKeeper
  BY <1>17 DEF QuitJoinsKeeper
<1>18. CASE QuitEnds
  BY <1>18 DEF QuitEnds
<1>19. ASSUME NEW ok \in BOOLEAN, QuitSaysBye(ok) PROVE ActiveInv' /\ OverwrittenInv' /\ FreshInv'
  BY <1>19 DEF QuitSaysBye
<1>20. CASE RecvTests
  BY <1>20 DEF RecvTests
<1>21. CASE RecvFails
  BY <1>21 DEF RecvFails
<1>22. CASE RecvEnters
  BY <1>22 DEF RecvEnters, Arrives
<1>23. CASE RecvLeaves
  BY <1>23 DEF RecvLeaves, Arrives
<1>24. CASE RecvDisconnected
  BY <1>24 DEF RecvDisconnected, Arrives
<1>25. CASE RecvRejected
  BY <1>25 DEF RecvRejected, Arrives
<1>26. CASE RecvCloses
  BY <1>26 DEF RecvCloses
<1>27. CASE RecvClosesUdp
  BY <1>27 DEF RecvClosesUdp
<1>28. CASE RecvJoinsUdp
  BY <1>28 DEF RecvJoinsUdp
<1>29. CASE RecvDecides
  BY <1>29 DEF RecvDecides
<1>30. CASE RecvReconnects
  BY <1>30 DEF RecvReconnects
<1>31. CASE RecvReturns
  BY <1>31 DEF RecvReturns
<1>32. ASSUME NEW m \in {"ack", "key"}, RecvPasses(m) PROVE ActiveInv' /\ OverwrittenInv' /\ FreshInv'
  BY <1>32 DEF RecvPasses, Arrives
<1>33. CASE UdpTests
  BY <1>33 DEF UdpTests
<1>34. CASE UdpFails
  BY <1>34 DEF UdpFails
<1>35. CASE UdpReceives
  BY <1>35 DEF UdpReceives
<1>36. CASE UdpInjects
  BY <1>36 DEF UdpInjects
<1>37. CASE KeeperTests
  BY <1>37 DEF KeeperTests
<1>38. ASSUME NEW ok \in BOOLEAN, KeeperBeats(ok) PROVE ActiveInv' /\ OverwrittenInv' /\ FreshInv'
  BY <1>38 DEF KeeperBeats
<1>39. CASE ReconnectTests
  BY <1>39 DEF ReconnectTests
<1>40. CASE ReconnectWakes
  BY <1>40 DEF ReconnectWakes
<1>41. CASE ReconnectMoves
  BY <1>41 DEF ReconnectMoves
<1>42. ASSUME NEW p \in {"other", "none"}, ReconnectRebinds(p) PROVE ActiveInv' /\ OverwrittenInv' /\ FreshInv'
  BY <1>42 DEF ReconnectRebinds
<1>43. CASE ReconnectReceives
  BY <1>43 DEF ReconnectReceives
<1>44. CASE ReconnectHolds
  BY <1>44 DEF ReconnectHolds
<1>45. CASE ReconnectReceivesUdp
  BY <1>45 DEF ReconnectReceivesUdp
<1>46. CASE ReconnectSets
  BY <1>46 DEF ReconnectSets
<1>47. ASSUME NEW ok \in BOOLEAN, ReconnectDials(ok) PROVE ActiveInv' /\ OverwrittenInv' /\ FreshInv'
  BY <1>47 DEF ReconnectDials
<1>48. ASSUME NEW ok \in BOOLEAN, ReconnectSaysHello(ok) PROVE ActiveInv' /\ OverwrittenInv' /\ FreshInv'
  BY <1>48 DEF ReconnectSaysHello
<1>49. CASE ServerMoves
  BY <1>49 DEF ServerMoves
<1>50. CASE MoveLost
  BY <1>50 DEF MoveLost
<1>51. CASE LinkBreaks
  BY <1>51 DEF LinkBreaks
<1>52. ASSUME NEW m \in Message, ServerSends(m) PROVE ActiveInv' /\ OverwrittenInv' /\ FreshInv'
  BY <1>52 DEF ServerSends
<1>53. CASE UNCHANGED vars
  BY <1>53 DEF vars
<1>54. CASE ConnectHoldsUdp
  BY <1>54 DEF ConnectHoldsUdp
<1>55. CASE ReconnectClosesUdp
  BY <1>55 DEF ReconnectClosesUdp
<1>56. CASE ReconnectJoinsUdp
  BY <1>56 DEF ReconnectJoinsUdp
<1>57. CASE ReconnectHoldsUdp
  BY <1>57 DEF ReconnectHoldsUdp
<1>58. CASE JoinedTwice
  BY <1>58 DEF JoinedTwice
<1> QED
  <2>1. CASE ConnectStep
    BY <2>1, <1>1, <1>2, <1>3, <1>4, <1>5, <1>6, <1>7, <1>8, <1>9, <1>54 DEF ConnectStep
  <2>2. CASE QuitStep
    BY <2>2, <1>11, <1>12, <1>13, <1>14, <1>15, <1>16, <1>17, <1>18, <1>19 DEF QuitStep
  <2>3. CASE RecvStep
    BY <2>3, <1>20, <1>21, <1>22, <1>23, <1>24, <1>25, <1>26, <1>27, <1>28, <1>29, <1>30, <1>31, <1>32 DEF RecvStep, Message
  <2>4. CASE UdpStep
    BY <2>4, <1>33, <1>34, <1>35, <1>36 DEF UdpStep
  <2>5. CASE KeeperStep
    BY <2>5, <1>37, <1>38 DEF KeeperStep
  <2>6. CASE ReconnectStep
    BY <2>6, <1>39, <1>40, <1>41, <1>42, <1>43, <1>44, <1>45, <1>46, <1>47, <1>48,
       <1>55, <1>56, <1>57 DEF ReconnectStep
  <2>7. CASE Network
    BY <2>7, <1>49, <1>50, <1>51, <1>52 DEF Network
  <2> QED BY <1>10, <1>53, <1>58, <2>1, <2>2, <2>3, <2>4, <2>5, <2>6, <2>7 DEF Next

LEMMA ViewStep == TypeOK /\ PlaceInv /\ ActiveInv /\ FreshInv /\ ViewInv /\ [Next]_vars => ViewInv'
<1> SUFFICES ASSUME TypeOK, PlaceInv, ActiveInv, FreshInv, ViewInv, [Next]_vars PROVE ViewInv'
  OBVIOUS
<1> USE DEF viewVars, flagVars, tcpVars, udpVars, netVars, At, Goto, Spawn, Idle, Passes, Starts, Send, Hello, CloseTcp,
           CloseUdp, JoinUdp, RecvWrites, WritesOver, TypeOK, Thread, Listening, Entered
<1>1. CASE ConnectReceives
  <2>1. inbox' = <<>> /\ peer' = "none" /\ ~Entered'
    BY <1>1 DEF ConnectReceives, FreshInv, ActiveInv, Early
  <2> QED BY <2>1, NothingUnderWay DEF ViewInv
<1>2. CASE ConnectHolds
  BY <1>2, NothingRead DEF ConnectHolds
<1>3. CASE ConnectReceivesUdp
  BY <1>3, NothingRead DEF ConnectReceivesUdp
<1>4. CASE ConnectRuns
  BY <1>4, NothingRead DEF ConnectRuns
<1>5. CASE ConnectSets
  BY <1>5, NothingRead DEF ConnectSets
<1>6. CASE ConnectEnds
  BY <1>6, NothingRead DEF ConnectEnds
<1>7. ASSUME NEW ok \in BOOLEAN, ConnectDials(ok) PROVE ViewInv'
  BY <1>7 DEF ConnectDials, PlaceInv, HeldInv, StartInv, ViewInv
<1>8. ASSUME NEW ok \in BOOLEAN, ConnectSaysHello(ok) PROVE ViewInv'
  BY <1>8, NothingRead DEF ConnectSaysHello, FreshInv, Early
<1>9. ASSUME NEW p \in {"default", "other", "none"}, ConnectBinds(p) PROVE ViewInv'
  BY <1>9, NothingRead DEF ConnectBinds
<1>10. CASE UserQuits
  BY <1>10, NothingRead DEF UserQuits
<1>11. CASE QuitBegins
  BY <1>11, NothingRead DEF QuitBegins
<1>12. CASE QuitClosesTcp
  BY <1>12, NothingRead DEF QuitClosesTcp
<1>13. CASE QuitJoinsRecv
  BY <1>13, NothingRead DEF QuitJoinsRecv
<1>14. CASE QuitClosesUdp
  BY <1>14, NothingRead DEF QuitClosesUdp
<1>15. CASE QuitJoinsUdp
  BY <1>15, NothingRead DEF QuitJoinsUdp
<1>16. CASE QuitJoinsReconnect
  BY <1>16, NothingRead DEF QuitJoinsReconnect
<1>17. CASE QuitJoinsKeeper
  BY <1>17, NothingRead DEF QuitJoinsKeeper
<1>18. CASE QuitEnds
  BY <1>18, NothingRead DEF QuitEnds
<1>19. ASSUME NEW ok \in BOOLEAN, QuitSaysBye(ok) PROVE ViewInv'
  BY <1>19, NothingRead DEF QuitSaysBye
<1>20. CASE RecvTests
  BY <1>20, NothingRead DEF RecvTests
<1>21. CASE RecvFails
  BY <1>21 DEF RecvFails, Arrives, ViewInv
<1>22. CASE RecvEnters
  <2>1. Listening /\ inbox # <<>> /\ inbox' = Tail(inbox) /\ peer' = peer
    BY <1>22 DEF RecvEnters, Arrives
  <2>2. Follows(inbox)
    BY <2>1 DEF ViewInv
  <2>3. Follows(inbox)'
    BY <1>22, <2>1, <2>2, MessageRead DEF RecvEnters, Arrives
  <2> QED BY <2>3 DEF ViewInv
<1>23. CASE RecvLeaves
  <2>1. Listening /\ inbox # <<>> /\ inbox' = Tail(inbox) /\ peer' = peer
    BY <1>23 DEF RecvLeaves, Arrives
  <2>2. Follows(inbox)
    BY <2>1 DEF ViewInv
  <2>3. Follows(inbox)'
    BY <1>23, <2>1, <2>2, MessageRead DEF RecvLeaves, Arrives
  <2> QED BY <2>3 DEF ViewInv
<1>24. CASE RecvDisconnected
  BY <1>24 DEF RecvDisconnected, Arrives, ViewInv
<1>25. CASE RecvRejected
  BY <1>25 DEF RecvRejected, Arrives, ViewInv
<1>26. CASE RecvCloses
  BY <1>26, NothingRead DEF RecvCloses
<1>27. CASE RecvClosesUdp
  BY <1>27, NothingRead DEF RecvClosesUdp
<1>28. CASE RecvJoinsUdp
  BY <1>28, NothingRead DEF RecvJoinsUdp
<1>29. CASE RecvDecides
  BY <1>29 DEF RecvDecides, ViewInv
<1>30. CASE RecvReconnects
  BY <1>30, NothingRead DEF RecvReconnects
<1>31. CASE RecvReturns
  BY <1>31, NothingRead DEF RecvReturns
<1>32. ASSUME NEW m \in {"ack", "key"}, RecvPasses(m) PROVE ViewInv'
  <2>1. Listening /\ inbox # <<>> /\ inbox' = Tail(inbox) /\ peer' = peer
    BY <1>32 DEF RecvPasses, Arrives
  <2>2. Follows(inbox)
    BY <2>1 DEF ViewInv
  <2>3. Follows(inbox)'
    BY <1>32, <2>1, <2>2, MessageRead DEF RecvPasses, Arrives
  <2> QED BY <2>3 DEF ViewInv
<1>33. CASE UdpTests
  BY <1>33, NothingRead DEF UdpTests
<1>34. CASE UdpFails
  BY <1>34, NothingRead DEF UdpFails
<1>35. CASE UdpReceives
  BY <1>35, NothingRead DEF UdpReceives
<1>36. CASE UdpInjects
  BY <1>36, NothingRead DEF UdpInjects
<1>37. CASE KeeperTests
  BY <1>37, NothingRead DEF KeeperTests
<1>38. ASSUME NEW ok \in BOOLEAN, KeeperBeats(ok) PROVE ViewInv'
  BY <1>38, NothingRead DEF KeeperBeats
<1>39. CASE ReconnectTests
  BY <1>39, NothingRead DEF ReconnectTests
<1>40. CASE ReconnectWakes
  BY <1>40, NothingRead DEF ReconnectWakes
<1>41. CASE ReconnectMoves
  BY <1>41 DEF ReconnectMoves, PlaceInv, HeldInv, StartInv, ViewInv
<1>42. ASSUME NEW p \in {"other", "none"}, ReconnectRebinds(p) PROVE ViewInv'
  BY <1>42, NothingRead DEF ReconnectRebinds
<1>43. CASE ReconnectReceives
  <2>1. inbox' = <<>> /\ peer' = "none" /\ ~Entered'
    BY <1>43 DEF ReconnectReceives, FreshInv, ActiveInv, Early
  <2> QED BY <2>1, NothingUnderWay DEF ViewInv
<1>44. CASE ReconnectHolds
  BY <1>44, NothingRead DEF ReconnectHolds
<1>45. CASE ReconnectReceivesUdp
  BY <1>45, NothingRead DEF ReconnectReceivesUdp
<1>46. CASE ReconnectSets
  BY <1>46, NothingRead DEF ReconnectSets
<1>47. ASSUME NEW ok \in BOOLEAN, ReconnectDials(ok) PROVE ViewInv'
  BY <1>47, NothingRead DEF ReconnectDials
<1>48. ASSUME NEW ok \in BOOLEAN, ReconnectSaysHello(ok) PROVE ViewInv'
  BY <1>48, NothingRead DEF ReconnectSaysHello, FreshInv
<1>49. CASE ServerMoves
  BY <1>49, NothingRead DEF ServerMoves
<1>50. CASE MoveLost
  BY <1>50, NothingRead DEF MoveLost
<1>51. CASE LinkBreaks
  BY <1>51, NothingRead DEF LinkBreaks
<1>52. ASSUME NEW m \in Message, ServerSends(m) PROVE ViewInv'
  <2>1. inbox' = Append(inbox, m) /\ (Entered' <=> Entered) /\ (Listening' => Listening)
    BY <1>52 DEF ServerSends
  <2>2. Becomes(peer = "in", m, peer' = "in")
    BY <1>52 DEF ServerSends, Becomes
  <2>3. Follows(inbox) => Follows(inbox)'
    BY <2>1, <2>2, MessageSent
  <2> QED BY <2>1, <2>3 DEF ViewInv
<1>53. CASE UNCHANGED vars
  BY <1>53, NothingRead DEF vars
<1>54. CASE ConnectHoldsUdp
  BY <1>54, NothingRead DEF ConnectHoldsUdp
<1>55. CASE ReconnectClosesUdp
  BY <1>55, NothingRead DEF ReconnectClosesUdp
<1>56. CASE ReconnectJoinsUdp
  BY <1>56, NothingRead DEF ReconnectJoinsUdp
<1>57. CASE ReconnectHoldsUdp
  BY <1>57, NothingRead DEF ReconnectHoldsUdp
<1>58. CASE JoinedTwice
  BY <1>58, NothingRead DEF JoinedTwice
<1> QED
  <2>1. CASE ConnectStep
    BY <2>1, <1>1, <1>2, <1>3, <1>4, <1>5, <1>6, <1>7, <1>8, <1>9, <1>54 DEF ConnectStep
  <2>2. CASE QuitStep
    BY <2>2, <1>11, <1>12, <1>13, <1>14, <1>15, <1>16, <1>17, <1>18, <1>19 DEF QuitStep
  <2>3. CASE RecvStep
    BY <2>3, <1>20, <1>21, <1>22, <1>23, <1>24, <1>25, <1>26, <1>27, <1>28, <1>29, <1>30, <1>31, <1>32 DEF RecvStep, Message
  <2>4. CASE UdpStep
    BY <2>4, <1>33, <1>34, <1>35, <1>36 DEF UdpStep
  <2>5. CASE KeeperStep
    BY <2>5, <1>37, <1>38 DEF KeeperStep
  <2>6. CASE ReconnectStep
    BY <2>6, <1>39, <1>40, <1>41, <1>42, <1>43, <1>44, <1>45, <1>46, <1>47, <1>48,
       <1>55, <1>56, <1>57 DEF ReconnectStep
  <2>7. CASE Network
    BY <2>7, <1>49, <1>50, <1>51, <1>52 DEF Network
  <2> QED BY <1>10, <1>53, <1>58, <2>1, <2>2, <2>3, <2>4, <2>5, <2>6, <2>7 DEF Next

-------------------------------------------------------------------------------
(* The invariants, whole, and what follows.                                  *)

LEMMA InitInv == Init => IInv
<1> SUFFICES ASSUME Init PROVE IInv
  OBVIOUS
<1>1. TypeOK
  <2>1. /\ running \in BOOLEAN /\ auto \in BOOLEAN /\ connected \in BOOLEAN
        /\ held \in BOOLEAN /\ rcHeld \in BOOLEAN /\ udpRunning \in BOOLEAN
    BY Zenon DEF Init
  <2>2. inbox \in Seq(Message) /\ moves \in 0..MaxMoves
    BY BoundsAssumption DEF Init
  <2> QED BY <2>1, <2>2 DEF Init, TypeOK, Thread, MainPc, RecvPc, UdpPc, KeeperPc, ReconnectPc
<1>2. PlaceInv /\ ActiveInv /\ OverwrittenInv /\ FreshInv
  BY DEF Init, Thread, PlaceInv, StartInv, HeldInv, QuitInv, OneReceiver, ActiveInv, OverwrittenInv,
         FreshInv, Entered, Early
<1>3. ViewInv
  BY DEF Init, Thread, ViewInv, Listening
<1> QED BY <1>1, <1>2, <1>3 DEF IInv, ThreadInv

\* Where the threads are, what the client believes and what is under way fit together
\* in every state, whatever the server does.
THEOREM Invariance == Spec => []IInv
<1>1. IInv /\ [Next]_vars => IInv'
  BY TypeStep, PlaceStep, FreshStep, ViewStep DEF IInv, ThreadInv
<1> QED BY InitInv, <1>1, PTL DEF Spec

\* The types of the variables, the labels of each thread among them.
THEOREM TypeCorrect == Spec => []TypeOK
<1>1. IInv => TypeOK
  BY DEF IInv, ThreadInv
<1> QED BY Invariance, <1>1, PTL

\* reconnect_loop exchanges tcp_ and udp_ when their receiving threads have ended:
\* neither ever has two.
THEOREM OneReceiverHolds == Spec => []OneReceiver
<1>1. IInv => OneReceiver
  BY DEF IInv, ThreadInv, PlaceInv
<1> QED BY Invariance, <1>1, PTL

\* disconnect() has ended the keeper, and the reconnecting thread too unless that
\* has given tcp_ a new receiver, wherever each was when it began.
THEOREM QuitEndsWorkersHolds == Spec => []QuitEndsWorkers
<1>1. IInv => QuitEndsWorkers
  BY DEF IInv, ThreadInv, PlaceInv, QuitInv, QuitEndsWorkers
<1> QED BY Invariance, <1>1, PTL

\* When the client has read all that the server sent, it is ACTIVE exactly when the
\* server has handed its input to it and no thread has written over what it read.
THEOREM ActiveIsEnteredHolds == Spec => []ActiveIsEntered
<1>1. ASSUME IInv, AtRest PROVE (state = "ACTIVE") = (peer = "in" /\ ~undone)
  <2>1. Follows(inbox) /\ Len(inbox) = 0
    BY <1>1 DEF IInv, ViewInv, Listening, AtRest
  <2>2. PICK active \in [0..0 -> BOOLEAN] : (active[0] <=> Entered) /\ (active[0] <=> peer = "in")
    BY <2>1 DEF Follows
  <2>3. undone = TRUE => state # "ACTIVE"
    BY <1>1 DEF IInv, ThreadInv, OverwrittenInv
  <2>4. undone \in BOOLEAN
    BY <1>1 DEF IInv, ThreadInv, TypeOK
  <2> QED BY <2>2, <2>3, <2>4 DEF Entered
<1>2. IInv => ActiveIsEntered
  BY <1>1 DEF ActiveIsEntered
<1> QED BY Invariance, <1>2, PTL

\* A key that the client hands to its system, which on_server_message does not make
\* depend on state_, finds it ACTIVE or written over.
THEOREM KeysWhenActiveHolds == Spec => KeysWhenActive
<1>1. ASSUME IInv, Next, ReadsKey PROVE Listening
  <2>1. inbox \in Seq(Message) /\ inbox # <<>>
    BY <1>1 DEF IInv, ThreadInv, TypeOK, ReadsKey
  <2>2. Len(Tail(inbox)) = Len(inbox) - 1 /\ Len(inbox) \in Nat
    BY <2>1
  <2>3. inbox' # inbox /\ \A m \in Message : inbox' # Append(inbox, m)
    <3>1. ASSUME NEW m \in Message PROVE Len(Append(inbox, m)) = Len(inbox) + 1
      BY <2>1
    <3>2. Len(inbox') = Len(inbox) - 1
      BY <1>1, <2>2 DEF ReadsKey
    <3>3. Len(inbox') # Len(inbox) /\ Len(inbox') # Len(inbox) + 1
      BY <2>2, <3>2
    <3> QED BY <3>1, <3>3
  <2>4. (\E m \in {"ack", "key"} : RecvPasses(m)) \/ RecvEnters \/ RecvLeaves \/ RecvDisconnected
          \/ RecvRejected \/ ReconnectMoves
    BY <1>1, <2>3
    DEF Next, ConnectStep, QuitStep, RecvStep, UdpStep, KeeperStep, ReconnectStep, Network, JoinUdp, netVars,
        Idle, Passes, Starts, ConnectReceives, ConnectHolds, ConnectReceivesUdp, ConnectHoldsUdp, JoinedTwice, ConnectRuns, ConnectSets,
        ConnectEnds, ConnectDials, ConnectSaysHello, ConnectBinds, UserQuits, QuitBegins, QuitClosesTcp,
        QuitJoinsRecv, QuitClosesUdp, QuitJoinsUdp, QuitJoinsReconnect, QuitJoinsKeeper, QuitEnds,
        QuitSaysBye, RecvTests, RecvFails, RecvCloses, RecvClosesUdp, RecvJoinsUdp, RecvDecides,
        RecvReconnects, RecvReturns, UdpTests, UdpFails, UdpReceives, UdpInjects, KeeperTests,
        KeeperBeats, ReconnectTests, ReconnectWakes, ReconnectClosesUdp, ReconnectJoinsUdp, ReconnectRebinds, ReconnectReceives,
        ReconnectHolds, ReconnectReceivesUdp, ReconnectHoldsUdp, ReconnectSets, ReconnectDials, ReconnectSaysHello,
        ServerMoves, MoveLost, LinkBreaks, ServerSends
  <2>5. ~ReconnectMoves
    BY <1>1 DEF IInv, ThreadInv, PlaceInv, HeldInv, ReadsKey, ReconnectMoves, At
  <2> QED BY <2>4, <2>5 DEF RecvPasses, RecvEnters, RecvLeaves, RecvDisconnected, RecvRejected, Arrives,
                            At, Listening
<1>2. ASSUME IInv, Listening, inbox # <<>>, Head(inbox) = "key" PROVE state = "ACTIVE" \/ undone
  <2>1. inbox \in Seq(Message) /\ Follows(inbox)
    BY <1>2 DEF IInv, ThreadInv, TypeOK, ViewInv
  <2>2. 1 \in 1..Len(inbox) /\ inbox[1] = "key"
    BY <1>2, <2>1
  <2>3. PICK active \in [0..Len(inbox) -> BOOLEAN] :
          /\ active[0] <=> Entered
          /\ \A i \in 1..Len(inbox) : Becomes(active[i - 1], inbox[i], active[i])
    BY <2>1 DEF Follows
  <2>4. Becomes(active[1 - 1], inbox[1], active[1])
    BY <2>2, <2>3
  <2> QED BY <2>2, <2>3, <2>4 DEF Becomes, Entered
<1>3. IInv /\ [Next]_vars => [ReadsKey => state = "ACTIVE" \/ undone]_vars
  BY <1>1, <1>2 DEF ReadsKey
<1> QED BY Invariance, <1>3, PTL DEF Spec, KeysWhenActive
===============================================================================
