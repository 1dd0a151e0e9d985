--------------------------------- MODULE Wire ---------------------------------
(***************************************************************************)
(* One direction of a TcpConnection (src/net/tcp_connection.cpp): threads  *)
(* that send messages, the byte stream between the two sockets, and the    *)
(* recv_loop of the other end, over the format of Protocol.  That the      *)
(* threads of server and client share a connection, that the stream keeps  *)
(* no message boundaries, and that the connection may be lost between any  *)
(* two bytes is all the code has to cope with here.                        *)
(***************************************************************************)
EXTENDS Protocol

CONSTANTS Sender,      \* threads that send on the connection
          Messages,    \* what they may send
          MaxSent,     \* bound: messages sent
          ShortWrites, \* sizes of the short writes the socket may make
          MaxShort     \* bound: short writes made

Free == "free"

ASSUME SenderAssumption == Free \notin Sender
ASSUME BoundsAssumption == MaxSent \in Nat /\ MaxShort \in Nat /\ ShortWrites \subseteq Nat \ {0}

VARIABLES
  sequence,   \* g_sequence
  writer,     \* who holds send_mutex_, Free if nobody
  outgoing,   \* the message a thread is in send() with, Nothing if it is not
  left,       \* the bytes of it that the socket has not taken
  sent,       \* messages, in the order in which send_mutex_ was had for them
  shorts,     \* short writes made
  link,       \* the connection: "open", or "cut" between the two ends
  stream,     \* bytes the socket has taken and the reader has not
  reading,    \* the header read last when recv_loop is at its payload
  connected,  \* connected_ at the reader's end, while recv_loop runs
  delivered   \* messages given to on_message

vars == <<sequence, writer, outgoing, left, sent, shorts, link, stream, reading, connected,
          delivered>>
sendVars == <<sequence, writer, outgoing, left, sent, shorts>>
recvVars == <<reading, connected, delivered>>

Nothing == [type |-> "nothing"]
AtHeader == [code |-> -1, length |-> HeaderSize]      \* recv_exact's next goal

\* Messages as the payload structs have them.
InRange(v, t, width) ==
  \/ t \in Signed /\ v \in -TwoTo15 .. TwoTo15 - 1
  \/ t \notin Signed /\ width = 4 /\ v \div TwoTo16 \in 0 .. TwoTo16 - 1
  \/ t \notin Signed /\ width = 2 /\ v \in 0 .. TwoTo16 - 1
  \/ t \notin Signed /\ width = 1 /\ v \in Byte
Fits(m) ==
  /\ m = [type |-> m.type, fields |-> m.fields, tail |-> m.tail]
  /\ m.type \in MessageType
  /\ m.fields = [i \in Fields(m.type) |-> m.fields[i]]
  /\ \A i \in Fields(m.type) : m.fields[i] \in Int /\ InRange(m.fields[i], m.type, Width(m.type, i))
  /\ IsBytes(m.tail) /\ (TailWidth(m.type) = 0 => m.tail = <<>>)

\* ... and a clipboard that the header can announce, whose payload_length has 16 bits.
LargestClipboard == 65530
FitsHeader(m) == Fits(m) /\ (m.type = "CLIPBOARD_UPDATE" => Size(m.tail) <= LargestClipboard)

\* What a receiver should see of a message: a name is at most LongestName bytes long.
Seen(m) ==
  [m EXCEPT !.tail = IF m.type = "HELLO" /\ Size(@) > LongestName THEN Take(@, LongestName) ELSE @]

TypeOK ==
  /\ sequence \in 0 .. MaxSent /\ shorts \in 0 .. MaxShort
  /\ writer \in Sender \cup {Free}
  /\ outgoing \in [Sender -> Messages \cup {Nothing}]
  /\ left = [t \in Sender |-> left[t]] /\ \A t \in Sender : IsBytes(left[t])
  /\ sent \in Seq(Messages)
  /\ link \in {"open", "cut"} /\ connected \in BOOLEAN
  /\ IsBytes(stream)
  /\ reading \in [code : -1 .. TwoTo16 - 1, length : 0 .. TwoTo16 - 1]
  /\ delivered \in Seq({Seen(m) : m \in Messages})

Init ==
  /\ sequence = 0 /\ shorts = 0 /\ writer = Free
  /\ outgoing = [t \in Sender |-> Nothing] /\ left = [t \in Sender |-> <<>>]
  /\ sent = <<>> /\ link = "open" /\ stream = <<>>
  /\ reading = AtHeader /\ connected = TRUE /\ delivered = <<>>

-------------------------------------------------------------------------------
(* send(make_message(m)).                                                    *)

\* make_message and serialize_message, before the lock is asked for.
SendMakes(t, m) ==
  /\ outgoing[t] = Nothing /\ sequence < MaxSent
  /\ sequence' = sequence + 1
  /\ outgoing' = [outgoing EXCEPT ![t] = m]
  /\ left' = [left EXCEPT ![t] = SerializeMessage(m, sequence)]
  /\ UNCHANGED <<writer, sent, shorts, link, stream, recvVars>>

Waits(t) == outgoing[t] # Nothing /\ writer # t

\* Mutant: send() without the lock_guard.
SendBarges(t) ==
  /\ Waits(t)
  /\ writer' = t
  /\ sent' = Append(sent, outgoing[t])
  /\ UNCHANGED <<sequence, outgoing, left, shorts, link, stream, recvVars>>

SendLocks(t) ==
  /\ Waits(t) /\ writer = Free
  /\ writer' = t
  /\ sent' = Append(sent, outgoing[t])
  /\ UNCHANGED <<sequence, outgoing, left, shorts, link, stream, recvVars>>

\* send() returns and lets go of the lock.
Returns(t) == writer' = Free /\ outgoing' = [outgoing EXCEPT ![t] = Nothing]

\* Mutant: send_raw is content with what the socket takes at once.
SendWritesOnce(t) ==
  /\ writer = t /\ link = "open"
  /\ \E n \in ShortWrites \cup {Size(left[t])} :
       /\ n < Size(left[t]) => shorts < MaxShort
       /\ n <= Size(left[t])
       /\ shorts' = IF n < Size(left[t]) THEN shorts + 1 ELSE shorts
       /\ stream' = Join(stream, Take(left[t], n))
  /\ left' = [left EXCEPT ![t] = <<>>] /\ Returns(t)
  /\ UNCHANGED <<sequence, sent, link, recvVars>>

\* One ::send of send_raw: it takes all that is left, or only the first bytes.
SendWrites(t) ==
  /\ writer = t /\ link = "open"
  /\ \/ /\ stream' = Join(stream, left[t])
        /\ left' = [left EXCEPT ![t] = <<>>]
        /\ Returns(t) /\ UNCHANGED shorts
     \/ \E n \in ShortWrites :
          /\ n < Size(left[t]) /\ shorts < MaxShort
          /\ shorts' = shorts + 1
          /\ stream' = Join(stream, Take(left[t], n))
          /\ left' = [left EXCEPT ![t] = Drop(@, n)]
          /\ UNCHANGED <<writer, outgoing>>
  /\ UNCHANGED <<sequence, sent, link, recvVars>>

SendFails(t) ==
  /\ writer = t /\ link = "cut"
  /\ left' = [left EXCEPT ![t] = <<>>] /\ Returns(t)
  /\ UNCHANGED <<sequence, sent, shorts, link, stream, recvVars>>

\* The connection ends; a reset also costs what had arrived and was not read.
LinkCut ==
  /\ link = "open"
  /\ link' = "cut"
  /\ stream' \in {stream, <<>>}
  /\ UNCHANGED <<sendVars, recvVars>>

-------------------------------------------------------------------------------
(* recv_loop.                                                                *)

\* recv_exact has its bytes; bytes of a message half sent stay in the stream.
Arrived(n) == connected /\ Size(stream) >= n
Consume(n) == stream' = Drop(stream, n)

RecvHeader ==
  /\ reading = AtHeader /\ Arrived(HeaderSize)
  /\ reading' = [code |-> Read(stream, 1, 2), length |-> PayloadLength(stream)]
  /\ Consume(HeaderSize)
  /\ UNCHANGED <<sendVars, link, connected, delivered>>

\* A payload that does not parse is skipped.
RecvPayload ==
  /\ reading # AtHeader /\ Arrived(reading.length)
  /\ LET m == DeserializePayload(reading.code, Take(stream, reading.length))
     IN  delivered' = IF m = Malformed THEN delivered ELSE Append(delivered, m)
  /\ Consume(reading.length)
  /\ reading' = AtHeader
  /\ UNCHANGED <<sendVars, link, connected>>

\* Mutant: only the end of the stream between two messages is noticed.
RecvEndsBetween ==
  /\ connected /\ link = "cut" /\ reading = AtHeader /\ stream = <<>>
  /\ connected' = FALSE
  /\ UNCHANGED <<sendVars, link, stream, reading, delivered>>

\* recv_exact comes to the end of the stream first: on_disconnect, once.
RecvEnds ==
  /\ connected /\ link = "cut" /\ Size(stream) < reading.length
  /\ connected' = FALSE
  /\ UNCHANGED <<sendVars, link, stream, reading, delivered>>

-------------------------------------------------------------------------------
SendStep(t) == SendLocks(t) \/ SendWrites(t) \/ SendFails(t)
RecvStep == RecvHeader \/ RecvPayload \/ RecvEnds

Next == \/ \E t \in Sender, m \in Messages : SendMakes(t, m)
        \/ \E t \in Sender : SendStep(t)
        \/ RecvStep
        \/ LinkCut

\* recv_loop goes on while it has something to read or an end to notice; nobody has
\* to send, and no connection has to end.  The last two conjuncts are weak fairness
\* with ENABLED written out, which spares TLC bytes to parse.
Fairness ==
  /\ WF_vars(RecvEnds)
  /\ <>[](reading = AtHeader /\ Arrived(HeaderSize)) => []<><<RecvHeader>>_vars
  /\ <>[](reading # AtHeader /\ Arrived(reading.length)) => []<><<RecvPayload>>_vars

Spec == Init /\ [][Next]_vars /\ Fairness

-------------------------------------------------------------------------------
(* What should hold.                                                         *)

\* README.md:47 "Must arrive in order": what is delivered is what was sent, in the
\* order in which the senders had the connection, whole, with nothing in between,
\* up to where the connection was lost.
InOrder ==
  /\ Len(delivered) <= Len(sent)
  /\ \A i \in DOMAIN delivered : delivered[i] = Seen(sent[i])

\* README.md:48 "Reliable": when nobody is in send(), the connection stands and the
\* reader waits for more, everything that was sent has been delivered.
NothingHeldBack ==
  (\A t \in Sender : outgoing[t] = Nothing) /\ link = "open" /\ Size(stream) < reading.length
    => Len(delivered) = Len(sent)

\* The reader learns of the end of the connection, wherever in a message it comes.
EndIsNoticed == link = "cut" ~> ~connected

\* Every message at the limits of its fields survives the wire (test_protocol.cpp
\* tests some by hand), and a datagram that is cut short or padded is not taken for
\* another message.  A fact of the format alone: looked at before the first send.
Limits(t, i) == IF t \in Signed THEN {-32768, -1, 0, 32767}
                ELSE {0, 255, IF Width(t, i) = 4 THEN 16777215 ELSE IF Width(t, i) = 2 THEN 65535 ELSE 1}
Tails(t) == IF t = "CLIPBOARD_UPDATE" THEN {<<>>, Pack(<<0, 255>>), Run(9, LargestClipboard)}
            ELSE IF t = "HELLO" THEN {<<>>, Run(115, 1), Run(97, 256)} ELSE {<<>>}
AtLimits(t) ==
  {m \in [type : {t}, tail : Tails(t), fields : [Fields(t) -> UNION {Limits(t, i) : i \in Fields(t)}]] :
     FitsHeader(m)}
SomeSequence == 16909060
RoundTrip == sequence = 0 =>
  \A m \in UNION {AtLimits(t) : t \in MessageType} :
    LET bytes == SerializeMessage(m, SomeSequence)
    IN  /\ DeserializeMessage(bytes) = Seen(m)
        /\ DeserializeMessage(Join(bytes, Run(7, 1))) = Seen(m)
        /\ \A n \in {0, 1, 7, 8, Size(bytes) - 1} \cap 0 .. Size(bytes) - 1 :
             DeserializeMessage(Take(bytes, n)) = Malformed
===============================================================================
