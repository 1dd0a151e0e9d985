------------------------------- MODULE Protocol -------------------------------
(***************************************************************************)
(* The wire format of src/core/protocol.{h,cpp}.  A message is             *)
(*   [type, fields, tail]                                                  *)
(* where fields are the integers of its payload struct and tail is the     *)
(* bytes (Bytes) of the one payload member of variable length, if it has   *)
(* one: the data of ClipboardUpdate, the name of Hello.                    *)
(***************************************************************************)
EXTENDS Bytes

HeaderSize == 8

\* MessageType.
Code == [MOUSE_MOVE |-> 1, MOUSE_MOVE_ABS |-> 2, MOUSE_BUTTON |-> 3, MOUSE_SCROLL |-> 4,
         KEY_DOWN |-> 5, KEY_UP |-> 6, SCREEN_ENTER |-> 7, SCREEN_LEAVE |-> 8,
         CLIPBOARD_UPDATE |-> 16, HELLO |-> 32, HELLO_ACK |-> 33, DISCONNECT |-> 34,
         RECONNECT |-> 35, KEEPALIVE |-> 255]
MessageType == DOMAIN Code

\* Where in the payload each field is, and where the last one ends.
Offset == [MOUSE_MOVE |-> <<0, 2, 4>>, MOUSE_MOVE_ABS |-> <<0, 2, 4>>,
           MOUSE_BUTTON |-> <<0, 1, 2>>, MOUSE_SCROLL |-> <<0, 2, 4>>,
           KEY_DOWN |-> <<0, 2, 6>>, KEY_UP |-> <<0, 2, 6>>,
           SCREEN_ENTER |-> <<0, 2, 4, 6, 8>>, SCREEN_LEAVE |-> <<0>>,
           CLIPBOARD_UPDATE |-> <<0, 1>>, HELLO |-> <<0, 2, 4, 6>>, HELLO_ACK |-> <<0, 2, 3>>,
           DISCONNECT |-> <<0>>, RECONNECT |-> <<0>>, KEEPALIVE |-> <<0>>]
Fields(t)   == 1 .. Len(Offset[t]) - 1
Width(t, i) == Offset[t][i + 1] - Offset[t][i]
FixedSize(t) == Offset[t][Len(Offset[t])]

\* Bytes of the length in front of the tail (0: no tail).
TailWidth(t) == IF t = "CLIPBOARD_UPDATE" THEN 4 ELSE IF t = "HELLO" THEN 1 ELSE 0
Signed == {"MOUSE_MOVE", "MOUSE_SCROLL"}      \* int16_t fields

TwoTo8 == 256
TwoTo15 == 32768
TwoTo16 == 65536
TwoTo24 == 16777216

\* The k-th byte of an integer from the end, and what it counts for.
Weight == <<1, TwoTo8, TwoTo16, TwoTo24>>
ByteOf(v, k) == (v \div Weight[k]) % TwoTo8

\* write_u16, write_u32, write_i16: the last n bytes of v, the highest first.
BigEndian(v, n) == [i \in 1 .. n |-> ByteOf(v, n + 1 - i)]

\* read_u16, read_u32.
Unsigned(bytes) ==
  LET counts(k) == IF k <= Len(bytes) THEN Weight[k] * bytes[Len(bytes) + 1 - k] ELSE 0
  IN  counts(1) + counts(2) + counts(3) + counts(4)

\* Mutant: a read_i16 that forgets the cast to int16_t.
AsFieldUnsigned(t, v) == v

\* v as a field of a message of type t: read_i16 for the signed ones.
AsField(t, v) == IF t \in Signed /\ v >= TwoTo15 THEN v - TwoTo16 ELSE v

\* The name of a Hello is cut to what one byte can count.
LongestName == 255
Tail255(m) ==
  IF m.type = "HELLO" /\ Size(m.tail) > LongestName THEN Take(m.tail, LongestName) ELSE m.tail

\* Each field at its place.
FixedPart(m) ==
  [k \in 1 .. FixedSize(m.type) |->
     LET i == CHOOSE j \in Fields(m.type) : Offset[m.type][j] < k /\ k <= Offset[m.type][j + 1]
     IN  BigEndian(m.fields[i], Width(m.type, i))[k - Offset[m.type][i]]]

SerializePayload(m) ==
  Join(Pack(FixedPart(m) \o BigEndian(Size(Tail255(m)), TailWidth(m.type))), Tail255(m))

\* payload_length is a uint16_t: BigEndian keeps the low two bytes.
SerializeHeader(t, length, sequence) ==
  Pack(BigEndian(Code[t], 2) \o BigEndian(length, 2) \o BigEndian(sequence, 4))

SerializeMessage(m, sequence) ==
  LET payload == SerializePayload(m)
  IN  Join(SerializeHeader(m.type, Size(payload), sequence), payload)

\* The integer at bytes first to last.
Read(s, first, last) == Unsigned(Unpack(Slice(s, first, last)))

PayloadLength(s) == Read(s, 3, 4)

Malformed == [type |-> "malformed"]        \* std::nullopt

\* 5 + data_len has 32 bits: from data_len = 0xFFFFFFFB on it wraps, len passes for long
\* enough, and 4 GB are copied from where there are none: undefined, and no message.
OverRead == [type |-> "overRead"]
Wraps(t, count) == t = "CLIPBOARD_UPDATE" /\ \E low \in 251 .. 255 : count = <<255, 255, 255, low>>

\* A payload of type t; bytes after its last one are not looked at.
Parse(t, s) ==
  LET start == FixedSize(t) + TailWidth(t)
      size  == Read(s, FixedSize(t) + 1, start)
  IN  IF Size(s) < start THEN Malformed
      ELSE IF Wraps(t, Unpack(Slice(s, FixedSize(t) + 1, start))) THEN OverRead
      ELSE IF Size(s) < start + size THEN Malformed
      ELSE [type |-> t,
            fields |-> [i \in Fields(t) |-> AsField(t, Read(s, Offset[t][i] + 1, Offset[t][i + 1]))],
            tail |-> Slice(s, start + 1, start + size)]

DeserializePayload(code, s) ==
  LET types == {t \in MessageType : Code[t] = code}
  IN  IF types = {} THEN Malformed ELSE Parse(CHOOSE t \in types : TRUE, s)

\* deserialize_message: a header, and a payload that is there in full.
DeserializeMessage(s) ==
  LET end == HeaderSize + PayloadLength(s)
  IN  IF Size(s) < HeaderSize THEN Malformed
      ELSE IF Size(s) < end THEN Malformed
      ELSE DeserializePayload(Read(s, 1, 2), Slice(s, HeaderSize + 1, end))
===============================================================================
