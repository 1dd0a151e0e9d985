------------------------------ MODULE LayoutOps ------------------------------
(***************************************************************************)
(* The pure part of ScreenLayout (src/core/screen_layout.{h,cpp}): where   *)
(* the client screens sit around the server's screen, which of them a      *)
(* cursor position runs into, and where the cursor enters it.              *)
(*                                                                         *)
(* The vector clients_ is a sequence of entries                            *)
(*   [client_id, rect, adjacent_edge]                                      *)
(* and a rect is [x, y, width, height] in pixels, y growing downwards.     *)
(***************************************************************************)
EXTENDS Integers, SequencesExt

NoClient == "none"          \* std::nullopt, and the empty id string

Edge == {"LEFT", "RIGHT", "TOP", "BOTTOM"}

DeadZone == 5               \* dead_zone_: pixels from corner to ignore

U16(n) == n % 65536         \* static_cast<uint16_t>

Left(r)   == r.x
Right(r)  == r.x + r.width
Top(r)    == r.y
Bottom(r) == r.y + r.height
HasPixel(r, x, y) == x \in Left(r) .. Right(r) - 1 /\ y \in Top(r) .. Bottom(r) - 1

Ids(clients) == {clients[i].client_id : i \in DOMAIN clients}

\* Mutant: remove_if without erase leaves a moved-from entry at the end.
RemoveWithoutErase(clients, id) ==
  LET kept == SelectSeq(clients, LAMBDA c : c.client_id # id)
  IN  IF Len(kept) = Len(clients) THEN clients
      ELSE Append(kept, [clients[1] EXCEPT !.client_id = NoClient])

\* What erase(remove_if) leaves of seq: the elements in S, in their order.
KeptUpTo(seq, S) ==
  LET kept[i \in 0..Len(seq)] == IF i = 0 THEN <<>>
                                 ELSE IF seq[i] \in S THEN Append(kept[i - 1], seq[i])
                                 ELSE kept[i - 1]
  IN  kept
Keep(seq, S) == KeptUpTo(seq, S)[Len(seq)]

RemoveClient(clients, id) == Keep(clients, {c \in Range(clients) : c.client_id # id})

\* Mutant: add_client that does not replace.
AddWithoutReplacing(clients, info) == Append(clients, info)

\* An entry that claims LEFT with its rect at the origin is taken for one whose
\* edge nobody chose, and is put on the right.
AddClient(clients, info) ==
  LET unplaced == info.adjacent_edge = "LEFT" /\ info.rect.x = 0 /\ info.rect.y = 0
      edge == IF unplaced THEN "RIGHT" ELSE info.adjacent_edge
  IN  Append(RemoveClient(clients, info.client_id), [info EXCEPT !.adjacent_edge = edge])

\* 0 when the layout has no entry for id.
IndexOf(clients, id) == SelectInSeq(clients, LAMBDA c : c.client_id = id)

\* Mutant: the loop of set_client_edge without its comparison.
SetFirstEdge(clients, id, edge) ==
  IF clients = <<>> THEN clients ELSE [clients EXCEPT ![1].adjacent_edge = edge]

SetClientEdge(clients, id, edge) ==
  LET i == IndexOf(clients, id)
  IN  IF i = 0 THEN clients ELSE [clients EXCEPT ![i].adjacent_edge = edge]

\* Mutant: the last pixel of the display is right() - 1, not right().
AtEdgeOffByOne(r, edge, x, y) ==
  \/ edge = "LEFT"   /\ x <= Left(r)
  \/ edge = "RIGHT"  /\ x >= Right(r)
  \/ edge = "TOP"    /\ y <= Top(r)
  \/ edge = "BOTTOM" /\ y >= Bottom(r)

AtEdge(r, edge, x, y) ==
  \/ edge = "LEFT"   /\ x <= Left(r)
  \/ edge = "RIGHT"  /\ x >= Right(r) - 1
  \/ edge = "TOP"    /\ y <= Top(r)
  \/ edge = "BOTTOM" /\ y >= Bottom(r) - 1

\* Mutant: no dead zone.
NoDeadZone(r, edge, x, y) == FALSE

InDeadZone(r, edge, x, y) ==
  IF edge \in {"LEFT", "RIGHT"}
  THEN y < Top(r) + DeadZone  \/ y > Bottom(r) - DeadZone
  ELSE x < Left(r) + DeadZone \/ x > Right(r) - DeadZone

Hits(r, edge, x, y) == AtEdge(r, edge, x, y) /\ ~InDeadZone(r, edge, x, y)

\* The first entry of the vector whose edge the cursor is at.
CheckEdge(clients, screen, x, y) ==
  LET i == SelectInSeq(clients, LAMBDA c : Hits(screen, c.adjacent_edge, x, y))
  IN  IF i = 0 THEN NoClient ELSE clients[i].client_id

\* position is the fraction num/den; the float product is truncated.
MapToClient(clients, id, edge, num, den) ==
  LET i == IndexOf(clients, id)
      w == clients[i].rect.width
      h == clients[i].rect.height
  IN  CASE i = 0           -> <<0, 0>>
        [] edge = "LEFT"   -> <<U16(w - 1), U16((num * h) \div den)>>
        [] edge = "RIGHT"  -> <<0, U16((num * h) \div den)>>
        [] edge = "TOP"    -> <<U16((num * w) \div den), U16(h - 1)>>
        [] edge = "BOTTOM" -> <<U16((num * w) \div den), 0>>

\* Mutant: the entry point of a client whose size is taken for its middle.
EntryAtFarCorner(clients, id) ==
  LET i == IndexOf(clients, id)
  IN  IF i = 0 THEN <<0, 0>> ELSE <<clients[i].rect.width, clients[i].rect.height>>

\* Where SCREEN_ENTER puts the cursor: the middle of the client's screen, or the
\* corner when the layout does not know the client (Server::transition_to_client).
EntryPoint(clients, id) ==
  LET i == IndexOf(clients, id)
  IN  IF i = 0 THEN <<0, 0>>
      ELSE <<U16(clients[i].rect.width \div 2), U16(clients[i].rect.height \div 2)>>
==============================================================================
