-------------------------------- MODULE MCWire --------------------------------
(* Two threads, and messages at the limits of the format: the largest clipboard *)
(* its header can announce, one byte more, a name one byte too long.            *)
EXTENDS Wire, TLC

Clipboard(n) == [type |-> "CLIPBOARD_UPDATE", fields |-> <<0>>, tail |-> Run(255, n)]
Keepalive == [type |-> "KEEPALIVE", fields |-> <<>>, tail |-> <<>>]
KeyDown == [type |-> "KEY_DOWN", fields |-> <<32, 65536>>, tail |-> <<>>]

MCMessages == {KeyDown, Keepalive, Clipboard(3), Clipboard(65530),
               [type |-> "HELLO", fields |-> <<1, 65535, 1080>>, tail |-> Run(115, 256)]}
MCTooLarge == {Clipboard(65531), KeyDown}

\* What WireProofs assumes of the messages (MessagesFit) is true of these, not of those.
ASSUME FitAssumption ==
  (\A m \in MCMessages : FitsHeader(m)) /\ ~\A m \in MCTooLarge : FitsHeader(m)

Symmetry == Permutations(Sender)
===============================================================================
