----------------------------- MODULE ScreenSwitch -----------------------------
(***************************************************************************)
(* What the server promises of the keyboard and the mouse, whatever its    *)
(* threads do: they belong to the server's own machine or to one client;   *)
(* a client gets them only while it is connected, and only from the        *)
(* machine itself, to which they go back before anyone else has them.      *)
(***************************************************************************)
CONSTANTS Client, Local

VARIABLES owner,      \* Local, or the client that has the input
          present     \* clients whose connection the server holds
vars == <<owner, present>>

Init == owner = Local /\ present = {}

Connect(c) == /\ c \in Client \ present
              /\ present' = present \cup {c}
              /\ UNCHANGED owner

\* Also the owner can go: the input is to be taken back from it afterwards.
Lose(c) == /\ present' = present \ {c}
           /\ UNCHANGED owner

Enter(c) == /\ owner = Local /\ c \in present
            /\ owner' = c
            /\ UNCHANGED present

Return == /\ owner' = Local
          /\ UNCHANGED present

Next == \/ \E c \in Client : Connect(c) \/ Lose(c) \/ Enter(c)
        \/ Return

Spec == Init /\ [][Next]_vars
===============================================================================
