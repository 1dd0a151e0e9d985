------------------------------ MODULE KeyDelivery ------------------------------
(***************************************************************************)
(* What a user at the server's keyboard is promised of the keys: they are  *)
(* for the machine that has the input, as ScreenSwitch hands it about, and *)
(* each machine gets its own in the order of typing, none twice and none   *)
(* out of its turn, however much later and whoever has the input by then.  *)
(***************************************************************************)
EXTENDS Sequences

CONSTANTS Client, Local,
          Key       \* a key, as it is told from those typed and not delivered yet

VARIABLES owner,    \* Local, or the client that has the input
          present,  \* clients whose connection the server holds
          typed     \* for each client, the keys typed for it and not delivered yet
vars == <<owner, present, typed>>

Switch == INSTANCE ScreenSwitch

Init == Switch!Init /\ typed = [c \in Client |-> <<>>]

\* The owner goes, and the input is taken back from it at once.
LoseOwner == /\ owner # Local
             /\ present' = present \ {owner} /\ owner' = Local

HandOver == (Switch!Next \/ LoseOwner) /\ UNCHANGED typed

Type == /\ owner # Local
        /\ \E k \in Key : typed' = [typed EXCEPT ![owner] = Append(@, k)]
        /\ UNCHANGED <<owner, present>>

Deliver(c) == /\ typed[c] # <<>>
              /\ typed' = [typed EXCEPT ![c] = Tail(@)]
              /\ UNCHANGED <<owner, present>>

Next == HandOver \/ Type \/ \E c \in Client : Deliver(c)

Spec == Init /\ [][Next]_vars
===============================================================================
