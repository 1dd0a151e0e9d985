---------------------------- MODULE MCArrangement ----------------------------
(* A landscape and a portrait screen; spots that put their centres left of,    *)
(* above and below the server's, and one diagonal on which both sides tie.     *)
EXTENDS Arrangement, TLC
MCSizes == {<<1920, 1080>>, <<1080, 1920>>}
MCSpots == {<<-2000, 0>>, <<100, -1900>>, <<1000, 1000>>, <<300, 2000>>}
===============================================================================
