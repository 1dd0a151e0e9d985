---------------------------- MODULE MCScreenLayout ----------------------------
(* Three clients around a 16x15 display, at the origin and right of another    *)
(* one; client screens of one pixel, at the origin, and placed elsewhere.      *)
EXTENDS ScreenLayout, TLC

MCScreens == {[x |-> 0, y |-> 0, width |-> 16, height |-> 15],
              [x |-> -7, y |-> 3, width |-> 16, height |-> 15]}
MCRects == {[x |-> 0, y |-> 0, width |-> 4, height |-> 3],
            [x |-> 9, y |-> 0, width |-> 1, height |-> 1]}
Symmetry == Permutations(ClientId)
===============================================================================
