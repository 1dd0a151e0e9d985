------------------------------- MODULE MCServer -------------------------------
EXTENDS Server
MCScreen == [x |-> 0, y |-> 0, width |-> 16, height |-> 16]
MCCursor == {<<15, 8>>}
Symmetry == Permutations(ClientId)
===============================================================================
