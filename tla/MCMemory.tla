------------------------------ MODULE MCMemory ------------------------------
(* A machine with a few frames in two usable regions whose ends are not    *)
(* whole pages, and a program of three pages.                              *)
EXTENDS Memory

MCRegions == <<[usable |-> TRUE, start |-> 1, end |-> 11],
               [usable |-> FALSE, start |-> 11, end |-> 14],
               [usable |-> TRUE, start |-> 15, end |-> 39]>>
MCImages == {<<0, 1, 8>>, <<0, 0, 8>>}
MCTablePath == [p \in 0..8 |-> IF p <= 4 THEN <<1, 2>> ELSE <<1, 3>>]
=============================================================================
