------------------------------ MODULE MCEvents ------------------------------
(* Events for TLC: two of the four kinds of objects behind two             *)
(* descriptors, two units of time to a tick.                               *)
EXTENDS Events

MCAsked == {{"in", "out"}}
=============================================================================
