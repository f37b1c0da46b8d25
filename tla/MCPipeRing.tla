----------------------------- MODULE MCPipeRing -----------------------------
(* PipeRing for TLC: a ring of three bytes, each 0 or 1, and requests of   *)
(* up to four, so that a transfer wraps, is cut short, or starts anywhere. *)
EXTENDS PipeRing

MCByte == {0, 1}
=============================================================================
