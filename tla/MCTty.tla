------------------------------- MODULE MCTty -------------------------------
(* Tty for TLC, twice: a ring of two bytes and lines of two bytes.         *)
(* MCTty.cfg: four keys in the default mode, enough to fill a line, flush  *)
(* it into a ring without room, and meet the flush with a control key.     *)
(* MCTtyModes.cfg: two keys of every sort in every mode, with fairness.    *)
EXTENDS Tty

AllModes == Mode
Cooked == {[canon |-> TRUE, isig |-> TRUE]}
=============================================================================
