--------------------------- MODULE MCDescriptors ---------------------------
(* Descriptors for TLC: programs fork and exec; two descriptors, and four  *)
(* buffers for two socket pairs and pipes, so that a child can take a      *)
(* buffer its parent names, and undo, and one pair can get a buffer of     *)
(* the other.                                                              *)
EXTENDS Descriptors
=============================================================================
