----------------------------- MODULE MCRamFiles -----------------------------
(* RamFiles for TLC: two files of two bytes, a built-in program and a      *)
(* directory that files can be renamed to.  No call reads what the last    *)
(* one told, so states that differ in it are one state; every step is      *)
(* still compared with the abstract store, its answer included.            *)
EXTENDS RamFiles

MCBinaries == [p \in {"/bin/b"} |-> <<2, 3>>]
MCTexts == [p \in {} |-> <<>>]
MCDirectories == [p \in {"/d"} |-> <<"..", "README">>]
MCOffset == [p \in {"/d"} |-> [k \in 0 .. 2 |-> CASE k = 0 -> 0 [] k = 1 -> 24 [] k = 2 -> 56]]
View == <<files, fds, written>>
=============================================================================
