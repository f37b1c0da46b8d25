---------------------------- MODULE MCProcesses ----------------------------
(* Processes for TLC: two table slots and up to three children, so that    *)
(* the table overflows; two values for every memory region; frames for two *)
(* calls, one each; an exit code larger than the byte the status keeps.    *)
(*                                                                         *)
(* States that differ only in what nothing reads any more are one state:   *)
(* what was saved for a child that has ended, and the status of a child    *)
(* that is no zombie.                                                      *)
EXTENDS Processes, TLC

CONSTANTS v1, v2

MCVal == {v1, v2}
MCCosts == {1}
MCCodes == {257}

Symmetry == Permutations(MCVal)

StatusRead == [p \in Pids |-> IF fate[p] = "zombie" THEN status[p] ELSE 0]
View ==
  <<halted, pid, nextPid, active, children, cr3, stackSnap, mem, spaces, free,
    kind, fate, StatusRead,
    IF active THEN <<childPid, parentPid, parentCr3, promise, own>> ELSE <<>>,
    IF own THEN image ELSE <<>> >>
=============================================================================
