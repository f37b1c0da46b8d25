------------------------------ MODULE MCNvme ------------------------------
EXTENDS Nvme

\* Every block of the disk starts different from the others.
CONSTANTS d0, d1, d2, d3, zero, ident, new

MCData == {d0, d1, d2, d3, zero, ident, new}
MCFill == {new}
MCZero == zero
MCIdent == ident
MCBlocks == 4
MCDisk0 == [b \in 0 .. 3 |-> CASE b = 0 -> d0 [] b = 1 -> d1
                               [] b = 2 -> d2 [] b = 3 -> d3]
MCLengths == 1 .. 3

=============================================================================
