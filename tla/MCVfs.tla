------------------------------- MODULE MCVfs -------------------------------
(* Vfs for TLC: five inodes, of which a format clears three; a name that is  *)
(* cut, and the name that is left of it; a blank disk and one that was       *)
(* formatted with another size, with an inode in use that stays.             *)
EXTENDS Vfs

MCNames == {"mnt", "a", "aa", "d"}
MCCut == [name \in MCNames |-> IF name = "aa" THEN "a" ELSE name]
MCContents == {"x", "y"}
Rel(parts) == [abs |-> FALSE, parts |-> parts]
Abs(parts) == [abs |-> TRUE, parts |-> parts]
\* Empty, one block, two blocks, and more than a file may have.
MCData == {<<>>, <<"x">>, <<"y", "x">>, <<"x", "x", "x">>}
MCPaths == { Rel(<<"a">>), Abs(<<"a">>), Rel(<<"..", "d">>), Abs(<<"d">>),
             Rel(<<"d", "a">>), Rel(<<"aa">>), Abs(<<"">>) }

BlankDisk == [bitmap |-> {}, inode |-> [i \in InodeNos |-> ZeroInode]]
\* Its root has a file and the empty directory mnt.
UsedDisk ==
  [bitmap |-> {1},
   inode |-> [BlankDisk.inode EXCEPT
                ![1] = [RootInode EXCEPT !.first_child = 5],
                ![2] = [ZeroInode EXCEPT !.kind = 2, !.name = "mnt", !.parent = 1],
                ![5] = [ZeroInode EXCEPT !.kind = 1, !.name = "a", !.parent = 1,
                          !.next_sibling = 2, !.start_block = 1,
                          !.block_count = 1]]]
MCOldDisks == {BlankDisk, UsedDisk}

=============================================================================
