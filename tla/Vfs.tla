-------------------------------- MODULE Vfs --------------------------------
(***************************************************************************)
(* VIBUXFS, the disk file system of the vibuxOS kernel                     *)
(* (kernel/src/storage/vfs.rs), with the commands that use it              *)
(* (kernel/src/coreutils.rs, kernel/src/shell.rs) and the boot that        *)
(* attaches it (kernel/src/storage/mod.rs).                                *)
(*                                                                         *)
(* The disk has a superblock, a block bitmap, inodes and data blocks.  A   *)
(* directory is a list: first_child, then next_sibling.  There is no       *)
(* journal: an operation is a series of page writes, each reading back     *)
(* what the ones before it wrote.  Nothing else runs, so what it will      *)
(* write is decided when it is called; the machine can stop, or the disk   *)
(* refuse, between any two of the writes.                                  *)
(*                                                                         *)
(* A disk may have been used before: format writes the superblock, the     *)
(* bitmap and the first block of inodes, and leaves the other inodes as    *)
(* the disk had them.                                                      *)
(***************************************************************************)
EXTENDS Integers, Sequences, FiniteSets, SequencesExt

CONSTANTS
  Inodes,        \* INODE_COUNT
  PerBlock,      \* INODES_PER_BLOCK: the inodes that format clears
  Blocks,        \* data_blocks: the blocks behind data_start
  MaxFile,       \* MAX_FILE_BLOCKS
  Names,         \* the names of files and directories
  Cut,           \* a name as an inode keeps it: cut to 56 bytes
  BlockContents, \* what a block of a file can hold
  OldDisks,      \* bound: the bitmaps and inodes of disks to be formatted
  Paths,         \* bound: the paths that programs use
  Data,          \* bound: what programs write to files, in blocks
  MaxOps,        \* bound: operations, over all boots
  MaxCrashes     \* bound: crashes

Root == 1
InodeNos == 1 .. Inodes
DataBlocks == 1 .. Blocks
\* A path: absolute or not, and its parts between the slashes.  Of these ".."
\* goes up, and "." and an empty part (a slash at the end, or two of them) stay
\* where they are: "/" is absolute with one empty part.  A path that is not
\* absolute begins with an empty part only when it is the empty path.
NoName == ""
Stays == {NoName, "."}
Dots == Stays \cup {".."}
DiskPath ==
  {path \in [abs : BOOLEAN, parts : Seq(Names \cup Dots) \ {<<>>}] :
     path.abs \/ path.parts[1] # NoName \/ Len(path.parts) = 1}

ASSUME VfsConstants ==
  /\ Inodes \in Nat \ {0}
  /\ PerBlock \in 1 .. Inodes
  /\ Blocks \in Nat
  /\ MaxFile \in Nat
  /\ "mnt" \in Names /\ Names \cap Dots = {}
  /\ Cut \in [Names -> Names] /\ \A name \in Names : Cut[Cut[name]] = Cut[name]
  /\ Paths \subseteq DiskPath /\ Data \subseteq Seq(BlockContents)
  /\ MaxOps \in Nat /\ MaxCrashes \in Nat

VARIABLES
  disk,    \* what is on the disk
  mounted, \* STATE is set
  phase,   \* "off", "format", "up" or "failed"
  plan,    \* the page writes the operation has not made
  moving,  \* the path that mv removes when its write has succeeded
  cwd,     \* the shell's cwd_inode
  target,  \* ghost: the file that write_file stores to, 0 when none
  storing, \* ghost: what it stores
  saved,   \* ghost: what was last stored in each inode
  freed,   \* ghost: the old blocks of the target are free on the disk
  damaged, \* ghost: an operation ended while they were
  stopped, \* ghost: an operation ended between two of its writes
  formatted, \* ghost: a format of the disk made all of its writes
  stale,   \* ghost: the inodes that were in use and that it did not clear
  ops,     \* ghost: operations
  crashes  \* ghost: crashes

format_ghosts == <<formatted, stale>>
ghosts == <<target, storing, saved, freed, damaged, stopped, format_ghosts>>
vfs_vars == <<disk, mounted, phase, plan, moving, cwd, ghosts, ops, crashes>>

(***************************************************************************)
(* The disk.  It has a superblock when it has one of this disk's size: a    *)
(* disk that was formatted with another size is formatted again.  The      *)
(* bitmap shows the data blocks only: the blocks before them are marked by *)
(* format and never looked at.  It is written in one step: the disk of the *)
(* build has 24576 blocks, and a page of the bitmap shows 32768.           *)
(***************************************************************************)

InodeName == Names \cup Dots \cup {"/"}
Inode == [kind : 0 .. 2, name : InodeName, parent : 0 .. Inodes,
          first_child : 0 .. Inodes, next_sibling : 0 .. Inodes,
          start_block : 0 .. Blocks, block_count : 0 .. Blocks]

ZeroInode == [kind |-> 0, name |-> NoName, parent |-> 0, first_child |-> 0,
              next_sibling |-> 0, start_block |-> 0, block_count |-> 0]
RootInode == [ZeroInode EXCEPT !.kind = 2, !.name = "/"]

BlocksOf(n) == n.start_block .. n.start_block + n.block_count - 1

\* A disk to be formatted is blank or has the inodes of a file system of
\* another size, of which those that are free are all zero.
ASSUME OldDisksOk ==
  \A old \in OldDisks :
    /\ old.bitmap \subseteq DataBlocks /\ old.inode \in [InodeNos -> Inode]
    /\ \A i \in InodeNos : /\ BlocksOf(old.inode[i]) \subseteq DataBlocks
                           /\ old.inode[i].kind = 0 => old.inode[i] = ZeroInode

\* One page write.
WriteSuper == [page |-> "super"]
WriteBitmap(used) == [page |-> "bitmap", used |-> used]
WriteTable == [page |-> "table"]
WriteInode(i, n) == [page |-> "inode", no |-> i, inode |-> n]
WriteBlock(b, c) == [page |-> "block", no |-> b, contents |-> c]

\* The first block of inodes behind a format.
FirstCleared(d) ==
  [i \in InodeNos |-> IF i = Root THEN RootInode
                      ELSE IF i <= PerBlock THEN ZeroInode ELSE d.inode[i]]

Written(d, w) ==
  CASE w.page = "super" -> [d EXCEPT !.super = TRUE]
    [] w.page = "bitmap" -> [d EXCEPT !.bitmap = w.used]
    [] w.page = "table" -> [d EXCEPT !.inode = FirstCleared(d)]
    [] w.page = "inode" -> [d EXCEPT !.inode[w.no] = w.inode]
    [] OTHER -> [d EXCEPT !.block[w.no] = w.contents]

\* The disk behind the two writes of a new entry.
Created(d, made) ==
  IF made = <<>> THEN d ELSE Written(Written(d, made[1]), made[2])

(***************************************************************************)
(* Looking up.  A failing search answers 0; the error it stands for only   *)
(* matters where NotFound makes touch and write_file create the entry.     *)
(***************************************************************************)

Behind(d, i) == IF i = 0 THEN 0 ELSE d.inode[i].next_sibling

\* The entries of a directory in the order of the list, from entry first on.
List(d, first) ==
  LET at[k \in 0 .. Inodes] ==
        IF k = 0 THEN first ELSE Behind(d, at[k - 1])
  IN [k \in 1 .. Cardinality({j \in 0 .. Inodes : at[j] # 0}) |-> at[k - 1]]

\* The first entry in use that has the name.
Child(d, dir, name) ==
  LET entries == List(d, d.inode[dir].first_child)
      named == {k \in DOMAIN entries :
                  LET n == d.inode[entries[k]] IN n.kind # 0 /\ n.name = name}
  IN IF named = {} THEN 0
     ELSE entries[CHOOSE k \in named : \A j \in named : k <= j]

NotFound == [no |-> 0, error |-> "NotFound"]
NotDir == [no |-> 0, error |-> "NotDir"]
Found(i) == [no |-> i, error |-> "none"]

Step(d, at, part) ==
  LET n == d.inode[at.no]
      child == Child(d, at.no, part)
  IN IF at.error # "none" \/ part \in Stays THEN at
     ELSE IF part = ".." THEN IF n.parent # 0 THEN Found(n.parent) ELSE at
     ELSE IF n.kind # 2 THEN NotDir
     ELSE IF child = 0 THEN NotFound ELSE Found(child)

Walk(d, cur, parts) ==
  LET at[k \in 0 .. Len(parts)] ==
        IF k = 0 THEN Found(cur) ELSE Step(d, at[k - 1], parts[k])
  IN at[Len(parts)]

\* The empty path is the root.
resolve(d, path, dir) ==
  Walk(d, IF path.abs \/ path.parts = <<NoName>> THEN Root ELSE dir, path.parts)

(***************************************************************************)
(* Operations, as the writes they make.                                    *)
(***************************************************************************)

\* split_parent leaves an empty parent for "name" and for "/name" alike, and
\* an empty parent is the working directory.
ParentOf(d, path, dir) ==
  IF Len(path.parts) = 1 THEN Found(dir)
  ELSE resolve(d, [path EXCEPT !.parts = Front(@)], dir)

FreeInodes(d) == {i \in InodeNos : d.inode[i].kind = 0}

\* A new entry is on the disk before its directory names it.  Faulty variant:
\* the other way round.
LinkFirst(d, up, no, n) ==
  << WriteInode(up, [d.inode[up] EXCEPT !.first_child = no]), WriteInode(no, n) >>
Link(d, up, no, n) ==
  << WriteInode(no, n), WriteInode(up, [d.inode[up] EXCEPT !.first_child = no]) >>

\* What an inode keeps of a name.
Short(name) == IF name \in Names THEN Cut[name] ELSE name

\* The whole name is compared with what the entries keep of theirs.
Enter(d, up, name, kind, free, entries) ==
  IF \/ d.inode[up].kind # 2 \/ free = {}
     \/ \E k \in DOMAIN entries : d.inode[entries[k]].name = name
  THEN <<>>
  ELSE Link(d, up, CHOOSE i \in free : \A j \in free : i <= j,
            [ZeroInode EXCEPT !.kind = kind, !.name = Short(name), !.parent = up,
                              !.next_sibling = d.inode[up].first_child])

create_entry(d, path, dir, kind) ==
  LET up == ParentOf(d, path, dir).no
  IN IF up = 0 THEN <<>>
     ELSE Enter(d, up, Last(path.parts), kind, FreeInodes(d),
                List(d, d.inode[up].first_child))

unlink_child(d, up, no) ==
  LET entries == List(d, d.inode[up].first_child)
      k == CHOOSE j \in DOMAIN entries : entries[j] = no
      next == d.inode[no].next_sibling
  IN IF k = 1
     THEN << WriteInode(up, [d.inode[up] EXCEPT !.first_child = next]) >>
     ELSE << WriteInode(entries[k - 1],
               [d.inode[entries[k - 1]] EXCEPT !.next_sibling = next]),
             WriteInode(up, d.inode[up]) >>

\* The blocks of an inode are given back.  Faulty variant: they are kept.
KeepBlocks(d, n) == <<>>
FreeBlocks(d, n) ==
  IF n.block_count # 0 THEN << WriteBitmap(d.bitmap \ BlocksOf(n)) >> ELSE <<>>

RemoveEntry(d, no, n) ==
  LET entries == List(d, d.inode[n.parent].first_child)
  IN IF n.parent = 0 THEN <<>>
     ELSE IF \/ n.kind = 2 /\ n.first_child # 0
             \/ \A k \in DOMAIN entries : entries[k] # no
     THEN <<>>
     ELSE unlink_child(d, n.parent, no)
          \o (IF n.kind = 1 THEN FreeBlocks(d, n) ELSE <<>>)
          \o << WriteInode(no, ZeroInode) >>

remove(d, path, dir) ==
  LET no == resolve(d, path, dir).no
  IN IF no \in {0, Root} THEN <<>> ELSE RemoveEntry(d, no, d.inode[no])

\* The runs of free blocks that are long enough.  Faulty variant: the last
\* block of the run is not looked at.
RunsButLast(used, count) ==
  {b \in DataBlocks : /\ b + count - 1 <= Blocks
                      /\ b .. b + count - 2 \cap used = {}}
Runs(used, count) ==
  {b \in DataBlocks : /\ b + count - 1 <= Blocks
                      /\ b .. b + count - 1 \cap used = {}}

\* The contents are on the disk before the inode names them.  Faulty variant:
\* the other way round.
InodeFirst(no, n, start, data) ==
  << WriteInode(no, [n EXCEPT !.start_block = start, !.block_count = Len(data)]) >>
  \o [i \in 1 .. Len(data) |-> WriteBlock(start + i - 1, data[i])]
StoreFile(no, n, start, data) ==
  [i \in 1 .. Len(data) |-> WriteBlock(start + i - 1, data[i])]
  \o << WriteInode(no, [n EXCEPT !.start_block = start,
                                 !.block_count = Len(data)]) >>

\* What write_file does to the blocks and the inode of a file: the old blocks
\* are free on the disk before the new ones are looked for.
Replace(d, no, data) ==
  LET n == d.inode[no]
      count == Len(data)
      left == d.bitmap \ BlocksOf(n)
      runs == Runs(left, count)
      start == CHOOSE b \in runs : \A c \in runs : b <= c
      freeing == FreeBlocks(d, n)
  IN IF count = 0
     THEN freeing \o StoreFile(no, n, 0, <<>>)
     ELSE IF runs = {} THEN freeing
     ELSE freeing \o << WriteBitmap(left \cup (start .. start + count - 1)) >>
          \o StoreFile(no, n, start, data)

\* write_file creates the entry it does not find, and goes on with the inode
\* that create_entry chose.  The writes, the inode, and whether the contents
\* will be stored in it: IsDir, TooLarge and NoSpace end it before.
Missing(d, path, dir) == resolve(d, path, dir).error = "NotFound"

StoreIn(d, made, no, data) ==
  LET fits == no # 0 /\ d.inode[no].kind = 1 /\ Len(data) <= MaxFile
      left == d.bitmap \ BlocksOf(d.inode[no])
  IN [writes |-> IF fits THEN made \o Replace(d, no, data) ELSE made,
      no |-> no,
      stores |-> fits /\ (data = <<>> \/ Runs(left, Len(data)) # {})]

write_file(d, path, dir, data) ==
  LET found == resolve(d, path, dir)
      made == IF found.error = "NotFound" THEN create_entry(d, path, dir, 1)
                                          ELSE <<>>
  IN StoreIn(Created(d, made), made,
             IF made = <<>> THEN found.no ELSE made[1].no, data)

(***************************************************************************)
(* Boot.                                                                   *)
(***************************************************************************)

Nowhere == [abs |-> FALSE, parts |-> <<>>]
MntPath == [abs |-> TRUE, parts |-> <<"mnt">>]

VfsInit ==
  /\ \E old \in OldDisks :
       disk = [super |-> FALSE, bitmap |-> old.bitmap, inode |-> old.inode,
               block |-> [b \in DataBlocks |-> "junk"]]
  /\ mounted = FALSE /\ phase = "off"
  /\ plan = <<>> /\ moving = Nowhere
  /\ cwd = Root
  /\ target = 0 /\ storing = <<>>
  /\ saved = [i \in InodeNos |-> <<>>]
  /\ freed = FALSE /\ damaged = FALSE /\ stopped = FALSE
  /\ formatted = FALSE /\ stale = {}
  /\ ops = 0 /\ crashes = 0

\* The storage probe makes /mnt as soon as the file system is attached.
Mount ==
  /\ mounted' = TRUE /\ phase' = "up"
  /\ plan' = create_entry(disk, MntPath, Root, 2)
  /\ UNCHANGED <<disk, moving, cwd, ghosts, ops, crashes>>

\* attach formats a disk without a superblock of its size; the superblock
\* comes first, and the root comes with its whole block of inodes.
Attach ==
  /\ phase = "off"
  /\ \/ disk.super /\ Mount
     \/ /\ ~disk.super
        /\ phase' = "format"
        /\ plan' = << WriteSuper, WriteBitmap({}), WriteTable >>
        /\ UNCHANGED <<disk, mounted, moving, cwd, ghosts, ops, crashes>>

Formatted ==
  /\ phase = "format" /\ plan = <<>>
  /\ Mount

(***************************************************************************)
(* Calls.                                                                  *)
(***************************************************************************)

\* The ghosts of the target, as long as there are writes to come.
Aim(no, data) == /\ target' = IF plan' = <<>> THEN 0 ELSE no
                 /\ storing' = IF plan' = <<>> THEN <<>> ELSE data

Resting == plan = <<>> /\ moving = Nowhere /\ phase # "format"

\* An operation that will write ws, and stores data in file no when no # 0.
Begin(ws, no, data, after) ==
  /\ plan' = ws
  /\ moving' = after
  /\ Aim(no, data)
  /\ damaged' = (damaged \/ freed) /\ freed' = FALSE
  /\ ops' = ops + 1
  /\ UNCHANGED <<disk, mounted, phase, cwd, saved, stopped, format_ghosts,
                 crashes>>

MakeDir(path) == Begin(create_entry(disk, path, cwd, 2), 0, <<>>, Nowhere)

Touch(path) ==
  /\ Missing(disk, path, cwd)
  /\ Begin(create_entry(disk, path, cwd, 1), 0, <<>>, Nowhere)

BeginWriting(writing, data, after) ==
  Begin(writing.writes, writing.no, data,
        IF writing.stores THEN after ELSE Nowhere)

WriteFile(path, data, after) ==
  BeginWriting(write_file(disk, path, cwd, data), data, after)

RemoveFile(path) == Begin(remove(disk, path, cwd), 0, <<>>, Nowhere)

\* read_file_bytes
FileBytes(d, no) ==
  [i \in 1 .. d.inode[no].block_count |->
     d.block[d.inode[no].start_block + i - 1]]

IsFile(path) ==
  resolve(disk, path, cwd).no # 0
  /\ disk.inode[resolve(disk, path, cwd).no].kind = 1

Copy(from, to) ==
  /\ IsFile(from)
  /\ WriteFile(to, FileBytes(disk, resolve(disk, from, cwd).no), Nowhere)

Move(from, to) ==
  /\ IsFile(from)
  /\ WriteFile(to, FileBytes(disk, resolve(disk, from, cwd).no), from)

MoveRemoves ==
  /\ plan = <<>> /\ moving # Nowhere
  /\ plan' = remove(disk, moving, cwd)
  /\ moving' = Nowhere
  /\ target' = 0 /\ storing' = <<>>
  /\ UNCHANGED <<disk, mounted, phase, cwd, saved, freed, damaged, stopped,
                 format_ghosts, ops, crashes>>

\* cmd_cd resolves the normalised path, which has no dots left, from the root.
ChangeDir(path) ==
  /\ path.abs /\ \A k \in DOMAIN path.parts : path.parts[k] \notin {".", ".."}
  /\ LET no == resolve(disk, path, Root).no
     IN no # 0 /\ disk.inode[no].kind = 2 /\ cwd' = no
  /\ UNCHANGED <<disk, mounted, phase, plan, moving, ghosts, ops, crashes>>

(***************************************************************************)
(* The writes of an operation, and what can come between them.             *)
(***************************************************************************)

WritePage ==
  /\ plan # <<>>
  /\ LET w == Head(plan) IN
     /\ disk' = Written(disk, w)
     /\ plan' = Tail(plan)
     /\ saved' = IF w.page = "inode" /\ w.inode.kind = 1
                 THEN [saved EXCEPT ![w.no] =
                         CASE w.inode.block_count = 0 -> <<>>
                           [] w.inode.block_count # 0 /\ w.no = target -> storing
                           [] OTHER -> saved[w.no]]
                 ELSE IF w.page = "inode" THEN [saved EXCEPT ![w.no] = <<>>]
                 ELSE saved
     /\ Aim(target, storing)
     /\ freed' = CASE w.page = "bitmap" ->
                        target # 0 /\ disk.inode[target].block_count # 0
                   [] w.page = "inode" /\ w.no = target -> FALSE
                   [] OTHER -> freed
  /\ IF phase = "format" /\ plan' = <<>>
     THEN /\ formatted' = TRUE
          /\ stale' = {i \in InodeNos : i > PerBlock /\ disk.inode[i].kind # 0}
     ELSE UNCHANGED format_ghosts
  /\ UNCHANGED <<mounted, phase, moving, cwd, damaged, stopped, ops, crashes>>

Stop ==
  /\ plan' = <<>> /\ moving' = Nowhere
  /\ damaged' = (damaged \/ freed) /\ freed' = FALSE
  /\ stopped' = (stopped \/ plan # <<>>)
  /\ target' = 0 /\ storing' = <<>>
  /\ UNCHANGED <<disk, saved, format_ghosts, ops>>

\* A read or a write that the disk refuses ends the operation, or the attach.
IoError ==
  /\ plan # <<>> \/ phase = "off"
  /\ Stop
  /\ phase' = IF phase = "up" THEN "up" ELSE "failed"
  /\ UNCHANGED <<mounted, cwd, crashes>>

Crash ==
  /\ crashes < MaxCrashes
  /\ crashes' = crashes + 1
  /\ Stop
  /\ mounted' = FALSE /\ phase' = "off"
  /\ cwd' = Root

\* Every call asks for STATE first, and one call runs at a time.
Calls ==
  /\ mounted /\ Resting
  /\ \E path \in Paths :
       \/ ChangeDir(path)
       \/ /\ ops < MaxOps
          /\ \/ MakeDir(path) \/ Touch(path) \/ RemoveFile(path)
             \/ \E data \in Data : WriteFile(path, data, Nowhere)
             \/ \E to \in Paths : Copy(path, to) \/ Move(path, to)

VfsNext ==
  \/ Attach \/ Formatted \/ Calls \/ MoveRemoves \/ WritePage
  \/ IoError \/ Crash

VfsSpec == VfsInit /\ [][VfsNext]_vfs_vars

(***************************************************************************)
(* Properties.                                                             *)
(***************************************************************************)

Pages == [page : {"super", "table"}] \cup [page : {"bitmap"}, used : SUBSET DataBlocks]
         \cup [page : {"inode"}, no : InodeNos, inode : Inode]
         \cup [page : {"block"}, no : DataBlocks,
                contents : BlockContents \cup {"junk"}]

\* Every variable has its type.
VfsTypeOK ==
  /\ disk.super \in BOOLEAN /\ disk.bitmap \subseteq DataBlocks
  /\ \A i \in InodeNos : disk.inode[i] \in Inode
  /\ disk.block \in [DataBlocks -> BlockContents \cup {"junk"}]
  /\ mounted \in BOOLEAN /\ phase \in {"off", "format", "up", "failed"}
  /\ \A k \in DOMAIN plan : plan[k] \in Pages
  /\ moving \in Paths \cup {Nowhere}
  /\ cwd \in InodeNos /\ target \in 0 .. Inodes
  /\ formatted \in BOOLEAN /\ stale \subseteq InodeNos

\* The entries that can be reached from the root.
Tree ==
  LET reach[k \in 0 .. Inodes] ==
        IF k = 0 THEN {Root}
        ELSE LET nearer == reach[k - 1] IN
             nearer \cup (({disk.inode[i].first_child : i \in nearer} \cup
                           {disk.inode[i].next_sibling : i \in nearer}) \ {0})
  IN reach[Inodes]

\* What is left of the names that are too long for an inode.
Cutoffs == {Cut[name] : name \in {m \in Names : Cut[m] # m}}

\* Whatever operation ends between which writes, by a crash or by the disk,
\* the directories on a disk that was wholly formatted are a tree: every entry
\* is in use, is linked from one place, and knows the directory whose list it
\* is in, no list runs in a circle, and no two entries of a directory have one
\* name, unless it is what is left of a longer one: create_entry looks for the
\* whole name and does not find the entry that keeps its first 56 bytes.
TreeSound ==
  formatted => LET tree == Tree IN
    \A i \in tree :
      LET n == disk.inode[i]
          above == {j \in tree : disk.inode[j].first_child = i}
          beside == {j \in tree : disk.inode[j].next_sibling = i}
      IN /\ n.kind # 0
         /\ n.kind = 1 => n.first_child = 0
         /\ IF i = Root THEN above \cup beside = {}
            ELSE /\ Cardinality(above) + Cardinality(beside) = 1
                 /\ \A j \in above : n.parent = j
                 /\ \A j \in beside : n.parent = disk.inode[j].parent
         /\ \A j \in tree \ {i} :
              disk.inode[j].parent = n.parent /\ disk.inode[j].name = n.name
                => n.name \in Cutoffs

Files == {i \in Tree : disk.inode[i].kind = 1}

\* Unless write_file was stopped after it had freed the old blocks of a file,
\* no block has two owners and the bitmap shows every block of every file,
\* whatever else was stopped in the middle, on a disk that was wholly
\* formatted and when no path ends in dots: such a path can lead from a removed
\* directory to an inode outside the tree.
BlocksOwned ==
  formatted /\ Resting /\ ~damaged /\ ~freed => LET files == Files IN
    \A i \in files :
      /\ BlocksOf(disk.inode[i]) \subseteq disk.bitmap
      /\ \A j \in files \ {i} :
            BlocksOf(disk.inode[i]) \cap BlocksOf(disk.inode[j]) = {}

\* Under the same condition every file reads back as what was last stored in
\* it, also when it moved to other blocks or another operation was stopped.
ReadsBack ==
  formatted /\ Resting /\ ~damaged /\ ~freed =>
    \A i \in Files : FileBytes(disk, i) = saved[i]

\* As long as every operation ran to its end, nothing is lost: the inodes in
\* use are those of the tree and those that the format did not clear, which
\* stay outside the tree, and the bitmap shows the blocks of files only.
NothingLost ==
  mounted /\ Resting /\ ~stopped /\ ~damaged /\ ~freed =>
    /\ formatted
    /\ {i \in InodeNos : disk.inode[i].kind # 0} = Tree \cup stale
    /\ Tree \cap stale = {}
    /\ disk.bitmap = UNION {BlocksOf(disk.inode[i]) : i \in Files}

=============================================================================
