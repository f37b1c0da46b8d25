------------------------------ MODULE RamFiles ------------------------------
(***************************************************************************)
(* Files of the vibuxOS kernel (kernel/src/arch/x86_64/syscall.rs): the    *)
(* table RAM_FILES of writable files, the built-in read-only ones, the     *)
(* directories with their fixed entries, and the calls open, read, pread,  *)
(* getdents, write, lseek, ftruncate, truncate, unlink, rename, stat,      *)
(* fstat and access on them.                                               *)
(* A descriptor stores the path of its file and looks the file up at every *)
(* call.  It implements the store of module FileStore.                     *)
(*                                                                         *)
(* Bytes are copied from and to user memory in chunks; the position and    *)
(* the length follow after the last chunk only.                            *)
(***************************************************************************)
EXTENDS Integers, Sequences, FiniteSets

CONSTANTS
  Plain,      \* paths that mean nothing to the kernel
  Devices,    \* paths of devices
  Directories, \* the entries that directories list, by path
  Offset,     \* where entry k + 1 would start in a whole listing, by path
  Binaries,   \* the contents of the built-in programs, by path
  Texts,      \* the contents of the built-in texts, by path
  Byte,       \* contents of a byte that is written
  Zero,       \* the byte that files are cleared with
  Slots,      \* RAM_FILE_MAX
  Cap,        \* RAM_FILE_CAPACITY
  Chunk,      \* how many bytes are copied at a time, 4096
  Fds,        \* the descriptors, an interval
  Accesses,   \* bound: how programs open files
  MaxRequest, \* bound: the longest request of a caller
  Rooms,      \* bound: the buffers that listings get, at least 24 bytes
  MaxPosition \* bound: how far lseek goes

Special == Devices \cup DOMAIN Directories
Path == Plain \cup Special \cup DOMAIN Binaries \cup DOMAIN Texts

ASSUME FileConstants ==
  /\ Slots \in Nat /\ Cap \in Nat /\ Chunk \in Nat \ {0}
  /\ MaxRequest \in Nat /\ MaxPosition \in Nat
  /\ Rooms \subseteq Nat
  /\ \A p \in DOMAIN Binaries : Len(Binaries[p]) \in Nat
  /\ \A p \in DOMAIN Texts : Len(Texts[p]) \in Nat
  /\ \A p \in DOMAIN Directories :
       /\ Len(Directories[p]) \in Nat
       /\ \A k \in 0 .. Len(Directories[p]) : Offset[p][k] \in Nat
  /\ Accesses \subseteq {"r", "w", "rw"}
  /\ Zero \notin Byte

VARIABLES
  files,    \* RAM_FILES
  fds,      \* STATE.fds
  reply,    \* what the last call told
  written   \* ghost: what was ever written to every file, by slot

vars == <<files, fds, reply, written>>

Slot == 1 .. Slots
NoPath == "no path"
NoFile == [used |-> FALSE, path |-> NoPath, len |-> 0,
           data |-> [k \in 1 .. Cap |-> Zero]]
Free == [kind |-> "free"]

Idle == [kind |-> "idle"]
Got(bytes) == [kind |-> "got", bytes |-> bytes]
Wrote(n) == [kind |-> "wrote", count |-> n]
Listed(names) == [kind |-> "listed", names |-> names]
Sized(n) == [kind |-> "sized", size |-> n]
Absent == [kind |-> "absent"]

Init ==
  /\ files = [i \in Slot |-> NoFile]
  /\ fds = [fd \in Fds |-> Free]
  /\ reply = Idle
  /\ written = [i \in Slot |-> {}]

Smaller(a, b) == IF a <= b THEN a ELSE b
Larger(a, b) == IF a <= b THEN b ELSE a
IsLeast(x, S) == x \in S /\ \A y \in S : x <= y

(* ram_file_index finds at most one of these.                              *)
ram_file_index(p) == {i \in Slot : files[i].used /\ files[i].path = p}

(* RamFile::empty.  Faulty variant: the slot is only marked unused.        *)
ClearedFlag(f) == [f EXCEPT !.used = FALSE]
Cleared(f) == NoFile

(* ram_file_create in the first unused slot.                               *)
ram_file_create(p) ==
  \E i \in Slot :
    /\ IsLeast(i, {j \in Slot : ~files[j].used})
    /\ files' = [files EXCEPT ![i] = [Cleared(@) EXCEPT !.used = TRUE, !.path = p]]
    /\ written' = [written EXCEPT ![i] = {}]

----------------------------------------------------------------------------
(* open.  The table of descriptors may be full: then open fails after it   *)
(* has emptied or made the file.                                           *)
FreeFds == {fd \in Fds : fds[fd].kind = "free"}
AllocFd(d) ==
  \/ FreeFds = {} /\ fds' = fds
  \/ \E fd \in Fds : IsLeast(fd, FreeFds) /\ fds' = [fds EXCEPT ![fd] = d]

Opened(kind, p, access, append) ==
  [kind |-> kind, path |-> p, access |-> access, append |-> append,
   position |-> 0]

(* open_path of a file in the table, without O_CREAT and O_EXCL together.  *)
(* The paths of directories and devices never get here.                    *)
OpenRam(p, access, append, trunc) ==
  /\ p \notin Special /\ ram_file_index(p) # {}
  /\ files' = [i \in Slot |->
                 IF i \in ram_file_index(p) /\ trunc /\ access # "r"
                 THEN [files[i] EXCEPT !.len = 0] ELSE files[i]]
  /\ AllocFd(Opened("ram", p, access, append))
  /\ reply' = Idle
  /\ UNCHANGED written

(* Texts are read-only, programs must not be emptied.                      *)
OpenBuiltin(p, access, append, trunc) ==
  /\ p \notin Special /\ ram_file_index(p) = {}
  /\ p \in DOMAIN Binaries \cup DOMAIN Texts
  /\ access # "r" => p \in DOMAIN Binaries /\ ~trunc
  /\ AllocFd(Opened("builtin", p, access, append))
  /\ reply' = Idle
  /\ UNCHANGED <<files, written>>

OpenDirectory(p, access, append) ==
  /\ p \in DOMAIN Directories /\ access # "w"
  /\ AllocFd(Opened("dir", p, access, append))
  /\ reply' = Idle
  /\ UNCHANGED <<files, written>>

OpenCreate(p, access, append) ==
  /\ p \in Plain /\ ram_file_index(p) = {}
  /\ ram_file_create(p)
  /\ AllocFd(Opened("ram", p, access, append))
  /\ reply' = Idle

close(fd) ==
  /\ fds[fd].kind # "free"
  /\ fds' = [fds EXCEPT ![fd] = Free]
  /\ reply' = Idle
  /\ UNCHANGED <<files, written>>

(* lseek: the offset may be anything.                                      *)
lseek(fd, position) ==
  /\ fds[fd].kind # "free"
  /\ fds' = [fds EXCEPT ![fd].position = position]
  /\ reply' = Idle
  /\ UNCHANGED <<files, written>>

(* fcntl(F_SETFL).                                                         *)
SetFlags(fd, append) ==
  /\ fds[fd].kind # "free"
  /\ fds' = [fds EXCEPT ![fd].append = append]
  /\ reply' = Idle
  /\ UNCHANGED <<files, written>>

----------------------------------------------------------------------------
(* What is copied of n bytes when good of them are accessible.             *)
Copied(n, good) == IF good >= n THEN n ELSE (good \div Chunk) * Chunk

ram_file_read(fd, count, good) ==
  /\ fds[fd].kind = "ram" /\ fds[fd].access # "w"
  /\ \E i \in ram_file_index(fds[fd].path) :
       LET f == files[i]
           start == Smaller(fds[fd].position, f.len)
           amount == Smaller(count, f.len - start)
           done == Copied(amount, good)
       IN /\ done > 0
          /\ reply' = Got(SubSeq(f.data, start + 1, start + done))
          /\ fds' = IF done = amount
                    THEN [fds EXCEPT ![fd].position = start + done] ELSE fds
  /\ UNCHANGED <<files, written>>

(* The contents of a built-in file.                                        *)
Contents(p) == IF p \in DOMAIN Binaries THEN Binaries[p] ELSE Texts[p]

(* read of a built-in file.  At its end the position is corrected.         *)
ReadBuiltin(fd, count) ==
  /\ fds[fd].kind = "builtin" /\ fds[fd].access # "w"
  /\ LET data == Contents(fds[fd].path)
         start == Smaller(fds[fd].position, Len(data))
         amount == Smaller(count, Len(data) - start)
     IN /\ reply' = IF amount = 0 THEN Idle
                    ELSE Got(SubSeq(data, start + 1, start + amount))
        /\ fds' = [fds EXCEPT ![fd].position = start + amount]
  /\ UNCHANGED <<files, written>>

(* pread works on built-in files only; it does not ask whether the         *)
(* descriptor may be read, and leaves the position alone.                  *)
Pread(fd, offset, count) ==
  /\ fds[fd].kind = "builtin"
  /\ LET data == Contents(fds[fd].path)
         amount == Smaller(count, Len(data) - offset)
     IN /\ amount > 0
        /\ reply' = Got(SubSeq(data, offset + 1, offset + amount))
  /\ UNCHANGED <<files, fds, written>>

(* preadv goes on to its second buffer behind the first, and reports the   *)
(* first alone when the second is bad.                                     *)
preadv(fd, offset, count, second, good) ==
  Pread(fd, offset, count + (IF good THEN second ELSE 0))

(* getdents: as many entries as fit into the buffer.  One that cannot be   *)
(* copied ends the call: those before it are reported, the position stays. *)
fill_getdents64(fd, room, copied) ==
  /\ fds[fd].kind = "dir"
  /\ LET names == Directories[fds[fd].path]
         index == fds[fd].position
         Fits(k) == Offset[fds[fd].path][index + k] - Offset[fds[fd].path][index]
                      <= room
     IN \E k \in 0 .. Larger(0, Len(names) - index) :
          /\ k > 0 => Fits(k)
          /\ index + k < Len(names) => ~Fits(k + 1)
          /\ \/ /\ copied >= k
                /\ reply' = Listed(SubSeq(names, index + 1, index + k))
                /\ fds' = [fds EXCEPT ![fd].position = index + k]
             \/ /\ 0 < copied /\ copied < k
                /\ reply' = Listed(SubSeq(names, index + 1, index + copied))
                /\ fds' = fds
  /\ UNCHANGED <<files, written>>

ram_file_write(fd, buffer, good) ==
  /\ fds[fd].kind = "ram" /\ fds[fd].access # "r"
  /\ \E i \in ram_file_index(fds[fd].path) :
       LET f == files[i]
           position == IF fds[fd].append THEN f.len ELSE fds[fd].position
           amount == Smaller(Len(buffer), Cap - position)
           done == Copied(amount, good)
           whole == done = amount
       IN /\ position < Cap /\ done > 0
          /\ files' = [files EXCEPT
               ![i].data = [k \in 1 .. Cap |->
                              IF k \in (position + 1) .. (position + done)
                              THEN buffer[k - position] ELSE f.data[k]],
               ![i].len = IF whole THEN Larger(@, position + done) ELSE @]
          /\ fds' = IF whole
                    THEN [fds EXCEPT ![fd].position = position + done] ELSE fds
          /\ reply' = Wrote(done)
          /\ written' = [written EXCEPT
                           ![i] = @ \cup {buffer[k] : k \in 1 .. done}]

(* truncate and ftruncate.  Faulty variant: what is added is not cleared.  *)
GrownStale(f, size) == [f EXCEPT !.len = size]
Grown(f, size) ==
  [f EXCEPT !.len = size,
            !.data = [k \in 1 .. Cap |->
                        IF k \in (f.len + 1) .. size THEN Zero ELSE f.data[k]]]

ram_file_truncate(p, size) ==
  /\ size <= Cap
  /\ \E i \in ram_file_index(p) : files' = [files EXCEPT ![i] = Grown(@, size)]
  /\ reply' = Idle
  /\ UNCHANGED <<fds, written>>

ftruncate(fd, size) == fds[fd].kind = "ram" /\ ram_file_truncate(fds[fd].path, size)

ram_file_remove(p) ==
  /\ \E i \in ram_file_index(p) :
       /\ files' = [files EXCEPT ![i] = Cleared(@)]
       /\ written' = [written EXCEPT ![i] = {}]
  /\ reply' = Idle
  /\ UNCHANGED fds

(* The file that has the new name is cleared first, the renamed one gets   *)
(* its path then: one that keeps its name is cleared.  Faulty variant: the *)
(* file that had the name stays.                                           *)
ReplacedNone(new) == files
Replaced(new) ==
  [i \in Slot |-> IF i \in ram_file_index(new) THEN Cleared(files[i]) ELSE files[i]]

ram_file_rename(old, new) ==
  /\ \E i \in ram_file_index(old) :
       /\ files' = [Replaced(new) EXCEPT ![i].path = new]
       /\ written' = [j \in Slot |->
                        IF j \in ram_file_index(new) THEN {} ELSE written[j]]
  /\ reply' = Idle
  /\ UNCHANGED fds

----------------------------------------------------------------------------
(* What is told about files.                                               *)
Builtin == DOMAIN Binaries \cup DOMAIN Texts
path_exists(p) == ram_file_index(p) # {} \/ p \in Builtin \cup Special

(* stat, lstat, newfstatat and statx know the lengths of built-in files    *)
(* only.                                                                   *)
stat(p) ==
  /\ reply' = IF ~path_exists(p) THEN Absent
              ELSE Sized(IF p \in Builtin THEN Len(Contents(p)) ELSE 0)
  /\ UNCHANGED <<files, fds, written>>

(* A file in the table that has the path of a directory lends it its size. *)
ram_file_size(fd) ==
  IF ram_file_index(fds[fd].path) = {} THEN 0
  ELSE files[CHOOSE i \in ram_file_index(fds[fd].path) : TRUE].len

fstat(fd) ==
  /\ fds[fd].kind # "free"
  /\ reply' = Sized(IF fds[fd].kind = "builtin" THEN Len(Contents(fds[fd].path))
                    ELSE ram_file_size(fd))
  /\ UNCHANGED <<files, fds, written>>

(* access asks for no more than the path.                                  *)
access_path(p) ==
  /\ reply' = IF path_exists(p) THEN Idle ELSE Absent
  /\ UNCHANGED <<files, fds, written>>

----------------------------------------------------------------------------
Buffers == UNION {[1 .. n -> Byte] : n \in 1 .. MaxRequest}

Open ==
  \E p \in Path, a \in Accesses, append, trunc \in BOOLEAN :
    \/ OpenRam(p, a, append, trunc)
    \/ OpenBuiltin(p, a, append, trunc)
    \/ OpenDirectory(p, a, append)
    \/ OpenCreate(p, a, append)

Transfer(fd) ==
  \E good \in 0 .. MaxRequest :
    \/ \E n \in 1 .. MaxRequest : ram_file_read(fd, n, good)
    \/ \E buffer \in Buffers : ram_file_write(fd, buffer, good)

Descriptor(fd) ==
  \/ close(fd) \/ Transfer(fd) \/ fstat(fd)
  \/ \E n \in 1 .. MaxRequest :
       \/ ReadBuiltin(fd, n)
       \/ \E offset \in 0 .. MaxPosition :
            \/ Pread(fd, offset, n)
            \/ \E good \in BOOLEAN : preadv(fd, offset, n, 1, good)
  \/ \E room \in Rooms, copied \in 0 .. MaxRequest : fill_getdents64(fd, room, copied)
  \/ \E position \in 0 .. MaxPosition : lseek(fd, position)
  \/ \E append \in BOOLEAN : SetFlags(fd, append)
  \/ \E size \in 0 .. Cap : ftruncate(fd, size)

Named(p) ==
  \/ ram_file_remove(p) \/ stat(p) \/ access_path(p)
  \/ \E size \in 0 .. Cap : ram_file_truncate(p, size)
  \/ \E new \in Path : ram_file_rename(p, new)

Next == Open \/ (\E fd \in Fds : Descriptor(fd)) \/ \E p \in Path : Named(p)

Spec == Init /\ [][Next]_vars
----------------------------------------------------------------------------
(* Every variable keeps its range.                                         *)
TypeOK ==
  /\ files \in [Slot -> [used : BOOLEAN, path : Path \cup {NoPath}, len : 0 .. Cap,
                         data : [1 .. Cap -> Byte \cup {Zero}]]]
  /\ fds \in [Fds -> [kind : {"free"}]
                     \cup [kind : {"ram", "builtin", "dir"}, path : Path,
                           access : Accesses, append : BOOLEAN, position : Nat]]
  /\ written \in [Slot -> SUBSET Byte]

(* No two files have the same path, however they came to it.               *)
PathsUnique ==
  \A i, j \in Slot :
    files[i].used /\ files[j].used /\ files[i].path = files[j].path => i = j

(* The slots of the table, their reuse, the bytes that stay behind the end *)
(* of a file and the lookups by path do not show: programs see a map from  *)
(* paths to contents.                                                      *)
UsedPaths == {files[i].path : i \in {j \in Slot : files[j].used}}
SlotOf(p) == CHOOSE i \in Slot : files[i].used /\ files[i].path = p

StoredContent ==
  [p \in UsedPaths |-> SubSeq(files[SlotOf(p)].data, 1, files[SlotOf(p)].len)]
StoredWritten == [p \in UsedPaths |-> written[SlotOf(p)]]

Store == INSTANCE FileStore WITH
  Builtin <- [p \in Builtin |-> Contents(p)],
  content <- StoredContent,
  written <- StoredWritten,
  open <- fds

ImplementsStore == Store!Spec
=============================================================================
