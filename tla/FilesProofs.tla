----------------------------- MODULE FilesProofs -----------------------------
(***************************************************************************)
(* Proofs about the two modules of files.  First RamFiles, for every       *)
(* table, every chunk, every set of files and all bounds: types, distinct  *)
(* paths, and the store of FileStore.  Then Vfs, for every number of       *)
(* inodes and blocks, every set of names, paths and contents, and however  *)
(* operations are cut short: the tree, the blocks of files and what files  *)
(* read back.                                                              *)
(***************************************************************************)
EXTENDS RamFiles, Vfs, SequenceTheorems, FiniteSetTheorems,
        WellFoundedInduction, TLAPS

FileType == [used : BOOLEAN, path : Path \cup {NoPath}, len : 0 .. Cap,
             data : [1 .. Cap -> Byte \cup {Zero}]]
FdType == [kind : {"free"}]
          \cup [kind : {"ram", "builtin", "dir"}, path : Path,
                access : Accesses, append : BOOLEAN, position : Nat]

(* A byte of a file was written to it or is zero, also behind the end.     *)
BytesOwn ==
  \A i \in Slot, k \in 1 .. Cap : files[i].data[k] \in {Zero} \cup written[i]

(* Descriptors name what they were opened for.                             *)
FdPaths ==
  \A fd \in Fds :
    /\ fds[fd].kind = "builtin" => fds[fd].path \in DOMAIN Binaries \cup DOMAIN Texts
    /\ fds[fd].kind = "dir" => fds[fd].path \in DOMAIN Directories

(* Only paths name the files in use.                                       *)
UsedNamed == \A i \in Slot : files[i].used => files[i].path \in Path

Inv == TypeOK /\ PathsUnique /\ BytesOwn /\ FdPaths /\ UsedNamed

----------------------------------------------------------------------------
(* What is copied is at most what was asked for.                           *)
LEMMA CopiedRange ==
  ASSUME NEW n \in Nat, NEW good \in Nat
  PROVE  Copied(n, good) \in 0 .. n
<1>0. Chunk \in Nat \ {0}
  BY FileConstants
<1>1. CASE good >= n
  BY <1>1 DEF Copied
<1>2. CASE good < n
  <2> DEFINE q == good \div Chunk
  <2>1. q \in Nat /\ q * Chunk <= good
    BY <1>0
  <2>2. q * Chunk \in Nat
    BY <1>0, <2>1
  <2>3. Copied(n, good) = q * Chunk
    BY <1>2 DEF Copied
  <2> HIDE DEF q
  <2>4. QED
    BY <1>2, <2>1, <2>2, <2>3
<1>3. QED
  BY <1>1, <1>2

LEMMA ClearedType == NoFile \in FileType
BY FileConstants DEF NoFile, FileType

LEMMA InitInv == Init => Inv
<1> SUFFICES ASSUME Init PROVE Inv
  OBVIOUS
<1>1. TypeOK
  <2>1. files \in [Slot -> FileType]
    BY ClearedType DEF Init
  <2>2. fds \in [Fds -> FdType]
    BY DEF Init, Free, FdType
  <2>3. QED
    BY <2>1, <2>2 DEF Init, TypeOK, FileType, FdType
<1>2. PathsUnique /\ BytesOwn /\ UsedNamed
  BY DEF Init, PathsUnique, BytesOwn, UsedNamed, NoFile
<1>3. FdPaths
  BY DEF Init, FdPaths, Free
<1>4. QED
  BY <1>1, <1>2, <1>3 DEF Inv

(* A descriptor is typed and names what it was opened for.                 *)
FdOk(d) ==
  /\ d \in FdType
  /\ d.kind = "builtin" => d.path \in DOMAIN Binaries \cup DOMAIN Texts
  /\ d.kind = "dir" => d.path \in DOMAIN Directories

FdsOk == fds \in [Fds -> FdType] /\ \A fd \in Fds : FdOk(fds[fd])

(* What the table of files keeps to.                                       *)
FilesOk ==
  /\ files \in [Slot -> FileType] /\ written \in [Slot -> SUBSET Byte]
  /\ PathsUnique /\ BytesOwn /\ UsedNamed

LEMMA InvParts == Inv <=> FilesOk /\ FdsOk
BY DEF Inv, TypeOK, FilesOk, FdsOk, FdOk, FileType, FdType, FdPaths

LEMMA InvPartsNext == (Inv <=> FilesOk /\ FdsOk)'
BY InvParts, PTL

LEMMA AllocFdOk ==
  ASSUME FdsOk, NEW d, FdOk(d), AllocFd(d)
  PROVE  FdsOk'
BY DEF FdsOk, FdOk, AllocFd

LEMMA MoveFdOk ==
  ASSUME FdsOk, NEW fd \in Fds, fds[fd].kind # "free", NEW p \in Nat,
         fds' = [fds EXCEPT ![fd].position = p]
  PROVE  FdsOk'
<1>1. FdOk([fds[fd] EXCEPT !.position = p])
  BY DEF FdsOk, FdOk, FdType
<1>2. QED
  BY <1>1 DEF FdsOk, FdOk

LEMMA OpenedOk ==
  ASSUME NEW kind \in {"ram", "builtin", "dir"}, NEW p \in Path,
         NEW access \in Accesses, NEW append \in BOOLEAN,
         kind = "builtin" => p \in DOMAIN Binaries \cup DOMAIN Texts,
         kind = "dir" => p \in DOMAIN Directories
  PROVE  FdOk(Opened(kind, p, access, append))
BY DEF Opened, FdOk, FdType

LEMMA SameFiles ==
  ASSUME FilesOk, UNCHANGED <<files, written>>
  PROVE  FilesOk'
BY DEF FilesOk, PathsUnique, BytesOwn, UsedNamed

LEMMA SameFds ==
  ASSUME FdsOk, UNCHANGED fds
  PROVE  FdsOk'
BY DEF FdsOk, FdOk

(* One file changes and keeps its path.                                    *)
LEMMA OneFile ==
  ASSUME FilesOk, NEW i \in Slot, NEW f \in FileType, NEW w \in SUBSET Byte,
         f.used = files[i].used, f.path = files[i].path,
         \A k \in 1 .. Cap : f.data[k] \in {Zero} \cup w,
         files' = [files EXCEPT ![i] = f],
         written' = [written EXCEPT ![i] = w]
  PROVE  FilesOk'
<1>1. files' \in [Slot -> FileType] /\ written' \in [Slot -> SUBSET Byte]
  BY DEF FilesOk
<1>2. \A j \in Slot : files'[j].used = files[j].used /\ files'[j].path = files[j].path
  BY DEF FilesOk
<1>3. PathsUnique' /\ UsedNamed'
  BY <1>2 DEF FilesOk, PathsUnique, UsedNamed
<1>4. BytesOwn'
  BY DEF FilesOk, BytesOwn
<1>5. QED
  BY <1>1, <1>3, <1>4 DEF FilesOk

(* No name is used twice when a name that is free is taken.                *)
LEMMA FreshFile ==
  ASSUME FilesOk, NEW p \in Path, ram_file_index(p) = {}, ram_file_create(p)
  PROVE  FilesOk'
<1>1. PICK i \in Slot :
        /\ ~files[i].used
        /\ files' = [files EXCEPT ![i] = [NoFile EXCEPT !.used = TRUE, !.path = p]]
        /\ written' = [written EXCEPT ![i] = {}]
  BY DEF ram_file_create, IsLeast, Cleared
<1> DEFINE f == [NoFile EXCEPT !.used = TRUE, !.path = p]
<1>2. f \in FileType /\ f.used /\ f.path = p /\ \A k \in 1 .. Cap : f.data[k] = Zero
  BY ClearedType DEF FileType, NoFile
<1> HIDE DEF f
<1>3. files' = [files EXCEPT ![i] = f]
  BY <1>1 DEF f
<1>4. files' \in [Slot -> FileType] /\ written' \in [Slot -> SUBSET Byte]
  BY <1>1, <1>2, <1>3 DEF FilesOk
<1>5. \A j \in Slot : files[j].used => files[j].path # p
  BY DEF ram_file_index
<1>6. PathsUnique' /\ UsedNamed'
  BY <1>1, <1>2, <1>3, <1>5 DEF FilesOk, PathsUnique, UsedNamed
<1>7. BytesOwn'
  BY <1>1, <1>2, <1>3 DEF FilesOk, BytesOwn
<1>8. QED
  BY <1>4, <1>6, <1>7 DEF FilesOk

LEMMA OpenInv == ASSUME Inv, Open PROVE Inv'
<1>1. FilesOk /\ FdsOk
  BY InvParts
<1>2. SUFFICES FilesOk' /\ FdsOk'
  BY InvPartsNext
<1>3. PICK p \in Path, a \in Accesses, append \in BOOLEAN, trunc \in BOOLEAN :
        \/ OpenRam(p, a, append, trunc)
        \/ OpenBuiltin(p, a, append, trunc)
        \/ OpenDirectory(p, a, append)
        \/ OpenCreate(p, a, append)
  BY DEF Open
<1>4. CASE OpenRam(p, a, append, trunc)
  <2>1. PICK i \in ram_file_index(p) : ram_file_index(p) = {i}
    BY <1>1, <1>4 DEF OpenRam, ram_file_index, FilesOk, PathsUnique
  <2>2. i \in Slot /\ files[i] \in FileType
    BY <1>1 DEF ram_file_index, FilesOk
  <2> DEFINE f == IF trunc /\ a # "r" THEN [files[i] EXCEPT !.len = 0] ELSE files[i]
  <2>3. /\ f \in FileType /\ f.used = files[i].used /\ f.path = files[i].path
        /\ f.data = files[i].data
    BY <2>2, FileConstants DEF FileType
  <2>4. files' = [files EXCEPT ![i] = f]
    BY <1>1, <1>4, <2>1, <2>2 DEF OpenRam, FilesOk
  <2>5. written' = [written EXCEPT ![i] = written[i]]
    BY <1>1, <1>4 DEF OpenRam, FilesOk
  <2>6. \A k \in 1 .. Cap : f.data[k] \in {Zero} \cup written[i]
    BY <1>1, <2>2, <2>3 DEF FilesOk, BytesOwn
  <2> HIDE DEF f
  <2>7. FilesOk'
    BY <1>1, <2>2, <2>3, <2>4, <2>5, <2>6, OneFile DEF FilesOk
  <2>8. QED
    BY <1>1, <1>4, <2>7, OpenedOk, AllocFdOk DEF OpenRam
<1>5. CASE OpenBuiltin(p, a, append, trunc)
  BY <1>1, <1>5, OpenedOk, AllocFdOk, SameFiles DEF OpenBuiltin
<1>6. CASE OpenDirectory(p, a, append)
  BY <1>1, <1>6, OpenedOk, AllocFdOk, SameFiles DEF OpenDirectory
<1>7. CASE OpenCreate(p, a, append)
  BY <1>1, <1>7, OpenedOk, AllocFdOk, FreshFile DEF OpenCreate
<1>8. QED
  BY <1>3, <1>4, <1>5, <1>6, <1>7

LEMMA ReadInv ==
  ASSUME Inv, NEW fd \in Fds, NEW n \in 1 .. MaxRequest,
         NEW good \in 0 .. MaxRequest, ram_file_read(fd, n, good)
  PROVE  Inv'
<1>1. FilesOk /\ FdsOk /\ FilesOk'
  BY InvParts, SameFiles DEF ram_file_read
<1> DEFINE start(i) == Smaller(fds[fd].position, files[i].len)
           amount(i) == Smaller(n, files[i].len - start(i))
           done(i) == Copied(amount(i), good)
<1>2. PICK i \in Slot :
        fds' = IF done(i) = amount(i)
               THEN [fds EXCEPT ![fd].position = start(i) + done(i)] ELSE fds
  BY DEF ram_file_read, ram_file_index
<1>3. files[i].len \in Nat /\ fds[fd].position \in Nat /\ n \in Nat /\ good \in Nat
  BY <1>1, FileConstants DEF FilesOk, FdsOk, FdType, FileType, ram_file_read
<1>4. start(i) \in Nat /\ amount(i) \in Nat
  BY <1>3 DEF Smaller
<1>5. done(i) \in Nat
  BY <1>3, <1>4, CopiedRange
<1>6. start(i) + done(i) \in Nat
  BY <1>4, <1>5
<1> HIDE DEF start, amount, done
<1>7. FdsOk'
  BY <1>1, <1>2, <1>6, MoveFdOk, SameFds DEF ram_file_read
<1>8. QED
  BY <1>1, <1>7, InvPartsNext

LEMMA ContentsLength ==
  ASSUME NEW p \in DOMAIN Binaries \cup DOMAIN Texts
  PROVE  Len(Contents(p)) \in Nat
BY FileConstants DEF Contents

LEMMA ReadBuiltinInv ==
  ASSUME Inv, NEW fd \in Fds, NEW n \in 1 .. MaxRequest, ReadBuiltin(fd, n)
  PROVE  Inv'
<1>1. FilesOk /\ FdsOk /\ FilesOk'
  BY InvParts, SameFiles DEF ReadBuiltin
<1> DEFINE long == Len(Contents(fds[fd].path))
           start == Smaller(fds[fd].position, long)
           amount == Smaller(n, long - start)
<1>2. fds' = [fds EXCEPT ![fd].position = start + amount]
  BY DEF ReadBuiltin
<1>3. fds[fd].position \in Nat /\ n \in Nat /\ long \in Nat
  BY <1>1, ContentsLength, FileConstants DEF FdsOk, FdOk, FdType, ReadBuiltin
<1>4. start + amount \in Nat
  BY <1>3 DEF Smaller
<1> HIDE DEF start, amount
<1>5. FdsOk'
  BY <1>1, <1>2, <1>4, MoveFdOk DEF ReadBuiltin
<1>6. QED
  BY <1>1, <1>5, InvPartsNext

LEMMA ListInv ==
  ASSUME Inv, NEW fd \in Fds, NEW room \in Rooms, NEW copied \in 0 .. MaxRequest,
         fill_getdents64(fd, room, copied)
  PROVE  Inv'
<1>1. FilesOk /\ FdsOk /\ FilesOk'
  BY InvParts, SameFiles DEF fill_getdents64
<1>2. fds[fd].position \in Nat /\ fds[fd].kind = "dir"
  BY <1>1 DEF FdsOk, FdOk, FdType, fill_getdents64
<1>3. Len(Directories[fds[fd].path]) \in Nat
  BY <1>1, <1>2, FileConstants DEF FdsOk, FdOk
<1>4. PICK k \in Nat : \/ fds' = [fds EXCEPT ![fd].position = @ + k]
                       \/ fds' = fds
  BY <1>2, <1>3 DEF fill_getdents64, Larger
<1>5. FdsOk'
  BY <1>1, <1>2, <1>4, MoveFdOk, SameFds
<1>6. QED
  BY <1>1, <1>5, InvPartsNext

(* A write puts its bytes between position and the end of the table entry. *)
LEMMA WrittenBytes ==
  ASSUME NEW position \in Nat, NEW n \in Nat, position < Cap,
         NEW good \in 0 .. MaxRequest
  PROVE  LET done == Copied(Smaller(n, Cap - position), good)
         IN done \in Nat /\ done <= n /\ position + done <= Cap
<1> DEFINE amount == Smaller(n, Cap - position)
<1>1. amount \in Nat /\ amount <= n /\ position + amount <= Cap
  BY FileConstants DEF Smaller
<1>2. good \in Nat
  BY FileConstants
<1> HIDE DEF amount
<1>3. Copied(amount, good) \in 0 .. amount
  BY <1>1, <1>2, CopiedRange
<1>4. /\ Copied(amount, good) \in Nat /\ Copied(amount, good) <= n
      /\ position + Copied(amount, good) <= Cap
  BY <1>1, <1>3, FileConstants
<1>5. QED
  BY <1>4 DEF amount

LEMMA WriteInv ==
  ASSUME Inv, NEW fd \in Fds, NEW buffer \in Buffers,
         NEW good \in 0 .. MaxRequest, ram_file_write(fd, buffer, good)
  PROVE  Inv'
<1>1. FilesOk /\ FdsOk
  BY InvParts
<1>2. PICK m \in 1 .. MaxRequest : buffer \in [1 .. m -> Byte]
  BY DEF Buffers
<1>3. Len(buffer) = m /\ m \in Nat
  BY <1>2
<1> DEFINE at(i) == IF fds[fd].append THEN files[i].len ELSE fds[fd].position
           amount(i) == Smaller(Len(buffer), Cap - at(i))
           done(i) == Copied(amount(i), good)
           new(i) == [k \in 1 .. Cap |->
                        IF k \in (at(i) + 1) .. (at(i) + done(i))
                        THEN buffer[k - at(i)] ELSE files[i].data[k]]
           f(i) == [files[i] EXCEPT !.data = new(i),
                      !.len = IF done(i) = amount(i) THEN Larger(@, at(i) + done(i)) ELSE @]
           w(i) == written[i] \cup {buffer[k] : k \in 1 .. done(i)}
<1>4. PICK i \in Slot :
        /\ at(i) < Cap
        /\ files' = [files EXCEPT
             ![i].data = new(i),
             ![i].len = IF done(i) = amount(i) THEN Larger(@, at(i) + done(i)) ELSE @]
        /\ fds' = IF done(i) = amount(i)
                  THEN [fds EXCEPT ![fd].position = at(i) + done(i)] ELSE fds
        /\ written' = [written EXCEPT ![i] = w(i)]
  BY DEF ram_file_write, ram_file_index
<1>5. files[i] \in FileType /\ fds[fd].kind # "free"
  BY <1>1, FileConstants DEF FilesOk, ram_file_write
<1>6. at(i) \in Nat
  BY <1>1, <1>5, FileConstants DEF FdsOk, FdType, FileType, ram_file_write
<1>7. done(i) \in Nat /\ done(i) <= Len(buffer) /\ at(i) + done(i) <= Cap
  <2> HIDE DEF at
  <2>1. QED
    BY <1>3, <1>4, <1>6, WrittenBytes
<1>8. files' = [files EXCEPT ![i] = f(i)]
  BY <1>1, <1>4, <1>5 DEF FilesOk
<1> HIDE DEF at, done, amount
<1>9. \A k \in 1 .. done(i) : buffer[k] \in Byte
  BY <1>2, <1>3, <1>7
<1>10. new(i) \in [1 .. Cap -> Byte \cup {Zero}]
  <2>1. \A k \in 1 .. Cap : k \in (at(i) + 1) .. (at(i) + done(i)) =>
           k - at(i) \in 1 .. done(i)
    BY <1>6, <1>7, FileConstants
  <2>2. QED
    BY <1>5, <1>9, <2>1 DEF FileType
<1>11. f(i) \in FileType /\ f(i).used = files[i].used /\ f(i).path = files[i].path
       /\ f(i).data = new(i)
  <2>1. Larger(files[i].len, at(i) + done(i)) \in 0 .. Cap
    BY <1>5, <1>6, <1>7, FileConstants DEF Larger, FileType
  <2> HIDE DEF new
  <2>2. QED
    BY <1>5, <1>10, <2>1 DEF FileType
<1>12. w(i) \in SUBSET Byte
  BY <1>1, <1>9 DEF FilesOk
<1>13. \A k \in 1 .. Cap : new(i)[k] \in {Zero} \cup w(i)
  <2>1. \A k \in 1 .. Cap : k \in (at(i) + 1) .. (at(i) + done(i)) =>
           k - at(i) \in 1 .. done(i)
    BY <1>6, <1>7, FileConstants
  <2>2. QED
    BY <1>1, <2>1 DEF FilesOk, BytesOwn
<1> HIDE DEF new, f, w
<1>14. FilesOk'
  BY <1>1, <1>4, <1>8, <1>11, <1>12, <1>13, OneFile
<1>15. FdsOk'
  <2>1. at(i) + done(i) \in Nat
    BY <1>6, <1>7
  <2>2. QED
    BY <1>1, <1>4, <1>5, <2>1, MoveFdOk, SameFds
<1>16. QED
  BY <1>14, <1>15, InvPartsNext

LEMMA GrownOk ==
  ASSUME FilesOk, NEW i \in Slot, NEW size \in 0 .. Cap
  PROVE  /\ Grown(files[i], size) \in FileType
         /\ Grown(files[i], size).used = files[i].used
         /\ Grown(files[i], size).path = files[i].path
         /\ Grown(files[i], size).len = size
         /\ \A k \in 1 .. Cap :
              /\ Grown(files[i], size).data[k] =
                   IF k \in (files[i].len + 1) .. size THEN Zero ELSE files[i].data[k]
              /\ Grown(files[i], size).data[k] \in {Zero} \cup written[i]
<1>1. files[i] \in FileType /\ \A k \in 1 .. Cap : files[i].data[k] \in {Zero} \cup written[i]
  BY DEF FilesOk, BytesOwn
<1>2. QED
  BY <1>1 DEF Grown, FileType

LEMMA TruncateInv ==
  ASSUME Inv, NEW p \in Path, NEW size \in 0 .. Cap, ram_file_truncate(p, size)
  PROVE  Inv'
<1>1. FilesOk /\ FdsOk /\ FdsOk'
  BY InvParts, SameFds DEF ram_file_truncate
<1>2. PICK i \in Slot : files' = [files EXCEPT ![i] = Grown(files[i], size)]
  BY <1>1 DEF ram_file_truncate, ram_file_index, FilesOk
<1>3. written' = [written EXCEPT ![i] = written[i]] /\ written[i] \in SUBSET Byte
  BY <1>1 DEF ram_file_truncate, FilesOk
<1>4. FilesOk'
  BY <1>1, <1>2, <1>3, GrownOk, OneFile
<1>5. QED
  BY <1>1, <1>4, InvPartsNext

LEMMA RemoveInv ==
  ASSUME Inv, NEW p \in Path, ram_file_remove(p)
  PROVE  Inv'
<1>1. FilesOk /\ FdsOk /\ FdsOk'
  BY InvParts, SameFds DEF ram_file_remove
<1>2. PICK i \in Slot : /\ files' = [files EXCEPT ![i] = NoFile]
                        /\ written' = [written EXCEPT ![i] = {}]
  BY <1>1 DEF ram_file_remove, ram_file_index, Cleared
<1>3. files' \in [Slot -> FileType] /\ written' \in [Slot -> SUBSET Byte]
  BY <1>1, <1>2, ClearedType DEF FilesOk
<1>4. \A j \in Slot : files'[j].used => j # i /\ files'[j] = files[j]
  BY <1>1, <1>2 DEF FilesOk, NoFile
<1>5. PathsUnique' /\ UsedNamed'
  BY <1>1, <1>4 DEF FilesOk, PathsUnique, UsedNamed
<1>6. BytesOwn'
  BY <1>1, <1>2 DEF FilesOk, BytesOwn, NoFile
<1>7. QED
  BY <1>1, <1>3, <1>5, <1>6, InvPartsNext DEF FilesOk

LEMMA RenameInv ==
  ASSUME Inv, NEW old \in Path, NEW new \in Path, ram_file_rename(old, new)
  PROVE  Inv'
<1>1. FilesOk /\ FdsOk /\ FdsOk'
  BY InvParts, SameFds DEF ram_file_rename
<1>2. PICK i \in Slot : files' = [Replaced(new) EXCEPT ![i].path = new]
  BY <1>1 DEF ram_file_rename, ram_file_index
<1>3. written' = [j \in Slot |-> IF j \in ram_file_index(new) THEN {} ELSE written[j]]
  BY DEF ram_file_rename
<1>4. Replaced(new) \in [Slot -> FileType]
  BY <1>1, ClearedType DEF FilesOk, Replaced, Cleared
<1>5. files' \in [Slot -> FileType]
  BY <1>2, <1>4 DEF FileType
<1>6. written' \in [Slot -> SUBSET Byte]
  BY <1>1, <1>3 DEF FilesOk
<1>7. \A j \in Slot : files'[j].used =>
        /\ files[j].used /\ files[j].path # new
        /\ files'[j].path = IF j = i THEN new ELSE files[j].path
  BY <1>2, <1>4 DEF Replaced, ram_file_index, Cleared, NoFile, FileType
<1>8. PathsUnique' /\ UsedNamed'
  BY <1>1, <1>7 DEF FilesOk, PathsUnique, UsedNamed
<1>9. \A j \in Slot : files'[j].data = Replaced(new)[j].data
  BY <1>2, <1>4 DEF FileType
<1>10. BytesOwn'
  BY <1>1, <1>3, <1>9 DEF FilesOk, BytesOwn, Replaced, Cleared, NoFile
<1>11. QED
  BY <1>1, <1>5, <1>6, <1>8, <1>10, InvPartsNext DEF FilesOk

LEMMA NextInv == Inv /\ [Next]_vars => Inv'
<1> SUFFICES ASSUME Inv, [Next]_vars PROVE Inv'
  OBVIOUS
<1>1. FilesOk /\ FdsOk
  BY InvParts
<1>2. CASE Open
  BY <1>2, OpenInv
<1>3. ASSUME NEW fd \in Fds, Descriptor(fd) PROVE Inv'
  <2>1. CASE close(fd)
    <3>1. FdsOk'
      BY <1>1, <2>1 DEF close, Free, FdsOk, FdOk, FdType
    <3>2. QED
      BY <1>1, <2>1, <3>1, SameFiles, InvPartsNext DEF close
  <2>2. CASE Transfer(fd)
    BY <2>2, ReadInv, WriteInv DEF Transfer
  <2>3. ASSUME NEW n \in 1 .. MaxRequest, ReadBuiltin(fd, n) PROVE Inv'
    BY <2>3, ReadBuiltinInv
  <2>4. ASSUME NEW offset, NEW n, Pread(fd, offset, n) PROVE Inv'
    BY <1>1, <2>4, SameFiles, SameFds, InvPartsNext DEF Pread
  <2>5. ASSUME NEW offset, NEW n, NEW good, preadv(fd, offset, n, 1, good)
        PROVE  Inv'
    BY <2>4, <2>5 DEF preadv
  <2>6. ASSUME NEW room \in Rooms, NEW copied \in 0 .. MaxRequest,
               fill_getdents64(fd, room, copied)
        PROVE  Inv'
    BY <2>6, ListInv
  <2>7. ASSUME NEW position \in 0 .. MaxPosition, lseek(fd, position) PROVE Inv'
    <3>1. position \in Nat
      BY FileConstants
    <3>2. QED
      BY <1>1, <2>7, <3>1, MoveFdOk, SameFiles, InvPartsNext DEF lseek
  <2>8. ASSUME NEW append \in BOOLEAN, SetFlags(fd, append) PROVE Inv'
    <3>1. FdOk([fds[fd] EXCEPT !.append = append])
      BY <1>1, <2>8 DEF SetFlags, FdsOk, FdOk, FdType
    <3>2. FdsOk'
      BY <1>1, <2>8, <3>1 DEF SetFlags, FdsOk, FdOk
    <3>3. QED
      BY <1>1, <2>8, <3>2, SameFiles, InvPartsNext DEF SetFlags
  <2>9. ASSUME NEW size \in 0 .. Cap, ftruncate(fd, size) PROVE Inv'
    <3>1. fds[fd].path \in Path
      BY <1>1, <2>9 DEF ftruncate, FdsOk, FdType
    <3>2. QED
      BY <2>9, <3>1, TruncateInv DEF ftruncate
  <2>10. CASE fstat(fd)
    BY <1>1, <2>10, SameFiles, SameFds, InvPartsNext DEF fstat
  <2>11. QED
    BY <1>3, <2>1, <2>2, <2>3, <2>4, <2>5, <2>6, <2>7, <2>8, <2>9, <2>10
    DEF Descriptor
<1>4. ASSUME NEW p \in Path, Named(p) PROVE Inv'
  <2>1. CASE stat(p) \/ access_path(p)
    BY <1>1, <2>1, SameFiles, SameFds, InvPartsNext DEF stat, access_path
  <2>2. QED
    BY <1>4, <2>1, RemoveInv, TruncateInv, RenameInv DEF Named
<1>5. CASE UNCHANGED vars
  BY <1>1, <1>5, SameFiles, SameFds, InvPartsNext DEF vars
<1>6. QED
  BY <1>2, <1>3, <1>4, <1>5 DEF Next

LEMMA Invariant == Spec => []Inv
BY InitInv, NextInv, PTL DEF Spec

(* The table, the descriptors and the record of writes keep their types:   *)
(* lengths stay within RAM_FILE_CAPACITY.                                  *)
THEOREM TypeCorrect == Spec => []TypeOK
BY Invariant, PTL DEF Inv

(* Open, rename and unlink never leave two files under one path: the       *)
(* lookup by path, which stops at the first match, finds the only one.     *)
THEOREM PathsStayUnique == Spec => []PathsUnique
BY Invariant, PTL DEF Inv

----------------------------------------------------------------------------
(* The store of FileStore.                                                 *)

Visible(f) == [k \in 1 .. f.len |-> f.data[k]]

LEMMA Prefix ==
  ASSUME NEW S, NEW s \in [1 .. Cap -> S], NEW n \in 0 .. Cap
  PROVE  SubSeq(s, 1, n) = [k \in 1 .. n |-> s[k]]
<1>1. Cap \in Nat /\ n \in Nat
  BY FileConstants
<1>2. s \in Seq(S) /\ Len(s) = Cap
  BY <1>1
<1>3. SubSeq(s, 1, n) \in Seq(S) /\ Len(SubSeq(s, 1, n)) = n
      /\ \A k \in 1 .. n : SubSeq(s, 1, n)[k] = s[k]
  BY <1>1, <1>2
<1>4. QED
  BY <1>1, <1>3

LEMMA PartOfPrefix ==
  ASSUME NEW S, NEW s \in [1 .. Cap -> S], NEW n \in 0 .. Cap,
         NEW a \in Nat, NEW b \in Nat, a + b <= n
  PROVE  SubSeq([k \in 1 .. n |-> s[k]], a + 1, a + b) = SubSeq(s, a + 1, a + b)
<1>1. Cap \in Nat /\ n \in Nat
  BY FileConstants
<1> DEFINE t == [k \in 1 .. n |-> s[k]]
<1>2. s \in Seq(S) /\ Len(s) = Cap /\ t \in Seq(S) /\ Len(t) = n
  BY <1>1
<1>3. \A k \in 1 .. n : t[k] = s[k]
  OBVIOUS
<1> HIDE DEF t
<1>4. /\ SubSeq(s, a + 1, a + b) \in Seq(S) /\ Len(SubSeq(s, a + 1, a + b)) = b
      /\ \A k \in 1 .. b : SubSeq(s, a + 1, a + b)[k] = s[a + k]
  BY <1>1, <1>2
<1>5. /\ SubSeq(t, a + 1, a + b) \in Seq(S) /\ Len(SubSeq(t, a + 1, a + b)) = b
      /\ \A k \in 1 .. b : SubSeq(t, a + 1, a + b)[k] = t[a + k]
  BY <1>1, <1>2
<1>6. \A k \in 1 .. b : t[a + k] = s[a + k]
  BY <1>1, <1>3
<1>7. QED
  BY <1>4, <1>5, <1>6, <1>1, SeqEqual DEF t

(* What the lookup by path makes of the table.                             *)
StoredIs ==
  /\ StoredContent = [p \in UsedPaths |-> StoredContent[p]]
  /\ StoredWritten = [p \in UsedPaths |-> StoredWritten[p]]
  /\ \A p : p \in UsedPaths <=> \E i \in Slot : files[i].used /\ files[i].path = p
  /\ \A i \in Slot : files[i].used =>
       /\ StoredContent[files[i].path] = Visible(files[i])
       /\ StoredWritten[files[i].path] = written[i]

LEMMA StoredLemma == Inv => StoredIs
<1> SUFFICES ASSUME Inv PROVE StoredIs
  OBVIOUS
<1>1. FilesOk
  BY InvParts
<1>2. \A p : p \in UsedPaths <=> \E i \in Slot : files[i].used /\ files[i].path = p
  BY DEF UsedPaths
<1>3. ASSUME NEW i \in Slot, files[i].used
      PROVE  SlotOf(files[i].path) = i
  <2>1. \E j \in Slot : files[j].used /\ files[j].path = files[i].path
    BY <1>3
  <2> DEFINE j == SlotOf(files[i].path)
  <2>2. j \in Slot /\ files[j].used /\ files[j].path = files[i].path
    BY <2>1 DEF SlotOf
  <2> HIDE DEF j
  <2>3. j = i
    BY <1>1, <1>3, <2>2 DEF FilesOk, PathsUnique
  <2>4. QED
    BY <2>3 DEF j
<1>4. ASSUME NEW i \in Slot, files[i].used
      PROVE  /\ StoredContent[files[i].path] = Visible(files[i])
             /\ StoredWritten[files[i].path] = written[i]
  <2>1. files[i].path \in UsedPaths
    BY <1>2, <1>4
  <2>2. files[i].data \in [1 .. Cap -> Byte \cup {Zero}] /\ files[i].len \in 0 .. Cap
    BY <1>1 DEF FilesOk, FileType
  <2>3. SubSeq(files[i].data, 1, files[i].len) = Visible(files[i])
    BY <2>2, Prefix DEF Visible
  <2>4. StoredContent[files[i].path] = SubSeq(files[i].data, 1, files[i].len)
    BY <1>3, <1>4, <2>1 DEF StoredContent
  <2>5. QED
    BY <1>3, <1>4, <2>1, <2>3, <2>4 DEF StoredWritten
<1>5. /\ StoredContent = [p \in UsedPaths |-> StoredContent[p]]
      /\ StoredWritten = [p \in UsedPaths |-> StoredWritten[p]]
  BY DEF StoredContent, StoredWritten
<1>6. QED
  BY <1>2, <1>4, <1>5 DEF StoredIs

LEMMA StoredNext == (Inv => StoredIs)'
BY StoredLemma, PTL

LEMMA StoredNow ==
  ASSUME StoredIs', NEW j \in Slot, files'[j].used
  PROVE  /\ files'[j].path \in UsedPaths'
         /\ StoredContent'[files'[j].path] = Visible(files'[j])
         /\ StoredWritten'[files'[j].path] = written'[j]
BY DEF StoredIs, Visible

LEMMA SameStore ==
  ASSUME UNCHANGED <<files, written>>
  PROVE  StoredContent' = StoredContent /\ StoredWritten' = StoredWritten
BY DEF StoredContent, StoredWritten, UsedPaths, SlotOf

(* One file of the table changes and keeps its path.                       *)
LEMMA ChangedStore ==
  ASSUME Inv, Inv', NEW i \in Slot, NEW f, NEW w,
         files[i].used, f.used, f.path = files[i].path,
         files' = [files EXCEPT ![i] = f],
         written' = [written EXCEPT ![i] = w]
  PROVE  /\ StoredContent' = Store!With(StoredContent, files[i].path, Visible(f))
         /\ StoredWritten' = Store!With(StoredWritten, files[i].path, w)
<1> DEFINE p == files[i].path
<1>1. StoredIs /\ StoredIs' /\ FilesOk
  BY StoredLemma, StoredNext, InvParts
<1>2. files'[i] = f /\ written'[i] = w
      /\ \A j \in Slot \ {i} : files'[j] = files[j] /\ written'[j] = written[j]
  BY <1>1 DEF FilesOk
<1>3. \A j \in Slot : files'[j].used = files[j].used /\ files'[j].path = files[j].path
  BY <1>1, <1>2 DEF FilesOk, FileType
<1>4. UsedPaths' = UsedPaths /\ p \in UsedPaths
  <2>1. \A q : q \in UsedPaths' <=> \E j \in Slot : files'[j].used /\ files'[j].path = q
    BY <1>1 DEF StoredIs
  <2>2. \A q : q \in UsedPaths <=> \E j \in Slot : files[j].used /\ files[j].path = q
    BY <1>1 DEF StoredIs
  <2>3. p \in UsedPaths
    BY <2>2
  <2>4. \A q : q \in UsedPaths' <=> q \in UsedPaths
    BY <1>3, <2>1, <2>2
  <2>5. QED
    BY <2>3, <2>4
<1>5. ASSUME NEW q \in UsedPaths'
      PROVE  /\ StoredContent'[q] = IF q = p THEN Visible(f) ELSE StoredContent[q]
             /\ StoredWritten'[q] = IF q = p THEN w ELSE StoredWritten[q]
  <2>1. PICK j \in Slot : files[j].used /\ files[j].path = q
    BY <1>1, <1>4, <1>5 DEF StoredIs
  <2>2. /\ StoredContent[q] = Visible(files[j]) /\ StoredWritten[q] = written[j]
        /\ StoredContent'[q] = Visible(files'[j]) /\ StoredWritten'[q] = written'[j]
    <3>1. files'[j].used /\ files'[j].path = q
      BY <1>3, <2>1
    <3>2. /\ StoredContent[files[j].path] = Visible(files[j])
          /\ StoredWritten[files[j].path] = written[j]
      BY <1>1, <2>1 DEF StoredIs
    <3>3. /\ StoredContent'[files'[j].path] = Visible(files'[j])
          /\ StoredWritten'[files'[j].path] = written'[j]
      BY <1>1, <3>1, StoredNow
    <3>4. QED
      BY <2>1, <3>1, <3>2, <3>3
  <2>3. q = p <=> j = i
    BY <1>1, <2>1 DEF FilesOk, PathsUnique
  <2>4. QED
    BY <1>2, <2>2, <2>3
<1>6. /\ StoredContent' = [q \in UsedPaths' |-> StoredContent'[q]]
      /\ StoredWritten' = [q \in UsedPaths' |-> StoredWritten'[q]]
      /\ DOMAIN StoredContent = UsedPaths /\ DOMAIN StoredWritten = UsedPaths
  BY <1>1 DEF StoredIs
<1>7. UsedPaths' = UsedPaths \cup {p}
  BY <1>4
<1>8. QED
  BY <1>5, <1>6, <1>7 DEF Store!With

(* A file is made under a new path.                                        *)
LEMMA MadeStore ==
  ASSUME Inv, Inv', NEW i \in Slot, NEW f, NEW p,
         ~files[i].used, f.used, f.path = p, f.len = 0, p \notin UsedPaths,
         files' = [files EXCEPT ![i] = f],
         written' = [written EXCEPT ![i] = {}]
  PROVE  /\ StoredContent' = Store!With(StoredContent, p, <<>>)
         /\ StoredWritten' = Store!With(StoredWritten, p, {})
<1>1. StoredIs /\ StoredIs' /\ FilesOk
  BY StoredLemma, StoredNext, InvParts
<1>2. files'[i] = f /\ written'[i] = {}
      /\ \A j \in Slot \ {i} : files'[j] = files[j] /\ written'[j] = written[j]
  BY <1>1 DEF FilesOk
<1>3. UsedPaths' = UsedPaths \cup {p}
  <2>1. \A q : q \in UsedPaths' <=> \E j \in Slot : files'[j].used /\ files'[j].path = q
    BY <1>1 DEF StoredIs
  <2>2. \A q : q \in UsedPaths <=> \E j \in Slot : files[j].used /\ files[j].path = q
    BY <1>1 DEF StoredIs
  <2>3. \A q : q \in UsedPaths' <=> q \in UsedPaths \/ q = p
    BY <1>2, <2>1, <2>2
  <2>4. QED
    BY <2>3
<1>4. ASSUME NEW q \in UsedPaths'
      PROVE  /\ StoredContent'[q] = IF q = p THEN <<>> ELSE StoredContent[q]
             /\ StoredWritten'[q] = IF q = p THEN {} ELSE StoredWritten[q]
  <2>1. CASE q = p
    <3>1. Visible(f) = <<>>
      BY DEF Visible
    <3>2. StoredContent'[p] = Visible(f) /\ StoredWritten'[p] = {}
      BY <1>1, <1>2, StoredNow
    <3>3. QED
      BY <2>1, <3>1, <3>2
  <2>2. CASE q # p
    <3>1. PICK j \in Slot : files[j].used /\ files[j].path = q
      BY <1>1, <1>3, <1>4, <2>2 DEF StoredIs
    <3>2. files'[j] = files[j] /\ written'[j] = written[j]
      BY <1>2, <3>1
    <3>3. StoredContent[q] = Visible(files[j]) /\ StoredWritten[q] = written[j]
      BY <1>1, <3>1 DEF StoredIs
    <3>4. StoredContent'[q] = Visible(files[j]) /\ StoredWritten'[q] = written[j]
      BY <1>1, <3>1, <3>2, StoredNow
    <3>5. QED
      BY <2>2, <3>3, <3>4
  <2>3. QED
    BY <2>1, <2>2
<1>5. /\ StoredContent' = [q \in UsedPaths' |-> StoredContent'[q]]
      /\ StoredWritten' = [q \in UsedPaths' |-> StoredWritten'[q]]
      /\ DOMAIN StoredContent = UsedPaths /\ DOMAIN StoredWritten = UsedPaths
  BY <1>1 DEF StoredIs
<1>6. QED
  BY <1>3, <1>4, <1>5 DEF Store!With

(* Files that are left alone keep what they hold.                          *)
LEMMA KeptFile ==
  ASSUME StoredIs, StoredIs', NEW j \in Slot, files[j].used, files'[j] = files[j],
         written'[j] = written[j]
  PROVE  LET q == files[j].path
         IN  /\ q \in UsedPaths /\ q \in UsedPaths'
             /\ StoredContent'[q] = StoredContent[q]
             /\ StoredWritten'[q] = StoredWritten[q]
<1>1. /\ files[j].path \in UsedPaths /\ StoredContent[files[j].path] = Visible(files[j])
      /\ StoredWritten[files[j].path] = written[j]
  BY DEF StoredIs
<1>2. /\ files[j].path \in UsedPaths' /\ StoredContent'[files[j].path] = Visible(files[j])
      /\ StoredWritten'[files[j].path] = written[j]
  BY StoredNow
<1>3. QED
  BY <1>1, <1>2

(* A file goes.                                                            *)
LEMMA RemovedStore ==
  ASSUME Inv, Inv', NEW i \in Slot, files[i].used, NEW f, ~f.used,
         files' = [files EXCEPT ![i] = f],
         written' = [written EXCEPT ![i] = {}]
  PROVE  /\ StoredContent' = Store!Without(StoredContent, files[i].path)
         /\ StoredWritten' = Store!Without(StoredWritten, files[i].path)
<1> DEFINE p == files[i].path
<1>1. StoredIs /\ StoredIs' /\ FilesOk
  BY StoredLemma, StoredNext, InvParts
<1>2. ~files'[i].used
      /\ \A j \in Slot \ {i} : files'[j] = files[j] /\ written'[j] = written[j]
  BY <1>1 DEF FilesOk
<1>3. \A j \in Slot : files[j].used /\ files[j].path = p => j = i
  BY <1>1 DEF FilesOk, PathsUnique
<1>4. UsedPaths' = UsedPaths \ {p}
  <2>1. \A q : q \in UsedPaths' <=> \E j \in Slot : files'[j].used /\ files'[j].path = q
    BY <1>1 DEF StoredIs
  <2>2. \A q : q \in UsedPaths <=> \E j \in Slot : files[j].used /\ files[j].path = q
    BY <1>1 DEF StoredIs
  <2>3. \A q : q \in UsedPaths' <=> q \in UsedPaths /\ q # p
    BY <1>2, <1>3, <2>1, <2>2
  <2>4. QED
    BY <2>3
<1>5. ASSUME NEW q \in UsedPaths'
      PROVE  StoredContent'[q] = StoredContent[q] /\ StoredWritten'[q] = StoredWritten[q]
  <2>1. PICK j \in Slot : files[j].used /\ files[j].path = q /\ j # i
    BY <1>1, <1>4, <1>5 DEF StoredIs
  <2>2. QED
    BY <1>1, <1>2, <2>1, KeptFile
<1>6. /\ StoredContent' = [q \in UsedPaths' |-> StoredContent'[q]]
      /\ StoredWritten' = [q \in UsedPaths' |-> StoredWritten'[q]]
      /\ DOMAIN StoredContent = UsedPaths /\ DOMAIN StoredWritten = UsedPaths
  BY <1>1 DEF StoredIs
<1>7. QED
  BY <1>4, <1>5, <1>6 DEF Store!Without

LEMMA RenamedStore ==
  ASSUME Inv, Inv', NEW i \in Slot, files[i].used, NEW new, new # files[i].path,
         files' = [Replaced(new) EXCEPT ![i].path = new],
         written' = [j \in Slot |-> IF j \in ram_file_index(new) THEN {} ELSE written[j]]
  PROVE  LET old == files[i].path
         IN  /\ StoredContent' = Store!With(Store!Without(StoredContent, old), new,
                                            StoredContent[old])
             /\ StoredWritten' = Store!With(Store!Without(StoredWritten, old), new,
                                            StoredWritten[old])
<1> DEFINE old == files[i].path
<1>1. StoredIs /\ StoredIs' /\ FilesOk
  BY StoredLemma, StoredNext, InvParts
<1>2. Replaced(new) \in [Slot -> FileType] /\ i \notin ram_file_index(new)
  BY <1>1, ClearedType DEF FilesOk, Replaced, Cleared, ram_file_index
<1>3. /\ files'[i].used /\ files'[i].path = new /\ files'[i].len = files[i].len
      /\ files'[i].data = files[i].data /\ written'[i] = written[i]
  BY <1>1, <1>2 DEF FilesOk, FileType, Replaced
<1>4. \A j \in Slot \ {i} :
        /\ files[j].used /\ files[j].path # new =>
             files'[j] = files[j] /\ written'[j] = written[j]
        /\ files'[j].used => files[j].used /\ files[j].path # new
  BY <1>1, <1>2 DEF FilesOk, Replaced, ram_file_index, Cleared, NoFile
<1>5. \A j \in Slot : files[j].used /\ files[j].path = old => j = i
  BY <1>1 DEF FilesOk, PathsUnique
<1>6. UsedPaths' = (UsedPaths \ {old}) \cup {new}
  <2>1. \A q : q \in UsedPaths' <=> \E j \in Slot : files'[j].used /\ files'[j].path = q
    BY <1>1 DEF StoredIs
  <2>2. \A q : q \in UsedPaths <=> \E j \in Slot : files[j].used /\ files[j].path = q
    BY <1>1 DEF StoredIs
  <2>3. ASSUME NEW q, q \in UsedPaths' PROVE q = new \/ (q \in UsedPaths /\ q # old)
    <3>1. PICK j \in Slot : files'[j].used /\ files'[j].path = q
      BY <2>1, <2>3
    <3>2. CASE j = i
      BY <1>3, <3>1, <3>2
    <3>3. CASE j # i
      <4>1. files[j].used /\ files'[j] = files[j]
        BY <1>4, <3>1, <3>3
      <4>2. QED
        BY <1>5, <2>2, <3>1, <3>3, <4>1
    <3>4. QED
      BY <3>2, <3>3
  <2>4. ASSUME NEW q, q \in UsedPaths, q # old, q # new PROVE q \in UsedPaths'
    <3>1. PICK j \in Slot : files[j].used /\ files[j].path = q
      BY <2>2, <2>4
    <3>2. files'[j] = files[j]
      BY <1>4, <2>4, <3>1
    <3>3. QED
      BY <2>1, <3>1, <3>2
  <2>5. new \in UsedPaths'
    BY <1>3, <2>1
  <2>6. QED
    BY <2>3, <2>4, <2>5
<1>7. /\ StoredContent'[new] = StoredContent[old]
      /\ StoredWritten'[new] = StoredWritten[old] /\ old \in UsedPaths
  <2>1. /\ StoredContent[old] = Visible(files[i]) /\ StoredWritten[old] = written[i]
        /\ old \in UsedPaths
    BY <1>1 DEF StoredIs
  <2>2. StoredContent'[new] = Visible(files'[i]) /\ StoredWritten'[new] = written'[i]
    BY <1>1, <1>3, StoredNow
  <2>3. Visible(files'[i]) = Visible(files[i])
    BY <1>3 DEF Visible
  <2>4. QED
    BY <1>3, <2>1, <2>2, <2>3
<1>8. ASSUME NEW q \in UsedPaths', q # new
      PROVE  StoredContent'[q] = StoredContent[q] /\ StoredWritten'[q] = StoredWritten[q]
  <2>1. PICK j \in Slot : files[j].used /\ files[j].path = q /\ j # i
    BY <1>1, <1>6, <1>8 DEF StoredIs
  <2>2. QED
    BY <1>1, <1>4, <1>8, <2>1, KeptFile
<1>9. /\ StoredContent' = [q \in UsedPaths' |-> StoredContent'[q]]
      /\ StoredWritten' = [q \in UsedPaths' |-> StoredWritten'[q]]
      /\ DOMAIN StoredContent = UsedPaths /\ DOMAIN StoredWritten = UsedPaths
  BY <1>1 DEF StoredIs
<1> HIDE DEF old
<1>10. StoredContent' = Store!With(Store!Without(StoredContent, old), new,
                                   StoredContent[old])
  BY <1>6, <1>7, <1>8, <1>9 DEF Store!With, Store!Without
<1>11. StoredWritten' = Store!With(Store!Without(StoredWritten, old), new,
                                   StoredWritten[old])
  BY <1>6, <1>7, <1>8, <1>9 DEF Store!With, Store!Without
<1>12. QED
  BY <1>10, <1>11 DEF old

----------------------------------------------------------------------------
(* Every step is a step of the store.                                      *)
LEMMA WithSame ==
  ASSUME NEW D, NEW f, f = [q \in D |-> f[q]], NEW p \in D
  PROVE  Store!With(f, p, f[p]) = f
<1>1. D \cup {p} = D /\ DOMAIN f = D
  OBVIOUS
<1>2. \A q \in D : (IF q = p THEN f[p] ELSE f[q]) = f[q]
  OBVIOUS
<1>3. [q \in D |-> IF q = p THEN f[p] ELSE f[q]] = [q \in D |-> f[q]]
  BY <1>2
<1>4. QED
  BY <1>1, <1>3 DEF Store!With

LEMMA ChangedContent ==
  ASSUME Inv, Inv', NEW i \in Slot, NEW f,
         files[i].used, f.used, f.path = files[i].path,
         files' = [files EXCEPT ![i] = f], UNCHANGED written
  PROVE  /\ StoredContent' = Store!With(StoredContent, files[i].path, Visible(f))
         /\ StoredWritten' = StoredWritten
         /\ files[i].path \in Store!Files
<1>1. StoredIs /\ FilesOk
  BY StoredLemma, InvParts
<1>2. written' = [written EXCEPT ![i] = written[i]]
  BY <1>1 DEF FilesOk
<1>3. /\ files[i].path \in UsedPaths /\ written[i] = StoredWritten[files[i].path]
      /\ StoredWritten = [p \in UsedPaths |-> StoredWritten[p]]
      /\ DOMAIN StoredContent = UsedPaths
  BY <1>1 DEF StoredIs
<1>4. Store!With(StoredWritten, files[i].path, StoredWritten[files[i].path]) = StoredWritten
  BY <1>3, WithSame
<1> DEFINE w == written[i]
<1>5. written' = [written EXCEPT ![i] = w]
  BY <1>2
<1> HIDE DEF w
<1>6. /\ StoredContent' = Store!With(StoredContent, files[i].path, Visible(f))
      /\ StoredWritten' = Store!With(StoredWritten, files[i].path, w)
  BY <1>5, ChangedStore
<1>7. QED
  BY <1>3, <1>4, <1>6 DEF Store!Files, w

LEMMA FdsMove == FdsOk' => Store!Descriptors
BY FileConstants DEF FdsOk, FdOk, FdType, Store!Descriptors

(* The table is not touched and nothing is reported.                       *)
LEMMA QuietStep ==
  ASSUME Inv', UNCHANGED <<files, written>>, reply' = Idle
  PROVE  Store!OpenFile
<1>1. FdsOk'
  BY InvPartsNext
<1>2. QED
  BY <1>1, FdsMove, SameStore DEF Store!OpenFile, Idle, Store!Idle

LEMMA OpenStep == ASSUME Inv, Inv', Open PROVE Store!Next
<1>1. FilesOk /\ FdsOk /\ FdsOk' /\ StoredIs
  BY InvParts, InvPartsNext, StoredLemma
<1>2. PICK p \in Path, a \in Accesses, append \in BOOLEAN, trunc \in BOOLEAN :
        \/ OpenRam(p, a, append, trunc)
        \/ OpenBuiltin(p, a, append, trunc)
        \/ OpenDirectory(p, a, append)
        \/ OpenCreate(p, a, append)
  BY DEF Open
<1>3. CASE OpenRam(p, a, append, trunc)
  <2>1. PICK i \in ram_file_index(p) : ram_file_index(p) = {i}
    BY <1>1, <1>3 DEF OpenRam, ram_file_index, FilesOk, PathsUnique
  <2>2. i \in Slot /\ files[i].used /\ files[i].path = p /\ p \in UsedPaths
    BY <1>1, <2>1 DEF ram_file_index, StoredIs
  <2>3. CASE trunc /\ a # "r"
    <3> DEFINE f == [files[i] EXCEPT !.len = 0]
    <3>1. files[i] \in FileType
      BY <1>1, <2>2 DEF FilesOk
    <3>2. f.used /\ f.path = files[i].path /\ f.len = 0
      BY <2>2, <3>1 DEF FileType
    <3>3. files' = [files EXCEPT ![i] = f] /\ written' = written
      BY <1>1, <1>3, <2>1, <2>2, <2>3 DEF OpenRam, FilesOk
    <3>4. Visible(f) = <<>>
      BY <3>2 DEF Visible
    <3> HIDE DEF f
    <3>5. /\ StoredContent' = Store!With(StoredContent, p, <<>>)
          /\ StoredWritten' = StoredWritten /\ p \in Store!Files
      BY <2>2, <3>2, <3>3, <3>4, ChangedContent
    <3>6. Store!OpenFile
      BY <1>1, <1>3, <3>5, FdsMove DEF OpenRam, Store!OpenFile, Store!Store, Idle, Store!Idle
    <3>7. QED
      BY <3>6 DEF Store!Next
  <2>4. CASE ~(trunc /\ a # "r")
    <3>1. files' = files
      BY <1>1, <1>3, <2>4 DEF OpenRam, FilesOk
    <3>2. QED
      BY <1>3, <3>1, QuietStep DEF OpenRam, Store!Next
  <2>5. QED
    BY <2>3, <2>4
<1>4. CASE OpenBuiltin(p, a, append, trunc)
  BY <1>4, QuietStep DEF OpenBuiltin, Store!Next
<1>5. CASE OpenDirectory(p, a, append)
  BY <1>5, QuietStep DEF OpenDirectory, Store!Next
<1>6. CASE OpenCreate(p, a, append)
  <2>1. PICK i \in Slot :
          /\ ~files[i].used
          /\ files' = [files EXCEPT ![i] = [NoFile EXCEPT !.used = TRUE, !.path = p]]
          /\ written' = [written EXCEPT ![i] = {}]
    BY <1>6 DEF OpenCreate, ram_file_create, IsLeast, Cleared
  <2> DEFINE f == [NoFile EXCEPT !.used = TRUE, !.path = p]
  <2>2. f.used /\ f.path = p /\ f.len = 0
    BY DEF NoFile
  <2> HIDE DEF f
  <2>3. files' = [files EXCEPT ![i] = f]
    BY <2>1 DEF f
  <2>4. p \notin UsedPaths
    BY <1>1, <1>6 DEF OpenCreate, ram_file_index, StoredIs
  <2>5. p \notin Store!Files
    BY <1>1, <2>4 DEF Store!Files, StoredIs
  <2>6. /\ StoredContent' = Store!With(StoredContent, p, <<>>)
        /\ StoredWritten' = Store!With(StoredWritten, p, {})
    BY <2>1, <2>2, <2>3, <2>4, MadeStore
  <2>7. Store!OpenFile
    BY <1>1, <1>6, <2>5, <2>6, FdsMove
    DEF OpenCreate, Store!OpenFile, Store!Store, Idle, Store!Idle
  <2>8. QED
    BY <2>7 DEF Store!Next
<1>7. QED
  BY <1>2, <1>3, <1>4, <1>5, <1>6

LEMMA TruncateStep ==
  ASSUME Inv, Inv', NEW p \in Path, NEW size \in 0 .. Cap, ram_file_truncate(p, size)
  PROVE  Store!Next
<1>1. FilesOk /\ StoredIs
  BY InvParts, StoredLemma
<1>2. PICK i \in Slot : /\ files' = [files EXCEPT ![i] = Grown(files[i], size)]
                        /\ files[i].used /\ files[i].path = p
  BY <1>1 DEF ram_file_truncate, ram_file_index, FilesOk
<1>3. files[i] \in FileType /\ StoredContent[p] = Visible(files[i])
  BY <1>1, <1>2 DEF FilesOk, StoredIs
<1> DEFINE f == Grown(files[i], size)
           old == StoredContent[p]
<1>4. /\ f.used /\ f.path = p /\ f.len = size
      /\ \A k \in 1 .. Cap : f.data[k] =
           IF k \in (files[i].len + 1) .. size THEN Zero ELSE files[i].data[k]
  BY <1>1, <1>2, GrownOk
<1> HIDE DEF f
<1>5. /\ StoredContent' = Store!With(StoredContent, p, Visible(f))
      /\ StoredWritten' = StoredWritten /\ p \in Store!Files
  BY <1>2, <1>4, ChangedContent, ZenonT(60) DEF f, ram_file_truncate
<1>6. Len(old) = files[i].len /\ files[i].len \in Nat /\ Cap \in Nat
      /\ \A k \in 1 .. files[i].len : old[k] = files[i].data[k]
  BY <1>3, FileConstants DEF Visible, FileType
<1> HIDE DEF old
<1>7. \A k \in 1 .. size : f.data[k] = IF k <= Len(old) THEN old[k] ELSE Zero
  BY <1>4, <1>6
<1>8. Visible(f) = [k \in 1 .. size |-> IF k <= Len(old) THEN old[k] ELSE Zero]
  BY <1>4, <1>7 DEF Visible
<1>9. Store!Truncate(p, size)
  BY <1>5, <1>8 DEF ram_file_truncate, Store!Truncate, Store!Store, Idle, Store!Idle, old
<1>10. QED
  BY <1>9 DEF Store!Next

LEMMA RemoveStep ==
  ASSUME Inv, Inv', NEW p \in Path, ram_file_remove(p)
  PROVE  Store!Next
<1>1. StoredIs
  BY StoredLemma
<1>2. PICK i \in Slot : /\ files[i].used /\ files[i].path = p
                        /\ files' = [files EXCEPT ![i] = NoFile]
                        /\ written' = [written EXCEPT ![i] = {}]
  BY DEF ram_file_remove, ram_file_index, Cleared
<1>3. ~NoFile.used
  BY DEF NoFile
<1>4. /\ StoredContent' = Store!Without(StoredContent, p)
      /\ StoredWritten' = Store!Without(StoredWritten, p)
  BY <1>2, <1>3, RemovedStore
<1>5. p \in Store!Files
  BY <1>1, <1>2 DEF StoredIs, Store!Files
<1>6. Store!Remove(p)
  BY <1>4, <1>5 DEF Store!Remove, ram_file_remove, Idle, Store!Idle
<1>7. QED
  BY <1>6 DEF Store!Next

LEMMA RenameStep ==
  ASSUME Inv, Inv', NEW old \in Path, NEW new \in Path, ram_file_rename(old, new)
  PROVE  Store!Next
<1>1. StoredIs /\ FilesOk
  BY StoredLemma, InvParts
<1>2. PICK i \in Slot : /\ files[i].used /\ files[i].path = old
                        /\ files' = [Replaced(new) EXCEPT ![i].path = new]
  BY DEF ram_file_rename, ram_file_index
<1>3. written' = [j \in Slot |-> IF j \in ram_file_index(new) THEN {} ELSE written[j]]
  BY DEF ram_file_rename
<1>4. old \in Store!Files
  BY <1>1, <1>2 DEF StoredIs, Store!Files
<1>5. CASE old = new
  <2> DEFINE f == [NoFile EXCEPT !.path = new]
  <2>1. ram_file_index(new) = {i}
    BY <1>1, <1>2, <1>5 DEF ram_file_index, FilesOk, PathsUnique
  <2>2. Replaced(new) = [files EXCEPT ![i] = NoFile]
    BY <1>1, <2>1 DEF Replaced, Cleared, FilesOk
  <2>3. files' = [files EXCEPT ![i] = f]
    BY <1>1, <1>2, <2>2 DEF FilesOk
  <2>4. written' = [written EXCEPT ![i] = {}]
    BY <1>1, <1>3, <2>1 DEF FilesOk
  <2>5. ~f.used
    BY DEF NoFile
  <2> HIDE DEF f
  <2>6. /\ StoredContent' = Store!Without(StoredContent, old)
        /\ StoredWritten' = Store!Without(StoredWritten, old)
    BY <1>2, <2>3, <2>4, <2>5, RemovedStore
  <2>7. Store!Rename(old, new)
    BY <1>4, <1>5, <2>6 DEF Store!Rename, ram_file_rename, Idle, Store!Idle
  <2>8. QED
    BY <2>7 DEF Store!Next
<1>6. CASE old # new
  <2>1. /\ StoredContent' = Store!With(Store!Without(StoredContent, old), new,
                                       StoredContent[old])
        /\ StoredWritten' = Store!With(Store!Without(StoredWritten, old), new,
                                       StoredWritten[old])
    BY <1>2, <1>3, <1>6, RenamedStore
  <2>2. Store!Rename(old, new)
    BY <1>4, <1>6, <2>1 DEF Store!Rename, ram_file_rename, Idle, Store!Idle
  <2>3. QED
    BY <2>2 DEF Store!Next
<1>7. QED
  BY <1>5, <1>6

(* Reading a file of the table.                                            *)
LEMMA ReadStep ==
  ASSUME Inv, Inv', NEW fd \in Fds, NEW n \in 1 .. MaxRequest,
         NEW good \in 0 .. MaxRequest, ram_file_read(fd, n, good)
  PROVE  Store!Read(fd, n)
<1>1. StoredIs /\ FilesOk /\ FdsOk
  BY StoredLemma, InvParts
<1> DEFINE at == fds[fd].position
           p == fds[fd].path
           start(i) == Smaller(at, files[i].len)
           amount(i) == Smaller(n, files[i].len - start(i))
           done(i) == Copied(amount(i), good)
<1>2. PICK i \in Slot :
        /\ files[i].used /\ files[i].path = p
        /\ done(i) > 0
        /\ reply' = Got(SubSeq(files[i].data, start(i) + 1, start(i) + done(i)))
        /\ fds' = IF done(i) = amount(i)
                  THEN [fds EXCEPT ![fd].position = start(i) + done(i)] ELSE fds
  BY DEF ram_file_read, ram_file_index
<1>3. /\ files[i].len \in 0 .. Cap /\ Cap \in Nat /\ at \in Nat /\ n \in Nat /\ good \in Nat
      /\ files[i].data \in [1 .. Cap -> Byte \cup {Zero}] /\ files[i].len \in Nat
  BY <1>1, FileConstants DEF FilesOk, FdsOk, FdType, FileType, ram_file_read
<1> DEFINE c == StoredContent[p]
<1>4. c = Visible(files[i]) /\ p \in UsedPaths
  BY <1>1, <1>2 DEF StoredIs
<1>5. Len(c) = files[i].len
  BY <1>3, <1>4 DEF Visible
<1>6. amount(i) \in Nat
  BY <1>3 DEF Smaller
<1> HIDE DEF amount
<1>7. done(i) \in 0 .. amount(i)
  BY <1>3, <1>6, CopiedRange
<1> HIDE DEF done
<1> USE DEF amount
<1>8. amount(i) > 0
  BY <1>2, <1>6, <1>7
<1>9. start(i) = at /\ at < files[i].len
  BY <1>3, <1>8 DEF Smaller
<1>10. /\ done(i) \in 1 .. n /\ at + done(i) <= files[i].len
       /\ done(i) = amount(i) => done(i) = n \/ at + done(i) = files[i].len
  BY <1>2, <1>3, <1>6, <1>7, <1>9 DEF Smaller
<1>11. SubSeq(c, at + 1, at + done(i)) = SubSeq(files[i].data, at + 1, at + done(i))
  <2> DEFINE data == files[i].data
             long == files[i].len
             b == done(i)
  <2>1. /\ data \in [1 .. Cap -> Byte \cup {Zero}] /\ long \in 0 .. Cap
        /\ at \in Nat /\ b \in Nat /\ at + b <= long
    BY <1>3, <1>10
  <2>2. c = [k \in 1 .. long |-> data[k]]
    BY <1>4 DEF Visible
  <2> HIDE DEF data, long, b, at, c
  <2>3. SubSeq([k \in 1 .. long |-> data[k]], at + 1, at + b) = SubSeq(data, at + 1, at + b)
    BY <2>1, PartOfPrefix
  <2>4. QED
    BY <2>2, <2>3 DEF data, b
<1> HIDE DEF c, start, amount, at
<1>12. /\ Store!HasBytes(fds[fd]) /\ Store!Bytes(fds[fd]) = c
  BY <1>1, <1>4 DEF ram_file_read, Store!HasBytes, Store!Bytes, Store!Files, StoredIs, c
<1>13. reply' = Store!Got(SubSeq(c, at + 1, at + done(i)))
  BY <1>2, <1>9, <1>11 DEF Got, Store!Got
<1>14. \/ (done(i) = n \/ at + done(i) = Len(c))
             /\ fds' = [fds EXCEPT ![fd].position = at + done(i)]
       \/ fds' = fds
  BY <1>2, <1>5, <1>9, <1>10
<1>15. StoredContent' = StoredContent /\ StoredWritten' = StoredWritten
  BY SameStore DEF ram_file_read
<1>16. at + done(i) <= Len(c)
  BY <1>5, <1>10
<1>17. QED
  BY <1>10, <1>12, <1>13, <1>14, <1>15, <1>16 DEF Store!Read, at

LEMMA BuiltinBytes ==
  ASSUME Inv, NEW fd \in Fds, fds[fd].kind = "builtin"
  PROVE  /\ Store!HasBytes(fds[fd])
         /\ Store!Bytes(fds[fd]) = Contents(fds[fd].path)
         /\ Len(Contents(fds[fd].path)) \in Nat
         /\ fds[fd].position \in Nat
<1>1. FdsOk /\ fds[fd].path \in Builtin
  BY InvParts DEF FdsOk, FdOk, Builtin
<1>2. fds[fd].position \in Nat
  BY <1>1 DEF FdsOk, FdType
<1>3. QED
  BY <1>1, <1>2, ContentsLength DEF Store!HasBytes, Store!Bytes, Builtin

(* Reading a built-in file.                                                *)
LEMMA ReadBuiltinStep ==
  ASSUME Inv, Inv', NEW fd \in Fds, NEW n \in 1 .. MaxRequest, ReadBuiltin(fd, n)
  PROVE  Store!Next
<1> DEFINE at == fds[fd].position
           c == Contents(fds[fd].path)
           start == Smaller(at, Len(c))
           amount == Smaller(n, Len(c) - start)
<1>1. /\ reply' = IF amount = 0 THEN Idle ELSE Got(SubSeq(c, start + 1, start + amount))
      /\ fds' = [fds EXCEPT ![fd].position = start + amount]
  BY DEF ReadBuiltin
<1>2. /\ Store!HasBytes(fds[fd]) /\ Store!Bytes(fds[fd]) = c
      /\ Len(c) \in Nat /\ at \in Nat /\ n \in Nat
  BY BuiltinBytes, FileConstants DEF ReadBuiltin
<1> HIDE DEF c, at
<1>3. CASE amount = 0
  BY <1>1, <1>3, QuietStep DEF ReadBuiltin, Store!Next
<1>4. CASE amount # 0
  <2>1. /\ start = at /\ amount \in 1 .. n /\ at + amount <= Len(c)
        /\ amount = n \/ at + amount = Len(c)
    BY <1>2, <1>4 DEF Smaller
  <2> HIDE DEF start, amount
  <2>2. /\ reply' = Store!Got(SubSeq(c, at + 1, at + amount))
        /\ fds' = [fds EXCEPT ![fd].position = at + amount]
    BY <1>1, <1>4, <2>1 DEF Got, Store!Got
  <2>3. StoredContent' = StoredContent /\ StoredWritten' = StoredWritten
    BY SameStore DEF ReadBuiltin
  <2>4. Store!Read(fd, n)
    BY <1>2, <2>1, <2>2, <2>3 DEF Store!Read, at
  <2>5. QED
    BY <2>4 DEF Store!Next
<1>5. QED
  BY <1>3, <1>4

LEMMA PreadStep ==
  ASSUME Inv, Inv', NEW fd \in Fds, NEW offset \in 0 .. MaxPosition,
         NEW n \in 1 .. MaxRequest + 1, Pread(fd, offset, n)
  PROVE  Store!Next
<1> DEFINE c == Contents(fds[fd].path)
           amount == Smaller(n, Len(c) - offset)
<1>1. amount > 0 /\ reply' = Got(SubSeq(c, offset + 1, offset + amount))
  BY DEF Pread
<1>2. /\ Store!Bytes(fds[fd]) = c
      /\ Len(c) \in Nat /\ offset \in Nat /\ n \in Nat
  BY BuiltinBytes, FileConstants DEF Pread
<1> HIDE DEF c
<1>3. /\ offset + 1 \in 1 .. Len(c) /\ offset + amount \in 1 .. Len(c)
      /\ offset + 1 <= offset + amount /\ offset + amount < (offset + 1) + n
  BY <1>1, <1>2 DEF Smaller
<1> HIDE DEF amount
<1>4. reply' = Store!Got(SubSeq(c, offset + 1, offset + amount))
  BY <1>1 DEF Got, Store!Got
<1>5. StoredContent' = StoredContent /\ StoredWritten' = StoredWritten /\ fds' = fds
  BY SameStore DEF Pread
<1>6. Store!ReadAt(fd, n)
  BY <1>2, <1>3, <1>4, <1>5 DEF Store!ReadAt, Pread
<1>7. QED
  BY <1>6 DEF Store!Next

(* Listing a directory.                                                    *)
LEMMA ListStep ==
  ASSUME Inv, Inv', NEW fd \in Fds, NEW room \in Rooms, NEW copied \in 0 .. MaxRequest,
         fill_getdents64(fd, room, copied)
  PROVE  Store!List(fd, room)
<1> DEFINE names == Directories[fds[fd].path]
           offset == Offset[fds[fd].path]
           at == fds[fd].position
<1>1. FdsOk
  BY InvParts
<1>2. /\ at \in Nat /\ Len(names) \in Nat /\ copied \in Nat
      /\ fds[fd].path \in DOMAIN Directories /\ fds[fd].kind = "dir"
  BY <1>1, FileConstants DEF FdsOk, FdOk, FdType, fill_getdents64
<1>3. PICK k \in 0 .. Larger(0, Len(names) - at) :
        /\ at + k < Len(names) => ~(offset[at + (k + 1)] - offset[at] <= room)
        /\ \/ /\ copied >= k
              /\ reply' = Listed(SubSeq(names, at + 1, at + k))
              /\ fds' = [fds EXCEPT ![fd].position = at + k]
           \/ /\ 0 < copied /\ copied < k
              /\ reply' = Listed(SubSeq(names, at + 1, at + copied))
              /\ fds' = fds
  BY DEF fill_getdents64
<1>4. k \in 0 .. Len(names) /\ (k > 0 => at + k <= Len(names))
  BY <1>2 DEF Larger
<1>5. StoredContent' = StoredContent /\ StoredWritten' = StoredWritten
  BY SameStore DEF fill_getdents64
<1>6. k = 0 => at >= Len(names) \/ offset[at + 1] - offset[at] > room
  <2>1. ASSUME k = 0, at < Len(names) PROVE offset[at + 1] - offset[at] > room
    <3>1. at + 0 = at /\ at + (0 + 1) = at + 1
      BY <1>2
    <3>2. offset[at + 1] \in Nat /\ offset[at] \in Nat /\ room \in Nat
      BY <1>2, <2>1, FileConstants
    <3>3. QED
      BY <1>3, <2>1, <3>1, <3>2
  <2>2. QED
    BY <1>2, <2>1
<1> DEFINE Hands(m, new) ==
             /\ m > 0 => at + m <= Len(names)
             /\ m = 0 => at >= Len(names) \/ offset[at + 1] - offset[at] > room
             /\ reply' = Store!Listed(SubSeq(names, at + 1, at + m))
             /\ fds' = new
             /\ new = [fds EXCEPT ![fd].position = at + m] \/ new = fds
<1>7. \E m \in 0 .. Len(names) : Hands(m, fds')
  <2>1. CASE copied >= k /\ reply' = Listed(SubSeq(names, at + 1, at + k))
             /\ fds' = [fds EXCEPT ![fd].position = at + k]
    BY <1>4, <1>6, <2>1 DEF Listed, Store!Listed
  <2>2. CASE 0 < copied /\ copied < k /\ fds' = fds
             /\ reply' = Listed(SubSeq(names, at + 1, at + copied))
    <3>1. copied \in 0 .. Len(names) /\ copied # 0 /\ at + copied <= Len(names)
      BY <1>2, <1>4, <2>2
    <3>2. QED
      BY <2>2, <3>1 DEF Listed, Store!Listed
  <2>3. QED
    BY <1>3, <2>1, <2>2
<1>8. QED
  BY <1>2, <1>5, <1>7 DEF Store!List

LEMMA PrefixOf ==
  ASSUME NEW S, NEW m \in Nat, NEW s \in [1 .. m -> S], NEW n \in 0 .. m
  PROVE  SubSeq(s, 1, n) = [k \in 1 .. n |-> s[k]]
<1>1. s \in Seq(S) /\ Len(s) = m /\ n \in Nat
  OBVIOUS
<1>2. SubSeq(s, 1, n) \in Seq(S) /\ Len(SubSeq(s, 1, n)) = n
      /\ \A k \in 1 .. n : SubSeq(s, 1, n)[k] = s[k]
  BY <1>1
<1>3. QED
  BY <1>1, <1>2

(* Writing to a file of the table: what lies between the end and the       *)
(* position is what the slot holds there.                                  *)
LEMMA WriteStep ==
  ASSUME Inv, Inv', NEW fd \in Fds, NEW buffer \in Buffers,
         NEW good \in 0 .. MaxRequest, ram_file_write(fd, buffer, good)
  PROVE  Store!Write(fd, buffer)
<1>1. StoredIs /\ FilesOk /\ FdsOk
  BY StoredLemma, InvParts
<1> DEFINE p == fds[fd].path
           at(i) == IF fds[fd].append THEN files[i].len ELSE fds[fd].position
           amount(i) == Smaller(Len(buffer), Cap - at(i))
           done(i) == Copied(amount(i), good)
           data(i) == [k \in 1 .. Cap |->
                         IF k \in (at(i) + 1) .. (at(i) + done(i))
                         THEN buffer[k - at(i)] ELSE files[i].data[k]]
           f(i) == [files[i] EXCEPT !.data = data(i),
                      !.len = IF done(i) = amount(i) THEN Larger(@, at(i) + done(i)) ELSE @]
           w(i) == written[i] \cup {buffer[k] : k \in 1 .. done(i)}
<1>2. PICK i \in Slot :
        /\ files[i].used /\ files[i].path = p
        /\ at(i) < Cap /\ done(i) > 0
        /\ files' = [files EXCEPT
             ![i].data = data(i),
             ![i].len = IF done(i) = amount(i) THEN Larger(@, at(i) + done(i)) ELSE @]
        /\ fds' = IF done(i) = amount(i)
                  THEN [fds EXCEPT ![fd].position = at(i) + done(i)] ELSE fds
        /\ reply' = Wrote(done(i))
        /\ written' = [written EXCEPT ![i] = w(i)]
  BY DEF ram_file_write, ram_file_index
<1> DEFINE long == files[i].len
           a == at(i)
           k == done(i)
<1>3. PICK m \in 1 .. MaxRequest : buffer \in [1 .. m -> Byte]
  BY DEF Buffers
<1>4. Len(buffer) = m /\ m \in Nat /\ good \in Nat
  BY <1>3, FileConstants
<1>5. /\ files[i] \in FileType /\ long \in 0 .. Cap /\ long \in Nat /\ Cap \in Nat
      /\ files[i].data \in [1 .. Cap -> Byte \cup {Zero}]
  BY <1>1, FileConstants DEF FilesOk, FileType
<1>6. a \in Nat /\ a < Cap
  BY <1>1, <1>2, <1>5 DEF FdsOk, FdType, ram_file_write
<1>7. amount(i) \in Nat /\ a + amount(i) <= Cap /\ amount(i) <= Len(buffer)
  BY <1>4, <1>5, <1>6 DEF Smaller
<1>8. k \in 1 .. amount(i)
  <2> HIDE DEF amount
  <2>1. k \in 0 .. amount(i)
    BY <1>4, <1>7, CopiedRange
  <2>2. QED
    BY <1>2, <1>7, <2>1
<1>9. files' = [files EXCEPT ![i] = f(i)]
  BY <1>1, <1>2, <1>5 DEF FilesOk
<1>10. /\ f(i).used /\ f(i).path = p /\ f(i).data = data(i)
       /\ f(i).len = IF k = amount(i) THEN Larger(long, a + k) ELSE long
  <2> HIDE DEF data, done, amount, at
  <2>1. QED
    BY <1>2, <1>5 DEF FileType
<1> DEFINE c == StoredContent[p]
           new(hole) == [j \in 1 .. Larger(Len(c), a + k) |->
                           IF j \in (a + 1) .. (a + k) THEN buffer[j - a]
                           ELSE IF j <= Len(c) THEN c[j] ELSE hole[j]]
           rest == [j \in (long + 1) .. a |-> files[i].data[j]]
<1>11. /\ c = Visible(files[i]) /\ p \in UsedPaths /\ StoredWritten[p] = written[i]
       /\ DOMAIN StoredContent = UsedPaths /\ DOMAIN StoredWritten = UsedPaths
  BY <1>1, <1>2 DEF StoredIs
<1>12. Len(c) = long /\ \A j \in 1 .. long : c[j] = files[i].data[j]
  BY <1>5, <1>11 DEF Visible
<1>13. rest \in [(Len(c) + 1) .. a -> {Zero} \cup StoredWritten[p]]
  <2>1. \A j \in (long + 1) .. a : j \in 1 .. Cap
    BY <1>5, <1>6
  <2>2. \A j \in 1 .. Cap : files[i].data[j] \in {Zero} \cup written[i]
    BY <1>1 DEF FilesOk, BytesOwn
  <2>3. QED
    BY <1>11, <1>12, <2>1, <2>2
<1> DEFINE whole == Larger(long, a + k)
<1>14. /\ whole \in Nat /\ whole <= Cap /\ long <= whole /\ a + k <= whole
       /\ \A j \in 1 .. whole : ~(j \in (a + 1) .. (a + k)) /\ ~(j <= long) =>
             j \in (long + 1) .. a
  <2> HIDE DEF a, k, long, c, amount, at, done
  <2>1. k \in Nat /\ a + k <= Cap /\ long \in Nat
    BY <1>5, <1>6, <1>7, <1>8
  <2>2. QED
    BY <1>5, <1>6, <2>1 DEF Larger
<1> HIDE DEF a, k, long, c, amount, at, done
<1>15. \A j \in 1 .. whole : j \in 1 .. Cap /\ data(i)[j] =
         IF j \in (a + 1) .. (a + k) THEN buffer[j - a] ELSE files[i].data[j]
  BY <1>5, <1>14 DEF a, k
<1>16. \A j \in 1 .. whole : data(i)[j] = new(rest)[j]
  <2>1. TAKE j \in 1 .. whole
  <2>2. j \in 1 .. Larger(Len(c), a + k)
    BY <1>12
  <2>3. new(rest)[j] = IF j \in (a + 1) .. (a + k) THEN buffer[j - a]
                       ELSE IF j <= Len(c) THEN c[j] ELSE rest[j]
    BY <2>2
  <2>4. CASE j \in (a + 1) .. (a + k)
    BY <1>15, <2>3, <2>4
  <2>5. CASE ~(j \in (a + 1) .. (a + k)) /\ j <= long
    <3>1. j \in 1 .. long
      BY <1>5, <2>5
    <3>2. QED
      BY <1>12, <1>15, <2>3, <2>5, <3>1
  <2>6. CASE ~(j \in (a + 1) .. (a + k)) /\ ~(j <= long)
    <3>1. j \in (long + 1) .. a
      BY <1>14, <2>6
    <3>2. QED
      BY <1>12, <1>15, <2>3, <2>6, <3>1
  <2>7. QED
    BY <2>4, <2>5, <2>6
<1>17. k = amount(i) => Visible(f(i)) = new(rest)
  <2>1. new(rest) = [j \in 1 .. whole |-> new(rest)[j]]
    BY <1>12
  <2> HIDE DEF new, f, data, whole, rest
  <2>2. [j \in 1 .. whole |-> data(i)[j]] = [j \in 1 .. whole |-> new(rest)[j]]
    BY <1>16
  <2>3. ASSUME k = amount(i) PROVE Visible(f(i)) = [j \in 1 .. whole |-> data(i)[j]]
    <3>1. f(i).len = whole /\ f(i).data = data(i)
      BY <1>10, <2>3 DEF whole
    <3>2. QED
      BY <3>1 DEF Visible
  <2>4. QED
    BY <2>1, <2>2, <2>3
<1>18. k # amount(i) => Visible(f(i)) = SubSeq(new(rest), 1, Len(c))
  <2> DEFINE S == {new(rest)[j] : j \in 1 .. whole}
  <2>1. new(rest) \in [1 .. whole -> S]
    BY <1>12
  <2>2. long \in 0 .. whole /\ \A j \in 1 .. long : j \in 1 .. whole
    BY <1>5, <1>14
  <2> HIDE DEF new, f, data, S, whole, rest
  <2>3. SubSeq(new(rest), 1, long) = [j \in 1 .. long |-> new(rest)[j]]
    BY <1>14, <2>1, <2>2, PrefixOf
  <2>4. k # amount(i) => Visible(f(i)) = [j \in 1 .. long |-> new(rest)[j]]
    <3>1. [j \in 1 .. long |-> data(i)[j]] = [j \in 1 .. long |-> new(rest)[j]]
      BY <1>16, <2>2
    <3>2. ASSUME k # amount(i) PROVE Visible(f(i)) = [j \in 1 .. long |-> data(i)[j]]
      <4>1. f(i).len = long /\ f(i).data = data(i)
        BY <1>10, <3>2
      <4>2. QED
        BY <4>1 DEF Visible
    <3>3. QED
      BY <3>1, <3>2
  <2>5. QED
    BY <1>12, <2>3, <2>4
<1> HIDE DEF f, w, new, rest, p
<1>19. /\ StoredContent' = Store!With(StoredContent, p, Visible(f(i)))
       /\ StoredWritten' = Store!With(StoredWritten, p, w(i))
  <2> DEFINE g == f(i)
             v == w(i)
  <2>1. /\ files[i].used /\ files[i].path = p /\ g.used /\ g.path = files[i].path
        /\ files' = [files EXCEPT ![i] = g]
        /\ written' = [written EXCEPT ![i] = v]
    BY <1>2, <1>9, <1>10
  <2> HIDE DEF g, v
  <2>2. /\ StoredContent' = Store!With(StoredContent, files[i].path, Visible(g))
        /\ StoredWritten' = Store!With(StoredWritten, files[i].path, v)
    BY <2>1, ChangedStore
  <2>3. QED
    BY <2>1, <2>2 DEF g, v
<1>20. /\ StoredWritten' = [StoredWritten EXCEPT ![p] = @ \cup {buffer[j] : j \in 1 .. k}]
  <2>1. w(i) = StoredWritten[p] \cup {buffer[j] : j \in 1 .. k}
    BY <1>11 DEF w, k
  <2>2. DOMAIN StoredWritten \cup {p} = DOMAIN StoredWritten
    BY <1>11
  <2>3. StoredWritten' = [q \in DOMAIN StoredWritten |->
                            IF q = p THEN w(i) ELSE StoredWritten[q]]
    BY <1>19, <2>2 DEF Store!With
  <2>4. QED
    BY <2>1, <2>3
<1>21. reply' = Store!Wrote(k)
  BY <1>2 DEF Wrote, Store!Wrote, k
<1>22. Smaller(Len(buffer), Cap - a) = amount(i)
  BY DEF amount, a, at
<1>23. /\ fds[fd].kind = "ram" /\ p \in Store!Files
       /\ a = IF fds[fd].append THEN Len(c) ELSE fds[fd].position
  BY <1>11, <1>12 DEF ram_file_write, Store!Files, a, at, long
<1>24. \/ /\ k = amount(i)
          /\ StoredContent' = Store!With(StoredContent, p, new(rest))
          /\ fds' = [fds EXCEPT ![fd].position = a + k]
       \/ /\ StoredContent' = Store!With(StoredContent, p, SubSeq(new(rest), 1, Len(c)))
          /\ fds' = fds
  BY <1>2, <1>17, <1>18, <1>19 DEF k, a
<1>25. k \in 1 .. Smaller(Len(buffer), Cap - a)
  BY <1>8, <1>22 DEF k
<1>26. \E hole \in [(Len(c) + 1) .. a -> {Zero} \cup StoredWritten[p]] :
         \/ /\ k = Store!Smaller(Len(buffer), Cap - a)
            /\ Store!Store(p, new(hole))
            /\ fds' = [fds EXCEPT ![fd].position = a + k]
         \/ /\ Store!Store(p, SubSeq(new(hole), 1, Len(c)))
            /\ fds' = fds
  <2>1. \/ /\ k = Store!Smaller(Len(buffer), Cap - a)
           /\ Store!Store(p, new(rest))
           /\ fds' = [fds EXCEPT ![fd].position = a + k]
        \/ /\ Store!Store(p, SubSeq(new(rest), 1, Len(c)))
           /\ fds' = fds
    BY <1>22, <1>24 DEF Store!Store, Store!Smaller, Smaller
  <2>2. QED
    BY <1>13, <2>1
<1>27. QED
  BY ZenonT(60), <1>20, <1>21, <1>23, <1>25, <1>26
  DEF Store!Write, Store!Smaller, Smaller, Store!Larger, Larger, new, p, c

(* What stat, fstat and access tell.                                       *)
LEMMA IndexFiles ==
  ASSUME Inv, NEW p
  PROVE  /\ p \in Store!Files <=> ram_file_index(p) # {}
         /\ \A i \in ram_file_index(p) : StoredContent[p] = Visible(files[i])
<1>1. StoredIs
  BY StoredLemma
<1>2. \A i : i \in ram_file_index(p) <=> i \in Slot /\ files[i].used /\ files[i].path = p
  BY DEF ram_file_index
<1>3. p \in Store!Files <=> p \in UsedPaths
  BY <1>1 DEF StoredIs, Store!Files
<1>4. QED
  BY <1>1, <1>2, <1>3 DEF StoredIs

LEMMA StatStep ==
  ASSUME Inv, NEW p \in Path, stat(p)
  PROVE  Store!Next
<1>1. StoredContent' = StoredContent /\ StoredWritten' = StoredWritten /\ fds' = fds
  BY SameStore DEF stat
<1>2. CASE path_exists(p)
  <2>1. reply' = Store!Sized(IF p \in Builtin THEN Len(Contents(p)) ELSE 0)
    BY <1>2 DEF stat, Sized, Store!Sized
  <2>2. Store!Stat(p)
    BY <1>1, <2>1 DEF Store!Stat
  <2>3. QED
    BY <2>2 DEF Store!Next
<1>3. CASE ~path_exists(p)
  <2>1. reply' = Store!Absent /\ p \notin Builtin /\ p \notin Store!Files
    BY <1>3, IndexFiles DEF stat, path_exists, Absent, Store!Absent
  <2>2. Store!Stat(p)
    BY <1>1, <2>1 DEF Store!Stat
  <2>3. QED
    BY <2>2 DEF Store!Next
<1>4. QED
  BY <1>2, <1>3

LEMMA AccessStep ==
  ASSUME Inv, Inv', NEW p \in Path, access_path(p)
  PROVE  Store!Next
<1>1. CASE path_exists(p)
  BY <1>1, QuietStep DEF access_path, Store!Next
<1>2. CASE ~path_exists(p)
  <2>1. StoredContent' = StoredContent /\ StoredWritten' = StoredWritten /\ fds' = fds
    BY SameStore DEF access_path
  <2>2. reply' = Store!Absent /\ p \notin Builtin /\ p \notin Store!Files
    BY <1>2, IndexFiles DEF access_path, path_exists, Absent, Store!Absent
  <2>3. Store!Stat(p)
    BY <2>1, <2>2 DEF Store!Stat
  <2>4. QED
    BY <2>3 DEF Store!Next
<1>3. QED
  BY <1>1, <1>2

LEMMA FstatStep ==
  ASSUME Inv, NEW fd \in Fds, fstat(fd)
  PROVE  Store!Measure(fd)
<1> DEFINE p == fds[fd].path
<1>1. StoredContent' = StoredContent /\ StoredWritten' = StoredWritten /\ fds' = fds
  BY SameStore DEF fstat
<1>2. FdsOk /\ FilesOk
  BY InvParts
<1>3. CASE fds[fd].kind = "builtin"
  <2>1. p \in Builtin
    BY <1>2, <1>3 DEF FdsOk, FdOk, Builtin
  <2>2. Store!FileSize(fds[fd]) = Len(Contents(p))
    BY <1>3, <2>1 DEF Store!FileSize
  <2>3. reply' = Store!Sized(Len(Contents(p)))
    BY <1>3 DEF fstat, Sized, Store!Sized
  <2>4. QED
    BY <1>1, <1>3, <2>2, <2>3 DEF Store!Measure
<1>4. CASE fds[fd].kind # "builtin"
  <2>1. reply' = Store!Sized(ram_file_size(fd)) /\ fds[fd].kind # "free"
    BY <1>4 DEF fstat, Sized, Store!Sized
  <2>2. Store!FileSize(fds[fd]) = ram_file_size(fd)
    <3>1. CASE ram_file_index(p) = {}
      BY <1>4, <3>1, IndexFiles DEF Store!FileSize, ram_file_size
    <3>2. CASE ram_file_index(p) # {}
      <4> DEFINE i == CHOOSE j \in ram_file_index(p) : TRUE
      <4>1. i \in ram_file_index(p)
        BY <3>2
      <4>2. ram_file_size(fd) = files[i].len
        BY <3>2 DEF ram_file_size
      <4> HIDE DEF i
      <4>3. files[i].len \in Nat
        BY <1>2, <4>1, FileConstants DEF FilesOk, FileType, ram_file_index
      <4>4. StoredContent[p] = Visible(files[i]) /\ p \in Store!Files
        BY <3>2, <4>1, IndexFiles
      <4>5. Len(StoredContent[p]) = files[i].len
        BY <4>3, <4>4 DEF Visible
      <4>6. QED
        BY <1>4, <4>2, <4>4, <4>5 DEF Store!FileSize
    <3>3. QED
      BY <3>1, <3>2
  <2>3. QED
    BY <1>1, <2>1, <2>2 DEF Store!Measure
<1>5. QED
  BY <1>3, <1>4

LEMMA NextRefines ==
  Inv /\ Inv' /\ [Next]_vars => [Store!Next]_(Store!vars)
<1> SUFFICES ASSUME Inv, Inv', [Next]_vars
             PROVE  Store!Next \/ UNCHANGED Store!vars
  OBVIOUS
<1>1. CASE Open
  BY <1>1, OpenStep
<1>2. ASSUME NEW fd \in Fds, Descriptor(fd) PROVE Store!Next
  <2>1. CASE close(fd)
    BY <2>1, QuietStep DEF close, Store!Next
  <2>2. CASE Transfer(fd)
    <3>1. PICK good \in 0 .. MaxRequest :
            \/ \E n \in 1 .. MaxRequest : ram_file_read(fd, n, good)
            \/ \E buffer \in Buffers : ram_file_write(fd, buffer, good)
      BY <2>2 DEF Transfer
    <3>2. ASSUME NEW n \in 1 .. MaxRequest, ram_file_read(fd, n, good)
          PROVE  Store!Next
      BY <3>2, ReadStep DEF Store!Next
    <3>3. ASSUME NEW buffer \in Buffers, ram_file_write(fd, buffer, good)
          PROVE  Store!Next
      <4>1. buffer \in Store!Buffers
        BY DEF Buffers, Store!Buffers, Store!Strings
      <4>2. QED
        BY <3>3, <4>1, WriteStep DEF Store!Next
    <3>4. QED
      BY <3>1, <3>2, <3>3
  <2>3. ASSUME NEW n \in 1 .. MaxRequest, ReadBuiltin(fd, n) PROVE Store!Next
    BY <2>3, ReadBuiltinStep
  <2>4. ASSUME NEW offset \in 0 .. MaxPosition, NEW n \in 1 .. MaxRequest + 1,
               Pread(fd, offset, n)
        PROVE  Store!Next
    BY <2>4, PreadStep
  <2>5. ASSUME NEW offset \in 0 .. MaxPosition, NEW n \in 1 .. MaxRequest,
               NEW good \in BOOLEAN, preadv(fd, offset, n, 1, good)
        PROVE  Store!Next
    <3>1. n + (IF good THEN 1 ELSE 0) \in 1 .. MaxRequest + 1
      BY FileConstants
    <3>2. QED
      BY <2>4, <2>5, <3>1 DEF preadv
  <2>6. ASSUME NEW room \in Rooms, NEW copied \in 0 .. MaxRequest,
               fill_getdents64(fd, room, copied)
        PROVE  Store!Next
    BY <2>6, ListStep DEF Store!Next
  <2>7. ASSUME NEW position \in 0 .. MaxPosition, lseek(fd, position)
        PROVE  Store!Next
    BY <2>7, QuietStep DEF lseek, Store!Next
  <2>8. ASSUME NEW append \in BOOLEAN, SetFlags(fd, append) PROVE Store!Next
    BY <2>8, QuietStep DEF SetFlags, Store!Next
  <2>9. ASSUME NEW size \in 0 .. Cap, ftruncate(fd, size) PROVE Store!Next
    <3>1. fds[fd].path \in Path
      BY <2>9, InvParts DEF ftruncate, FdsOk, FdType
    <3>2. QED
      BY <2>9, <3>1, TruncateStep DEF ftruncate
  <2>10. \A n \in 1 .. MaxRequest : n \in 1 .. MaxRequest + 1
    BY FileConstants
  <2>11. CASE fstat(fd)
    BY <2>11, FstatStep DEF Store!Next
  <2>12. QED
    BY <1>2, <2>1, <2>2, <2>3, <2>4, <2>5, <2>6, <2>7, <2>8, <2>9, <2>10, <2>11
    DEF Descriptor
<1>3. ASSUME NEW p \in Path, Named(p) PROVE Store!Next
  BY <1>3, RemoveStep, TruncateStep, RenameStep, StatStep, AccessStep DEF Named
<1>4. CASE UNCHANGED vars
  BY <1>4, SameStore DEF vars, Store!vars
<1>5. QED
  BY <1>1, <1>2, <1>3, <1>4 DEF Next

LEMMA InitRefines == Init => Store!Init
<1> SUFFICES ASSUME Init PROVE Store!Init
  OBVIOUS
<1>1. UsedPaths = {}
  BY DEF Init, UsedPaths, NoFile
<1>2. StoredContent = [p \in {} |-> <<>>] /\ StoredWritten = [p \in {} |-> {}]
  BY <1>1 DEF StoredContent, StoredWritten
<1>3. QED
  BY <1>2 DEF Init, Store!Init, Free, Idle, Store!Idle

(* The table of slots, with its lookups by path, its reuse of slots and    *)
(* the bytes that stay behind the ends of files, implements a map from     *)
(* paths to contents.                                                      *)
THEOREM RefinesStore == Spec => ImplementsStore
BY Invariant, InitRefines, NextRefines, PTL DEF Spec, ImplementsStore, Store!Spec

(* No byte of one file ever shows in another: what a slot holds is zero or *)
(* was written to the file that has the slot now.                          *)
THEOREM BytesStayOwn == Spec => []BytesOwn
BY Invariant, PTL DEF Inv

----------------------------------------------------------------------------
(***************************************************************************)
(* The disk file system, module Vfs.                                       *)
(***************************************************************************)

(* The natural numbers are well founded.                                   *)
LEMMA LessWellFounded ==
  IsWellFoundedOn({ss \in Nat \X Nat : ss[1] < ss[2]}, Nat)
BY NatLessThanWellFounded DEF OpToRel

(* A set of natural numbers that is not empty has a least element.         *)
LEMMA LeastNat ==
  ASSUME NEW S \in SUBSET Nat, S # {}
  PROVE  \E m \in S : \A n \in S : m <= n
<1> DEFINE R == {ss \in Nat \X Nat : ss[1] < ss[2]}
<1>1. \A m, n \in S : <<n, m>> \in R <=> n < m
  OBVIOUS
<1>2. IsWellFoundedOn(R, Nat)
  BY LessWellFounded
<1> HIDE DEF R
<1>3. PICK m \in S : \A n \in S : ~(<<n, m>> \in R)
  BY <1>2, WFMin
<1>4. \A n \in S : ~(n < m)
  BY <1>1, <1>3
<1>5. \A n \in S : m <= n
  BY <1>4
<1>6. QED
  BY <1>5

(* A set that has 0, and n + 1 with every n below k, has k.                *)
LEMMA InductUpTo ==
  ASSUME NEW N \in Nat, NEW S, 0 \in S,
         \A n \in 0 .. N - 1 : n \in S => n + 1 \in S
  PROVE  \A n \in 0 .. N : n \in S
<1> SUFFICES ASSUME NEW x \in 0 .. N, x \notin S PROVE FALSE
  OBVIOUS
<1> DEFINE T == (0 .. N) \ S
<1>1. T \in SUBSET Nat /\ T # {}
  OBVIOUS
<1>2. PICK m \in T : \A n \in T : m <= n
  BY <1>1, LeastNat
<1>3. m # 0 /\ m - 1 \in 0 .. N - 1
  BY <1>2
<1>4. m - 1 \in S
  BY <1>2, <1>3
<1>5. m - 1 + 1 \in S
  BY <1>3, <1>4
<1>6. QED
  BY <1>2, <1>5

(* f is the function that starts at a and goes on with F.                  *)
Recursion(f, N, V, F, a) ==
  /\ f \in [0 .. N -> V]
  /\ f[0] = a
  /\ \A k \in 1 .. N : f[k] = F[<<k, f[k - 1]>>]

(* There is a function that is defined by recursion.                       *)
LEMMA RecursiveFunction ==
  ASSUME NEW N \in Nat, NEW V, NEW F \in [Nat \X V -> V], NEW a \in V
  PROVE  \E f : Recursion(f, N, V, F, a)
<1> USE DEF Recursion
<1> DEFINE Good(n, f) == Recursion(f, n, V, F, a)
           S == {n \in Nat : \E f : Good(n, f)}
<1>1. 0 \in S
  <2>1. Good(0, [k \in 0 .. 0 |-> a])
    OBVIOUS
  <2>2. QED
    BY <2>1
<1>2. \A n \in 0 .. N - 1 : n \in S => n + 1 \in S
  <2> SUFFICES ASSUME NEW n \in Nat, NEW f, Good(n, f)
               PROVE  \E g : Good(n + 1, g)
    OBVIOUS
  <2> DEFINE g == [k \in 0 .. n + 1 |-> IF k <= n THEN f[k]
                                        ELSE F[<<n + 1, f[n]>>]]
  <2>1. f[n] \in V /\ F[<<n + 1, f[n]>>] \in V
    OBVIOUS
  <2>2. g \in [0 .. n + 1 -> V]
    BY <2>1
  <2>3. g[0] = a
    OBVIOUS
  <2>4. ASSUME NEW k \in 1 .. n + 1 PROVE g[k] = F[<<k, g[k - 1]>>]
    <3>1. CASE k <= n
      <4>1. g[k] = f[k] /\ g[k - 1] = f[k - 1]
        BY <3>1
      <4>2. QED
        BY <3>1, <4>1
    <3>2. CASE k = n + 1
      <4>1. g[k] = F[<<n + 1, f[n]>>] /\ g[k - 1] = f[n]
        BY <3>2
      <4>2. QED
        BY <3>2, <4>1
    <3>3. QED
      BY <3>1, <3>2
  <2> HIDE DEF g
  <2>5. Good(n + 1, g)
    BY <2>2, <2>3, <2>4
  <2>6. QED
    BY <2>5
<1>3. N \in S
  <2> HIDE DEF S
  <2>1. \A n \in 0 .. N : n \in S
    BY <1>1, <1>2, InductUpTo
  <2>2. QED
    BY <2>1
<1>4. PICK f : Good(N, f)
  BY <1>3
<1>5. QED
  BY <1>4

----------------------------------------------------------------------------
(* The directories.  B are the entries of the lists, and R numbers them so *)
(* that the numbers grow along a list.  The domain of R are the inodes     *)
(* that the file system uses: all but those that the format did not clear. *)

Stored == BlockContents \cup {"junk"}
Disk == [super : BOOLEAN, bitmap : SUBSET DataBlocks,
         inode : [InodeNos -> Inode], block : [DataBlocks -> Stored]]

(* The head of the list of a directory.                                    *)
HeadOk(d, B, p) ==
  LET i == d.inode[p].first_child
  IN i # 0 => d.inode[p].kind = 2 /\ i \in B /\ d.inode[i].parent = p

(* What comes behind an entry: no other entry and no directory points to it. *)
NextOk(d, B, R, i) ==
  LET n == d.inode[i].next_sibling
  IN n # 0 => /\ n \in B /\ R[i] < R[n]
              /\ d.inode[n].parent = d.inode[i].parent
              /\ d.inode[d.inode[i].parent].first_child # n
              /\ \A j \in B : d.inode[j].next_sibling = n => j = i

(* An entry is in use, somewhere in the list of its parent, and named      *)
(* alone, unless its name was cut.                                         *)
EntryOk(d, B, i) ==
  LET n == d.inode[i]
  IN /\ n.kind # 0 /\ n.parent \notin {0, i}
     /\ \/ d.inode[n.parent].first_child = i
        \/ \E j \in B : d.inode[j].next_sibling = i
     /\ \A j \in B : d.inode[j].parent = n.parent /\ d.inode[j].name = n.name
                       => j = i \/ n.name \in Cutoffs

RootOk(d) == /\ d.inode[Root].kind = 2
             /\ d.inode[Root].parent = 0
             /\ d.inode[Root].next_sibling = 0

(* The inodes that the file system uses: it goes up to no other, and none  *)
(* of the others is free.                                                  *)
Home(d, C) ==
  /\ C \subseteq InodeNos /\ Root \in C
  /\ \A p \in C : d.inode[p].parent \in {0} \cup C
  /\ \A i \in InodeNos \ C : d.inode[i].kind # 0

Lists(d, B, R) ==
  /\ B \subseteq DOMAIN R \ {Root} /\ R \in [DOMAIN R -> Nat]
  /\ Home(d, DOMAIN R)
  /\ RootOk(d)
  /\ \A p \in DOMAIN R : HeadOk(d, B, p)
  /\ \A i \in B : NextOk(d, B, R, i) /\ EntryOk(d, B, i)

(* The numbers from 1 to n, and from 0 to n - 1.                           *)
LEMMA CountUpTo ==
  ASSUME NEW n \in Nat
  PROVE  /\ IsFiniteSet(1 .. n) /\ Cardinality(1 .. n) = n
         /\ IsFiniteSet(0 .. n - 1) /\ Cardinality(0 .. n - 1) = n
<1>1. 0 \in Int /\ 1 \in Int /\ n \in Int /\ n - 1 \in Int
  OBVIOUS
<1>2. /\ IsFiniteSet(1 .. n)
      /\ Cardinality(1 .. n) = IF 1 > n THEN 0 ELSE n - 1 + 1
  BY <1>1, FS_Interval
<1>3. /\ IsFiniteSet(0 .. n - 1)
      /\ Cardinality(0 .. n - 1) = IF 0 > n - 1 THEN 0 ELSE n - 1 - 0 + 1
  BY <1>1, FS_Interval
<1>4. QED
  BY <1>2, <1>3

(* A function from n + 1 numbers to n takes a value twice.                 *)
LEMMA OneMoreThan ==
  ASSUME NEW n \in Nat, NEW f \in [0 .. n -> 1 .. n]
  PROVE  \E x \in 0 .. n, y \in 0 .. n : x # y /\ f[x] = f[y]
<1> DEFINE S == 0 .. n
           T == 1 .. n
           m == n + 1
<1>1. m \in Nat /\ m - 1 = n /\ n < m
  OBVIOUS
<1> HIDE DEF m
<1>2. IsFiniteSet(0 .. m - 1) /\ Cardinality(0 .. m - 1) = m
  BY <1>1, CountUpTo
<1>3. IsFiniteSet(S) /\ Cardinality(S) = m
  BY <1>1, <1>2
<1>4. IsFiniteSet(T) /\ Cardinality(T) = n
  BY CountUpTo
<1>5. f \in [S -> T]
  OBVIOUS
<1> HIDE DEF S, T
<1>6. Cardinality(T) < Cardinality(S)
  BY <1>1, <1>3, <1>4
<1>7. \E x, y \in S : x # y /\ f[x] = f[y]
  BY <1>3, <1>4, <1>5, <1>6, FS_PigeonHole, ZenonT(30)
<1>8. QED
  BY <1>7 DEF S

(* The fields of an inode have their ranges.                               *)
LEMMA InodeType ==
  ASSUME NEW d \in Disk, NEW i \in InodeNos
  PROVE  /\ Inodes \in Nat /\ Blocks \in Nat
         /\ d.inode[i].kind \in 0 .. 2
         /\ d.inode[i].parent \in 0 .. Inodes
         /\ d.inode[i].first_child \in 0 .. Inodes
         /\ d.inode[i].next_sibling \in 0 .. Inodes
         /\ d.inode[i].start_block \in 0 .. Blocks
         /\ d.inode[i].block_count \in 0 .. Blocks
<1>1. d.inode[i] \in Inode
  BY DEF Disk
<1>2. Inodes \in Nat /\ Blocks \in Nat
  BY VfsConstants
<1>3. QED
  BY <1>1, <1>2 DEF Inode

(* Reading the list of an inode finds its entries, all of them.            *)
ListIs(d, B, p, s) ==
  /\ s \in Seq(InodeNos) /\ Len(s) \in Nat
  /\ \A k \in 1 .. Len(s) : s[k] \in B /\ d.inode[s[k]].parent = p
  /\ Len(s) # 0 => d.inode[p].first_child = s[1]
  /\ \A k \in 1 .. Len(s) - 1 : d.inode[s[k]].next_sibling = s[k + 1]
  /\ \A i \in B : d.inode[i].parent = p => \E k \in 1 .. Len(s) : s[k] = i

LEMMA ListFacts ==
  ASSUME NEW d \in Disk, NEW B, NEW R, Lists(d, B, R), NEW p \in DOMAIN R
  PROVE  ListIs(d, B, p, List(d, d.inode[p].first_child))
<1> DEFINE first == d.inode[p].first_child
           next(f) == [k \in 0 .. Inodes |-> IF k = 0 THEN first
                                             ELSE Behind(d, f[k - 1])]
           F == [kv \in Nat \X (0 .. Inodes) |-> Behind(d, kv[2])]
           at == CHOOSE f : f = next(f)
<1>1. Inodes \in Nat /\ first \in 0 .. Inodes
  <2>1. p \in InodeNos
    BY DEF Lists, Home
  <2>2. QED
    BY <2>1, InodeType
<1>2. /\ B \subseteq DOMAIN R \ {Root} /\ R \in [DOMAIN R -> Nat]
      /\ B \subseteq InodeNos \ {Root} /\ p \in InodeNos
      /\ HeadOk(d, B, p) /\ \A i \in B : R[i] \in Nat
      /\ \A i \in B : NextOk(d, B, R, i) /\ EntryOk(d, B, i)
  BY DEF Lists, Home
<1>3. at = next(at) /\ at \in [0 .. Inodes -> 0 .. Inodes]
  <2>1. ASSUME NEW k \in Nat, NEW i \in 0 .. Inodes
        PROVE  Behind(d, i) \in 0 .. Inodes
    <3>1. CASE i = 0
      BY <1>1, <3>1 DEF Behind
    <3>2. CASE i # 0
      <4>1. i \in InodeNos
        BY <2>1, <3>2 DEF InodeNos
      <4>2. QED
        BY <3>2, <4>1, InodeType DEF Behind
    <3>3. QED
      BY <3>1, <3>2
  <2>2. F \in [Nat \X (0 .. Inodes) -> 0 .. Inodes]
    BY <2>1
  <2> HIDE DEF F
  <2>3. PICK f : Recursion(f, Inodes, 0 .. Inodes, F, first)
    BY <1>1, <2>2, RecursiveFunction
  <2>4. f \in [0 .. Inodes -> 0 .. Inodes] /\ f[0] = first
    BY <2>3 DEF Recursion
  <2>5. ASSUME NEW k \in 1 .. Inodes PROVE f[k] = Behind(d, f[k - 1])
    <3>1. f[k] = F[<<k, f[k - 1]>>]
      BY <2>3 DEF Recursion
    <3>2. k - 1 \in 0 .. Inodes
      BY <1>1
    <3>3. k \in Nat /\ f[k - 1] \in 0 .. Inodes
      BY <1>1, <2>4, <3>2
    <3>4. F[<<k, f[k - 1]>>] = Behind(d, f[k - 1])
      BY <3>3 DEF F
    <3>5. QED
      BY <3>1, <3>4
  <2>6. f = next(f)
    <3>1. \A k \in 0 .. Inodes : f[k] = IF k = 0 THEN first
                                       ELSE Behind(d, f[k - 1])
      BY <1>1, <2>4, <2>5
    <3>2. f = [k \in 0 .. Inodes |-> f[k]]
      BY <2>4
    <3>3. QED
      BY <3>1, <3>2
  <2>7. at = next(at)
    BY <2>6
  <2> HIDE DEF at, first
  <2>8. /\ at = [k \in 0 .. Inodes |-> at[k]]
        /\ at[0] = first
        /\ \A k \in 0 .. Inodes : k # 0 => at[k] = Behind(d, at[k - 1])
    <3> DEFINE after == [k \in 0 .. Inodes |->
                           IF k = 0 THEN first ELSE Behind(d, at[k - 1])]
    <3>1. at = after
      BY <2>7
    <3>2. after = [k \in 0 .. Inodes |-> after[k]]
      OBVIOUS
    <3>3. \A k \in 0 .. Inodes :
            after[k] = IF k = 0 THEN first ELSE Behind(d, at[k - 1])
      OBVIOUS
    <3>4. 0 \in 0 .. Inodes
      BY <1>1
    <3> HIDE DEF after
    <3>5. QED
      BY <3>1, <3>2, <3>3, <3>4
  <2> DEFINE S == {k \in 0 .. Inodes : at[k] \in 0 .. Inodes}
  <2>9. 0 \in S
    BY <1>1, <2>8
  <2>10. ASSUME NEW k \in 0 .. Inodes - 1, k \in S PROVE k + 1 \in S
    <3> DEFINE j == k + 1
    <3>1. j \in 0 .. Inodes /\ j # 0 /\ j - 1 = k
      BY <1>1, <2>10
    <3> HIDE DEF j
    <3>2. at[j] = Behind(d, at[k])
      BY <2>8, <3>1
    <3>3. j \in S
      BY <2>1, <2>10, <3>1, <3>2
    <3>4. QED
      BY <3>3 DEF j
  <2> HIDE DEF S
  <2>11. \A k \in 0 .. Inodes : k \in S
    BY <1>1, <2>9, <2>10, InductUpTo
  <2>12. \A k \in 0 .. Inodes : at[k] \in 0 .. Inodes
    BY <2>11 DEF S
  <2>13. QED
    BY <2>7, <2>8, <2>12
<1> HIDE DEF at
<1>4. /\ at[0] = first
      /\ \A k \in 0 .. Inodes - 1 : at[k + 1] = Behind(d, at[k])
  <2>1. at[0] = first
    BY <1>1, <1>3
  <2>2. ASSUME NEW k \in 0 .. Inodes - 1 PROVE at[k + 1] = Behind(d, at[k])
    <3> DEFINE j == k + 1
    <3>1. j \in 0 .. Inodes /\ j # 0 /\ j - 1 = k
      BY <1>1
    <3>2. QED
      <4> HIDE DEF j, first
      <4>1. at[j] = Behind(d, at[k])
        BY <1>3, <3>1
      <4>2. QED
        BY <4>1 DEF j
  <2>3. QED
    BY <2>1, <2>2
<1> HIDE DEF next, F
(* What is found before the end are entries of p.                          *)
<1>5. \A k \in 0 .. Inodes : at[k] # 0 => at[k] \in B /\ d.inode[at[k]].parent = p
  <2> DEFINE S == {k \in 0 .. Inodes :
                     at[k] # 0 => at[k] \in B /\ d.inode[at[k]].parent = p}
  <2>1. 0 \in S
    BY <1>1, <1>2, <1>4 DEF HeadOk
  <2>2. ASSUME NEW k \in 0 .. Inodes - 1, k \in S PROVE k + 1 \in S
    <3>1. k + 1 \in 0 .. Inodes /\ at[k + 1] = Behind(d, at[k])
      BY <1>1, <1>4
    <3>2. CASE at[k] = 0
      BY <3>1, <3>2 DEF Behind
    <3>3. CASE at[k] # 0
      <4>1. at[k] \in B /\ d.inode[at[k]].parent = p
        BY <2>2, <3>3
      <4>2. NextOk(d, B, R, at[k])
        BY <1>2, <4>1
      <4>3. QED
        BY <3>1, <3>3, <4>1, <4>2 DEF Behind, NextOk
    <3>4. QED
      BY <3>2, <3>3
  <2> HIDE DEF S
  <2>3. \A k \in 0 .. Inodes : k \in S
    BY <1>1, <2>1, <2>2, InductUpTo
  <2>4. QED
    BY <2>3 DEF S
<1>6. \A k \in 0 .. Inodes - 1 : at[k + 1] # 0 =>
        /\ at[k] # 0 /\ at[k + 1] = d.inode[at[k]].next_sibling
        /\ R[at[k]] < R[at[k + 1]]
  <2> SUFFICES ASSUME NEW k \in 0 .. Inodes - 1, at[k + 1] # 0
               PROVE  /\ at[k] # 0 /\ at[k + 1] = d.inode[at[k]].next_sibling
                      /\ R[at[k]] < R[at[k + 1]]
    OBVIOUS
  <2>1. at[k] # 0 /\ at[k + 1] = d.inode[at[k]].next_sibling
    BY <1>4 DEF Behind
  <2>2. k \in 0 .. Inodes
    BY <1>1
  <2>3. NextOk(d, B, R, at[k])
    BY <1>2, <1>5, <2>1, <2>2
  <2>4. QED
    BY <2>1, <2>3 DEF NextOk
(* Before an entry there are entries with smaller numbers.                 *)
<1>7. \A k \in 0 .. Inodes : at[k] # 0 =>
        \A j \in 0 .. k - 1 : at[j] # 0 /\ R[at[j]] < R[at[k]]
  <2> DEFINE S == {k \in 0 .. Inodes : at[k] # 0 =>
                     \A j \in 0 .. k - 1 : at[j] # 0 /\ R[at[j]] < R[at[k]]}
  <2>1. 0 \in S
    BY <1>1
  <2>2. ASSUME NEW k \in 0 .. Inodes - 1, k \in S PROVE k + 1 \in S
    <3>1. k + 1 \in 0 .. Inodes /\ k \in 0 .. Inodes
      BY <1>1
    <3> SUFFICES ASSUME at[k + 1] # 0, NEW j \in 0 .. k
                 PROVE  at[j] # 0 /\ R[at[j]] < R[at[k + 1]]
      BY <3>1
    <3>2. at[k] # 0 /\ R[at[k]] < R[at[k + 1]]
      BY <1>6
    <3>3. j \in 0 .. Inodes
      BY <1>1
    <3>4. CASE j = k
      BY <3>2, <3>4
    <3>5. CASE j # k
      <4>1. j \in 0 .. k - 1
        BY <3>5
      <4>2. at[j] # 0 /\ R[at[j]] < R[at[k]]
        BY <2>2, <3>2, <4>1
      <4>3. R[at[j]] \in Nat /\ R[at[k]] \in Nat /\ R[at[k + 1]] \in Nat
        <5>1. at[j] \in B /\ at[k] \in B /\ at[k + 1] \in B
          BY <1>2, <1>5, <3>1, <3>2, <3>3, <4>2
        <5>2. QED
          BY <1>2, <5>1
      <4>4. QED
        BY <3>2, <4>2, <4>3
    <3>6. QED
      BY <3>4, <3>5
  <2> HIDE DEF S
  <2>3. \A k \in 0 .. Inodes : k \in S
    BY <1>1, <2>1, <2>2, InductUpTo
  <2>4. QED
    BY <2>3 DEF S
(* There are not enough inodes for a list without an end.                  *)
<1>8. \E k \in 0 .. Inodes : at[k] = 0
  <2> SUFFICES ASSUME \A k \in 0 .. Inodes : at[k] # 0 PROVE FALSE
    OBVIOUS
  <2>1. at \in [0 .. Inodes -> InodeNos]
    <3>1. \A k \in 0 .. Inodes : at[k] \in InodeNos
      <4>1. \A k \in 0 .. Inodes : at[k] \in 0 .. Inodes
        BY <1>3
      <4>2. QED
        BY <1>1, <4>1 DEF InodeNos
    <3>2. QED
      BY <1>3, <3>1
  <2>4. PICK x \in 0 .. Inodes, y \in 0 .. Inodes : x # y /\ at[x] = at[y]
    BY <1>1, <2>1, OneMoreThan DEF InodeNos
  <2>5. R[at[x]] \in Nat
    BY <1>2, <1>5
  <2>6. CASE x < y
    <3>1. x \in 0 .. y - 1
      BY <1>1, <2>6
    <3>2. R[at[x]] < R[at[y]]
      BY <1>7, <3>1
    <3>3. QED
      BY <2>4, <2>5, <3>2
  <2>7. CASE y < x
    <3>1. y \in 0 .. x - 1
      BY <1>1, <2>7
    <3>2. R[at[y]] < R[at[x]]
      BY <1>7, <3>1
    <3>3. QED
      BY <2>4, <2>5, <3>2
  <2>8. QED
    BY <1>1, <2>4, <2>6, <2>7
<1>9. PICK m \in 0 .. Inodes : at[m] = 0 /\ \A k \in 0 .. m - 1 : at[k] # 0
  <2> DEFINE S == {k \in 0 .. Inodes : at[k] = 0}
  <2>1. S \in SUBSET Nat /\ S # {}
    BY <1>1, <1>8
  <2>2. PICK m \in S : \A n \in S : m <= n
    BY <2>1, LeastNat
  <2>3. m \in 0 .. Inodes /\ at[m] = 0
    OBVIOUS
  <2>4. \A k \in 0 .. m - 1 : at[k] # 0
    BY <1>1, <2>2, <2>3
  <2>5. QED
    BY <2>3, <2>4
<1>10. \A k \in 0 .. Inodes : at[k] # 0 <=> k < m
  <2>1. ASSUME NEW k \in 0 .. Inodes, at[k] # 0 PROVE k < m
    <3>1. CASE m < k
      <4>1. m \in 0 .. k - 1
        BY <1>1, <3>1
      <4>2. QED
        BY <1>7, <1>9, <2>1, <4>1
    <3>2. QED
      BY <1>1, <1>9, <2>1, <3>1
  <2>2. \A k \in 0 .. Inodes : k < m => k \in 0 .. m - 1
    BY <1>1
  <2>3. QED
    BY <1>9, <2>1, <2>2
<1> DEFINE s == List(d, first)
<1>11. s = [k \in 1 .. m |-> at[k - 1]]
  <2>1. {j \in 0 .. Inodes : at[j] # 0} = 0 .. m - 1
    BY <1>1, <1>10
  <2>2. Cardinality(0 .. m - 1) = m
    BY <1>1, CountUpTo
  <2>3. s = [k \in 1 .. Cardinality({j \in 0 .. Inodes : at[j] # 0}) |-> at[k - 1]]
    BY DEF List, at, next
  <2>4. QED
    BY <2>1, <2>2, <2>3
<1> HIDE DEF s
<1>12. \A k \in 1 .. m : /\ k - 1 \in 0 .. Inodes /\ at[k - 1] # 0
                         /\ at[k - 1] \in B /\ d.inode[at[k - 1]].parent = p
                         /\ at[k - 1] \in InodeNos
  <2>1. ASSUME NEW k \in 1 .. m PROVE k - 1 \in 0 .. Inodes /\ at[k - 1] # 0
    <3>1. k - 1 \in 0 .. Inodes /\ k - 1 < m
      BY <1>1
    <3>2. QED
      BY <1>10, <3>1
  <2>2. QED
    BY <1>2, <1>5, <2>1
<1>13. /\ s \in Seq(InodeNos) /\ Len(s) = m /\ m \in Nat
       /\ \A k \in 1 .. m : s[k] = at[k - 1]
  <2>1. \A k \in 1 .. m : at[k - 1] \in InodeNos
    BY <1>12
  <2>2. m \in Nat
    BY <1>1
  <2>3. QED
    BY <1>11, <2>1, <2>2
<1>14. \A k \in 1 .. m : s[k] \in B /\ d.inode[s[k]].parent = p
  BY <1>12, <1>13
<1>15. m # 0 => first = s[1]
  <2>1. m # 0 => 1 \in 1 .. m /\ s[1] = at[1 - 1] /\ 1 - 1 = 0
    BY <1>13
  <2>2. QED
    BY <1>4, <2>1
<1>16. ASSUME NEW k \in 1 .. m - 1
       PROVE  d.inode[s[k]].next_sibling = s[k + 1]
  <2>1. /\ k \in 1 .. m /\ k + 1 \in 1 .. m /\ k + 1 - 1 = k
        /\ k - 1 \in 0 .. Inodes - 1 /\ k - 1 + 1 = k
    BY <1>1, <1>16
  <2>2. s[k] = at[k - 1] /\ s[k + 1] = at[k] /\ at[k] # 0
    <3> DEFINE j == k + 1
    <3>1. j \in 1 .. m /\ j - 1 = k
      BY <2>1
    <3>2. QED
      <4> HIDE DEF j
      <4>1. s[j] = at[k] /\ at[k] # 0
        BY <1>12, <1>13, <3>1
      <4>2. QED
        BY <1>13, <2>1, <4>1 DEF j
  <2>3. at[k - 1 + 1] = d.inode[at[k - 1]].next_sibling
    BY <1>6, <2>1, <2>2
  <2>4. QED
    BY <2>1, <2>2, <2>3
(* The entry of p with the smallest number that is not found is not there. *)
<1>17. \A i \in B : d.inode[i].parent = p => \E k \in 0 .. m - 1 : at[k] = i
  <2> DEFINE lost == {i \in B : /\ d.inode[i].parent = p
                                /\ ~ \E k \in 0 .. m - 1 : at[k] = i}
  <2> SUFFICES ASSUME lost # {} PROVE FALSE
    OBVIOUS
  <2>1. PICK i \in lost : \A j \in lost : R[i] <= R[j]
    <3> DEFINE S == {R[j] : j \in lost}
    <3>1. S \in SUBSET Nat /\ S # {}
      BY <1>2
    <3>2. PICK r \in S : \A q \in S : r <= q
      BY <3>1, LeastNat
    <3>3. QED
      BY <3>2
  <2>2. i \in B /\ d.inode[i].parent = p /\ \A k \in 0 .. m - 1 : at[k] # i
    OBVIOUS
  <2>3. i \in InodeNos /\ i # 0
    BY <1>1, <1>2, <2>2 DEF InodeNos
  <2>4. CASE d.inode[p].first_child = i
    <3>1. at[0] = i /\ 0 \in 0 .. Inodes
      BY <1>1, <1>4, <2>4
    <3>2. 0 < m
      BY <1>10, <2>3, <3>1
    <3>3. 0 \in 0 .. m - 1
      BY <1>1, <3>2
    <3>4. QED
      BY <2>2, <3>1, <3>3
  <2>5. ASSUME NEW j \in B, d.inode[j].next_sibling = i PROVE FALSE
    <3>1. NextOk(d, B, R, j)
      BY <1>2
    <3>2. R[j] < R[i] /\ d.inode[j].parent = p
      BY <2>2, <2>3, <2>5, <3>1 DEF NextOk
    <3>3. R[i] \in Nat /\ R[j] \in Nat
      BY <1>2, <2>2
    <3>4. j \notin lost
      <4> HIDE DEF lost
      <4>1. QED
        BY <2>1, <3>2, <3>3
    <3>5. PICK k \in 0 .. m - 1 : at[k] = j
      BY <3>2, <3>4
    <3>6. k \in 0 .. Inodes - 1 /\ k + 1 \in 0 .. Inodes
      BY <1>1
    <3>7. at[k + 1] = i
      <4>1. at[k + 1] = Behind(d, j)
        BY <1>4, <3>5, <3>6
      <4>2. j # 0
        BY <1>1, <1>2 DEF InodeNos
      <4>3. QED
        BY <2>5, <4>1, <4>2 DEF Behind
    <3>8. k + 1 < m
      BY <1>10, <2>3, <3>6, <3>7
    <3>9. k + 1 \in 0 .. m - 1
      BY <1>1, <3>8
    <3>10. QED
      BY <2>2, <3>7, <3>9
  <2>6. EntryOk(d, B, i)
    BY <1>2, <2>2
  <2>7. QED
    BY <2>2, <2>4, <2>5, <2>6 DEF EntryOk
<1>18. ASSUME NEW i \in B, d.inode[i].parent = p
       PROVE  \E k \in 1 .. m : s[k] = i
  <2>1. PICK k \in 0 .. m - 1 : at[k] = i
    BY <1>17, <1>18
  <2>2. k + 1 \in 1 .. m /\ k + 1 - 1 = k
    BY <1>1
  <2>3. s[k + 1] = i
    BY <1>13, <2>1, <2>2
  <2>4. QED
    BY <2>2, <2>3
<1>19. QED
  BY <1>13, <1>14, <1>15, <1>16, <1>18 DEF ListIs, s

(* Looking for a name finds an entry of the directory or nothing.          *)
LEMMA ChildOf ==
  ASSUME NEW d \in Disk, NEW B, NEW R, Lists(d, B, R), NEW p \in DOMAIN R,
         NEW name
  PROVE  Child(d, p, name) \in {0} \cup B
<1> DEFINE s == List(d, d.inode[p].first_child)
           named == {k \in DOMAIN s :
                       LET n == d.inode[s[k]] IN n.kind # 0 /\ n.name = name}
<1>1. Child(d, p, name) =
        IF named = {} THEN 0
        ELSE s[CHOOSE k \in named : \A j \in named : k <= j]
  BY DEF Child
<1>2. ListIs(d, B, p, s)
  BY ListFacts
<1> HIDE DEF s
<1>3. named \in SUBSET Nat /\ named \subseteq 1 .. Len(s)
  BY <1>2 DEF ListIs
<1> HIDE DEF named
<1>4. CASE named # {}
  <2>1. \E k \in named : \A j \in named : k <= j
    BY <1>3, <1>4, LeastNat
  <2>2. PICK k \in named : Child(d, p, name) = s[k]
    BY <1>1, <1>4, <2>1
  <2>3. QED
    BY <1>2, <1>3, <2>2 DEF ListIs
<1>5. QED
  BY <1>1, <1>4

(* What a search can answer, and what one more part of the path makes of it. *)
Answers(C) == {NotFound, NotDir} \cup {Found(i) : i \in C}

LEMMA StepAnswers ==
  ASSUME NEW d \in Disk, NEW B, NEW R, Lists(d, B, R), NEW v \in Answers(DOMAIN R),
         NEW part
  PROVE  /\ Step(d, v, part) \in Answers(DOMAIN R)
         /\ part \notin Dots => Step(d, v, part).no \in {0} \cup B
<1>1. CASE v \in {NotFound, NotDir}
  <2>1. v.error # "none" /\ v.no = 0
    BY <1>1 DEF NotFound, NotDir
  <2>2. Step(d, v, part) = v
    BY <2>1 DEF Step
  <2>3. QED
    BY <2>1, <2>2
<1>2. CASE \E i \in DOMAIN R : v = Found(i)
  <2>1. PICK i \in DOMAIN R : v = Found(i)
    BY <1>2
  <2>2. v.no = i /\ v.error = "none"
    BY <2>1 DEF Found
  <2>3. d.inode[i].parent # 0 => d.inode[i].parent \in DOMAIN R
    BY DEF Lists, Home
  <2>5. Child(d, i, part) \in {0} \cup B
    BY ChildOf
  <2>6. B \subseteq DOMAIN R
    BY DEF Lists
  <2>7. Step(d, v, part) =
          IF part \in Stays THEN v
          ELSE IF part = ".." THEN IF d.inode[i].parent # 0
                              THEN Found(d.inode[i].parent) ELSE v
          ELSE IF d.inode[i].kind # 2 THEN NotDir
          ELSE IF Child(d, i, part) = 0 THEN NotFound
          ELSE Found(Child(d, i, part))
    BY <2>2 DEF Step
  <2>8. Step(d, v, part) \in Answers(DOMAIN R)
    BY <1>2, <2>1, <2>3, <2>5, <2>6, <2>7 DEF Answers
  <2>9. ASSUME part \notin Dots PROVE Step(d, v, part).no \in {0} \cup B
    <3>1. Step(d, v, part) \in {NotDir, NotFound, Found(Child(d, i, part))}
      <4>1. part \notin Stays /\ part # ".."
        BY <2>9 DEF Dots
      <4>2. QED
        BY <2>7, <4>1
    <3>2. QED
      BY <2>5, <3>1 DEF NotDir, NotFound, Found
  <2>10. QED
    BY <2>8, <2>9
<1>3. QED
  BY <1>1, <1>2 DEF Answers

(* A search from an inode answers with an inode or an error, and when the  *)
(* path ends in a name, with an entry of a directory or an error.          *)
LEMMA WalkAnswers ==
  ASSUME NEW d \in Disk, NEW B, NEW R, Lists(d, B, R), NEW cur \in DOMAIN R,
         NEW parts, Len(parts) \in Nat
  PROVE  /\ Walk(d, cur, parts) \in Answers(DOMAIN R)
         /\ Len(parts) # 0 /\ parts[Len(parts)] \notin Dots =>
              Walk(d, cur, parts).no \in {0} \cup B
<1> DEFINE next(f) == [k \in 0 .. Len(parts) |->
                         IF k = 0 THEN Found(cur) ELSE Step(d, f[k - 1], parts[k])]
           at == CHOOSE f : f = next(f)
           F == [kv \in Nat \X Answers(DOMAIN R) |-> Step(d, kv[2], parts[kv[1]])]
           n == Len(parts)
           V == Answers(DOMAIN R)
<1>1. F \in [Nat \X V -> V] /\ Found(cur) \in V
  BY StepAnswers DEF Answers
<1> HIDE DEF F
<1>2. PICK f : Recursion(f, n, V, F, Found(cur))
  BY <1>1, RecursiveFunction
<1>3. \A k \in 1 .. n : k - 1 \in 0 .. n /\ f[k - 1] \in V
  BY <1>2 DEF Recursion
<1>4. ASSUME NEW k \in 1 .. n PROVE f[k] = Step(d, f[k - 1], parts[k])
  <2>1. f[k] = F[<<k, f[k - 1]>>]
    BY <1>2 DEF Recursion
  <2>2. <<k, f[k - 1]>> \in Nat \X V
    BY <1>3
  <2>3. QED
    BY <2>1, <2>2 DEF F
<1>5. f = next(f)
  <2>1. \A k \in 0 .. n : f[k] = IF k = 0 THEN Found(cur)
                                ELSE Step(d, f[k - 1], parts[k])
    BY <1>2, <1>4 DEF Recursion
  <2>2. f = [k \in 0 .. n |-> f[k]]
    BY <1>2 DEF Recursion
  <2>3. QED
    BY <2>1, <2>2
<1>6. at = next(at)
  BY <1>5
<1> HIDE DEF at
<1>7. /\ at[0] = Found(cur)
      /\ \A k \in 1 .. n : at[k] = Step(d, at[k - 1], parts[k])
  BY <1>6
<1>8. \A k \in 0 .. n : at[k] \in V
  <2> DEFINE S == {k \in 0 .. n : at[k] \in V}
  <2>1. 0 \in S
    BY <1>1, <1>7
  <2>2. ASSUME NEW m \in 0 .. n - 1, m \in S PROVE m + 1 \in S
    <3>1. m + 1 \in 1 .. n /\ m + 1 - 1 = m /\ m + 1 \in 0 .. n
      BY <2>2
    <3>2. at[m + 1] = Step(d, at[m], parts[m + 1])
      BY <1>7, <3>1
    <3>3. QED
      BY <2>2, <3>1, <3>2, StepAnswers
  <2> HIDE DEF S
  <2>3. \A k \in 0 .. n : k \in S
    BY <2>1, <2>2, InductUpTo
  <2>4. QED
    BY <2>3 DEF S
<1>9. Walk(d, cur, parts) = at[n]
  BY DEF Walk, at
<1>10. ASSUME n # 0, parts[n] \notin Dots
       PROVE  at[n].no \in {0} \cup B
  <2>1. at[n] = Step(d, at[n - 1], parts[n]) /\ at[n - 1] \in V
    BY <1>7, <1>8, <1>10
  <2>2. QED
    BY <1>10, <2>1, StepAnswers
<1>11. QED
  BY <1>8, <1>9, <1>10

----------------------------------------------------------------------------
(* What one page write changes.                                            *)
LEMMA InodeWritten ==
  ASSUME NEW d \in Disk, NEW i \in InodeNos, NEW n \in Inode
  PROVE  LET e == Written(d, WriteInode(i, n)) IN
         /\ e \in Disk
         /\ e.inode[i] = n
         /\ \A j \in InodeNos \ {i} : e.inode[j] = d.inode[j]
         /\ e.super = d.super /\ e.bitmap = d.bitmap /\ e.block = d.block
<1>1. Written(d, WriteInode(i, n)) = [d EXCEPT !.inode[i] = n]
  BY DEF Written, WriteInode
<1>2. QED
  BY <1>1 DEF Disk

LEMMA BitmapWritten ==
  ASSUME NEW d \in Disk, NEW used \in SUBSET DataBlocks
  PROVE  LET e == Written(d, WriteBitmap(used)) IN
         /\ e \in Disk
         /\ e.bitmap = used
         /\ e.super = d.super /\ e.inode = d.inode /\ e.block = d.block
<1>1. Written(d, WriteBitmap(used)) = [d EXCEPT !.bitmap = used]
  BY DEF Written, WriteBitmap
<1>2. QED
  BY <1>1 DEF Disk

LEMMA BlockWritten ==
  ASSUME NEW d \in Disk, NEW b \in DataBlocks, NEW c \in Stored
  PROVE  LET e == Written(d, WriteBlock(b, c)) IN
         /\ e \in Disk
         /\ e.block = [d.block EXCEPT ![b] = c]
         /\ e.super = d.super /\ e.inode = d.inode /\ e.bitmap = d.bitmap
<1>1. Written(d, WriteBlock(b, c)) = [d EXCEPT !.block[b] = c]
  BY DEF Written, WriteBlock
<1>2. QED
  BY <1>1 DEF Disk

----------------------------------------------------------------------------
(* An operation runs through its writes.  What a write changes are the disk *)
(* and two of the ghosts; t is the file it stores to, and c what it stores. *)
(* What the format did not clear stays.                                    *)

World == [disk : Disk, saved : [InodeNos -> Seq(Stored)], freed : BOOLEAN,
          stale : SUBSET InodeNos]

After(x, w, t, c) ==
  [disk |-> Written(x.disk, w),
   saved |-> IF w.page = "inode" /\ w.inode.kind = 1
             THEN [x.saved EXCEPT ![w.no] =
                     CASE w.inode.block_count = 0 -> <<>>
                       [] w.inode.block_count # 0 /\ w.no = t -> c
                       [] OTHER -> x.saved[w.no]]
             ELSE IF w.page = "inode" THEN [x.saved EXCEPT ![w.no] = <<>>]
             ELSE x.saved,
   freed |-> CASE w.page = "bitmap" -> t # 0 /\ x.disk.inode[t].block_count # 0
               [] w.page = "inode" /\ w.no = t -> FALSE
               [] OTHER -> x.freed,
   stale |-> x.stale]

InRange(d) == \A i \in InodeNos : BlocksOf(d.inode[i]) \subseteq DataBlocks

(* The linked files that are as they should be: all of them, but not the   *)
(* file whose old blocks are free on the disk.                             *)
Kept(x, t, B) == {i \in B : x.disk.inode[i].kind = 1 /\ ~(x.freed /\ i = t)}

Owned(x, t, B) ==
  /\ \A i \in Kept(x, t, B) : /\ BlocksOf(x.disk.inode[i]) \subseteq x.disk.bitmap
                              /\ FileBytes(x.disk, i) = x.saved[i]
  /\ \A i, j \in Kept(x, t, B) :
       i # j => BlocksOf(x.disk.inode[i]) \cap BlocksOf(x.disk.inode[j]) = {}

(* What holds between any two writes; ok: the blocks of files are sound.   *)
Sound(x, t, ok, B, R) ==
  /\ x.disk.super /\ DOMAIN R = InodeNos \ x.stale /\ Lists(x.disk, B, R)
  /\ ok => Owned(x, t, B)

Good(x, t, ok) ==
  /\ x \in World /\ InRange(x.disk)
  /\ \E B, R : Sound(x, t, ok, B, R)

(* The writes p lead from x to y, with nothing wrong on the way.           *)
Run(x, p, y, t, c, ok) ==
  /\ p \in Seq(Pages)
  /\ \E f : /\ f[0] = x /\ f[Len(p)] = y
            /\ \A k \in 0 .. Len(p) : Good(f[k], t, ok)
            /\ \A k \in 1 .. Len(p) : f[k] = After(f[k - 1], p[k], t, c)

LEMMA RunNone ==
  ASSUME NEW x, NEW t, NEW c, NEW ok, Good(x, t, ok)
  PROVE  Run(x, <<>>, x, t, c, ok)
<1> DEFINE f == [k \in 0 .. 0 |-> x]
<1>1. Len(<<>>) = 0 /\ <<>> \in Seq(Pages)
  OBVIOUS
<1>2. f[0] = x
  OBVIOUS
<1> HIDE DEF f
<1>3. \A k \in 0 .. 0 : k = 0
  OBVIOUS
<1>4. \A k \in 1 .. 0 : FALSE
  OBVIOUS
<1>5. QED
  BY <1>1, <1>2, <1>3, <1>4 DEF Run

LEMMA RunOne ==
  ASSUME NEW x, NEW w \in Pages, NEW t, NEW c, NEW ok,
         Good(x, t, ok), Good(After(x, w, t, c), t, ok)
  PROVE  Run(x, <<w>>, After(x, w, t, c), t, c, ok)
<1> DEFINE y == After(x, w, t, c)
           f == [k \in 0 .. 1 |-> IF k = 0 THEN x ELSE y]
           p == <<w>>
<1>1. Len(p) = 1 /\ p[1] = w /\ p \in Seq(Pages)
  OBVIOUS
<1>2. f[0] = x /\ f[1] = y
  OBVIOUS
<1>3. y = After(x, w, t, c) /\ Good(y, t, ok)
  OBVIOUS
<1> HIDE DEF f, y, p
<1>4. \A k \in 0 .. 1 : k = 0 \/ k = 1
  OBVIOUS
<1>5. \A k \in 1 .. 1 : k = 1 /\ k - 1 = 0
  OBVIOUS
<1>6. \A k \in 1 .. Len(p) : f[k] = After(f[k - 1], p[k], t, c)
  BY <1>1, <1>2, <1>3, <1>5
<1>7. Run(x, p, y, t, c, ok)
  BY <1>1, <1>2, <1>3, <1>4, <1>6 DEF Run
<1>8. QED
  BY <1>7 DEF y, p

LEMMA RunBoth ==
  ASSUME NEW x, NEW p, NEW y, NEW q, NEW z, NEW t, NEW c, NEW ok,
         Run(x, p, y, t, c, ok), Run(y, q, z, t, c, ok)
  PROVE  Run(x, p \o q, z, t, c, ok)
<1>1. p \in Seq(Pages) /\ q \in Seq(Pages)
  BY DEF Run
<1>2. PICK f : /\ f[0] = x /\ f[Len(p)] = y
               /\ \A k \in 0 .. Len(p) : Good(f[k], t, ok)
               /\ \A k \in 1 .. Len(p) : f[k] = After(f[k - 1], p[k], t, c)
  BY DEF Run
<1>3. PICK h : /\ h[0] = y /\ h[Len(q)] = z
               /\ \A k \in 0 .. Len(q) : Good(h[k], t, ok)
               /\ \A k \in 1 .. Len(q) : h[k] = After(h[k - 1], q[k], t, c)
  BY DEF Run
<1> DEFINE m == Len(p)
           n == Len(q)
           g == [k \in 0 .. m + n |-> IF k <= m THEN f[k] ELSE h[k - m]]
           s == p \o q
<1>4. m \in Nat /\ n \in Nat
  BY <1>1
<1>5. /\ s \in Seq(Pages) /\ Len(s) = m + n
      /\ \A k \in 1 .. m + n : s[k] = IF k <= m THEN p[k] ELSE q[k - m]
  BY <1>1, ConcatProperties
<1> HIDE DEF m, n, s
<1>6. g[0] = x /\ g[m + n] = z
  <2>1. g[0] = x
    BY <1>2, <1>4
  <2>2. CASE n = 0
    <3>1. g[m + n] = f[m]
      BY <1>4, <2>2
    <3>2. QED
      BY <1>2, <1>3, <2>1, <2>2, <3>1 DEF m, n
  <2>3. CASE n # 0
    <3>1. g[m + n] = h[n]
      BY <1>4, <2>3
    <3> HIDE DEF g
    <3>2. QED
      BY <1>3, <2>1, <3>1 DEF n
  <2>4. QED
    BY <2>1, <2>2, <2>3
<1>7. ASSUME NEW k \in 0 .. m + n PROVE Good(g[k], t, ok)
  <2>1. CASE k <= m
    <3>1. k \in 0 .. m /\ g[k] = f[k]
      BY <1>4, <2>1
    <3> HIDE DEF g
    <3>2. QED
      BY <1>2, <3>1 DEF m
  <2>2. CASE ~(k <= m)
    <3>1. k - m \in 0 .. n /\ g[k] = h[k - m]
      BY <1>4, <2>2
    <3> HIDE DEF g
    <3>2. QED
      BY <1>3, <3>1 DEF n
  <2>3. QED
    BY <2>1, <2>2
<1>8. ASSUME NEW k \in 1 .. m + n PROVE g[k] = After(g[k - 1], s[k], t, c)
  <2>1. CASE k <= m
    <3>1. k \in 1 .. m /\ g[k] = f[k] /\ g[k - 1] = f[k - 1] /\ s[k] = p[k]
      BY <1>4, <1>5, <2>1
    <3> HIDE DEF g
    <3>2. QED
      BY <1>2, <3>1 DEF m
  <2>2. CASE ~(k <= m)
    <3> DEFINE j == k - m
    <3>1. j \in 1 .. n /\ g[k] = h[j] /\ s[k] = q[j]
      BY <1>4, <1>5, <2>2
    <3>2. g[k - 1] = h[j - 1]
      <4>1. CASE j = 1
        <5>1. k - 1 = m /\ j - 1 = 0
          BY <1>4, <4>1
        <5>2. g[m] = f[m]
          BY <1>4
        <5>3. QED
          BY <1>2, <1>3, <5>1, <5>2 DEF m
      <4>2. CASE j # 1
        <5>1. ~(k - 1 <= m) /\ k - 1 \in 0 .. m + n /\ k - 1 - m = j - 1
          BY <1>4, <2>2, <4>2
        <5>2. QED
          BY <5>1
      <4>3. QED
        BY <4>1, <4>2
    <3> HIDE DEF g, j
    <3>3. QED
      BY <1>3, <3>1, <3>2 DEF n
  <2>3. QED
    BY <2>1, <2>2
<1> HIDE DEF g
<1>9. Run(x, s, z, t, c, ok)
  BY <1>5, <1>6, <1>7, <1>8 DEF Run
<1>10. QED
  BY <1>9 DEF s

(* The first write of a run, and the run behind it.                        *)
LEMMA RunFirst ==
  ASSUME NEW x, NEW p, NEW y, NEW t, NEW c, NEW ok,
         Run(x, p, y, t, c, ok), p # <<>>
  PROVE  /\ Head(p) \in Pages
         /\ Run(After(x, Head(p), t, c), Tail(p), y, t, c, ok)
<1>1. p \in Seq(Pages)
  BY DEF Run
<1>2. PICK f : /\ f[0] = x /\ f[Len(p)] = y
               /\ \A k \in 0 .. Len(p) : Good(f[k], t, ok)
               /\ \A k \in 1 .. Len(p) : f[k] = After(f[k - 1], p[k], t, c)
  BY DEF Run
<1> DEFINE n == Len(p)
           q == Tail(p)
           g == [k \in 0 .. n - 1 |-> f[k + 1]]
<1>3. n \in Nat /\ n # 0
  BY <1>1, EmptySeq
<1>4. /\ Head(p) \in Pages /\ q \in Seq(Pages) /\ Len(q) = n - 1
      /\ \A k \in 1 .. n - 1 : q[k] = p[k + 1]
  BY <1>1, HeadTailProperties
<1>5. Head(p) = p[1]
  BY <1>1
<1> HIDE DEF n, q
<1>6. g[0] = f[1] /\ g[n - 1] = f[n]
  <2>1. 0 \in 0 .. n - 1 /\ n - 1 \in 0 .. n - 1 /\ n - 1 + 1 = n
    BY <1>3
  <2>2. QED
    BY <2>1
<1>7. f[1] = After(x, Head(p), t, c)
  <2>1. 1 \in 1 .. n /\ 1 - 1 = 0
    BY <1>3
  <2>2. f[1] = After(f[0], p[1], t, c)
    BY <1>2, <2>1 DEF n
  <2>3. QED
    BY <1>2, <1>5, <2>2
<1>8. ASSUME NEW k \in 0 .. n - 1 PROVE Good(g[k], t, ok)
  <2> DEFINE j == k + 1
  <2>1. j \in 0 .. n /\ g[k] = f[j]
    BY <1>3
  <2> HIDE DEF g, j
  <2>2. QED
    BY <1>2, <2>1 DEF n
<1>9. ASSUME NEW k \in 1 .. n - 1 PROVE g[k] = After(g[k - 1], q[k], t, c)
  <2> DEFINE j == k + 1
  <2>1. j \in 1 .. n /\ g[k] = f[j] /\ g[k - 1] = f[j - 1] /\ q[k] = p[j]
    BY <1>3, <1>4
  <2> HIDE DEF g, j
  <2>2. QED
    BY <1>2, <2>1 DEF n
<1> HIDE DEF g
<1>10. g[Len(q)] = y
  BY <1>2, <1>4, <1>6 DEF n
<1>11. Run(g[0], q, y, t, c, ok)
  BY <1>4, <1>8, <1>9, <1>10 DEF Run
<1>12. QED
  BY <1>4, <1>6, <1>7, <1>11 DEF q

(* Nothing is wrong where a run starts and where it ends.                  *)
LEMMA RunEnds ==
  ASSUME NEW x, NEW p, NEW y, NEW t, NEW c, NEW ok, Run(x, p, y, t, c, ok)
  PROVE  /\ p \in Seq(Pages) /\ Good(x, t, ok) /\ Good(y, t, ok)
         /\ p = <<>> => x = y
<1>1. p \in Seq(Pages)
  BY DEF Run
<1>2. PICK f : /\ f[0] = x /\ f[Len(p)] = y
               /\ \A k \in 0 .. Len(p) : Good(f[k], t, ok)
  BY DEF Run
<1>3. Len(p) \in Nat
  BY <1>1
<1>4. 0 \in 0 .. Len(p) /\ Len(p) \in 0 .. Len(p)
  BY <1>3
<1>5. p = <<>> => Len(p) = 0
  OBVIOUS
<1>6. QED
  BY <1>1, <1>2, <1>4, <1>5

(* With fewer claims about the blocks, too.                                *)
LEMMA GoodWeaker ==
  ASSUME NEW x, NEW t, NEW u, NEW ok, NEW weak, Good(x, t, ok),
         weak => ok /\ (x.freed => u = t)
  PROVE  Good(x, u, weak)
<1>1. PICK B, R : Sound(x, t, ok, B, R)
  BY DEF Good
<1>2. weak => Kept(x, t, B) = Kept(x, u, B)
  BY DEF Kept
<1>3. Sound(x, u, weak, B, R)
  BY <1>1, <1>2 DEF Sound, Owned
<1>4. QED
  BY <1>3 DEF Good

----------------------------------------------------------------------------
(* What writing an inode does to the lists.                                *)

Links(n) == <<n.kind, n.name, n.parent, n.first_child, n.next_sibling>>

(* The links stay, but for inodes that no list has.                        *)
LEMMA HomeStays ==
  ASSUME NEW d, NEW e, NEW C, Home(d, C),
         \A i \in InodeNos :
           \/ /\ e.inode[i].kind = d.inode[i].kind
              /\ e.inode[i].parent = d.inode[i].parent
           \/ i \in C /\ e.inode[i].parent \in {0} \cup C
  PROVE  Home(e, C)
BY DEF Home

LEMMA ListsStay ==
  ASSUME NEW d \in Disk, NEW e \in Disk, NEW B, NEW R, Lists(d, B, R),
         \A i \in InodeNos :
           \/ Links(e.inode[i]) = Links(d.inode[i])
           \/ /\ i \in DOMAIN R /\ i \notin B /\ i # Root
              /\ d.inode[i].first_child = 0 /\ e.inode[i].first_child = 0
              /\ e.inode[i].parent \in {0} \cup DOMAIN R
  PROVE  Lists(e, B, R)
<1>1. /\ B \subseteq InodeNos \ {Root} /\ R \in [DOMAIN R -> Nat]
      /\ B \subseteq DOMAIN R \ {Root} /\ Home(d, DOMAIN R)
      /\ DOMAIN R \subseteq InodeNos /\ \A i \in B : R[i] \in Nat
      /\ RootOk(d)
      /\ \A p \in DOMAIN R : HeadOk(d, B, p)
      /\ \A i \in B : NextOk(d, B, R, i) /\ EntryOk(d, B, i)
  BY DEF Lists, Home
<1>2. \A i \in InodeNos : e.inode[i].first_child = d.inode[i].first_child
  BY DEF Links
<1>3. \A i \in B \cup {Root} :
        i \in InodeNos => Links(e.inode[i]) = Links(d.inode[i])
  OBVIOUS
<1>4. \A i \in B : /\ i \in InodeNos
                   /\ e.inode[i].kind = d.inode[i].kind
                   /\ e.inode[i].name = d.inode[i].name
                   /\ e.inode[i].parent = d.inode[i].parent
                   /\ e.inode[i].next_sibling = d.inode[i].next_sibling
  BY <1>1, <1>3 DEF Links
<1>5. RootOk(e)
  <2>1. Root \in InodeNos
    BY VfsConstants DEF Root, InodeNos
  <2>2. Links(e.inode[Root]) = Links(d.inode[Root])
    BY <1>3, <2>1
  <2>3. QED
    BY <1>1, <2>2 DEF RootOk, Links
<1>6. ASSUME NEW p \in DOMAIN R PROVE HeadOk(e, B, p)
  <2>1. HeadOk(d, B, p)
    BY <1>1
  <2> HIDE DEF Links
  <2>0. p \in InodeNos
    BY <1>1
  <2>2. CASE Links(e.inode[p]) = Links(d.inode[p])
    BY <1>2, <1>4, <2>1, <2>2 DEF HeadOk, Links
  <2>3. CASE d.inode[p].first_child = 0
    <3>1. e.inode[p].first_child = 0
      BY <1>2, <2>0, <2>3
    <3>2. QED
      BY <3>1 DEF HeadOk
  <2>4. QED
    BY <2>0, <2>2, <2>3
<1>7. ASSUME NEW i \in B PROVE d.inode[i].parent \in InodeNos
  <2>1. d.inode[i].parent \in 0 .. Inodes /\ Inodes \in Nat
    BY <1>4, InodeType
  <2>2. d.inode[i].parent # 0
    BY <1>1 DEF EntryOk
  <2>3. QED
    BY <2>1, <2>2 DEF InodeNos
<1>8. ASSUME NEW i \in B PROVE NextOk(e, B, R, i)
  <2>1. NextOk(d, B, R, i)
    BY <1>1
  <2>2. QED
    BY <1>2, <1>4, <1>7, <2>1 DEF NextOk
<1>9. ASSUME NEW i \in B PROVE EntryOk(e, B, i)
  <2>1. EntryOk(d, B, i)
    BY <1>1
  <2>2. QED
    BY <1>2, <1>4, <1>7, <2>1 DEF EntryOk
<1>10. Home(e, DOMAIN R)
  <2>1. \A i \in InodeNos :
          \/ /\ e.inode[i].kind = d.inode[i].kind
             /\ e.inode[i].parent = d.inode[i].parent
          \/ i \in DOMAIN R /\ e.inode[i].parent \in {0} \cup DOMAIN R
    BY DEF Links
  <2>2. QED
    BY <1>1, <2>1, HomeStays
<1>11. QED
  BY <1>1, <1>5, <1>6, <1>8, <1>9, <1>10 DEF Lists

(* The parent of an entry is an inode.                                     *)
LEMMA ParentOfEntry ==
  ASSUME NEW d \in Disk, NEW B, NEW R, Lists(d, B, R), NEW i \in B
  PROVE  i \in InodeNos /\ i # Root /\ i # 0
         /\ i \in DOMAIN R /\ d.inode[i].parent \in DOMAIN R \ {i}
<1>1. i \in DOMAIN R /\ i # Root /\ EntryOk(d, B, i) /\ Home(d, DOMAIN R)
  BY DEF Lists
<1>2. i \in InodeNos /\ d.inode[i].parent \in {0} \cup DOMAIN R
  BY <1>1 DEF Home
<1>3. d.inode[i].parent # 0 /\ d.inode[i].parent # i
  BY <1>1 DEF EntryOk
<1>4. QED
  BY <1>1, <1>2, <1>3, VfsConstants DEF InodeNos

(* A new entry becomes the head of the list of its directory.              *)
LinksIn(d, e, B, up, no) ==
  /\ d.inode[up].kind = 2 /\ no # up /\ no \notin B /\ no # Root
  /\ d.inode[no].kind # 0 /\ d.inode[no].parent = up
  /\ d.inode[no].next_sibling = d.inode[up].first_child
  /\ \/ d.inode[no].name \in Cutoffs
     \/ \A i \in B : d.inode[i].parent = up => d.inode[i].name # d.inode[no].name
  /\ e.inode[up] = [d.inode[up] EXCEPT !.first_child = no]
  /\ \A i \in InodeNos \ {up} : e.inode[i] = d.inode[i]

LEMMA ListsLink ==
  ASSUME NEW d \in Disk, NEW e \in Disk, NEW B, NEW R, Lists(d, B, R),
         NEW up \in DOMAIN R, NEW no \in DOMAIN R, LinksIn(d, e, B, up, no)
  PROVE  Lists(e, B \cup {no}, [i \in DOMAIN R |-> IF i = no THEN 0 ELSE R[i] + 1])
<1> USE DEF LinksIn
<1> DEFINE A == B \cup {no}
           Q == [i \in DOMAIN R |-> IF i = no THEN 0 ELSE R[i] + 1]
           head == d.inode[up].first_child
<1>1. /\ B \subseteq InodeNos \ {Root} /\ R \in [DOMAIN R -> Nat]
      /\ B \subseteq DOMAIN R \ {Root} /\ Home(d, DOMAIN R)
      /\ DOMAIN R \subseteq InodeNos
      /\ RootOk(d)
      /\ \A p \in DOMAIN R : HeadOk(d, B, p)
      /\ \A i \in B : NextOk(d, B, R, i) /\ EntryOk(d, B, i)
  BY DEF Lists, Home
<1>2. /\ A \subseteq DOMAIN R \ {Root} /\ Q \in [DOMAIN Q -> Nat]
      /\ DOMAIN Q = DOMAIN R /\ up \in InodeNos /\ no \in InodeNos
  <2>1. \A i \in DOMAIN R : R[i] \in Nat
    BY <1>1
  <2>2. \A i \in DOMAIN R : (IF i = no THEN 0 ELSE R[i] + 1) \in Nat
    BY <2>1
  <2>3. QED
    BY <1>1, <2>2
<1>3. \A i \in B : Q[i] = R[i] + 1 /\ R[i] \in Nat
  BY <1>1
<1>4. Q[no] = 0
  OBVIOUS
<1> HIDE DEF Q
<1>5. d.inode[up] \in Inode
  BY <1>2 DEF Disk
<1>6. \A i \in InodeNos : /\ e.inode[i].kind = d.inode[i].kind
                          /\ e.inode[i].name = d.inode[i].name
                          /\ e.inode[i].parent = d.inode[i].parent
                          /\ e.inode[i].next_sibling = d.inode[i].next_sibling
                          /\ i # up => e.inode[i].first_child = d.inode[i].first_child
  BY <1>2, <1>5 DEF Inode
<1>7. e.inode[up].first_child = no
  BY <1>2, <1>5 DEF Inode
<1>8. \A i \in B : i \in InodeNos /\ d.inode[i].parent \in InodeNos \ {i}
  BY <1>1, ParentOfEntry
<1>9. no # 0 /\ up # 0
  BY <1>2, VfsConstants DEF InodeNos
(* No entry had the old head behind it.                                    *)
<1>10. \A j \in B : d.inode[j].next_sibling # 0 => d.inode[j].next_sibling # head
  <2> SUFFICES ASSUME NEW j \in B, head # 0, d.inode[j].next_sibling = head
               PROVE  FALSE
    OBVIOUS
  <2>1. d.inode[head].parent = up
    BY <1>1 DEF HeadOk
  <2>2. NextOk(d, B, R, j)
    BY <1>1
  <2>3. QED
    BY <2>1, <2>2 DEF NextOk
<1>11. RootOk(e)
  <2>1. Root \in InodeNos
    BY VfsConstants DEF Root, InodeNos
  <2>2. QED
    BY <1>1, <1>6, <2>1 DEF RootOk
<1>12. ASSUME NEW p \in DOMAIN R PROVE HeadOk(e, A, p)
  <2>1. HeadOk(d, B, p) /\ p \in InodeNos
    BY <1>1
  <2>2. CASE p = up
    <3>1. e.inode[no].parent = up /\ e.inode[up].kind = 2 /\ no \in A
      BY <1>2, <1>6
    <3>2. QED
      BY <1>7, <2>2, <3>1 DEF HeadOk
  <2>3. CASE p # up
    <3>1. e.inode[p].kind = d.inode[p].kind /\ e.inode[p].first_child = d.inode[p].first_child
      BY <1>6, <2>1, <2>3
    <3>2. \A i \in B : e.inode[i].parent = d.inode[i].parent /\ i \in A
      BY <1>6, <1>8
    <3>3. QED
      BY <2>1, <3>1, <3>2 DEF HeadOk
  <2>4. QED
    BY <2>2, <2>3
<1>13. NextOk(e, A, Q, no)
  <2> SUFFICES ASSUME head # 0
               PROVE  /\ head \in A /\ Q[no] < Q[head]
                      /\ e.inode[head].parent = up
                      /\ e.inode[up].first_child # head
                      /\ \A j \in A : e.inode[j].next_sibling = head => j = no
    BY <1>2, <1>6 DEF NextOk
  <2>1. head \in B /\ d.inode[head].parent = up
    BY <1>1 DEF HeadOk
  <2>2. QED
    BY <1>2, <1>3, <1>4, <1>6, <1>7, <1>8, <1>10, <2>1
<1>14. ASSUME NEW i \in B PROVE NextOk(e, A, Q, i)
  <2> DEFINE n == d.inode[i].next_sibling
  <2>1. NextOk(d, B, R, i)
    BY <1>1
  <2> SUFFICES ASSUME n # 0
               PROVE  /\ n \in A /\ Q[i] < Q[n]
                      /\ e.inode[n].parent = e.inode[i].parent
                      /\ e.inode[e.inode[i].parent].first_child # n
                      /\ \A j \in A : e.inode[j].next_sibling = n => j = i
    BY <1>6, <1>8 DEF NextOk
  <2>2. /\ n \in B /\ R[i] < R[n] /\ d.inode[n].parent = d.inode[i].parent
        /\ d.inode[d.inode[i].parent].first_child # n
        /\ \A j \in B : d.inode[j].next_sibling = n => j = i
    BY <2>1 DEF NextOk
  <2>3. n # head
    BY <1>10
  <2>4. Q[i] < Q[n]
    BY <1>3, <2>2
  <2>5. e.inode[e.inode[i].parent].first_child # n
    <3>1. e.inode[i].parent = d.inode[i].parent /\ d.inode[i].parent \in InodeNos
      BY <1>6, <1>8
    <3>2. CASE d.inode[i].parent = up
      <4>1. n # no
        BY <2>2
      <4>2. e.inode[i].parent = up
        BY <3>1, <3>2
      <4>3. QED
        BY <1>7, <4>1, <4>2
    <3>3. CASE d.inode[i].parent # up
      <4>1. e.inode[d.inode[i].parent].first_child =
              d.inode[d.inode[i].parent].first_child
        BY <1>6, <3>1, <3>3
      <4>2. QED
        BY <2>2, <3>1, <4>1
    <3>4. QED
      BY <3>2, <3>3
  <2>6. \A j \in A : e.inode[j].next_sibling = n => j = i
    BY <1>2, <1>6, <1>8, <2>2, <2>3
  <2>7. QED
    BY <1>6, <1>8, <2>2, <2>4, <2>5, <2>6
<1>15. EntryOk(e, A, no)
  <2>1. /\ e.inode[no].kind # 0 /\ e.inode[no].parent = up
        /\ e.inode[no].name = d.inode[no].name
    BY <1>2, <1>6
  <2>2. \A j \in A : e.inode[j].parent = up /\ e.inode[j].name = d.inode[no].name
                      => j = no \/ d.inode[no].name \in Cutoffs
    BY <1>2, <1>6, <1>8
  <2>3. QED
    BY <1>7, <1>9, <2>1, <2>2 DEF EntryOk
<1>16. ASSUME NEW i \in B PROVE EntryOk(e, A, i)
  <2>1. EntryOk(d, B, i)
    BY <1>1
  <2> DEFINE q == d.inode[i].parent
             name == d.inode[i].name
  <2>2. /\ e.inode[i].kind # 0 /\ e.inode[i].parent = q /\ q \notin {0, i}
        /\ e.inode[i].name = name /\ q \in InodeNos
    BY <1>6, <1>8, <2>1 DEF EntryOk
  <2>3. \/ e.inode[q].first_child = i
        \/ \E j \in A : e.inode[j].next_sibling = i
    <3>1. CASE d.inode[q].first_child = i /\ q = up
      BY <1>2, <1>6, <3>1
    <3>2. CASE d.inode[q].first_child = i /\ q # up
      BY <1>6, <2>2, <3>2
    <3>3. CASE \E j \in B : d.inode[j].next_sibling = i
      BY <1>6, <1>8, <3>3
    <3>4. QED
      BY <2>1, <3>1, <3>2, <3>3 DEF EntryOk
  <2>4. ASSUME NEW j \in A, e.inode[j].parent = q, e.inode[j].name = name
        PROVE  j = i \/ name \in Cutoffs
    <3>1. CASE j = no
      BY <1>2, <1>6, <2>4, <3>1
    <3>2. CASE j # no
      <4>1. j \in B /\ d.inode[j].parent = q /\ d.inode[j].name = name
        BY <1>6, <1>8, <2>4, <3>2
      <4>2. QED
        BY <2>1, <4>1 DEF EntryOk
    <3>3. QED
      BY <3>1, <3>2
  <2>5. QED
    BY <2>2, <2>3, <2>4 DEF EntryOk
<1>17. Home(e, DOMAIN Q)
  <2>1. Home(e, DOMAIN R)
    BY <1>1, <1>6, HomeStays
  <2>2. QED
    BY <1>2, <2>1
<1>18. Lists(e, A, Q)
  BY <1>2, <1>11, <1>12, <1>13, <1>14, <1>15, <1>16, <1>17 DEF Lists
<1>19. QED
  BY <1>18 DEF Q

(* The head of a list leaves it.                                           *)
LEMMA ListsUnlinkHead ==
  ASSUME NEW d \in Disk, NEW e \in Disk, NEW B, NEW R, Lists(d, B, R),
         NEW no \in B, NEW up \in DOMAIN R, d.inode[no].parent = up,
         d.inode[up].first_child = no, d.inode[no].first_child = 0,
         e.inode[up] = [d.inode[up] EXCEPT !.first_child = d.inode[no].next_sibling],
         \A i \in InodeNos \ {up} : e.inode[i] = d.inode[i]
  PROVE  Lists(e, B \ {no}, R)
<1> DEFINE A == B \ {no}
           rest == d.inode[no].next_sibling
<1>1. /\ B \subseteq InodeNos \ {Root} /\ R \in [DOMAIN R -> Nat]
      /\ B \subseteq DOMAIN R \ {Root} /\ Home(d, DOMAIN R)
      /\ DOMAIN R \subseteq InodeNos
      /\ RootOk(d)
      /\ \A p \in DOMAIN R : HeadOk(d, B, p)
      /\ \A i \in B : NextOk(d, B, R, i) /\ EntryOk(d, B, i)
  BY DEF Lists, Home
<1>2. A \subseteq DOMAIN R \ {Root} /\ \A i \in B : R[i] \in Nat
  BY <1>1
<1>3. \A i \in B : i \in InodeNos /\ i # 0 /\ d.inode[i].parent \in InodeNos \ {i}
  BY <1>1, ParentOfEntry
<1>4. up \in InodeNos /\ up # no /\ no \in InodeNos /\ no # 0
  BY <1>1, <1>3
<1>5. d.inode[up] \in Inode
  BY <1>4 DEF Disk
<1>6. \A i \in InodeNos : /\ e.inode[i].kind = d.inode[i].kind
                          /\ e.inode[i].name = d.inode[i].name
                          /\ e.inode[i].parent = d.inode[i].parent
                          /\ e.inode[i].next_sibling = d.inode[i].next_sibling
                          /\ i # up => e.inode[i].first_child = d.inode[i].first_child
  BY <1>4, <1>5 DEF Inode
<1>7. e.inode[up].first_child = rest
  BY <1>4, <1>5 DEF Inode
<1>8. NextOk(d, B, R, no)
  BY <1>1
<1>9. rest # 0 => /\ rest \in A /\ d.inode[rest].parent = up
                  /\ \A j \in B : d.inode[j].next_sibling = rest => j = no
  <2>1. R[no] \in Nat
    BY <1>2
  <2>2. QED
    BY <1>8, <2>1 DEF NextOk
(* No entry had the old head behind it, and no other inode named it.       *)
<1>10. \A j \in B : d.inode[j].next_sibling # no
  <2> SUFFICES ASSUME NEW j \in B, d.inode[j].next_sibling = no PROVE FALSE
    OBVIOUS
  <2>1. NextOk(d, B, R, j)
    BY <1>1
  <2>2. QED
    BY <1>4, <2>1 DEF NextOk
<1>11. \A p \in DOMAIN R : p # up => d.inode[p].first_child # no
  <2> SUFFICES ASSUME NEW p \in DOMAIN R, d.inode[p].first_child = no, p # up
               PROVE  FALSE
    OBVIOUS
  <2>1. HeadOk(d, B, p)
    BY <1>1
  <2>2. QED
    BY <1>4, <2>1 DEF HeadOk
<1>12. RootOk(e)
  <2>1. Root \in InodeNos
    BY VfsConstants DEF Root, InodeNos
  <2>2. QED
    BY <1>1, <1>6, <2>1 DEF RootOk
<1>13. ASSUME NEW p \in DOMAIN R PROVE HeadOk(e, A, p)
  <2>1. HeadOk(d, B, p) /\ HeadOk(d, B, up) /\ p \in InodeNos
    BY <1>1
  <2>2. CASE p = up
    <3>1. d.inode[up].kind = 2
      BY <1>4, <2>1 DEF HeadOk
    <3>2. e.inode[up].kind = 2
      BY <1>4, <1>6, <3>1
    <3>3. rest # 0 => e.inode[rest].parent = up
      BY <1>3, <1>6, <1>9
    <3>4. QED
      BY <1>7, <1>9, <2>2, <3>2, <3>3 DEF HeadOk
  <2>3. CASE p # up
    <3>1. d.inode[p].first_child # no
      BY <1>11, <2>3
    <3>2. QED
      BY <1>3, <1>6, <2>1, <2>3, <3>1 DEF HeadOk
  <2>4. QED
    BY <2>2, <2>3
<1>14. ASSUME NEW i \in A PROVE NextOk(e, A, R, i)
  <2> DEFINE n == d.inode[i].next_sibling
  <2>1. NextOk(d, B, R, i) /\ i \in B
    BY <1>1
  <2> SUFFICES ASSUME n # 0
               PROVE  /\ n \in A /\ R[i] < R[n]
                      /\ e.inode[n].parent = e.inode[i].parent
                      /\ e.inode[e.inode[i].parent].first_child # n
                      /\ \A j \in A : e.inode[j].next_sibling = n => j = i
    BY <1>3, <1>6, <2>1 DEF NextOk
  <2>2. /\ n \in B /\ R[i] < R[n] /\ d.inode[n].parent = d.inode[i].parent
        /\ d.inode[d.inode[i].parent].first_child # n
        /\ \A j \in B : d.inode[j].next_sibling = n => j = i
    BY <2>1 DEF NextOk
  <2>3. n \in A
    BY <1>10, <2>1, <2>2
  <2>4. rest # n
    BY <1>9, <2>1
  <2>5. e.inode[e.inode[i].parent].first_child # n
    <3>1. e.inode[i].parent = d.inode[i].parent /\ d.inode[i].parent \in InodeNos
      BY <1>3, <1>6, <2>1
    <3>2. CASE d.inode[i].parent = up
      <4>1. e.inode[i].parent = up
        BY <3>1, <3>2
      <4>2. QED
        BY <1>7, <2>4, <4>1
    <3>3. CASE d.inode[i].parent # up
      <4>1. e.inode[d.inode[i].parent].first_child =
              d.inode[d.inode[i].parent].first_child
        BY <1>6, <3>1, <3>3
      <4>2. QED
        BY <2>2, <3>1, <4>1
    <3>4. QED
      BY <3>2, <3>3
  <2>6. \A j \in A : e.inode[j].next_sibling = n => j = i
    BY <1>3, <1>6, <2>2
  <2>7. QED
    BY <1>3, <1>6, <2>1, <2>2, <2>3, <2>5, <2>6
<1>15. ASSUME NEW i \in A PROVE EntryOk(e, A, i)
  <2>1. EntryOk(d, B, i) /\ i \in B
    BY <1>1
  <2> DEFINE q == d.inode[i].parent
  <2>2. q \in InodeNos \ {i} /\ i \in InodeNos
    BY <1>3, <2>1
  <2>3. \/ e.inode[q].first_child = i
        \/ \E j \in A : e.inode[j].next_sibling = i
    <3>1. CASE d.inode[q].first_child = i
      <4>1. q # up
        BY <3>1
      <4>2. QED
        BY <1>6, <2>2, <3>1, <4>1
    <3>2. CASE \E j \in B : d.inode[j].next_sibling = i
      <4>1. PICK j \in B : d.inode[j].next_sibling = i
        BY <3>2
      <4>2. CASE j = no
        <5>1. NextOk(d, B, R, no) /\ i # 0
          BY <1>3, <1>8, <2>1
        <5>2. q = up
          BY <1>9, <4>1, <4>2, <5>1
        <5>3. QED
          BY <1>7, <4>1, <4>2, <5>2
      <4>3. CASE j # no
        BY <1>3, <1>6, <4>1, <4>3
      <4>4. QED
        BY <4>2, <4>3
    <3>3. QED
      BY <2>1, <3>1, <3>2 DEF EntryOk
  <2>4. QED
    BY <1>3, <1>6, <2>1, <2>2, <2>3 DEF EntryOk
<1>16. Home(e, DOMAIN R)
  BY <1>1, <1>6, HomeStays
<1>17. QED
  BY <1>1, <1>2, <1>12, <1>13, <1>14, <1>15, <1>16 DEF Lists

(* An entry that another entry has behind it leaves the list.              *)
LEMMA ListsUnlinkBehind ==
  ASSUME NEW d \in Disk, NEW e \in Disk, NEW B, NEW R, Lists(d, B, R),
         NEW no \in B, NEW prev \in B,
         d.inode[prev].next_sibling = no, d.inode[no].first_child = 0,
         e.inode[prev] = [d.inode[prev] EXCEPT !.next_sibling = d.inode[no].next_sibling],
         \A i \in InodeNos \ {prev} : e.inode[i] = d.inode[i]
  PROVE  Lists(e, B \ {no}, R)
<1> DEFINE A == B \ {no}
           rest == d.inode[no].next_sibling
           up == d.inode[no].parent
<1>1. /\ B \subseteq InodeNos \ {Root} /\ R \in [DOMAIN R -> Nat]
      /\ B \subseteq DOMAIN R \ {Root} /\ Home(d, DOMAIN R)
      /\ DOMAIN R \subseteq InodeNos
      /\ RootOk(d)
      /\ \A p \in DOMAIN R : HeadOk(d, B, p)
      /\ \A i \in B : NextOk(d, B, R, i) /\ EntryOk(d, B, i)
  BY DEF Lists, Home
<1>2. A \subseteq DOMAIN R \ {Root} /\ \A i \in B : R[i] \in Nat
  BY <1>1
<1>3. \A i \in B : /\ i \in InodeNos /\ i # 0 /\ i # Root
                   /\ d.inode[i].parent \in InodeNos \ {i}
  BY <1>1, ParentOfEntry
<1>4. no \in InodeNos /\ no # 0 /\ prev \in InodeNos /\ up \in InodeNos
  BY <1>3
<1>5. /\ NextOk(d, B, R, no) /\ NextOk(d, B, R, prev)
      /\ R[no] \in Nat /\ R[prev] \in Nat
  BY <1>1, <1>2
<1>6. /\ R[prev] < R[no] /\ d.inode[prev].parent = up /\ prev # no
      /\ d.inode[up].first_child # no
      /\ \A j \in B : d.inode[j].next_sibling = no => j = prev
  BY <1>4, <1>5 DEF NextOk
<1>7. rest # 0 => /\ rest \in A /\ d.inode[rest].parent = up /\ R[no] < R[rest]
                  /\ R[rest] \in Nat /\ d.inode[up].first_child # rest
                  /\ \A j \in B : d.inode[j].next_sibling = rest => j = no
  BY <1>1, <1>2, <1>5 DEF NextOk
<1>8. d.inode[prev] \in Inode
  BY <1>4 DEF Disk
<1>9. \A i \in InodeNos : /\ e.inode[i].kind = d.inode[i].kind
                          /\ e.inode[i].name = d.inode[i].name
                          /\ e.inode[i].parent = d.inode[i].parent
                          /\ e.inode[i].first_child = d.inode[i].first_child
                          /\ i # prev => e.inode[i].next_sibling = d.inode[i].next_sibling
  BY <1>8 DEF Inode
<1>10. e.inode[prev].next_sibling = rest
  BY <1>8 DEF Inode
<1>11. \A p \in DOMAIN R : d.inode[p].first_child # no
  <2> SUFFICES ASSUME NEW p \in DOMAIN R, d.inode[p].first_child = no PROVE FALSE
    OBVIOUS
  <2>1. HeadOk(d, B, p)
    BY <1>1
  <2>2. p = up
    BY <1>4, <2>1 DEF HeadOk
  <2>3. QED
    BY <1>6, <2>2
<1>12. RootOk(e)
  <2>1. Root \in InodeNos /\ Root # prev
    BY <1>3, VfsConstants DEF Root, InodeNos
  <2>2. QED
    BY <1>1, <1>9, <2>1 DEF RootOk
<1>13. ASSUME NEW p \in DOMAIN R PROVE HeadOk(e, A, p)
  <2>1. /\ HeadOk(d, B, p) /\ d.inode[p].first_child # no
        /\ p \in InodeNos
    BY <1>1, <1>11
  <2>2. QED
    BY <1>3, <1>9, <2>1 DEF HeadOk
<1>14. ASSUME NEW i \in A PROVE NextOk(e, A, R, i)
  <2>1. NextOk(d, B, R, i) /\ i \in B
    BY <1>1
  <2>2. CASE i = prev
    <3> SUFFICES ASSUME rest # 0
                 PROVE  /\ rest \in A /\ R[prev] < R[rest]
                        /\ e.inode[rest].parent = e.inode[prev].parent
                        /\ e.inode[e.inode[prev].parent].first_child # rest
                        /\ \A j \in A : e.inode[j].next_sibling = rest => j = prev
      BY <1>10, <2>2 DEF NextOk
    <3>1. \A j \in A : e.inode[j].next_sibling = rest => j = prev
      BY <1>3, <1>7, <1>9
    <3>2. R[prev] < R[rest]
      BY <1>5, <1>6, <1>7
    <3>3. QED
      BY <1>3, <1>4, <1>6, <1>7, <1>9, <3>1, <3>2
  <2>3. CASE i # prev
    <3> DEFINE n == d.inode[i].next_sibling
    <3> SUFFICES ASSUME n # 0
                 PROVE  /\ n \in A /\ R[i] < R[n]
                        /\ e.inode[n].parent = e.inode[i].parent
                        /\ e.inode[e.inode[i].parent].first_child # n
                        /\ \A j \in A : e.inode[j].next_sibling = n => j = i
      BY <1>3, <1>9, <2>1, <2>3 DEF NextOk
    <3>1. /\ n \in B /\ R[i] < R[n] /\ d.inode[n].parent = d.inode[i].parent
          /\ d.inode[d.inode[i].parent].first_child # n
          /\ \A j \in B : d.inode[j].next_sibling = n => j = i
      BY <2>1 DEF NextOk
    <3>2. n \in A
      BY <1>6, <2>1, <2>3, <3>1
    <3>3. rest # n
      BY <1>7, <2>1
    <3>4. \A j \in A : e.inode[j].next_sibling = n => j = i
      BY <1>3, <1>9, <1>10, <3>1, <3>3
    <3>5. QED
      BY <1>3, <1>9, <2>1, <3>1, <3>2, <3>4
  <2>4. QED
    BY <2>2, <2>3
<1>15. ASSUME NEW i \in A PROVE EntryOk(e, A, i)
  <2>1. EntryOk(d, B, i) /\ i \in B /\ i # 0
    BY <1>1, <1>3
  <2>2. \/ e.inode[d.inode[i].parent].first_child = i
        \/ \E j \in A : e.inode[j].next_sibling = i
    <3>1. CASE d.inode[d.inode[i].parent].first_child = i
      BY <1>3, <1>9, <2>1, <3>1
    <3>2. CASE \E j \in B : d.inode[j].next_sibling = i
      <4>1. PICK j \in B : d.inode[j].next_sibling = i
        BY <3>2
      <4>2. CASE j = no
        BY <1>6, <1>10, <4>1, <4>2
      <4>3. CASE j = prev
        BY <2>1, <4>1, <4>3
      <4>4. CASE j # no /\ j # prev
        BY <1>3, <1>9, <4>1, <4>4
      <4>5. QED
        BY <4>2, <4>3, <4>4
    <3>3. QED
      BY <2>1, <3>1, <3>2 DEF EntryOk
  <2>3. QED
    BY <1>3, <1>9, <2>1, <2>2 DEF EntryOk
<1>16. Home(e, DOMAIN R)
  BY <1>1, <1>9, HomeStays
<1>17. QED
  BY <1>1, <1>2, <1>12, <1>13, <1>14, <1>15, <1>16 DEF Lists

----------------------------------------------------------------------------
(* What can be reached from the root.                                      *)

Nearer(d, S) ==
  S \cup (({d.inode[i].first_child : i \in S} \cup
           {d.inode[i].next_sibling : i \in S}) \ {0})

LEMMA NearerType ==
  ASSUME NEW d \in Disk, NEW S \in SUBSET InodeNos
  PROVE  Nearer(d, S) \in SUBSET InodeNos
<1>1. ASSUME NEW i \in InodeNos
      PROVE  {d.inode[i].first_child, d.inode[i].next_sibling} \subseteq
               InodeNos \cup {0}
  BY InodeType DEF InodeNos
<1>2. QED
  BY <1>1 DEF Nearer

(* The tree is what the steps of its definition come to.                   *)
LEMMA TreeSteps ==
  ASSUME disk \in Disk
  PROVE  \E f : /\ f \in [0 .. Inodes -> SUBSET InodeNos]
                /\ f[0] = {Root}
                /\ \A k \in 1 .. Inodes : f[k] = Nearer(disk, f[k - 1])
                /\ Tree = f[Inodes]
<1> DEFINE next(f) == [k \in 0 .. Inodes |->
                         IF k = 0 THEN {Root} ELSE Nearer(disk, f[k - 1])]
           at == CHOOSE f : f = next(f)
           V == SUBSET InodeNos
           F == [kv \in Nat \X V |-> Nearer(disk, kv[2])]
<1>1. Inodes \in Nat /\ {Root} \in V
  BY VfsConstants DEF Root, InodeNos
<1>2. F \in [Nat \X V -> V]
  BY NearerType
<1> HIDE DEF F, V
<1>3. PICK f : Recursion(f, Inodes, V, F, {Root})
  BY <1>1, <1>2, RecursiveFunction
<1>4. f \in [0 .. Inodes -> V] /\ f[0] = {Root}
  BY <1>3 DEF Recursion
<1>5. ASSUME NEW k \in 1 .. Inodes PROVE f[k] = Nearer(disk, f[k - 1])
  <2>1. f[k] = F[<<k, f[k - 1]>>]
    BY <1>3 DEF Recursion
  <2>2. <<k, f[k - 1]>> \in Nat \X V
    BY <1>1, <1>4
  <2>3. QED
    BY <2>1, <2>2 DEF F
<1>6. f = next(f)
  <2>1. \A k \in 0 .. Inodes : f[k] = IF k = 0 THEN {Root}
                                     ELSE Nearer(disk, f[k - 1])
    BY <1>1, <1>4, <1>5
  <2>2. f = [k \in 0 .. Inodes |-> f[k]]
    BY <1>4
  <2>3. QED
    BY <2>1, <2>2
<1>7. at = next(at)
  BY <1>6
<1>8. Tree = at[Inodes]
  BY DEF Tree, Nearer
<1> HIDE DEF at
<1>9. /\ at = [k \in 0 .. Inodes |-> at[k]] /\ at[0] = {Root}
      /\ \A k \in 1 .. Inodes : at[k] = Nearer(disk, at[k - 1])
  <2>1. \A k \in 1 .. Inodes : k # 0 /\ k \in 0 .. Inodes
    BY <1>1
  <2>2. 0 \in 0 .. Inodes
    BY <1>1
  <2>3. QED
    BY <1>7, <2>1, <2>2
<1> HIDE DEF next
<1>10. \A k \in 0 .. Inodes : at[k] \in SUBSET InodeNos
  <2> DEFINE S == {k \in 0 .. Inodes : at[k] \in SUBSET InodeNos}
  <2>1. 0 \in S
    BY <1>1, <1>9 DEF V
  <2>2. ASSUME NEW k \in 0 .. Inodes - 1, k \in S PROVE k + 1 \in S
    <3> DEFINE j == k + 1
    <3>1. j \in 1 .. Inodes /\ j - 1 = k
      BY <1>1
    <3> HIDE DEF j
    <3>2. at[j] = Nearer(disk, at[k])
      BY <1>9, <3>1
    <3>3. j \in S
      BY <1>1, <2>2, <3>1, <3>2, NearerType
    <3>4. QED
      BY <3>3 DEF j
  <2> HIDE DEF S
  <2>3. \A k \in 0 .. Inodes : k \in S
    BY <1>1, <2>1, <2>2, InductUpTo
  <2>4. QED
    BY <2>3 DEF S
<1>11. QED
  BY <1>8, <1>9, <1>10

(* The tree has the root and entries, each of them behind or below another *)
(* of its inodes.                                                          *)
LEMMA TreeFacts ==
  ASSUME disk \in Disk, NEW B, NEW R, Lists(disk, B, R)
  PROVE  /\ Tree \subseteq B \cup {Root} /\ Root \in Tree
         /\ \A i \in Tree \ {Root} : \E j \in Tree :
              disk.inode[j].first_child = i \/ disk.inode[j].next_sibling = i
<1> DEFINE From(i, T) == \E j \in T : \/ disk.inode[j].first_child = i
                                      \/ disk.inode[j].next_sibling = i
<1>1. PICK f : /\ f \in [0 .. Inodes -> SUBSET InodeNos]
               /\ f[0] = {Root}
               /\ \A k \in 1 .. Inodes : f[k] = Nearer(disk, f[k - 1])
               /\ Tree = f[Inodes]
  BY TreeSteps
<1>2. Inodes \in Nat
  BY VfsConstants
<1>3. /\ B \subseteq InodeNos \ {Root} /\ Root \in InodeNos
      /\ RootOk(disk)
      /\ \A p \in B \cup {Root} : HeadOk(disk, B, p)
      /\ \A i \in B : NextOk(disk, B, R, i) /\ EntryOk(disk, B, i)
  BY VfsConstants DEF Lists, Home, Root, InodeNos
<1> DEFINE Fine(T) == /\ T \subseteq B \cup {Root} /\ Root \in T
                      /\ \A i \in T \ {Root} : From(i, T)
           S == {k \in 0 .. Inodes : Fine(f[k])}
<1>4. ASSUME NEW T, Fine(T) PROVE Fine(Nearer(disk, T))
  <2>1. ASSUME NEW i \in T
        PROVE  {disk.inode[i].first_child, disk.inode[i].next_sibling} \subseteq
                 B \cup {0}
    <3>1. HeadOk(disk, B, i)
      BY <1>3, <1>4
    <3>2. disk.inode[i].next_sibling \in B \cup {0}
      <4>1. CASE i = Root
        BY <1>3, <4>1 DEF RootOk
      <4>2. CASE i \in B
        BY <1>3, <4>2 DEF NextOk
      <4>3. QED
        BY <1>4, <4>1, <4>2
    <3>3. QED
      BY <3>1, <3>2 DEF HeadOk
  <2>2. Nearer(disk, T) \subseteq B \cup {Root} /\ Root \in Nearer(disk, T)
    BY <1>4, <2>1 DEF Nearer
  <2>3. ASSUME NEW i \in Nearer(disk, T) \ {Root} PROVE From(i, T)
    BY <1>4 DEF Nearer
  <2>4. ASSUME NEW i \in Nearer(disk, T) \ {Root} PROVE From(i, Nearer(disk, T))
    BY <2>3 DEF Nearer
  <2>5. QED
    BY <2>2, <2>4
<1>5. 0 \in S
  <2>1. Fine({Root})
    OBVIOUS
  <2>2. QED
    BY <1>1, <1>2, <2>1
<1>6. ASSUME NEW k \in 0 .. Inodes - 1, k \in S PROVE k + 1 \in S
  <2> DEFINE j == k + 1
  <2>1. j \in 1 .. Inodes /\ j - 1 = k /\ j \in 0 .. Inodes
    BY <1>2
  <2>2. Fine(f[k])
    BY <1>6
  <2> HIDE DEF j, Fine
  <2>3. f[j] = Nearer(disk, f[k])
    BY <1>1, <2>1
  <2>4. j \in S
    BY <1>4, <2>1, <2>2, <2>3
  <2>5. QED
    BY <2>4 DEF j
<1> HIDE DEF S
<1>7. \A k \in 0 .. Inodes : k \in S
  BY <1>2, <1>5, <1>6, InductUpTo
<1>8. Fine(f[Inodes])
  BY <1>2, <1>7 DEF S
<1>9. QED
  BY <1>1, <1>8

(* Nothing outside the tree can be reached from it.                        *)
LEMMA TreeClosed ==
  ASSUME disk \in Disk
  PROVE  Root \in Tree /\ Tree \subseteq InodeNos /\ Nearer(disk, Tree) = Tree
<1>1. PICK f : /\ f \in [0 .. Inodes -> SUBSET InodeNos]
               /\ f[0] = {Root}
               /\ \A k \in 1 .. Inodes : f[k] = Nearer(disk, f[k - 1])
               /\ Tree = f[Inodes]
  BY TreeSteps
<1>2. Inodes \in Nat
  BY VfsConstants
<1>3. \A k \in 0 .. Inodes - 1 : f[k + 1] = Nearer(disk, f[k])
  <2> SUFFICES ASSUME NEW k \in 0 .. Inodes - 1
               PROVE  f[k + 1] = Nearer(disk, f[k])
    OBVIOUS
  <2> DEFINE j == k + 1
  <2>1. j \in 1 .. Inodes /\ j - 1 = k
    BY <1>2
  <2> HIDE DEF j
  <2>2. f[j] = Nearer(disk, f[k])
    BY <1>1, <2>1
  <2>3. QED
    BY <2>2 DEF j
(* The steps only add, and when one adds nothing, no later one does.       *)
<1>4. \A k \in 0 .. Inodes : \A j \in 0 .. k :
        /\ f[j] \subseteq f[k]
        /\ Nearer(disk, f[j]) = f[j] => f[k] = f[j]
        /\ j # k => Nearer(disk, f[j]) \subseteq f[k]
  <2> DEFINE S == {k \in 0 .. Inodes : \A j \in 0 .. k :
                     /\ f[j] \subseteq f[k]
                     /\ Nearer(disk, f[j]) = f[j] => f[k] = f[j]
                     /\ j # k => Nearer(disk, f[j]) \subseteq f[k]}
  <2>1. 0 \in S
    BY <1>2
  <2>2. ASSUME NEW k \in 0 .. Inodes - 1, k \in S PROVE k + 1 \in S
    <3>1. k + 1 \in 0 .. Inodes /\ f[k + 1] = Nearer(disk, f[k])
      BY <1>2, <1>3
    <3>2. f[k] \subseteq f[k + 1]
      BY <3>1 DEF Nearer
    <3> SUFFICES ASSUME NEW j \in 0 .. k + 1
                 PROVE  /\ f[j] \subseteq f[k + 1]
                        /\ Nearer(disk, f[j]) = f[j] => f[k + 1] = f[j]
                        /\ j # k + 1 => Nearer(disk, f[j]) \subseteq f[k + 1]
      BY <3>1
    <3>3. CASE j = k + 1
      BY <3>3
    <3>4. CASE j # k + 1
      <4>1. j \in 0 .. k
        BY <1>2, <3>4
      <4>2. /\ f[j] \subseteq f[k]
            /\ Nearer(disk, f[j]) = f[j] => f[k] = f[j]
            /\ j # k => Nearer(disk, f[j]) \subseteq f[k]
        BY <2>2, <4>1
      <4>3. CASE j = k
        BY <3>1, <3>2, <4>3
      <4>4. CASE j # k
        BY <3>1, <3>2, <4>2, <4>4
      <4>5. QED
        BY <4>3, <4>4
    <3>5. QED
      BY <3>3, <3>4
  <2> HIDE DEF S
  <2>3. \A k \in 0 .. Inodes : k \in S
    BY <1>2, <2>1, <2>2, InductUpTo
  <2>4. QED
    BY <2>3 DEF S
<1>5. Root \in Tree /\ Tree \subseteq InodeNos
  BY <1>1, <1>2, <1>4
(* Otherwise every step would have added another inode.                    *)
<1>6. SUFFICES ASSUME Nearer(disk, Tree) # Tree PROVE FALSE
  BY <1>5
<1>7. \A k \in 0 .. Inodes : \E i \in InodeNos : i \in Nearer(disk, f[k]) \ f[k]
  <2> SUFFICES ASSUME NEW k \in 0 .. Inodes
               PROVE  \E i \in InodeNos : i \in Nearer(disk, f[k]) \ f[k]
    OBVIOUS
  <2>1. f[k] \in SUBSET InodeNos
    BY <1>1
  <2>2. Nearer(disk, f[k]) \in SUBSET InodeNos
    BY <2>1, NearerType
  <2>3. Nearer(disk, f[k]) # f[k]
    <3>1. Inodes \in 0 .. Inodes /\ k \in 0 .. Inodes
      BY <1>2
    <3>2. Nearer(disk, f[k]) = f[k] => f[Inodes] = f[k]
      BY <1>4, <3>1
    <3>3. QED
      BY <1>1, <1>6, <3>2
  <2>4. f[k] \subseteq Nearer(disk, f[k])
    BY DEF Nearer
  <2>5. QED
    BY <2>2, <2>3, <2>4
<1> DEFINE g == [k \in 0 .. Inodes |->
                   CHOOSE i \in InodeNos : i \in Nearer(disk, f[k]) \ f[k]]
<1>8. \A k \in 0 .. Inodes : g[k] \in InodeNos /\ g[k] \in Nearer(disk, f[k]) \ f[k]
  BY <1>7
<1>9. g \in [0 .. Inodes -> 1 .. Inodes]
  BY <1>8 DEF InodeNos
<1> HIDE DEF g
<1>10. PICK x \in 0 .. Inodes, y \in 0 .. Inodes : x # y /\ g[x] = g[y]
  BY <1>2, <1>9, OneMoreThan
<1>11. \A j, k \in 0 .. Inodes : j < k => g[j] # g[k]
  <2> SUFFICES ASSUME NEW j \in 0 .. Inodes, NEW k \in 0 .. Inodes, j < k
               PROVE  g[j] # g[k]
    OBVIOUS
  <2>1. j \in 0 .. k /\ j # k
    BY <1>2
  <2>2. Nearer(disk, f[j]) \subseteq f[k]
    BY <1>4, <2>1
  <2>3. QED
    BY <1>8, <2>2
<1>12. x < y \/ y < x
  BY <1>2, <1>10
<1>13. QED
  BY <1>10, <1>11, <1>12

(* Lists make a tree.                                                      *)
LEMMA ListsMakeTree ==
  ASSUME disk \in Disk, NEW B, NEW R, Lists(disk, B, R)
  PROVE  TreeSound
<1> DEFINE T == Tree
<1>1. /\ T \subseteq B \cup {Root} /\ Root \in T
      /\ \A i \in T \ {Root} : \E j \in T :
           disk.inode[j].first_child = i \/ disk.inode[j].next_sibling = i
  BY TreeFacts
<1> HIDE DEF T
<1>2. /\ B \subseteq InodeNos \ {Root} /\ Root \in InodeNos /\ Root # 0
      /\ RootOk(disk)
      /\ \A p \in B \cup {Root} : HeadOk(disk, B, p)
      /\ \A i \in B : NextOk(disk, B, R, i) /\ EntryOk(disk, B, i)
  BY VfsConstants DEF Lists, Home, Root, InodeNos
<1>3. \A i \in B : i \in InodeNos /\ i # Root /\ i # 0 /\ disk.inode[i].parent # 0
  BY ParentOfEntry, VfsConstants DEF InodeNos
<1>4. T \subseteq InodeNos
  BY <1>1, <1>2
<1> SUFFICES ASSUME NEW i \in T
    PROVE LET n == disk.inode[i]
              above == {j \in T : disk.inode[j].first_child = i}
              beside == {j \in T : disk.inode[j].next_sibling = i}
          IN /\ n.kind # 0
             /\ n.kind = 1 => n.first_child = 0
             /\ IF i = Root THEN above \cup beside = {}
                ELSE /\ Cardinality(above) + Cardinality(beside) = 1
                     /\ \A j \in above : n.parent = j
                     /\ \A j \in beside : n.parent = disk.inode[j].parent
             /\ \A j \in T \ {i} :
                  disk.inode[j].parent = n.parent /\ disk.inode[j].name = n.name
                    => n.name \in Cutoffs
  BY DEF TreeSound, T
<1> DEFINE n == disk.inode[i]
           above == {j \in T : disk.inode[j].first_child = i}
           beside == {j \in T : disk.inode[j].next_sibling = i}
<1>5. i = Root \/ i \in B
  BY <1>1
<1>6. n.kind # 0
  BY <1>2, <1>5 DEF RootOk, EntryOk
<1>7. n.kind = 1 => n.first_child = 0
  BY <1>1, <1>2 DEF HeadOk
<1>8. \A j \in T \ {i} :
        disk.inode[j].parent = n.parent /\ disk.inode[j].name = n.name
          => n.name \in Cutoffs
  <2>1. CASE i = Root
    BY <1>1, <1>2, <1>3, <2>1 DEF RootOk
  <2>2. CASE i \in B
    <3>1. EntryOk(disk, B, i)
      BY <1>2, <2>2
    <3>2. \A j \in T : j = Root \/ j \in B
      BY <1>1
    <3>3. disk.inode[Root].parent = 0
      BY <1>2 DEF RootOk
    <3>4. QED
      BY <1>3, <2>2, <3>1, <3>2, <3>3 DEF EntryOk
  <2>3. QED
    BY <1>5, <2>1, <2>2
(* What points to an inode of the tree.                                    *)
<1>9. \A j \in T : disk.inode[j].first_child = i /\ i # 0 => i \in B /\ n.parent = j
  BY <1>1, <1>2 DEF HeadOk
<1>10. \A j \in T : disk.inode[j].next_sibling = i /\ i # 0 =>
         /\ i \in B /\ j \in B /\ n.parent = disk.inode[j].parent
         /\ disk.inode[n.parent].first_child # i
         /\ \A k \in B : disk.inode[k].next_sibling = i => k = j
  <2> SUFFICES ASSUME NEW j \in T, disk.inode[j].next_sibling = i, i # 0
               PROVE  /\ i \in B /\ j \in B /\ n.parent = disk.inode[j].parent
                      /\ disk.inode[n.parent].first_child # i
                      /\ \A k \in B : disk.inode[k].next_sibling = i => k = j
    OBVIOUS
  <2>1. j \in B
    BY <1>1, <1>2 DEF RootOk
  <2>2. NextOk(disk, B, R, j)
    BY <1>2, <2>1
  <2>3. QED
    BY <2>1, <2>2 DEF NextOk
<1>11. i # 0
  BY <1>2, <1>3, <1>5
<1>12. CASE i = Root
  <2>1. above \cup beside = {}
    BY <1>3, <1>9, <1>10, <1>11, <1>12
  <2>2. QED
    BY <1>6, <1>7, <1>8, <1>12, <2>1
<1>13. CASE i # Root
  <2>1. \A j \in above : n.parent = j
    BY <1>9, <1>11
  <2>2. \A j \in beside : n.parent = disk.inode[j].parent
    BY <1>10, <1>11
  <2>3. PICK p \in T : disk.inode[p].first_child = i \/ disk.inode[p].next_sibling = i
    BY <1>1, <1>13
  <2>4. Cardinality(above) + Cardinality(beside) = 1
    <3>1. CASE disk.inode[p].first_child = i
      <4>1. above = {p} /\ beside = {}
        <5>1. n.parent = p
          BY <1>9, <1>11, <3>1
        <5>2. \A j \in T : disk.inode[j].next_sibling # i
          BY <1>10, <1>11, <3>1, <5>1
        <5>3. QED
          BY <1>9, <1>11, <3>1, <5>1, <5>2
      <4> HIDE DEF above, beside
      <4>2. Cardinality(above) = 1 /\ Cardinality(beside) = 0
        BY <4>1, FS_Singleton, FS_EmptySet
      <4>3. QED
        BY <4>2
    <3>2. CASE disk.inode[p].next_sibling = i
      <4>1. above = {} /\ beside = {p}
        <5>1. /\ p \in B /\ disk.inode[n.parent].first_child # i
              /\ \A k \in B : disk.inode[k].next_sibling = i => k = p
          BY <1>10, <1>11, <3>2
        <5>2. \A j \in T : disk.inode[j].first_child # i
          BY <1>9, <1>11, <5>1
        <5>3. \A j \in T : disk.inode[j].next_sibling = i => j = p
          BY <1>10, <1>11, <5>1
        <5>4. QED
          BY <3>2, <5>2, <5>3
      <4> HIDE DEF above, beside
      <4>2. Cardinality(above) = 0 /\ Cardinality(beside) = 1
        BY <4>1, FS_Singleton, FS_EmptySet
      <4>3. QED
        BY <4>2
    <3>3. QED
      BY <2>3, <3>1, <3>2
  <2>5. QED
    BY <1>6, <1>7, <1>8, <1>13, <2>1, <2>2, <2>4
<1>14. QED
  BY <1>12, <1>13

----------------------------------------------------------------------------
(* What a write changes of the world.                                      *)

InodeChanges(x, y, i, n, t, c) ==
  /\ y \in World
  /\ y.disk.inode[i] = n
  /\ \A j \in InodeNos \ {i} : /\ y.disk.inode[j] = x.disk.inode[j]
                               /\ y.saved[j] = x.saved[j]
  /\ y.disk.super = x.disk.super /\ y.disk.bitmap = x.disk.bitmap
  /\ y.disk.block = x.disk.block
  /\ n.kind = 1 => y.saved[i] = IF n.block_count = 0 THEN <<>>
                                ELSE IF i = t THEN c ELSE x.saved[i]
  /\ y.freed = IF i = t THEN FALSE ELSE x.freed
  /\ y.stale = x.stale

LEMMA WroteInode ==
  ASSUME NEW x \in World, NEW i \in InodeNos, NEW n \in Inode, NEW t,
         NEW c \in Seq(Stored)
  PROVE  InodeChanges(x, After(x, WriteInode(i, n), t, c), i, n, t, c)
<1> DEFINE w == WriteInode(i, n)
           v == IF n.kind # 1 \/ n.block_count = 0 THEN <<>>
                ELSE IF i = t THEN c ELSE x.saved[i]
           y == After(x, w, t, c)
<1>1. /\ x.disk \in Disk /\ x.saved \in [InodeNos -> Seq(Stored)]
      /\ x.freed \in BOOLEAN /\ x.stale \in SUBSET InodeNos
  BY DEF World
<1>2. w.page = "inode" /\ w.no = i /\ w.inode = n
  BY DEF WriteInode
<1>3. v \in Seq(Stored)
  BY <1>1
<1> DEFINE e == Written(x.disk, w)
<1>4. /\ e \in Disk /\ e.inode[i] = n
      /\ \A j \in InodeNos \ {i} : e.inode[j] = x.disk.inode[j]
      /\ e.super = x.disk.super /\ e.bitmap = x.disk.bitmap /\ e.block = x.disk.block
  BY <1>1, InodeWritten
<1> HIDE DEF w
<1>5. y = [disk |-> e, saved |-> [x.saved EXCEPT ![i] = v],
           freed |-> IF i = t THEN FALSE ELSE x.freed, stale |-> x.stale]
  BY <1>2 DEF After
<1> HIDE DEF e, v, y
<1>6. y.disk = e /\ y.saved = [x.saved EXCEPT ![i] = v]
      /\ y.freed = (IF i = t THEN FALSE ELSE x.freed) /\ y.stale = x.stale
  BY <1>5
<1>7. y.saved \in [InodeNos -> Seq(Stored)] /\ y.saved[i] = v
      /\ \A j \in InodeNos \ {i} : y.saved[j] = x.saved[j]
  BY <1>1, <1>3, <1>6
<1>8. y \in World
  BY <1>1, <1>4, <1>5, <1>6, <1>7 DEF World
<1>9. n.kind = 1 => v = IF n.block_count = 0 THEN <<>>
                        ELSE IF i = t THEN c ELSE x.saved[i]
  BY DEF v
<1>10. QED
  BY <1>4, <1>6, <1>7, <1>8, <1>9 DEF y, w, InodeChanges

BitmapChanges(x, y, used, t) ==
  /\ y \in World
  /\ y.disk.bitmap = used /\ y.disk.inode = x.disk.inode
  /\ y.disk.super = x.disk.super /\ y.disk.block = x.disk.block
  /\ y.saved = x.saved /\ y.stale = x.stale
  /\ y.freed = (t # 0 /\ x.disk.inode[t].block_count # 0)

LEMMA WroteBitmap ==
  ASSUME NEW x \in World, NEW used \in SUBSET DataBlocks, NEW t, NEW c
  PROVE  BitmapChanges(x, After(x, WriteBitmap(used), t, c), used, t)
<1> DEFINE w == WriteBitmap(used)
           y == After(x, w, t, c)
           e == Written(x.disk, w)
           freeing == t # 0 /\ x.disk.inode[t].block_count # 0
<1>1. /\ x.disk \in Disk /\ x.saved \in [InodeNos -> Seq(Stored)]
      /\ x.stale \in SUBSET InodeNos
  BY DEF World
<1>2. w.page = "bitmap"
  BY DEF WriteBitmap
<1>3. /\ e \in Disk /\ e.bitmap = used /\ e.super = x.disk.super
      /\ e.inode = x.disk.inode /\ e.block = x.disk.block
  BY <1>1, BitmapWritten
<1> HIDE DEF w
<1>4. y = [disk |-> e, saved |-> x.saved, freed |-> freeing,
           stale |-> x.stale]
  BY <1>2 DEF After
<1>5. freeing \in BOOLEAN
  OBVIOUS
<1> HIDE DEF e, y, freeing
<1>6. y.disk = e /\ y.saved = x.saved /\ y.freed = freeing /\ y.stale = x.stale
  BY <1>4
<1>7. y \in World
  BY <1>1, <1>3, <1>4, <1>5 DEF World
<1>8. QED
  BY <1>3, <1>6, <1>7 DEF y, w, freeing, BitmapChanges

BlockChanges(x, y, b, s) ==
  /\ y \in World
  /\ y.disk.block = [x.disk.block EXCEPT ![b] = s]
  /\ y.disk.super = x.disk.super /\ y.disk.inode = x.disk.inode
  /\ y.disk.bitmap = x.disk.bitmap
  /\ y.saved = x.saved /\ y.freed = x.freed /\ y.stale = x.stale

LEMMA WroteBlock ==
  ASSUME NEW x \in World, NEW b \in DataBlocks, NEW s \in Stored, NEW t, NEW c
  PROVE  BlockChanges(x, After(x, WriteBlock(b, s), t, c), b, s)
<1> DEFINE w == WriteBlock(b, s)
           y == After(x, w, t, c)
           e == Written(x.disk, w)
<1>1. /\ x.disk \in Disk /\ x.saved \in [InodeNos -> Seq(Stored)]
      /\ x.freed \in BOOLEAN /\ x.stale \in SUBSET InodeNos
  BY DEF World
<1>2. w.page = "block"
  BY DEF WriteBlock
<1>3. /\ e \in Disk /\ e.block = [x.disk.block EXCEPT ![b] = s]
      /\ e.super = x.disk.super /\ e.inode = x.disk.inode
      /\ e.bitmap = x.disk.bitmap
  BY <1>1, BlockWritten
<1> HIDE DEF w
<1>4. y = [disk |-> e, saved |-> x.saved, freed |-> x.freed,
           stale |-> x.stale]
  BY <1>2 DEF After
<1> HIDE DEF e, y
<1>5. y.disk = e /\ y.saved = x.saved /\ y.freed = x.freed /\ y.stale = x.stale
  BY <1>4
<1>6. y \in World
  BY <1>1, <1>3, <1>4 DEF World
<1>7. QED
  BY <1>3, <1>5, <1>6 DEF y, w, BlockChanges

(* The pages that operations write.                                        *)
LEMMA PageType ==
  /\ WriteSuper \in Pages /\ WriteTable \in Pages
  /\ \A used \in SUBSET DataBlocks : WriteBitmap(used) \in Pages
  /\ \A i \in InodeNos, n \in Inode : WriteInode(i, n) \in Pages
  /\ \A b \in DataBlocks, s \in Stored : WriteBlock(b, s) \in Pages
BY DEF Pages, WriteSuper, WriteTable, WriteBitmap,
       WriteInode, WriteBlock, Stored

(* A file without blocks.                                                  *)
LEMMA NoBlocks ==
  ASSUME NEW d \in Disk, NEW i \in InodeNos, d.inode[i].block_count = 0
  PROVE  BlocksOf(d.inode[i]) = {} /\ FileBytes(d, i) = <<>>
<1>1. d.inode[i].start_block \in 0 .. Blocks /\ Blocks \in Nat
  BY InodeType
<1>2. BlocksOf(d.inode[i]) = {}
  BY <1>1 DEF BlocksOf
<1>3. FileBytes(d, i) = <<>>
  BY DEF FileBytes
<1>4. QED
  BY <1>2, <1>3

(* A file whose blocks nobody writes to.                                   *)
LEMMA SameBytes ==
  ASSUME NEW d \in Disk, NEW e \in Disk, NEW i \in InodeNos,
         e.inode[i].start_block = d.inode[i].start_block,
         e.inode[i].block_count = d.inode[i].block_count,
         \A b \in BlocksOf(d.inode[i]) : e.block[b] = d.block[b]
  PROVE  BlocksOf(e.inode[i]) = BlocksOf(d.inode[i]) /\ FileBytes(e, i) = FileBytes(d, i)
<1> DEFINE s == d.inode[i].start_block
           n == d.inode[i].block_count
<1>1. s \in Nat /\ n \in Nat
  BY InodeType
<1>2. BlocksOf(e.inode[i]) = BlocksOf(d.inode[i])
  BY DEF BlocksOf
<1>3. \A k \in 1 .. n : e.block[s + k - 1] = d.block[s + k - 1]
  <2>1. \A k \in 1 .. n : s + k - 1 \in BlocksOf(d.inode[i])
    BY <1>1 DEF BlocksOf
  <2>2. QED
    BY <2>1
<1>4. FileBytes(e, i) = [k \in 1 .. n |-> e.block[s + k - 1]]
  BY DEF FileBytes
<1>5. FileBytes(d, i) = [k \in 1 .. n |-> d.block[s + k - 1]]
  BY DEF FileBytes
<1>6. QED
  BY <1>2, <1>3, <1>4, <1>5

----------------------------------------------------------------------------
(* What is lost when an operation ends early, and what is not.             *)

Reached(d, B) ==
  \A S \in SUBSET (B \cup {Root}) :
    Root \in S /\ Nearer(d, S) \subseteq S => B \subseteq S

(* O are the other inodes in use.                                         *)
Used(d, B, O) ==
  \A i \in InodeNos : d.inode[i].kind # 0 <=> i = Root \/ i \in B \/ i \in O

(* E are blocks that the bitmap has besides those of files.                *)
Marked(d, B, E) ==
  \A b \in DataBlocks :
    b \in d.bitmap <=> \/ \E i \in B : d.inode[i].kind = 1 /\ b \in BlocksOf(d.inode[i])
                       \/ b \in E

(* Nothing is lost, but the blocks of a file that are free too early.      *)
Whole(x, B) == /\ Reached(x.disk, B) /\ Used(x.disk, B, x.stale)
               /\ ~x.freed => Marked(x.disk, B, {})

Placed(x) == x \in World /\ InRange(x.disk) /\ x.disk.super

LEMMA SoundIsGood ==
  ASSUME NEW x, NEW t, NEW ok, NEW B, NEW R, Placed(x), Sound(x, t, ok, B, R)
  PROVE  Good(x, t, ok)
BY DEF Placed, Good

(* Writes of inodes that change no blocks leave the files as they are.     *)
LEMMA OwnedStays ==
  ASSUME NEW x \in World, NEW y \in World, NEW t, NEW B \in SUBSET InodeNos,
         NEW A \in SUBSET InodeNos,
         Owned(x, t, B), ~x.freed,
         y.disk.bitmap = x.disk.bitmap, y.disk.block = x.disk.block,
         \A i \in A : y.disk.inode[i].kind = 1 =>
           \/ /\ i \in B /\ x.disk.inode[i].kind = 1
              /\ y.disk.inode[i].start_block = x.disk.inode[i].start_block
              /\ y.disk.inode[i].block_count = x.disk.inode[i].block_count
              /\ y.saved[i] = x.saved[i]
           \/ y.disk.inode[i].block_count = 0 /\ y.saved[i] = <<>>
  PROVE  Owned(y, t, A)
<1>1. x.disk \in Disk /\ y.disk \in Disk
  BY DEF World
<1> DEFINE Same(i) == /\ i \in Kept(x, t, B)
                      /\ BlocksOf(y.disk.inode[i]) = BlocksOf(x.disk.inode[i])
                      /\ FileBytes(y.disk, i) = FileBytes(x.disk, i)
                      /\ y.saved[i] = x.saved[i]
           Empty(i) == /\ BlocksOf(y.disk.inode[i]) = {}
                       /\ FileBytes(y.disk, i) = y.saved[i]
<1>2. ASSUME NEW i \in Kept(y, t, A) PROVE Same(i) \/ Empty(i)
  <2>1. i \in A /\ i \in InodeNos /\ y.disk.inode[i].kind = 1
    BY DEF Kept
  <2>2. CASE y.disk.inode[i].block_count = 0 /\ y.saved[i] = <<>>
    <3>1. BlocksOf(y.disk.inode[i]) = {} /\ FileBytes(y.disk, i) = <<>>
      BY <1>1, <2>1, <2>2, NoBlocks
    <3>2. QED
      BY <2>2, <3>1
  <2>3. CASE /\ i \in B /\ x.disk.inode[i].kind = 1
             /\ y.disk.inode[i].start_block = x.disk.inode[i].start_block
             /\ y.disk.inode[i].block_count = x.disk.inode[i].block_count
             /\ y.saved[i] = x.saved[i]
    <3>1. \A b \in BlocksOf(x.disk.inode[i]) : y.disk.block[b] = x.disk.block[b]
      OBVIOUS
    <3>2. /\ BlocksOf(y.disk.inode[i]) = BlocksOf(x.disk.inode[i])
          /\ FileBytes(y.disk, i) = FileBytes(x.disk, i)
      BY <1>1, <2>1, <2>3, <3>1, SameBytes
    <3>3. i \in Kept(x, t, B)
      BY <2>3 DEF Kept
    <3>4. QED
      BY <2>3, <3>2, <3>3
  <2>4. QED
    BY <2>1, <2>2, <2>3
<1>3. \A i \in Kept(x, t, B) : /\ BlocksOf(x.disk.inode[i]) \subseteq x.disk.bitmap
                               /\ FileBytes(x.disk, i) = x.saved[i]
  BY DEF Owned
<1>4. \A i, j \in Kept(x, t, B) :
        i # j => BlocksOf(x.disk.inode[i]) \cap BlocksOf(x.disk.inode[j]) = {}
  BY DEF Owned
<1>5. ASSUME NEW i \in Kept(y, t, A)
      PROVE  /\ BlocksOf(y.disk.inode[i]) \subseteq y.disk.bitmap
             /\ FileBytes(y.disk, i) = y.saved[i]
  BY <1>2, <1>3
<1>6. ASSUME NEW i \in Kept(y, t, A), NEW j \in Kept(y, t, A), i # j
      PROVE  BlocksOf(y.disk.inode[i]) \cap BlocksOf(y.disk.inode[j]) = {}
  <2>1. (Same(i) \/ Empty(i)) /\ (Same(j) \/ Empty(j))
    BY <1>2
  <2>2. CASE Same(i) /\ Same(j)
    <3>1. BlocksOf(x.disk.inode[i]) \cap BlocksOf(x.disk.inode[j]) = {}
      BY <1>4, <1>6, <2>2
    <3>2. QED
      BY <2>2, <3>1
  <2>3. CASE Empty(i) \/ Empty(j)
    BY <2>3
  <2>4. QED
    BY <2>1, <2>2, <2>3
<1>7. QED
  BY <1>5, <1>6 DEF Owned

(* An inode whose blocks are in range is written.                          *)
LEMMA PlacedInode ==
  ASSUME NEW x, NEW y, Placed(x), NEW i \in InodeNos, NEW n, NEW t, NEW c,
         InodeChanges(x, y, i, n, t, c), BlocksOf(n) \subseteq DataBlocks
  PROVE  Placed(y)
<1>1. /\ y \in World /\ y.disk.inode[i] = n
      /\ \A j \in InodeNos \ {i} : y.disk.inode[j] = x.disk.inode[j]
      /\ y.disk.super = x.disk.super
  BY DEF InodeChanges
<1>2. \A j \in InodeNos : BlocksOf(y.disk.inode[j]) \subseteq DataBlocks
  BY <1>1 DEF Placed, InRange
<1>3. QED
  BY <1>1, <1>2 DEF Placed, InRange

----------------------------------------------------------------------------
(* A new entry.                                                            *)

NewInode(d, up, kind, name) ==
  [ZeroInode EXCEPT !.kind = kind, !.name = name, !.parent = up,
                    !.next_sibling = d.inode[up].first_child]

LEMMA NewInodeType ==
  ASSUME NEW d \in Disk, NEW up \in InodeNos, NEW kind \in {1, 2},
         NEW name \in InodeName
  PROVE  LET n == NewInode(d, up, kind, name) IN
         /\ n \in Inode /\ n.kind = kind /\ n.name = name /\ n.parent = up
         /\ n.next_sibling = d.inode[up].first_child
         /\ n.first_child = 0 /\ n.block_count = 0 /\ BlocksOf(n) = {}
<1> DEFINE n == NewInode(d, up, kind, name)
           next == d.inode[up].first_child
<1>1. /\ Inodes \in Nat /\ Blocks \in Nat /\ up \in 0 .. Inodes
      /\ next \in 0 .. Inodes
  BY InodeType DEF InodeNos
<1> HIDE DEF next
<1>2. n = [kind |-> kind, name |-> name, parent |-> up, first_child |-> 0,
           next_sibling |-> next, start_block |-> 0, block_count |-> 0]
  <2>1. n = [ZeroInode EXCEPT !.kind = kind, !.name = name, !.parent = up,
                              !.next_sibling = next]
    BY DEF NewInode, next
  <2> HIDE DEF n
  <2>2. QED
    BY <2>1 DEF ZeroInode
<1> HIDE DEF n
<1>3. /\ n.kind = kind /\ n.name = name /\ n.parent = up
      /\ n.next_sibling = next /\ n.first_child = 0
      /\ n.start_block = 0 /\ n.block_count = 0
  BY <1>2
<1>4. n \in Inode
  BY <1>1, <1>2 DEF Inode
<1>5. BlocksOf(n) = {}
  BY <1>3 DEF BlocksOf
<1>6. QED
  BY <1>3, <1>4, <1>5 DEF n, next

(* An inode that is not in use is in no list, and has none.                *)
LEMMA FreeInode ==
  ASSUME NEW d \in Disk, NEW B, NEW R, Lists(d, B, R), NEW i \in InodeNos,
         d.inode[i].kind = 0
  PROVE  i \in DOMAIN R /\ i \notin B /\ i # Root /\ d.inode[i].first_child = 0
<1>0. i \in DOMAIN R
  BY DEF Lists, Home
<1>1. /\ RootOk(d) /\ HeadOk(d, B, i) /\ \A j \in B : EntryOk(d, B, j)
  BY <1>0 DEF Lists
<1>2. i \notin B
  BY <1>1 DEF EntryOk
<1>3. i # Root
  BY <1>1 DEF RootOk
<1>4. d.inode[i].first_child = 0
  BY <1>1 DEF HeadOk
<1>5. QED
  BY <1>0, <1>2, <1>3, <1>4

(* What the inodes of the lists point to.                                  *)
LEMMA PointsTo ==
  ASSUME NEW d \in Disk, NEW B, NEW R, Lists(d, B, R), NEW i \in B \cup {Root}
  PROVE  /\ i \in InodeNos
         /\ d.inode[i].first_child \in B \cup {0}
         /\ d.inode[i].next_sibling \in B \cup {0}
<1>1. Root \in InodeNos
  BY VfsConstants DEF Root, InodeNos
<1>2. i \in InodeNos /\ i \in DOMAIN R
  BY <1>1 DEF Lists, Home
<1>3. HeadOk(d, B, i) /\ RootOk(d) /\ (i \in B => NextOk(d, B, R, i))
  BY <1>2 DEF Lists
<1>4. d.inode[i].next_sibling \in B \cup {0}
  BY <1>3 DEF RootOk, NextOk
<1>5. QED
  BY <1>2, <1>3, <1>4 DEF HeadOk

(* With a new entry everything can be reached as before.                   *)
LEMMA ReachedLink ==
  ASSUME NEW d \in Disk, NEW e \in Disk, NEW B, NEW R, Lists(d, B, R),
         NEW up \in B \cup {Root}, NEW no, no \notin B, no # Root, no # 0,
         Reached(d, B),
         e.inode[no].next_sibling = d.inode[up].first_child,
         e.inode[up].first_child = no,
         e.inode[up].next_sibling = d.inode[up].next_sibling,
         \A i \in (B \cup {Root}) \ {up} : e.inode[i] = d.inode[i]
  PROVE  Reached(e, B \cup {no})
<1> SUFFICES ASSUME NEW S \in SUBSET (B \cup {no} \cup {Root}), Root \in S,
                    Nearer(e, S) \subseteq S
             PROVE  B \cup {no} \subseteq S
  BY DEF Reached
<1> DEFINE T == S \ {no}
<1>1. \A i \in S : /\ e.inode[i].first_child \in S \cup {0}
                   /\ e.inode[i].next_sibling \in S \cup {0}
  BY DEF Nearer
<1>2. up \in S => no \in S /\ d.inode[up].first_child \in S \cup {0}
  BY <1>1
<1>3. ASSUME NEW i \in T
      PROVE  /\ d.inode[i].first_child \in T \cup {0}
             /\ d.inode[i].next_sibling \in T \cup {0}
  <2>1. i \in S /\ i \in B \cup {Root}
    OBVIOUS
  <2>2. d.inode[i].first_child # no /\ d.inode[i].next_sibling # no
    BY <2>1, PointsTo
  <2>3. CASE i = up
    BY <1>1, <1>2, <2>1, <2>2, <2>3
  <2>4. CASE i # up
    BY <1>1, <2>1, <2>2, <2>4
  <2>5. QED
    BY <2>3, <2>4
<1>4. T \in SUBSET (B \cup {Root}) /\ Root \in T
  OBVIOUS
<1>5. Nearer(d, T) \subseteq T
  BY <1>3 DEF Nearer
<1>6. B \subseteq T
  BY <1>4, <1>5 DEF Reached
<1>7. up \in S
  BY <1>6
<1>8. QED
  BY <1>2, <1>6, <1>7

(* The bitmap shows the same, when the files have the same blocks.         *)
SameFile(d, B, e, i) == /\ i \in B /\ d.inode[i].kind = 1
                        /\ BlocksOf(d.inode[i]) = BlocksOf(e.inode[i])

LEMMA MarkedStays ==
  ASSUME NEW d, NEW e, NEW B, NEW A, NEW E, Marked(d, B, E),
         e.bitmap = d.bitmap,
         \A i \in A : e.inode[i].kind = 1 =>
           SameFile(d, B, e, i) \/ BlocksOf(e.inode[i]) = {},
         \A i \in B : d.inode[i].kind = 1 => SameFile(e, A, d, i)
  PROVE  Marked(e, A, E)
<1> SUFFICES ASSUME NEW b \in DataBlocks
      PROVE  b \in e.bitmap <=>
               \/ \E i \in A : e.inode[i].kind = 1 /\ b \in BlocksOf(e.inode[i])
               \/ b \in E
  BY DEF Marked
<1>1. b \in d.bitmap <=>
        \/ \E i \in B : d.inode[i].kind = 1 /\ b \in BlocksOf(d.inode[i])
        \/ b \in E
  BY DEF Marked
<1>2. ASSUME NEW i \in A, e.inode[i].kind = 1, b \in BlocksOf(e.inode[i])
      PROVE  \E j \in B : d.inode[j].kind = 1 /\ b \in BlocksOf(d.inode[j])
  BY <1>2 DEF SameFile
<1>3. ASSUME NEW i \in B, d.inode[i].kind = 1, b \in BlocksOf(d.inode[i])
      PROVE  \E j \in A : e.inode[j].kind = 1 /\ b \in BlocksOf(e.inode[j])
  BY <1>3 DEF SameFile
<1>4. QED
  BY <1>1, <1>2, <1>3

(* The world behind the two writes of a new entry.                         *)
LinkedWorld(x, y, t, ok, B, A, no) ==
  /\ Placed(y) /\ ~y.freed /\ y.stale = x.stale
  /\ \E Q : Sound(y, t, ok, A, Q)
  /\ Whole(x, B) => Whole(y, A)
  /\ no \in A

(* No entry of the directory has the name, unless it is a cut one.         *)
NameFree(d, B, up, name) ==
  \/ name \in Cutoffs
  \/ \A i \in B : d.inode[i].parent = up => d.inode[i].name # name

(* What a new entry needs.                                                 *)
MayLink(x, B, up, no, name) ==
  /\ up \in InodeNos /\ up \notin x.stale /\ x.disk.inode[up].kind = 2
  /\ no \in InodeNos /\ x.disk.inode[no].kind = 0
  /\ NameFree(x.disk, B, up, name)

LinkRuns(x, up, no, kind, name, t, c, ok, B) ==
  LET n == NewInode(x.disk, up, kind, name)
      made == Link(x.disk, up, no, n)
  IN \E y : /\ Run(x, made, y, t, c, ok)
            /\ y.disk = Created(x.disk, made)
            /\ LinkedWorld(x, y, t, ok, B, B \cup {no}, no)
            /\ y.disk.inode[no] = n

LEMMA LinkRun ==
  ASSUME NEW x, Placed(x), ~x.freed, NEW t, NEW c \in Seq(Stored), NEW ok,
         NEW B, NEW R, Sound(x, t, ok, B, R),
         NEW up, NEW no, NEW kind \in {1, 2}, NEW name \in InodeName,
         MayLink(x, B, up, no, name)
  PROVE  LinkRuns(x, up, no, kind, name, t, c, ok, B)
<1> DEFINE d == x.disk
           n == NewInode(d, up, kind, name)
           m == [d.inode[up] EXCEPT !.first_child = no]
           v == WriteInode(no, n)
           w == WriteInode(up, m)
           y == After(x, v, t, c)
           z == After(y, w, t, c)
           A == B \cup {no}
           Q == [i \in DOMAIN R |-> IF i = no THEN 0 ELSE R[i] + 1]
<1>a. /\ up \in InodeNos /\ up \notin x.stale /\ x.disk.inode[up].kind = 2
      /\ no \in InodeNos /\ x.disk.inode[no].kind = 0
      /\ NameFree(x.disk, B, up, name)
  BY DEF MayLink
<1> USE <1>a
<1>1. /\ x \in World /\ d \in Disk /\ Lists(d, B, R) /\ (ok => Owned(x, t, B))
      /\ DOMAIN R = InodeNos \ x.stale /\ up \in InodeNos
  BY DEF Placed, World, Sound
<1>2. /\ B \subseteq InodeNos /\ no \notin B /\ no # Root /\ no # up /\ no # 0
      /\ d.inode[no].first_child = 0 /\ no \in DOMAIN R /\ up \in DOMAIN R
  <2>1. B \subseteq InodeNos
    BY <1>1 DEF Lists, Home
  <2>2. no \in DOMAIN R /\ no \notin B /\ no # Root /\ d.inode[no].first_child = 0
    BY <1>1, FreeInode
  <2>3. no # 0
    BY VfsConstants DEF InodeNos
  <2>4. QED
    BY <1>1, <2>1, <2>2, <2>3
<1>3. /\ n \in Inode /\ n.kind = kind /\ n.name = name /\ n.parent = up
      /\ n.next_sibling = d.inode[up].first_child
      /\ n.first_child = 0 /\ n.block_count = 0 /\ BlocksOf(n) = {}
  BY <1>1, NewInodeType
<1>4. /\ m \in Inode /\ m.kind = 2 /\ m.first_child = no
      /\ m.next_sibling = d.inode[up].next_sibling
      /\ m.start_block = d.inode[up].start_block
      /\ m.block_count = d.inode[up].block_count
  <2>1. d.inode[up] \in Inode /\ no \in 0 .. Inodes
    BY <1>1, VfsConstants DEF Disk, InodeNos
  <2>2. QED
    BY <2>1 DEF Inode
<1> HIDE DEF n, m
<1>5. InodeChanges(x, y, no, n, t, c)
  BY <1>1, <1>3, WroteInode
<1>6. y \in World
  BY <1>5 DEF InodeChanges
<1>7. InodeChanges(y, z, up, m, t, c)
  BY <1>4, <1>6, WroteInode
<1> HIDE DEF y, z
(* Behind the first write.                                                 *)
<1>8. /\ y.disk.inode[no] = n
      /\ \A i \in InodeNos \ {no} : /\ y.disk.inode[i] = d.inode[i]
                                    /\ y.saved[i] = x.saved[i]
      /\ y.disk.super = d.super /\ y.disk.bitmap = d.bitmap
      /\ y.disk.block = d.block /\ y.disk \in Disk /\ ~y.freed
      /\ n.kind = 1 => y.saved[no] = <<>>
      /\ y.stale = x.stale
  BY <1>3, <1>5 DEF InodeChanges, World
<1>9. Placed(y)
  BY <1>3, <1>5, PlacedInode
<1>10. Lists(y.disk, B, R)
  <2>1. \A i \in InodeNos :
          \/ Links(y.disk.inode[i]) = Links(d.inode[i])
          \/ /\ i \in DOMAIN R /\ i \notin B /\ i # Root
             /\ d.inode[i].first_child = 0 /\ y.disk.inode[i].first_child = 0
             /\ y.disk.inode[i].parent \in {0} \cup DOMAIN R
    BY <1>2, <1>3, <1>8
  <2>2. QED
    BY <1>1, <1>8, <2>1, ListsStay
<1>11. ok => Owned(y, t, B)
  <2> SUFFICES ASSUME ok PROVE Owned(y, t, B)
    OBVIOUS
  <2>1. \A i \in B : /\ y.disk.inode[i] = x.disk.inode[i]
                     /\ y.saved[i] = x.saved[i]
    BY <1>2, <1>8
  <2>2. QED
    BY <1>1, <1>2, <1>6, <1>8, <2>1, OwnedStays
<1>12. Sound(y, t, ok, B, R)
  BY <1>1, <1>8, <1>9, <1>10, <1>11 DEF Sound, Placed
(* Behind the second one.                                                  *)
<1>13. /\ z.disk.inode[up] = m
       /\ \A i \in InodeNos \ {up} : /\ z.disk.inode[i] = y.disk.inode[i]
                                     /\ z.saved[i] = y.saved[i]
       /\ z.disk.super = d.super /\ z.disk.bitmap = d.bitmap
       /\ z.disk.block = d.block /\ z.disk \in Disk /\ z \in World /\ ~z.freed
       /\ z.stale = x.stale
  BY <1>7, <1>8 DEF InodeChanges, World
<1>14. Placed(z)
  <2>1. BlocksOf(m) = BlocksOf(d.inode[up])
    BY <1>4 DEF BlocksOf
  <2>2. BlocksOf(d.inode[up]) \subseteq DataBlocks
    BY DEF Placed, InRange
  <2>3. QED
    BY <1>7, <1>9, <2>1, <2>2, PlacedInode
<1>15. Lists(z.disk, A, Q)
  <2>1. y.disk.inode[up] = d.inode[up]
    BY <1>2, <1>8
  <2>2. z.disk.inode[up] = [y.disk.inode[up] EXCEPT !.first_child = no]
    BY <1>13, <2>1 DEF m
  <2>3. \/ n.name \in Cutoffs
        \/ \A i \in B : y.disk.inode[i].parent = up
                         => y.disk.inode[i].name # n.name
    BY <1>2, <1>3, <1>8 DEF NameFree
  <2>4. \A i \in InodeNos \ {up} : z.disk.inode[i] = y.disk.inode[i]
    BY <1>13
  <2>5. n.kind # 0
    BY <1>3
  <2>6. /\ y.disk \in Disk /\ z.disk \in Disk /\ y.disk.inode[up].kind = 2
        /\ no # up /\ no \notin B /\ no # Root
    BY <1>2, <1>8, <1>13, <2>1
  <2>7. /\ y.disk.inode[no].kind # 0 /\ y.disk.inode[no].parent = up
        /\ y.disk.inode[no].next_sibling = y.disk.inode[up].first_child
        /\ \/ y.disk.inode[no].name \in Cutoffs
           \/ \A i \in B : y.disk.inode[i].parent = up
                            => y.disk.inode[i].name # y.disk.inode[no].name
    BY <1>3, <1>8, <2>1, <2>3, <2>5
  <2> HIDE DEF A, Q, d
  <2>8. LinksIn(y.disk, z.disk, B, up, no)
    BY <2>2, <2>4, <2>6, <2>7 DEF LinksIn
  <2>9. Lists(z.disk, B \cup {no}, [i \in DOMAIN R |-> IF i = no THEN 0 ELSE R[i] + 1])
    BY <1>2, <1>10, <2>6, <2>8, ListsLink
  <2>10. QED
    BY <2>9 DEF A, Q
<1>16. A \subseteq InodeNos
  BY <1>2
<1>17. ok => Owned(z, t, A)
  <2> SUFFICES ASSUME ok PROVE Owned(z, t, A)
    OBVIOUS
  <2>1. ASSUME NEW i \in A, z.disk.inode[i].kind = 1
        PROVE  \/ /\ i \in B /\ y.disk.inode[i].kind = 1
                  /\ z.disk.inode[i].start_block = y.disk.inode[i].start_block
                  /\ z.disk.inode[i].block_count = y.disk.inode[i].block_count
                  /\ z.saved[i] = y.saved[i]
               \/ z.disk.inode[i].block_count = 0 /\ z.saved[i] = <<>>
    <3>1. i # up
      BY <1>4, <1>13, <2>1
    <3>2. z.disk.inode[i] = y.disk.inode[i] /\ z.saved[i] = y.saved[i]
      BY <1>13, <1>16, <3>1
    <3>3. QED
      BY <1>3, <1>8, <2>1, <3>2
  <2>2. QED
    BY <1>2, <1>6, <1>8, <1>11, <1>13, <1>16, <2>1, OwnedStays
<1>18. Sound(z, t, ok, A, Q)
  <2>1. DOMAIN Q = InodeNos \ z.stale
    BY <1>1, <1>13
  <2>2. QED
    BY <1>14, <1>15, <1>17, <2>1 DEF Sound, Placed
<1>19. ASSUME Whole(x, B) PROVE Whole(z, A)
  <2>1. /\ Reached(d, B) /\ Used(d, B, x.stale) /\ Marked(d, B, {})
    BY <1>19 DEF Whole
  <2>2. up \in B \cup {Root}
    BY <1>1, <2>1 DEF Used
  <2>3. Reached(z.disk, A)
    <3>1. z.disk.inode[no].next_sibling = d.inode[up].first_child
      BY <1>2, <1>3, <1>8, <1>13
    <3>2. \A i \in (B \cup {Root}) \ {up} : z.disk.inode[i] = d.inode[i]
      <4>1. Root \in InodeNos
        BY VfsConstants DEF Root, InodeNos
      <4>2. QED
        BY <1>2, <1>8, <1>13, <4>1
    <3> HIDE DEF d, A
    <3>3. Reached(z.disk, B \cup {no})
      BY <1>1, <1>2, <1>4, <1>13, <2>1, <2>2, <3>1, <3>2, ReachedLink
    <3>4. QED
      BY <3>3 DEF A
  <2>4. Used(z.disk, A, z.stale)
    <3>1. \A i \in InodeNos : i # no => z.disk.inode[i].kind = d.inode[i].kind
      BY <1>4, <1>8, <1>13
    <3>2. z.disk.inode[no].kind # 0
      BY <1>2, <1>3, <1>8, <1>13
    <3>3. QED
      BY <1>13, <2>1, <3>1, <3>2 DEF Used
  <2>5. Marked(z.disk, A, {})
    <3>1. \A i \in InodeNos : i # no /\ i # up => z.disk.inode[i] = d.inode[i]
      BY <1>8, <1>13
    <3>2. z.disk.inode[no] = n
      BY <1>2, <1>8, <1>13
    <3> HIDE DEF d
    <3>3. z.disk.inode[up].kind # 1 /\ d.inode[up].kind # 1
      BY <1>4, <1>13 DEF d
    <3>4. no \notin B
      BY <1>2
    <3>5. \A i \in A : z.disk.inode[i].kind = 1 =>
            SameFile(d, B, z.disk, i) \/ BlocksOf(z.disk.inode[i]) = {}
      BY <1>3, <1>16, <3>1, <3>2, <3>3 DEF SameFile
    <3>6. \A i \in B : d.inode[i].kind = 1 => SameFile(z.disk, A, d, i)
      BY <1>16, <3>1, <3>3, <3>4 DEF SameFile
    <3> HIDE DEF A
    <3>7. QED
      BY <1>13, <2>1, <3>5, <3>6, MarkedStays DEF d
  <2>6. QED
    BY <2>3, <2>4, <2>5 DEF Whole
(* The run.                                                                *)
<1>20. v \in Pages /\ w \in Pages
  BY <1>3, <1>4, PageType
<1>21. Good(x, t, ok) /\ Good(y, t, ok) /\ Good(z, t, ok)
  <2>1. Good(x, t, ok)
    BY SoundIsGood
  <2>2. Good(y, t, ok)
    BY <1>9, <1>12, SoundIsGood
  <2>3. Good(z, t, ok)
    BY <1>14, <1>18, SoundIsGood
  <2>4. QED
    BY <2>1, <2>2, <2>3
<1> HIDE DEF v, w, A, Q
<1>22. Run(x, <<v>>, y, t, c, ok)
  BY <1>20, <1>21, RunOne DEF y
<1>23. Run(y, <<w>>, z, t, c, ok)
  BY <1>20, <1>21, RunOne DEF z
<1>24. Run(x, <<v>> \o <<w>>, z, t, c, ok)
  BY <1>22, <1>23, RunBoth
<1>25. Link(d, up, no, n) = <<v>> \o <<w>>
  BY DEF Link, v, w, m
<1>26. z.disk = Created(d, Link(d, up, no, n))
  <2>1. Link(d, up, no, n) = <<v, w>>
    BY DEF Link, v, w, m
  <2>2. <<v, w>> # <<>> /\ <<v, w>>[1] = v /\ <<v, w>>[2] = w
    OBVIOUS
  <2>3. Created(d, <<v, w>>) = Written(Written(d, v), w)
    BY <2>2 DEF Created
  <2>4. y.disk = Written(d, v)
    BY DEF y, After
  <2>5. z.disk = Written(y.disk, w)
    BY DEF z, After
  <2>6. QED
    BY <2>1, <2>3, <2>4, <2>5
<1>27. LinkedWorld(x, z, t, ok, B, A, no)
  <2>1. no \in A
    BY DEF A
  <2>2. QED
    BY <1>13, <1>14, <1>18, <1>19, <2>1 DEF LinkedWorld
<1>28. z.disk.inode[no] = n
  BY <1>2, <1>8, <1>13
<1>29. QED
  BY <1>24, <1>25, <1>26, <1>27, <1>28 DEF n, A, LinkRuns

(* The writes made are those of a new entry no.                            *)
Enters(x, made, no, kind, t, c, ok, B) ==
  /\ no \in InodeNos /\ x.disk.inode[no].kind = 0
  /\ made # <<>> /\ made[1].no = no
  /\ \E y : /\ Run(x, made, y, t, c, ok)
            /\ y.disk = Created(x.disk, made)
            /\ LinkedWorld(x, y, t, ok, B, B \cup {no}, no)
            /\ y.disk.inode[no].kind = kind /\ y.disk.inode[no].block_count = 0

(* Where a path leads, and where its directory is.                         *)
LEMMA PathType ==
  ASSUME NEW path \in DiskPath
  PROVE  /\ path.abs \in BOOLEAN
         /\ path.parts \in Seq(Names \cup Dots) /\ Len(path.parts) \in Nat \ {0}
         /\ Last(path.parts) = path.parts[Len(path.parts)]
         /\ Last(path.parts) \in InodeName
         /\ Len(path.parts) # 1 =>
              LET up == [path EXCEPT !.parts = Front(@)] IN
              /\ up.abs = path.abs
              /\ Len(up.parts) \in Nat
<1> DEFINE s == path.parts
           S == Names \cup Dots
           up == [path EXCEPT !.parts = Front(@)]
<1>1. /\ path.abs \in BOOLEAN /\ s \in Seq(S) /\ s # <<>>
      /\ path = [abs |-> path.abs, parts |-> s]
  BY DEF DiskPath
<1>2. up.abs = path.abs /\ up.parts = Front(s)
  BY <1>1
<1> HIDE DEF s, up, S
<1>3. Len(s) \in Nat /\ Len(s) # 0
  BY <1>1, EmptySeq
<1>4. Last(s) = s[Len(s)]
  BY DEF Last
<1>5. Last(s) \in InodeName
  <2>1. Last(s) \in S
    BY <1>1, <1>3, <1>4
  <2>2. QED
    BY <2>1 DEF S, InodeName
<1>6. Len(Front(s)) \in Nat
  <2>1. Front(s) \in Seq(S)
    BY <1>1, <1>3 DEF Front
  <2>2. QED
    BY <2>1
<1>7. QED
  BY <1>1, <1>2, <1>3, <1>4, <1>5, <1>6 DEF s, up, S

LEMMA ResolveAnswers ==
  ASSUME NEW d \in Disk, NEW B, NEW R, Lists(d, B, R), NEW path,
         Len(path.parts) \in Nat, NEW dir \in DOMAIN R
  PROVE  /\ resolve(d, path, dir) \in Answers(DOMAIN R)
         /\ Len(path.parts) # 0 /\ path.parts[Len(path.parts)] \notin Dots =>
              resolve(d, path, dir).no \in {0} \cup B
<1> DEFINE cur == IF path.abs \/ path.parts = <<NoName>> THEN Root ELSE dir
           parts == path.parts
<1>1. cur \in DOMAIN R
  BY DEF Lists, Home
<1>2. resolve(d, path, dir) = Walk(d, cur, parts)
  BY DEF resolve
<1> HIDE DEF cur, parts
<1>3. /\ Walk(d, cur, parts) \in Answers(DOMAIN R)
      /\ Len(parts) # 0 /\ parts[Len(parts)] \notin Dots =>
           Walk(d, cur, parts).no \in {0} \cup B
  <2>1. Len(parts) \in Nat
    BY DEF parts
  <2>2. QED
    BY <1>1, <2>1, WalkAnswers
<1>4. QED
  BY <1>2, <1>3 DEF parts

LEMMA AnswerType ==
  ASSUME NEW C, NEW v \in Answers(C)
  PROVE  /\ v.no \in {0} \cup C
         /\ v.error = "NotFound" => v.no = 0
BY DEF Answers, Found, NotFound, NotDir

LEMMA ParentAnswers ==
  ASSUME NEW d \in Disk, NEW B, NEW R, Lists(d, B, R), NEW path \in DiskPath,
         NEW dir \in DOMAIN R
  PROVE  ParentOf(d, path, dir).no \in {0} \cup DOMAIN R
<1> DEFINE up == [path EXCEPT !.parts = Front(@)]
<1>1. CASE Len(path.parts) = 1
  BY <1>1 DEF ParentOf, Found
<1>2. CASE Len(path.parts) # 1
  <2>1. Len(up.parts) \in Nat
    BY <1>2, PathType
  <2>2. ParentOf(d, path, dir) = resolve(d, up, dir)
    BY <1>2 DEF ParentOf
  <2> HIDE DEF up
  <2>3. resolve(d, up, dir) \in Answers(DOMAIN R)
    BY <2>1, ResolveAnswers
  <2>4. QED
    BY <2>2, <2>3, AnswerType
<1>3. QED
  BY <1>1, <1>2

(* What an inode keeps of a name is the name, or what is left of it.       *)
LEMMA ShortName ==
  ASSUME NEW whole \in InodeName
  PROVE  Short(whole) \in InodeName /\ (Short(whole) = whole \/ Short(whole) \in Cutoffs)
<1>1. CASE whole \in Names
  <2>1. Cut[whole] \in Names
    BY <1>1, VfsConstants
  <2>2. Cut[whole] # whole => Cut[whole] \in Cutoffs
    BY <1>1 DEF Cutoffs
  <2>3. Short(whole) = Cut[whole]
    BY <1>1 DEF Short
  <2>4. QED
    BY <2>1, <2>2, <2>3 DEF InodeName
<1>2. CASE whole \notin Names
  BY <1>2 DEF Short
<1>3. QED
  BY <1>1, <1>2

LEMMA CreateRun ==
  ASSUME NEW x, Placed(x), ~x.freed, NEW c \in Seq(Stored), NEW ok,
         NEW B, NEW R, \A t : Sound(x, t, ok, B, R),
         NEW path \in DiskPath, NEW dir \in InodeNos \ x.stale, NEW kind \in {1, 2},
         create_entry(x.disk, path, dir, kind) # <<>>
  PROVE  \E no : \A t :
           Enters(x, create_entry(x.disk, path, dir, kind), no, kind, t, c, ok, B)
<1> DEFINE d == x.disk
           made == create_entry(d, path, dir, kind)
           up == ParentOf(d, path, dir).no
           whole == Last(path.parts)
           name == Short(whole)
           free == FreeInodes(d)
           s == List(d, d.inode[up].first_child)
           no == CHOOSE i \in free : \A j \in free : i <= j
           n == NewInode(d, up, kind, name)
<1>1. d \in Disk /\ Lists(d, B, R) /\ dir \in DOMAIN R /\ DOMAIN R = InodeNos \ x.stale
  BY DEF Placed, World, Sound
<1>2. up \in {0} \cup DOMAIN R
  BY <1>1, ParentAnswers
<1>3. name \in InodeName /\ (name = whole \/ name \in Cutoffs)
  BY PathType, ShortName
<1>4. made = IF up = 0 THEN <<>> ELSE Enter(d, up, whole, kind, free, s)
  BY DEF create_entry
<1> HIDE DEF s, free
<1>5. Enter(d, up, whole, kind, free, s) =
        IF \/ d.inode[up].kind # 2 \/ free = {}
           \/ \E k \in DOMAIN s : d.inode[s[k]].name = whole
        THEN <<>> ELSE Link(d, up, no, n)
  BY DEF Enter, NewInode
<1> HIDE DEF up, whole, name, no, n, made
<1>6. /\ up \in InodeNos \ x.stale /\ up \in DOMAIN R /\ d.inode[up].kind = 2 /\ free # {}
      /\ \A k \in DOMAIN s : d.inode[s[k]].name # whole
      /\ made = Link(d, up, no, n)
  BY <1>1, <1>2, <1>4, <1>5 DEF made
<1>7. no \in InodeNos /\ d.inode[no].kind = 0
  <2>1. free \in SUBSET Nat /\ \A i \in free : i \in InodeNos /\ d.inode[i].kind = 0
    BY DEF free, FreeInodes, InodeNos
  <2>2. \E i \in free : \A j \in free : i <= j
    BY <1>6, <2>1, LeastNat
  <2>3. no \in free
    BY <2>2 DEF no
  <2>4. QED
    BY <2>1, <2>3
<1>8. NameFree(d, B, up, name)
  <2>1. ListIs(d, B, up, s)
    BY <1>1, <1>6, ListFacts DEF s
  <2>2. DOMAIN s = 1 .. Len(s)
    BY <2>1 DEF ListIs
  <2>3. QED
    BY <1>3, <1>6, <2>1, <2>2 DEF ListIs, NameFree
<1>9. ASSUME NEW t
      PROVE  \E y : /\ Run(x, made, y, t, c, ok)
                    /\ y.disk = Created(d, made)
                    /\ LinkedWorld(x, y, t, ok, B, B \cup {no}, no)
                    /\ y.disk.inode[no] = n
  <2>1. Sound(x, t, ok, B, R) /\ name \in InodeName
    BY <1>3
  <2>2. up \in InodeNos /\ up \notin x.stale /\ d.inode[up].kind = 2
    BY <1>6
  <2>3. LinkRuns(x, up, no, kind, name, t, c, ok, B)
    <3>1. MayLink(x, B, up, no, name)
      BY <1>7, <1>8, <2>2 DEF MayLink
    <3>2. QED
      BY <2>1, <3>1, LinkRun
  <2>4. QED
    BY <1>6, <2>3 DEF LinkRuns, n
<1>10. n.kind = kind /\ n.block_count = 0
  BY <1>1, <1>3, <1>6, NewInodeType DEF n
<1>11. made # <<>> /\ made[1].no = no
  <2>1. made = <<WriteInode(no, n),
                 WriteInode(up, [d.inode[up] EXCEPT !.first_child = no])>>
    BY <1>6 DEF Link
  <2>2. made[1] = WriteInode(no, n) /\ made # <<>>
    BY <2>1
  <2>3. QED
    BY <2>2 DEF WriteInode
<1>12. \A t : Enters(x, made, no, kind, t, c, ok, B)
  BY <1>7, <1>9, <1>10, <1>11 DEF Enters
<1>13. QED
  BY <1>12 DEF made

----------------------------------------------------------------------------
(* An entry is removed.                                                    *)

(* Writing an inode that keeps its blocks.                                 *)
KeepsBlocks(x, y, i, n, t, B, A) ==
  /\ Placed(y) /\ ~y.freed
  /\ y.disk.inode[i] = n
  /\ \A j \in InodeNos \ {i} : y.disk.inode[j] = x.disk.inode[j]
  /\ y.disk.bitmap = x.disk.bitmap /\ y.stale = x.stale
  /\ Owned(x, t, B) => Owned(y, t, A)

LEMMA LinkWrite ==
  ASSUME NEW x, Placed(x), ~x.freed, NEW i \in InodeNos, NEW n \in Inode,
         n.kind = x.disk.inode[i].kind,
         n.start_block = x.disk.inode[i].start_block,
         n.block_count = x.disk.inode[i].block_count,
         NEW t, i # t, NEW c \in Seq(Stored), NEW y,
         y = After(x, WriteInode(i, n), t, c),
         NEW B \in SUBSET InodeNos, NEW A \in SUBSET B
  PROVE  KeepsBlocks(x, y, i, n, t, B, A)
<1>1. x \in World
  BY DEF Placed
<1>2. InodeChanges(x, y, i, n, t, c)
  BY <1>1, WroteInode
<1>3. Placed(y)
  <2>1. BlocksOf(n) \subseteq DataBlocks
    BY DEF BlocksOf, Placed, InRange
  <2>2. QED
    BY <1>2, <2>1, PlacedInode
<1>4. /\ y \in World /\ y.disk.inode[i] = n
      /\ \A j \in InodeNos \ {i} : /\ y.disk.inode[j] = x.disk.inode[j]
                                   /\ y.saved[j] = x.saved[j]
      /\ y.disk.bitmap = x.disk.bitmap /\ y.disk.block = x.disk.block
      /\ n.kind = 1 => y.saved[i] = IF n.block_count = 0 THEN <<>> ELSE x.saved[i]
      /\ ~y.freed /\ y.stale = x.stale
  BY <1>2 DEF InodeChanges
<1>5. ASSUME Owned(x, t, B) PROVE Owned(y, t, A)
  <2>1. ASSUME NEW j \in A, y.disk.inode[j].kind = 1
        PROVE  \/ /\ j \in B /\ x.disk.inode[j].kind = 1
                  /\ y.disk.inode[j].start_block = x.disk.inode[j].start_block
                  /\ y.disk.inode[j].block_count = x.disk.inode[j].block_count
                  /\ y.saved[j] = x.saved[j]
               \/ y.disk.inode[j].block_count = 0 /\ y.saved[j] = <<>>
    <3>1. j \in B /\ j \in InodeNos
      OBVIOUS
    <3>2. CASE j = i
      BY <1>4, <2>1, <3>1, <3>2
    <3>3. CASE j # i
      BY <1>4, <2>1, <3>1, <3>3
    <3>4. QED
      BY <3>2, <3>3
  <2>2. A \in SUBSET InodeNos
    OBVIOUS
  <2>3. QED
    BY <1>1, <1>4, <1>5, <2>1, <2>2, OwnedStays
<1>6. QED
  BY <1>3, <1>4, <1>5 DEF KeepsBlocks

(* Without the entry that p pointed to, the others can be reached.         *)
LEMMA ReachedUnlink ==
  ASSUME NEW d, NEW e, NEW B, Reached(d, B),
         NEW no \in B, no # Root, d.inode[no].first_child = 0,
         NEW p \in B \cup {Root}, p # no,
         \/ /\ d.inode[p].first_child = no
            /\ e.inode[p].first_child = d.inode[no].next_sibling
            /\ e.inode[p].next_sibling = d.inode[p].next_sibling
         \/ /\ d.inode[p].next_sibling = no
            /\ e.inode[p].next_sibling = d.inode[no].next_sibling
            /\ e.inode[p].first_child = d.inode[p].first_child,
         \A i \in (B \cup {Root}) \ {p} : e.inode[i] = d.inode[i]
  PROVE  Reached(e, B \ {no})
<1> SUFFICES ASSUME NEW S \in SUBSET ((B \ {no}) \cup {Root}), Root \in S,
                    Nearer(e, S) \subseteq S
             PROVE  B \ {no} \subseteq S
  BY DEF Reached
<1>1. \A i \in S : /\ e.inode[i].first_child \in S \cup {0}
                   /\ e.inode[i].next_sibling \in S \cup {0}
  BY DEF Nearer
<1>2. no \notin S
  OBVIOUS
<1>3. CASE p \in S
  <2> DEFINE T == S \cup {no}
  <2>1. d.inode[no].next_sibling \in S \cup {0}
    BY <1>1, <1>3
  <2>2. ASSUME NEW i \in T
        PROVE  /\ d.inode[i].first_child \in T \cup {0}
               /\ d.inode[i].next_sibling \in T \cup {0}
    <3>1. CASE i = no
      BY <2>1, <3>1
    <3>2. CASE i = p
      BY <1>1, <1>3, <3>2
    <3>3. CASE i # no /\ i # p
      BY <1>1, <3>3
    <3>4. QED
      BY <3>1, <3>2, <3>3
  <2>3. T \in SUBSET (B \cup {Root}) /\ Root \in T
    OBVIOUS
  <2>4. Nearer(d, T) \subseteq T
    BY <2>2 DEF Nearer
  <2>5. B \subseteq T
    BY <2>3, <2>4 DEF Reached
  <2>6. QED
    BY <2>5
<1>4. CASE p \notin S
  <2>1. \A i \in S : /\ d.inode[i].first_child \in S \cup {0}
                     /\ d.inode[i].next_sibling \in S \cup {0}
    BY <1>1, <1>4
  <2>2. Nearer(d, S) \subseteq S
    BY <2>1 DEF Nearer
  <2>3. B \subseteq S
    BY <2>2 DEF Reached
  <2>4. QED
    BY <2>3
<1>5. QED
  BY <1>3, <1>4

(* What is in use when the entry is out of its list.                       *)
LEMMA UnlinkedWhole ==
  ASSUME NEW d, NEW e, NEW B \in SUBSET InodeNos, NEW no \in B,
         NEW O, Used(d, B, O), Marked(d, B, {}),
         e.bitmap = d.bitmap,
         \A i \in InodeNos : /\ e.inode[i].kind = d.inode[i].kind
                             /\ BlocksOf(e.inode[i]) = BlocksOf(d.inode[i])
  PROVE  /\ Used(e, B \ {no}, {no} \cup O)
         /\ d.inode[no].kind = 1 => Marked(e, B \ {no}, BlocksOf(d.inode[no]))
         /\ d.inode[no].kind # 1 => Marked(e, B \ {no}, {})
<1>1. Used(e, B \ {no}, {no} \cup O)
  BY DEF Used
<1>2. ASSUME NEW b \in DataBlocks
      PROVE  b \in e.bitmap <=>
               \E i \in B : e.inode[i].kind = 1 /\ b \in BlocksOf(e.inode[i])
  BY DEF Marked
<1>3. ASSUME d.inode[no].kind = 1
      PROVE  Marked(e, B \ {no}, BlocksOf(d.inode[no]))
  BY <1>2, <1>3 DEF Marked
<1>4. ASSUME d.inode[no].kind # 1
      PROVE  Marked(e, B \ {no}, {})
  BY <1>2, <1>4 DEF Marked
<1>5. QED
  BY <1>1, <1>3, <1>4

(* The world when the entry is out of its list.                            *)
Unlinked(x, y, ok, B, no) ==
  /\ Placed(y) /\ ~y.freed /\ y.stale = x.stale
  /\ \E Q : DOMAIN Q = InodeNos \ y.stale /\ Lists(y.disk, B \ {no}, Q)
  /\ ok => Owned(y, 0, B)
  /\ y.disk.inode[no] = x.disk.inode[no]
  /\ y.disk.bitmap = x.disk.bitmap
  /\ Whole(x, B) =>
       /\ Reached(y.disk, B \ {no}) /\ Used(y.disk, B \ {no}, {no} \cup y.stale)
       /\ y.disk.inode[no].kind = 1 =>
            Marked(y.disk, B \ {no}, BlocksOf(y.disk.inode[no]))
       /\ y.disk.inode[no].kind # 1 => Marked(y.disk, B \ {no}, {})

LEMMA OwnedLess ==
  ASSUME NEW x, NEW t, NEW B, NEW A \in SUBSET B, Owned(x, t, B)
  PROVE  Owned(x, t, A)
<1>1. Kept(x, t, A) \subseteq Kept(x, t, B)
  BY DEF Kept
<1>2. QED
  BY <1>1 DEF Owned

LEMMA UnlinkedSound ==
  ASSUME NEW x, NEW y, NEW ok, NEW B, NEW no, Unlinked(x, y, ok, B, no)
  PROVE  Good(y, 0, ok)
<1>1. PICK Q : DOMAIN Q = InodeNos \ y.stale /\ Lists(y.disk, B \ {no}, Q)
  BY DEF Unlinked
<1>2. ok => Owned(y, 0, B \ {no})
  BY OwnedLess DEF Unlinked
<1>3. Sound(y, 0, ok, B \ {no}, Q)
  BY <1>1, <1>2 DEF Sound, Unlinked, Placed
<1>4. QED
  BY <1>3, SoundIsGood DEF Unlinked

(* The write that takes an entry out of its list; p pointed to it.         *)
LEMMA UnlinkWrite ==
  ASSUME NEW x, Placed(x), ~x.freed, NEW c \in Seq(Stored), NEW ok,
         NEW B, NEW R, Sound(x, 0, ok, B, R),
         NEW no \in B, x.disk.inode[no].first_child = 0,
         NEW p \in InodeNos \ x.stale, NEW n,
         \/ /\ p = x.disk.inode[no].parent
            /\ x.disk.inode[p].first_child = no
            /\ n = [x.disk.inode[p] EXCEPT !.first_child = x.disk.inode[no].next_sibling]
         \/ /\ p \in B /\ x.disk.inode[p].next_sibling = no
            /\ n = [x.disk.inode[p] EXCEPT !.next_sibling = x.disk.inode[no].next_sibling]
  PROVE  /\ WriteInode(p, n) \in Pages
         /\ Unlinked(x, After(x, WriteInode(p, n), 0, c), ok, B, no)
<1> DEFINE d == x.disk
           old == d.inode[p]
           rest == d.inode[no].next_sibling
           y == After(x, WriteInode(p, n), 0, c)
           A == B \ {no}
<1>1. /\ x \in World /\ d \in Disk /\ Lists(d, B, R) /\ (ok => Owned(x, 0, B))
      /\ DOMAIN R = InodeNos \ x.stale /\ p \in InodeNos /\ p \in DOMAIN R
  BY DEF Placed, World, Sound
<1>2. /\ B \subseteq InodeNos /\ no \in InodeNos /\ no # Root /\ no # 0
      /\ d.inode[no].parent \in InodeNos \ {no}
  BY <1>1, ParentOfEntry DEF Lists, Home
<1>3. p # no
  <2>1. CASE p = d.inode[no].parent
    BY <1>2, <2>1
  <2>2. CASE p \in B /\ d.inode[p].next_sibling = no
    <3>1. NextOk(d, B, R, p) /\ R \in [DOMAIN R -> Nat] /\ B \subseteq DOMAIN R
      BY <1>1, <2>2 DEF Lists
    <3>2. R[p] < R[no] /\ R[p] \in Nat
      BY <1>2, <2>2, <3>1 DEF NextOk
    <3>3. QED
      BY <3>2
  <2>3. QED
    BY <2>1, <2>2
<1>4. /\ old \in Inode /\ rest \in 0 .. Inodes
  BY <1>1, <1>2, InodeType DEF Disk
<1>5. /\ n \in Inode /\ n.kind = old.kind
      /\ n.start_block = old.start_block /\ n.block_count = old.block_count
      /\ \/ n.first_child = rest /\ n.next_sibling = old.next_sibling
         \/ n.next_sibling = rest /\ n.first_child = old.first_child
  <2> HIDE DEF old, rest
  <2>1. n = [old EXCEPT !.first_child = rest] \/ n = [old EXCEPT !.next_sibling = rest]
    BY DEF old, rest
  <2>2. QED
    BY <1>4, <2>1 DEF Inode
<1>6. InodeNos # {} /\ p # 0
  BY <1>1, VfsConstants DEF InodeNos
<1>7. y = After(x, WriteInode(p, n), 0, c)
  OBVIOUS
<1> HIDE DEF y
<1>71. /\ Placed(y) /\ ~y.freed
       /\ y.disk.inode[p] = n
       /\ \A j \in InodeNos \ {p} : y.disk.inode[j] = d.inode[j]
       /\ y.disk.bitmap = d.bitmap /\ y.stale = x.stale
       /\ Owned(x, 0, B) => Owned(y, 0, B)
  <2>1. B \in SUBSET InodeNos /\ B \in SUBSET B
    BY <1>2
  <2>2. KeepsBlocks(x, y, p, n, 0, B, B)
    BY <1>1, <1>5, <1>6, <1>7, <2>1, LinkWrite
  <2>3. QED
    BY <2>2 DEF KeepsBlocks
<1>8. y.disk \in Disk
  BY <1>71 DEF Placed, World
<1>9. Lists(y.disk, A, R)
  <2>1. CASE /\ p = d.inode[no].parent /\ d.inode[p].first_child = no
             /\ n = [d.inode[p] EXCEPT !.first_child = d.inode[no].next_sibling]
    <3>1. y.disk.inode[p] = [d.inode[p] EXCEPT !.first_child = d.inode[no].next_sibling]
      BY <1>71, <2>1
    <3>2. \A j \in InodeNos \ {p} : y.disk.inode[j] = d.inode[j]
      BY <1>71
    <3>3. /\ d.inode[no].first_child = 0
          /\ d.inode[no].parent = p /\ d.inode[p].first_child = no
      BY <2>1
    <3> HIDE DEF d, A
    <3>4. Lists(y.disk, B \ {no}, R)
      BY <1>1, <1>8, <3>1, <3>2, <3>3, ListsUnlinkHead
    <3>5. QED
      BY <3>4 DEF A
  <2>2. CASE /\ p \in B /\ d.inode[p].next_sibling = no
             /\ n = [d.inode[p] EXCEPT !.next_sibling = d.inode[no].next_sibling]
    <3>1. y.disk.inode[p] = [d.inode[p] EXCEPT !.next_sibling = d.inode[no].next_sibling]
      BY <1>71, <2>2
    <3>2. \A j \in InodeNos \ {p} : y.disk.inode[j] = d.inode[j]
      BY <1>71
    <3>3. d.inode[no].first_child = 0
      OBVIOUS
    <3> HIDE DEF d
    <3>4. QED
      BY <1>1, <1>8, <2>2, <3>1, <3>2, <3>3, ListsUnlinkBehind
  <2>3. QED
    BY <2>1, <2>2
<1>10. ASSUME Whole(x, B)
       PROVE  /\ Reached(y.disk, A) /\ Used(y.disk, A, {no} \cup y.stale)
              /\ y.disk.inode[no].kind = 1 => Marked(y.disk, A, BlocksOf(y.disk.inode[no]))
              /\ y.disk.inode[no].kind # 1 => Marked(y.disk, A, {})
  <2>1. Reached(d, B) /\ Used(d, B, y.stale) /\ Marked(d, B, {})
    BY <1>10, <1>71 DEF Whole
  <2>2. p \in B \cup {Root}
    <3>1. d.inode[p].kind # 0
      <4>1. CASE p \in B
        BY <1>1, <4>1 DEF Lists, EntryOk
      <4>2. CASE d.inode[p].first_child = no
        <5>1. HeadOk(d, B, p)
          BY <1>1 DEF Lists
        <5>2. QED
          BY <1>2, <4>2, <5>1 DEF HeadOk
      <4>3. QED
        BY <4>1, <4>2
    <3>2. QED
      BY <1>1, <1>71, <2>1, <3>1 DEF Used
  <2>3. \/ /\ d.inode[p].first_child = no
           /\ y.disk.inode[p].first_child = d.inode[no].next_sibling
           /\ y.disk.inode[p].next_sibling = d.inode[p].next_sibling
        \/ /\ d.inode[p].next_sibling = no
           /\ y.disk.inode[p].next_sibling = d.inode[no].next_sibling
           /\ y.disk.inode[p].first_child = d.inode[p].first_child
    <3>1. CASE d.inode[p].first_child = no /\ n = [old EXCEPT !.first_child = rest]
      BY <1>4, <1>71, <3>1 DEF Inode
    <3>2. CASE d.inode[p].next_sibling = no /\ n = [old EXCEPT !.next_sibling = rest]
      BY <1>4, <1>71, <3>2 DEF Inode
    <3>3. QED
      BY <3>1, <3>2
  <2>4. \A i \in (B \cup {Root}) \ {p} : y.disk.inode[i] = d.inode[i]
    <3>1. Root \in InodeNos
      BY VfsConstants DEF Root, InodeNos
    <3>2. QED
      BY <1>2, <1>71, <3>1
  <2>5. Reached(y.disk, A)
    <3>1. d.inode[no].first_child = 0
      OBVIOUS
    <3> HIDE DEF d
    <3>2. QED
      BY <1>2, <1>3, <2>1, <2>2, <2>3, <2>4, <3>1, ReachedUnlink
  <2>6. \A i \in InodeNos : /\ y.disk.inode[i].kind = d.inode[i].kind
                            /\ BlocksOf(y.disk.inode[i]) = BlocksOf(d.inode[i])
    <3>1. n.kind = old.kind /\ BlocksOf(n) = BlocksOf(old)
      BY <1>5 DEF BlocksOf
    <3>2. QED
      BY <1>71, <3>1
  <2>7. y.disk.inode[no] = d.inode[no]
    BY <1>2, <1>3, <1>71
  <2>8. /\ Used(y.disk, A, {no} \cup y.stale)
        /\ d.inode[no].kind = 1 => Marked(y.disk, A, BlocksOf(d.inode[no]))
        /\ d.inode[no].kind # 1 => Marked(y.disk, A, {})
    <3> HIDE DEF d
    <3>1. QED
      BY <1>2, <1>71, <2>1, <2>6, UnlinkedWhole
  <2>9. QED
    BY <2>5, <2>7, <2>8
<1>11. y.disk.inode[no] = d.inode[no]
  BY <1>2, <1>3, <1>71
<1>12. Unlinked(x, y, ok, B, no)
  <2>1. DOMAIN R = InodeNos \ y.stale
    BY <1>1, <1>71
  <2>2. QED
    BY <1>1, <1>71, <1>9, <1>10, <1>11, <2>1 DEF Unlinked
<1>13. WriteInode(p, n) \in Pages
  BY <1>1, <1>5, PageType
<1>14. QED
  BY <1>12, <1>13 DEF y

(* An inode is written as it is.                                           *)
LEMMA WriteBack ==
  ASSUME NEW x, NEW y, NEW ok, NEW B \in SUBSET InodeNos, NEW no,
         Unlinked(x, y, ok, B, no),
         NEW i \in InodeNos, NEW c \in Seq(Stored)
  PROVE  LET w == WriteInode(i, y.disk.inode[i]) IN
         w \in Pages /\ Unlinked(x, After(y, w, 0, c), ok, B, no)
<1> DEFINE n == y.disk.inode[i]
           w == WriteInode(i, n)
           z == After(y, w, 0, c)
<1>1. Placed(y) /\ ~y.freed /\ y.disk \in Disk
  BY DEF Unlinked, Placed, World
<1>2. n \in Inode /\ w \in Pages
  BY <1>1, PageType DEF Disk
<1>3. z.disk = y.disk
  <2>1. z.disk = Written(y.disk, w)
    BY DEF After
  <2>2. Written(y.disk, w) = [y.disk EXCEPT !.inode[i] = n]
    BY DEF Written, WriteInode
  <2>3. QED
    BY <1>1, <2>1, <2>2 DEF Disk
<1>4. i # 0
  BY VfsConstants DEF InodeNos
<1>5. z = After(y, WriteInode(i, n), 0, c)
  OBVIOUS
<1>6. B \in SUBSET B
  OBVIOUS
<1> HIDE DEF z
<1>7. KeepsBlocks(y, z, i, n, 0, B, B)
  BY <1>1, <1>2, <1>4, <1>5, <1>6, LinkWrite
<1>8. Placed(z) /\ ~z.freed /\ z.stale = y.stale /\ (Owned(y, 0, B) => Owned(z, 0, B))
  BY <1>7 DEF KeepsBlocks
<1>9. Unlinked(x, z, ok, B, no)
  BY <1>3, <1>8 DEF Unlinked
<1>10. QED
  BY <1>2, <1>9 DEF z

LEMMA UnlinkRun ==
  ASSUME NEW x, Placed(x), ~x.freed, NEW c \in Seq(Stored), NEW ok,
         NEW B, NEW R, Sound(x, 0, ok, B, R),
         NEW no \in B, x.disk.inode[no].first_child = 0
  PROVE  \E y : /\ Run(x, unlink_child(x.disk, x.disk.inode[no].parent, no), y,
                       0, c, ok)
                /\ Unlinked(x, y, ok, B, no)
<1> DEFINE d == x.disk
           up == d.inode[no].parent
           s == List(d, d.inode[up].first_child)
           k == CHOOSE j \in DOMAIN s : s[j] = no
           next == d.inode[no].next_sibling
           prev == s[k - 1]
<1>1. d \in Disk /\ Lists(d, B, R) /\ DOMAIN R = InodeNos \ x.stale
  BY DEF Placed, World, Sound
<1>2. /\ B \subseteq InodeNos /\ up \in InodeNos /\ up \in DOMAIN R
      /\ B \subseteq InodeNos \ x.stale /\ up \in InodeNos \ x.stale
      /\ \A i \in B : d.inode[i].parent # i
  BY <1>1, ParentOfEntry DEF Lists, Home
<1>3. ListIs(d, B, up, s)
  BY <1>1, <1>2, ListFacts
<1>4. unlink_child(d, up, no) =
        IF k = 1
        THEN << WriteInode(up, [d.inode[up] EXCEPT !.first_child = next]) >>
        ELSE << WriteInode(prev, [d.inode[prev] EXCEPT !.next_sibling = next]),
                WriteInode(up, d.inode[up]) >>
  BY DEF unlink_child
<1> HIDE DEF s
<1>5. k \in 1 .. Len(s) /\ s[k] = no /\ Len(s) \in Nat
  <2>1. DOMAIN s = 1 .. Len(s) /\ Len(s) \in Nat
    BY <1>3 DEF ListIs
  <2>2. \E j \in DOMAIN s : s[j] = no
    BY <1>3, <2>1 DEF ListIs
  <2>3. QED
    BY <2>1, <2>2
<1> HIDE DEF k
<1>6. Good(x, 0, ok)
  BY SoundIsGood
<1>7. CASE k = 1
  <2> DEFINE n == [d.inode[up] EXCEPT !.first_child = next]
             w == WriteInode(up, n)
             y == After(x, w, 0, c)
  <2>1. d.inode[up].first_child = no
    BY <1>3, <1>5, <1>7 DEF ListIs
  <2>2. w \in Pages /\ Unlinked(x, y, ok, B, no)
    <3> DEFINE m == n
    <3>1. m = [x.disk.inode[up] EXCEPT !.first_child = x.disk.inode[no].next_sibling]
      OBVIOUS
    <3>2. up = x.disk.inode[no].parent /\ x.disk.inode[up].first_child = no
      BY <2>1
    <3> HIDE DEF m, up
    <3>3. WriteInode(up, m) \in Pages /\ Unlinked(x, After(x, WriteInode(up, m), 0, c), ok, B, no)
      BY <1>2, <3>1, <3>2, UnlinkWrite
    <3>4. QED
      BY <3>3 DEF m
  <2>3. Good(y, 0, ok)
    BY <2>2, UnlinkedSound
  <2>4. unlink_child(d, up, no) = <<w>>
    BY <1>4, <1>7
  <2> HIDE DEF w
  <2>5. Run(x, <<w>>, y, 0, c, ok)
    BY <1>6, <2>2, <2>3, RunOne
  <2>6. QED
    BY <2>2, <2>4, <2>5
<1>8. CASE k # 1
  <2> DEFINE n == [d.inode[prev] EXCEPT !.next_sibling = next]
             v == WriteInode(prev, n)
             y == After(x, v, 0, c)
             w == WriteInode(up, d.inode[up])
             z == After(y, w, 0, c)
  <2>1. prev \in B /\ d.inode[prev].next_sibling = no /\ d.inode[prev].parent = up
    <3> DEFINE j == k - 1
    <3>1. j \in 1 .. Len(s) /\ j \in 1 .. Len(s) - 1 /\ j + 1 = k
      BY <1>5, <1>8
    <3>2. prev = s[j]
      OBVIOUS
    <3> HIDE DEF j
    <3>3. QED
      BY <1>3, <1>5, <3>1, <3>2 DEF ListIs
  <2> HIDE DEF prev
  <2>2. v \in Pages /\ Unlinked(x, y, ok, B, no)
    <3> DEFINE m == n
    <3>1. m = [x.disk.inode[prev] EXCEPT !.next_sibling = x.disk.inode[no].next_sibling]
      OBVIOUS
    <3>2. prev \in InodeNos \ x.stale
      BY <1>2, <2>1
    <3> HIDE DEF m
    <3>3. WriteInode(prev, m) \in Pages /\ Unlinked(x, After(x, WriteInode(prev, m), 0, c), ok, B, no)
      BY <2>1, <3>1, <3>2, UnlinkWrite
    <3>4. QED
      BY <3>3 DEF m
  <2>3. y.disk.inode[up] = d.inode[up]
    <3>1. up # prev /\ prev \in InodeNos
      BY <1>2, <2>1
    <3>2. n \in Inode
      <4>1. d.inode[prev] \in Inode /\ next \in 0 .. Inodes
        BY <1>1, <1>2, <3>1, InodeType DEF Disk
      <4>2. QED
        BY <4>1 DEF Inode
    <3>3. InodeChanges(x, y, prev, n, 0, c)
      <4>1. x \in World
        BY DEF Placed
      <4> HIDE DEF n
      <4>2. QED
        BY <3>1, <3>2, <4>1, WroteInode
    <3> HIDE DEF n, v, y
    <3>4. QED
      BY <1>2, <3>1, <3>3 DEF InodeChanges
  <2> HIDE DEF y, v
  <2>4. w = WriteInode(up, y.disk.inode[up])
    BY <2>3
  <2>5. w \in Pages /\ Unlinked(x, z, ok, B, no)
    <3> HIDE DEF up, d
    <3>1. WriteInode(up, y.disk.inode[up]) \in Pages
          /\ Unlinked(x, After(y, WriteInode(up, y.disk.inode[up]), 0, c), ok, B, no)
      BY <1>2, <2>2, WriteBack
    <3>2. QED
      BY <2>4, <3>1
  <2>6. Good(y, 0, ok) /\ Good(z, 0, ok)
    BY <2>2, <2>5, UnlinkedSound
  <2> HIDE DEF w, z
  <2>7. Run(x, <<v>>, y, 0, c, ok)
    BY <1>6, <2>2, <2>6, RunOne DEF y
  <2>8. Run(y, <<w>>, z, 0, c, ok)
    BY <2>5, <2>6, RunOne DEF z
  <2>9. Run(x, <<v>> \o <<w>>, z, 0, c, ok)
    BY <2>7, <2>8, RunBoth
  <2>10. unlink_child(d, up, no) = <<v>> \o <<w>>
    BY <1>4, <1>8 DEF v, w
  <2>11. QED
    BY <2>5, <2>9, <2>10
<1>9. QED
  BY <1>7, <1>8

(* The world when the blocks of the entry are free, too.                   *)
Forgotten(x, y, ok, B, no) ==
  /\ Placed(y) /\ ~y.freed /\ y.stale = x.stale
  /\ \E Q : Sound(y, 0, ok, B \ {no}, Q)
  /\ y.disk.inode[no].first_child = 0
  /\ ok /\ Whole(x, B) =>
       /\ Reached(y.disk, B \ {no}) /\ Used(y.disk, B \ {no}, {no} \cup y.stale)
       /\ Marked(y.disk, B \ {no}, {})

(* The world behind the last write.                                        *)
Removed(x, y, ok, B, no) ==
  /\ Placed(y) /\ ~y.freed /\ y.stale = x.stale
  /\ \E Q : Sound(y, 0, ok, B \ {no}, Q)
  /\ ok /\ Whole(x, B) => Whole(y, B \ {no})

LEMMA FreeRun ==
  ASSUME NEW x, NEW y, NEW ok, NEW B \in SUBSET InodeNos, NEW no \in B,
         Unlinked(x, y, ok, B, no), y.disk.inode[no].first_child = 0,
         NEW c \in Seq(Stored), NEW n, n = y.disk.inode[no],
         NEW ws, ws = IF n.kind = 1 /\ n.block_count # 0
                      THEN << WriteBitmap(y.disk.bitmap \ BlocksOf(n)) >> ELSE <<>>
  PROVE  \E z : Run(y, ws, z, 0, c, ok) /\ Forgotten(x, z, ok, B, no)
<1>1. /\ Placed(y) /\ ~y.freed /\ y \in World /\ y.disk \in Disk
      /\ no \in InodeNos /\ y.stale = x.stale
  BY DEF Unlinked, Placed, World
<1>2. PICK Q : DOMAIN Q = InodeNos \ y.stale /\ Lists(y.disk, B \ {no}, Q)
  BY DEF Unlinked
<1>3. ok => Owned(y, 0, B)
  BY DEF Unlinked
<1>4. Good(y, 0, ok)
  BY UnlinkedSound
<1>5. CASE n.kind = 1 /\ n.block_count # 0
  <2> DEFINE used == y.disk.bitmap \ BlocksOf(n)
             w == WriteBitmap(used)
             z == After(y, w, 0, c)
  <2>1. used \in SUBSET DataBlocks
    BY <1>1 DEF Disk
  <2> HIDE DEF used
  <2>2. w \in Pages
    BY <2>1, PageType
  <2>3. BitmapChanges(y, z, used, 0)
    BY <1>1, <2>1, WroteBitmap
  <2> HIDE DEF z, w
  <2>4. /\ z \in World /\ z.disk.bitmap = used /\ z.disk.inode = y.disk.inode
        /\ z.disk.super = y.disk.super /\ z.disk.block = y.disk.block
        /\ z.saved = y.saved /\ ~z.freed /\ z.disk \in Disk
        /\ z.stale = y.stale
    BY <2>3 DEF BitmapChanges, World
  <2>5. Placed(z)
    BY <1>1, <2>4 DEF Placed, InRange
  <2>6. Lists(z.disk, B \ {no}, Q)
    BY <1>1, <1>2, <2>4, ListsStay
  <2>7. ASSUME ok PROVE Owned(z, 0, B \ {no})
    <3>1. \A i \in B : FileBytes(z.disk, i) = FileBytes(y.disk, i)
      BY <2>4 DEF FileBytes
    <3>2. Kept(z, 0, B \ {no}) \subseteq Kept(y, 0, B) \ {no} /\ no \in Kept(y, 0, B)
      BY <1>1, <1>5, <2>4 DEF Kept
    <3>3. ASSUME NEW i \in Kept(z, 0, B \ {no})
          PROVE  /\ BlocksOf(z.disk.inode[i]) \subseteq z.disk.bitmap
                 /\ FileBytes(z.disk, i) = z.saved[i]
      <4>1. i \in Kept(y, 0, B) /\ i # no /\ i \in B
        BY <3>2 DEF Kept
      <4>2. /\ BlocksOf(y.disk.inode[i]) \subseteq y.disk.bitmap
            /\ FileBytes(y.disk, i) = y.saved[i]
            /\ BlocksOf(y.disk.inode[i]) \cap BlocksOf(y.disk.inode[no]) = {}
        BY <1>3, <2>7, <3>2, <4>1 DEF Owned
      <4>3. QED
        BY <2>4, <3>1, <4>1, <4>2 DEF used
    <3>4. \A i, j \in Kept(z, 0, B \ {no}) :
            i # j => BlocksOf(z.disk.inode[i]) \cap BlocksOf(z.disk.inode[j]) = {}
      BY <1>3, <2>4, <2>7, <3>2 DEF Owned
    <3>5. QED
      BY <3>3, <3>4 DEF Owned
  <2>8. Sound(z, 0, ok, B \ {no}, Q)
    BY <1>2, <2>4, <2>5, <2>6, <2>7 DEF Sound, Placed
  <2>9. ASSUME Whole(x, B), ok
        PROVE  /\ Reached(z.disk, B \ {no}) /\ Used(z.disk, B \ {no}, {no} \cup z.stale)
               /\ Marked(z.disk, B \ {no}, {})
    <3>1. /\ Reached(y.disk, B \ {no}) /\ Used(y.disk, B \ {no}, {no} \cup y.stale)
          /\ Marked(y.disk, B \ {no}, BlocksOf(n))
      BY <1>5, <2>9 DEF Unlinked
    <3>2. Reached(z.disk, B \ {no}) /\ Used(z.disk, B \ {no}, {no} \cup z.stale)
      BY <2>4, <3>1 DEF Reached, Nearer, Used
    <3>3. Marked(z.disk, B \ {no}, {})
      <4>1. ASSUME NEW i \in B \ {no}, y.disk.inode[i].kind = 1
            PROVE  BlocksOf(y.disk.inode[i]) \cap BlocksOf(n) = {}
        <5>1. i \in Kept(y, 0, B) /\ no \in Kept(y, 0, B)
          BY <1>1, <1>5, <4>1 DEF Kept
        <5>2. QED
          BY <1>3, <2>9, <5>1 DEF Owned
      <4>2. QED
        BY <2>4, <3>1, <4>1 DEF Marked, used
    <3>4. QED
      BY <3>2, <3>3
  <2>10. z.disk.inode[no].first_child = 0
    BY <2>4
  <2>11. Forgotten(x, z, ok, B, no)
    BY <1>1, <2>4, <2>5, <2>8, <2>9, <2>10 DEF Forgotten
  <2>12. Good(z, 0, ok)
    BY <2>5, <2>8, SoundIsGood
  <2>13. Run(y, <<w>>, z, 0, c, ok)
    BY <1>4, <2>2, <2>12, RunOne DEF z
  <2>14. ws = <<w>>
    BY <1>5 DEF w, used
  <2>15. QED
    BY <2>11, <2>13, <2>14
<1>6. CASE ~(n.kind = 1 /\ n.block_count # 0)
  <2>1. Run(y, <<>>, y, 0, c, ok)
    BY <1>4, RunNone
  <2>2. ok => Owned(y, 0, B \ {no})
    BY <1>3, OwnedLess
  <2>3. Sound(y, 0, ok, B \ {no}, Q)
    BY <1>1, <1>2, <2>2 DEF Sound, Placed
  <2>4. ASSUME Whole(x, B)
        PROVE  /\ Reached(y.disk, B \ {no}) /\ Used(y.disk, B \ {no}, {no} \cup y.stale)
               /\ Marked(y.disk, B \ {no}, {})
    <3>1. n.kind = 1 => BlocksOf(n) = {}
      BY <1>1, <1>6, NoBlocks
    <3>2. QED
      BY <2>4, <3>1 DEF Unlinked
  <2>5. Forgotten(x, y, ok, B, no)
    BY <1>1, <2>3, <2>4 DEF Forgotten
  <2>6. ws = <<>>
    BY <1>6
  <2>7. QED
    BY <2>1, <2>5, <2>6
<1>7. QED
  BY <1>5, <1>6

LEMMA ZeroType == ZeroInode \in Inode /\ BlocksOf(ZeroInode) = {}
<1>1. Inodes \in Nat /\ Blocks \in Nat
  BY VfsConstants
<1>2. NoName \in InodeName
  BY DEF InodeName, Dots, Stays
<1>3. ZeroInode \in Inode
  BY <1>1, <1>2 DEF ZeroInode, Inode
<1>4. BlocksOf(ZeroInode) = {}
  BY DEF ZeroInode, BlocksOf
<1>5. QED
  BY <1>3, <1>4

LEMMA ZeroRun ==
  ASSUME NEW x, NEW y, NEW ok, NEW B \in SUBSET InodeNos, NEW no \in B \ x.stale, no # Root,
         Forgotten(x, y, ok, B, no), NEW c \in Seq(Stored)
  PROVE  \E z : /\ Run(y, << WriteInode(no, ZeroInode) >>, z, 0, c, ok)
                /\ Removed(x, z, ok, B, no)
<1> DEFINE w == WriteInode(no, ZeroInode)
           z == After(y, w, 0, c)
           A == B \ {no}
<1>1. /\ Placed(y) /\ ~y.freed /\ y \in World /\ y.disk \in Disk
      /\ no \in InodeNos /\ y.disk.inode[no].first_child = 0
      /\ y.stale = x.stale /\ no \notin y.stale
  BY DEF Forgotten, Placed, World
<1>2. PICK Q : Sound(y, 0, ok, A, Q) /\ DOMAIN Q = InodeNos \ y.stale
  BY DEF Forgotten, Sound
<1>3. w \in Pages
  BY <1>1, ZeroType, PageType
<1>4. InodeChanges(y, z, no, ZeroInode, 0, c)
  BY <1>1, ZeroType, WroteInode
<1> HIDE DEF w, z
<1>5. Placed(z)
  BY <1>1, <1>4, ZeroType, PlacedInode
<1>6. /\ z \in World /\ z.disk \in Disk /\ z.disk.inode[no] = ZeroInode
      /\ \A i \in InodeNos \ {no} : /\ z.disk.inode[i] = y.disk.inode[i]
                                    /\ z.saved[i] = y.saved[i]
      /\ z.disk.bitmap = y.disk.bitmap /\ z.disk.block = y.disk.block
      /\ ~z.freed /\ z.stale = y.stale
  BY <1>1, <1>4 DEF InodeChanges, World
<1>7. Lists(z.disk, A, Q)
  <2>1. ZeroInode.first_child = 0 /\ ZeroInode.parent = 0
    BY DEF ZeroInode
  <2>2. \A i \in InodeNos :
          \/ Links(z.disk.inode[i]) = Links(y.disk.inode[i])
          \/ /\ i \in DOMAIN Q /\ i \notin A /\ i # Root
             /\ y.disk.inode[i].first_child = 0 /\ z.disk.inode[i].first_child = 0
             /\ z.disk.inode[i].parent \in {0} \cup DOMAIN Q
    BY <1>1, <1>2, <1>6, <2>1
  <2>3. Lists(y.disk, A, Q)
    BY <1>2 DEF Sound
  <2> HIDE DEF A
  <2>4. QED
    BY <1>1, <1>6, <2>2, <2>3, ListsStay
<1>8. ASSUME ok PROVE Owned(z, 0, A)
  <2>1. Owned(y, 0, A)
    BY <1>2, <1>8 DEF Sound
  <2>2. \A i \in A : z.disk.inode[i] = y.disk.inode[i] /\ z.saved[i] = y.saved[i]
    BY <1>6
  <2>3. A \in SUBSET InodeNos
    OBVIOUS
  <2> HIDE DEF A
  <2>4. QED
    BY <1>1, <1>6, <2>1, <2>2, <2>3, OwnedStays
<1>9. Sound(z, 0, ok, A, Q)
  BY <1>2, <1>5, <1>6, <1>7, <1>8 DEF Sound, Placed
<1>10. ASSUME ok, Whole(x, B) PROVE Whole(z, A)
  <2>1. Reached(y.disk, A) /\ Used(y.disk, A, {no} \cup y.stale) /\ Marked(y.disk, A, {})
    BY <1>10 DEF Forgotten
  <2>2. \A i \in A \cup {Root} : z.disk.inode[i] = y.disk.inode[i]
    <3>1. Root \in InodeNos
      BY VfsConstants DEF Root, InodeNos
    <3>2. QED
      BY <1>6, <3>1
  <2>3. Reached(z.disk, A)
    <3> SUFFICES ASSUME NEW S \in SUBSET (A \cup {Root}), Root \in S,
                        Nearer(z.disk, S) \subseteq S
                 PROVE  A \subseteq S
      BY DEF Reached
    <3>1. Nearer(y.disk, S) \subseteq S
      BY <2>2 DEF Nearer
    <3>2. QED
      BY <2>1, <3>1 DEF Reached
  <2>4. Used(z.disk, A, z.stale)
    <3>1. ZeroInode.kind = 0
      BY DEF ZeroInode
    <3>2. QED
      BY <1>1, <1>6, <2>1, <3>1 DEF Used
  <2>5. Marked(z.disk, A, {})
    BY <1>6, <2>1, <2>2 DEF Marked
  <2>6. QED
    BY <2>3, <2>4, <2>5 DEF Whole
<1>11. Removed(x, z, ok, B, no)
  BY <1>1, <1>5, <1>6, <1>9, <1>10 DEF Removed
<1>12. Good(y, 0, ok) /\ Good(z, 0, ok)
  BY <1>1, <1>2, <1>5, <1>9, SoundIsGood
<1>13. Run(y, <<w>>, z, 0, c, ok)
  BY <1>3, <1>12, RunOne DEF z
<1>14. QED
  BY <1>11, <1>13 DEF w

LEMMA RemoveEntryRun ==
  ASSUME NEW x, Placed(x), ~x.freed, NEW c \in Seq(Stored), NEW ok,
         NEW B, NEW R, Sound(x, 0, ok, B, R),
         NEW no \in InodeNos, no \notin x.stale, no # Root,
         RemoveEntry(x.disk, no, x.disk.inode[no]) # <<>>
  PROVE  \E y : /\ Run(x, RemoveEntry(x.disk, no, x.disk.inode[no]), y, 0, c, ok)
                /\ Removed(x, y, ok, B, no)
<1> DEFINE d == x.disk
           n == d.inode[no]
           s == List(d, d.inode[n.parent].first_child)
           us == unlink_child(d, n.parent, no)
           fs == IF n.kind = 1 THEN FreeBlocks(d, n) ELSE <<>>
           zs == << WriteInode(no, ZeroInode) >>
<1>1. d \in Disk /\ Lists(d, B, R) /\ DOMAIN R = InodeNos \ x.stale
  BY DEF Placed, World, Sound
<1>2. /\ B \in SUBSET InodeNos /\ HeadOk(d, B, no)
      /\ \A i \in B : EntryOk(d, B, i)
      /\ no \in DOMAIN R /\ n.parent \in {0} \cup DOMAIN R
  BY <1>1 DEF Lists, Home
<1>3. RemoveEntry(d, no, n) =
        IF n.parent = 0 THEN <<>>
        ELSE IF \/ n.kind = 2 /\ n.first_child # 0
                \/ \A k \in DOMAIN s : s[k] # no
        THEN <<>>
        ELSE us \o fs \o zs
  BY DEF RemoveEntry
<1> HIDE DEF s, us, fs, zs
<1>4. /\ n.parent # 0 /\ ~(n.kind = 2 /\ n.first_child # 0)
      /\ \E k \in DOMAIN s : s[k] = no
      /\ RemoveEntry(d, no, n) = us \o fs \o zs
  BY <1>3
<1>5. n.parent \in DOMAIN R
  BY <1>2, <1>4
<1>6. no \in B /\ no \in B \ x.stale
  <2>1. ListIs(d, B, n.parent, s)
    BY <1>1, <1>5, ListFacts DEF s
  <2>2. DOMAIN s = 1 .. Len(s)
    BY <2>1 DEF ListIs
  <2>3. QED
    BY <1>4, <2>1, <2>2 DEF ListIs
<1>7. n.first_child = 0
  BY <1>2, <1>4 DEF HeadOk
<1>8. PICK y : Run(x, us, y, 0, c, ok) /\ Unlinked(x, y, ok, B, no)
  <2>1. \E y : /\ Run(x, unlink_child(x.disk, x.disk.inode[no].parent, no), y,
                      0, c, ok)
               /\ Unlinked(x, y, ok, B, no)
    BY <1>6, <1>7, UnlinkRun
  <2>2. QED
    BY <2>1 DEF us
<1>9. y.disk.inode[no] = n /\ y.disk.bitmap = d.bitmap
  BY <1>8 DEF Unlinked
<1>10. PICK v : Run(y, fs, v, 0, c, ok) /\ Forgotten(x, v, ok, B, no)
  <2>1. fs = IF n.kind = 1 /\ n.block_count # 0
             THEN << WriteBitmap(y.disk.bitmap \ BlocksOf(n)) >> ELSE <<>>
    BY <1>9 DEF fs, FreeBlocks
  <2>2. n = y.disk.inode[no] /\ y.disk.inode[no].first_child = 0
    BY <1>7, <1>9
  <2> HIDE DEF n, d
  <2>3. QED
    BY <1>2, <1>6, <1>8, <2>1, <2>2, FreeRun
<1>11. PICK z : Run(v, zs, z, 0, c, ok) /\ Removed(x, z, ok, B, no)
  BY <1>2, <1>6, <1>10, ZeroRun DEF zs
<1>12. Run(x, us \o fs, v, 0, c, ok)
  BY <1>8, <1>10, RunBoth
<1>13. Run(x, us \o fs \o zs, z, 0, c, ok)
  BY <1>11, <1>12, RunBoth
<1>14. QED
  BY <1>4, <1>11, <1>13

(* What an operation that stores nothing leaves behind.                    *)
Done(x, y, ok, B) ==
  /\ Placed(y) /\ ~y.freed /\ y.stale = x.stale
  /\ \E A, Q : /\ Sound(y, 0, ok, A, Q)
               /\ ok /\ Whole(x, B) => Whole(y, A)

LEMMA RemoveRun ==
  ASSUME NEW x, Placed(x), ~x.freed, NEW c \in Seq(Stored), NEW ok,
         NEW B, NEW R, Sound(x, 0, ok, B, R),
         NEW path \in DiskPath, NEW dir \in InodeNos \ x.stale
  PROVE  \E y : /\ Run(x, remove(x.disk, path, dir), y, 0, c, ok)
                /\ Done(x, y, ok, B)
<1> DEFINE d == x.disk
           no == resolve(d, path, dir).no
<1>1. /\ d \in Disk /\ Lists(d, B, R) /\ DOMAIN R = InodeNos \ x.stale
      /\ dir \in DOMAIN R
  BY DEF Placed, World, Sound
<1>2. no \in {0} \cup DOMAIN R
  BY <1>1, PathType, ResolveAnswers, AnswerType
<1>3. remove(d, path, dir) =
        IF no \in {0, Root} THEN <<>> ELSE RemoveEntry(d, no, d.inode[no])
  BY DEF remove
<1> HIDE DEF no
<1>4. CASE remove(d, path, dir) = <<>>
  <2>1. Run(x, <<>>, x, 0, c, ok)
    BY SoundIsGood, RunNone
  <2>2. Done(x, x, ok, B)
    BY DEF Done
  <2>3. QED
    BY <1>4, <2>1, <2>2
<1>5. CASE remove(d, path, dir) # <<>>
  <2>1. /\ no \in InodeNos /\ no \notin x.stale /\ no # Root
        /\ remove(d, path, dir) = RemoveEntry(d, no, d.inode[no])
    BY <1>1, <1>2, <1>3, <1>5
  <2>2. \E y : /\ Run(x, RemoveEntry(x.disk, no, x.disk.inode[no]), y, 0, c, ok)
               /\ Removed(x, y, ok, B, no)
    BY <1>5, <2>1, RemoveEntryRun
  <2>3. QED
    BY <2>1, <2>2 DEF Removed, Done
<1>6. QED
  BY <1>4, <1>5

----------------------------------------------------------------------------
(* A file is stored.                                                       *)

Fresh(start, c) == start .. start + Len(c) - 1

(* The world before the blocks are written: nobody else has them.          *)
Prepared(v, no, start, c, ok, B, R) ==
  /\ Placed(v) /\ Sound(v, no, ok, B, R)
  /\ v.disk.inode[no].kind = 1
  /\ ~v.freed => v.disk.inode[no].block_count = 0
  /\ start \in 0 .. Blocks /\ Len(c) \in 0 .. Blocks
  /\ Fresh(start, c) \subseteq DataBlocks
  /\ ok => /\ Fresh(start, c) \subseteq v.disk.bitmap
           /\ \A i \in B \ {no} : v.disk.inode[i].kind = 1 =>
                BlocksOf(v.disk.inode[i]) \cap Fresh(start, c) = {}

(* The first k blocks are written.                                         *)
Filled(v, y, start, c, k) ==
  /\ y \in World
  /\ y.disk.super = v.disk.super /\ y.disk.inode = v.disk.inode
  /\ y.disk.bitmap = v.disk.bitmap
  /\ y.saved = v.saved /\ y.freed = v.freed /\ y.stale = v.stale
  /\ \A b \in DataBlocks \ Fresh(start, c) : y.disk.block[b] = v.disk.block[b]
  /\ \A i \in 1 .. k : y.disk.block[start + i - 1] = c[i]

LEMMA FilledSound ==
  ASSUME NEW v, NEW no \in InodeNos, NEW start, NEW c, NEW ok, NEW B, NEW R,
         Prepared(v, no, start, c, ok, B, R),
         NEW y, NEW k, Filled(v, y, start, c, k)
  PROVE  Placed(y) /\ Sound(y, no, ok, B, R)
<1>1. /\ v \in World /\ v.disk \in Disk /\ v.disk.super /\ InRange(v.disk)
      /\ Lists(v.disk, B, R) /\ (ok => Owned(v, no, B)) /\ B \subseteq InodeNos
      /\ DOMAIN R = InodeNos \ v.stale
  BY DEF Prepared, Placed, World, Sound, Lists, Home
<1>2. /\ y \in World /\ y.disk \in Disk /\ y.disk.super
      /\ y.disk.inode = v.disk.inode /\ y.disk.bitmap = v.disk.bitmap
      /\ y.saved = v.saved /\ y.freed = v.freed /\ y.stale = v.stale
      /\ \A b \in DataBlocks \ Fresh(start, c) : y.disk.block[b] = v.disk.block[b]
  BY <1>1 DEF Filled, World
<1>3. Placed(y)
  BY <1>1, <1>2 DEF Placed, InRange
<1>4. Lists(y.disk, B, R)
  BY <1>1, <1>2, ListsStay
<1>5. ASSUME ok PROVE Owned(y, no, B)
  <2>1. Kept(y, no, B) = Kept(v, no, B)
    BY <1>2 DEF Kept
  <2>2. ASSUME NEW i \in Kept(y, no, B)
        PROVE  FileBytes(y.disk, i) = FileBytes(v.disk, i)
    <3>1. i \in InodeNos /\ i \in B /\ v.disk.inode[i].kind = 1
      BY <1>1, <1>2, <2>2 DEF Kept
    <3>2. BlocksOf(v.disk.inode[i]) \subseteq DataBlocks
      BY <1>1, <3>1 DEF InRange
    <3>3. BlocksOf(v.disk.inode[i]) \cap Fresh(start, c) = {}
      <4>1. CASE i = no
        <5>1. v.disk.inode[i].block_count = 0
          BY <1>2, <2>2, <4>1 DEF Kept, Prepared
        <5>2. QED
          BY <1>1, <3>1, <5>1, NoBlocks
      <4>2. CASE i # no
        BY <1>5, <3>1, <4>2 DEF Prepared
      <4>3. QED
        BY <4>1, <4>2
    <3>4. \A b \in BlocksOf(v.disk.inode[i]) : y.disk.block[b] = v.disk.block[b]
      BY <1>2, <3>2, <3>3
    <3>5. QED
      BY <1>1, <1>2, <3>1, <3>4, SameBytes
  <2>3. QED
    BY <1>1, <1>2, <1>5, <2>1, <2>2 DEF Owned
<1>6. QED
  BY <1>1, <1>2, <1>3, <1>4, <1>5 DEF Sound

LEMMA BlockRuns ==
  ASSUME NEW v, NEW no \in InodeNos, NEW start, NEW c \in Seq(Stored), NEW ok,
         NEW B, NEW R, Prepared(v, no, start, c, ok, B, R)
  PROVE  \E y : /\ Run(v, [i \in 1 .. Len(c) |-> WriteBlock(start + i - 1, c[i])],
                       y, no, c, ok)
                /\ Filled(v, y, start, c, Len(c))
<1> DEFINE n == Len(c)
           p(k) == [i \in 1 .. k |-> WriteBlock(start + i - 1, c[i])]
           S == {k \in 0 .. n : \E y : Run(v, p(k), y, no, c, ok)
                                       /\ Filled(v, y, start, c, k)}
<1>1. /\ v \in World /\ start \in Nat /\ n \in Nat /\ Blocks \in Nat
      /\ Fresh(start, c) \subseteq DataBlocks
  BY VfsConstants DEF Prepared, Placed
<1>2. ASSUME NEW i \in 1 .. n
      PROVE  /\ start + i - 1 \in Fresh(start, c) /\ start + i - 1 \in DataBlocks
             /\ c[i] \in Stored
             /\ WriteBlock(start + i - 1, c[i]) \in Pages
  <2>1. start + i - 1 \in Fresh(start, c)
    BY <1>1 DEF Fresh
  <2>2. c[i] \in Stored
    OBVIOUS
  <2>3. QED
    BY <1>1, <2>1, <2>2, PageType
<1>3. 0 \in S
  <2>1. p(0) = <<>>
    OBVIOUS
  <2>2. Filled(v, v, start, c, 0)
    BY <1>1 DEF Filled
  <2>3. Good(v, no, ok)
    BY SoundIsGood DEF Prepared
  <2>4. Run(v, <<>>, v, no, c, ok)
    BY <2>3, RunNone
  <2>5. QED
    BY <1>1, <2>1, <2>2, <2>4
<1>4. ASSUME NEW k \in 0 .. n - 1, k \in S PROVE k + 1 \in S
  <2> DEFINE j == k + 1
             b == start + j - 1
             w == WriteBlock(b, c[j])
  <2>1. /\ j \in 1 .. n /\ j \in 0 .. n /\ k \in Nat /\ j = k + 1
        /\ \A i \in 1 .. j : i = j \/ i \in 1 .. k
    BY <1>1
  <2> HIDE DEF j
  <2>2. /\ b \in Fresh(start, c) /\ b \in DataBlocks /\ c[j] \in Stored
        /\ w \in Pages
    BY <1>2, <2>1
  <2>3. PICK y : Run(v, p(k), y, no, c, ok) /\ Filled(v, y, start, c, k)
    BY <1>4
  <2> DEFINE z == After(y, w, no, c)
  <2>4. y \in World /\ y.disk \in Disk
    BY <2>3 DEF Filled, World
  <2>5. BlockChanges(y, z, b, c[j])
    BY <2>2, <2>4, WroteBlock
  <2> HIDE DEF z, w
  <2>6. Filled(v, z, start, c, j)
    <3>1. /\ z.disk.block = [y.disk.block EXCEPT ![b] = c[j]]
          /\ y.disk.block \in [DataBlocks -> Stored]
      BY <2>4, <2>5 DEF BlockChanges, Disk
    <3>2. ASSUME NEW i \in 1 .. j PROVE z.disk.block[start + i - 1] = c[i]
      <4>1. CASE i = j
        BY <2>2, <3>1, <4>1
      <4>2. CASE i # j
        <5>1. i \in 1 .. k /\ i \in 1 .. n
          BY <2>1, <4>2
        <5>2. start + i - 1 \in DataBlocks /\ start + i - 1 # b
          BY <1>1, <1>2, <2>1, <4>2, <5>1
        <5>3. y.disk.block[start + i - 1] = c[i]
          BY <2>3, <5>1 DEF Filled
        <5>4. QED
          BY <3>1, <5>2, <5>3
      <4>3. QED
        BY <4>1, <4>2
    <3>3. \A a \in DataBlocks \ Fresh(start, c) : z.disk.block[a] = v.disk.block[a]
      BY <2>2, <2>3, <3>1 DEF Filled
    <3>4. QED
      BY <2>3, <2>5, <3>2, <3>3 DEF Filled, BlockChanges
  <2>7. Good(y, no, ok) /\ Good(z, no, ok)
    BY <2>3, <2>6, FilledSound, SoundIsGood
  <2>8. Run(y, <<w>>, z, no, c, ok)
    BY <2>2, <2>7, RunOne DEF z
  <2>9. Run(v, p(k) \o <<w>>, z, no, c, ok)
    <3> HIDE DEF p
    <3>1. QED
      BY <2>3, <2>8, RunBoth
  <2>10. p(k) \o <<w>> = p(j)
    <3>1. \A i \in 1 .. j : p(j)[i] = IF i = j THEN w ELSE p(k)[i]
      BY <2>1 DEF w
    <3>2. p(j) \in Seq(Pages) /\ Len(p(j)) = j
      BY <1>2, <2>1
    <3>3. p(k) \in Seq(Pages) /\ Len(p(k)) = k
      BY <1>2, <2>1
    <3> HIDE DEF p
    <3>4. <<w>> \in Seq(Pages) /\ Len(<<w>>) = 1 /\ <<w>>[1] = w
      BY <2>2
    <3>5. /\ p(k) \o <<w>> \in Seq(Pages) /\ Len(p(k) \o <<w>>) = j
          /\ \A i \in 1 .. j : (p(k) \o <<w>>)[i] = IF i <= k THEN p(k)[i] ELSE w
      <4>1. \A i \in 1 .. j : ~(i <= k) => i - k = 1
        BY <2>1
      <4>2. QED
        BY <2>1, <3>3, <3>4, <4>1, ConcatProperties
    <3>6. \A i \in 1 .. j : (p(k) \o <<w>>)[i] = p(j)[i]
      <4>1. ASSUME NEW i \in 1 .. j PROVE i = j <=> ~(i <= k)
        BY <2>1
      <4>2. QED
        BY <3>1, <3>5, <4>1
    <3>7. QED
      BY <3>2, <3>5, <3>6, SeqEqual
  <2>11. QED
    BY <2>1, <2>6, <2>9, <2>10
<1>5. \A k \in 0 .. n : k \in S
  <2> HIDE DEF S, n
  <2>1. QED
    BY <1>1, <1>3, <1>4, InductUpTo
<1>6. n \in S
  <2> HIDE DEF S, n
  <2>1. QED
    BY <1>1, <1>5
<1>7. QED
  BY <1>6

(* The world behind the inode.                                             *)
Landed(v, y, no, start, c, ok, B, R) ==
  /\ Placed(y) /\ ~y.freed /\ y.stale = v.stale /\ Sound(y, no, ok, B, R)
  /\ y.disk.bitmap = v.disk.bitmap
  /\ \A i \in InodeNos \ {no} : y.disk.inode[i] = v.disk.inode[i]
  /\ Links(y.disk.inode[no]) = Links(v.disk.inode[no])
  /\ BlocksOf(y.disk.inode[no]) = Fresh(start, c)

LEMMA StoreRun ==
  ASSUME NEW v, NEW no \in InodeNos, NEW start, NEW c \in Seq(Stored), NEW ok,
         NEW B, NEW R, Prepared(v, no, start, c, ok, B, R)
  PROVE  \E y : /\ Run(v, StoreFile(no, v.disk.inode[no], start, c), y, no, c, ok)
                /\ Landed(v, y, no, start, c, ok, B, R)
<1> DEFINE ws == [i \in 1 .. Len(c) |-> WriteBlock(start + i - 1, c[i])]
           m == [v.disk.inode[no] EXCEPT !.start_block = start,
                                         !.block_count = Len(c)]
           w == WriteInode(no, m)
<1>1. PICK u : Run(v, ws, u, no, c, ok) /\ Filled(v, u, start, c, Len(c))
  BY BlockRuns
<1>2. Placed(u) /\ Sound(u, no, ok, B, R)
  BY <1>1, FilledSound
<1> HIDE DEF ws
<1>3. /\ u \in World /\ u.disk \in Disk /\ Lists(u.disk, B, R) /\ InRange(u.disk)
      /\ (ok => Owned(u, no, B)) /\ B \subseteq InodeNos
      /\ u.disk.block \in [DataBlocks -> Stored]
      /\ DOMAIN R = InodeNos \ u.stale
  BY <1>2 DEF Placed, World, Sound, Lists, Home, Disk
<1>4. /\ u.disk.inode = v.disk.inode /\ u.disk.bitmap = v.disk.bitmap
      /\ u.disk.super = v.disk.super /\ u.stale = v.stale
  BY <1>1 DEF Filled
<1>5. /\ m \in Inode /\ m.kind = 1
      /\ Links(m) = Links(u.disk.inode[no])
      /\ m.start_block = start /\ m.block_count = Len(c)
  <2>1. u.disk.inode[no] \in Inode /\ u.disk.inode[no].kind = 1
    BY <1>3, <1>4 DEF Disk, Prepared
  <2>2. start \in 0 .. Blocks /\ Len(c) \in 0 .. Blocks
    BY DEF Prepared
  <2>3. m = [u.disk.inode[no] EXCEPT !.start_block = start, !.block_count = Len(c)]
    BY <1>4
  <2> HIDE DEF m
  <2>4. QED
    BY <2>1, <2>2, <2>3 DEF Inode, Links
<1> HIDE DEF m
<1>6. BlocksOf(m) = Fresh(start, c) /\ BlocksOf(m) \subseteq DataBlocks
  BY <1>5 DEF BlocksOf, Fresh, Prepared
<1> DEFINE y == After(u, w, no, c)
<1>7. w \in Pages
  BY <1>5, PageType
<1>8. InodeChanges(u, y, no, m, no, c)
  BY <1>3, <1>5, WroteInode
<1> HIDE DEF y, w
<1>9. Placed(y)
  BY <1>2, <1>6, <1>8, PlacedInode
<1>10. /\ y \in World /\ y.disk \in Disk /\ y.disk.inode[no] = m
       /\ \A i \in InodeNos \ {no} : /\ y.disk.inode[i] = u.disk.inode[i]
                                     /\ y.saved[i] = u.saved[i]
       /\ y.disk.bitmap = u.disk.bitmap /\ y.disk.block = u.disk.block
       /\ ~y.freed /\ y.stale = u.stale
       /\ y.saved[no] = IF Len(c) = 0 THEN <<>> ELSE c
  BY <1>5, <1>8 DEF InodeChanges, World
<1>11. Lists(y.disk, B, R)
  <2>1. \A i \in InodeNos : Links(y.disk.inode[i]) = Links(u.disk.inode[i])
    BY <1>5, <1>10
  <2>2. QED
    BY <1>3, <1>10, <2>1, ListsStay
<1>12. FileBytes(y.disk, no) = y.saved[no]
  <2>1. FileBytes(y.disk, no) = [i \in 1 .. Len(c) |-> y.disk.block[start + i - 1]]
    BY <1>5, <1>10 DEF FileBytes
  <2>2. \A i \in 1 .. Len(c) : y.disk.block[start + i - 1] = c[i]
    BY <1>1, <1>10 DEF Filled
  <2>3. FileBytes(y.disk, no) = [i \in 1 .. Len(c) |-> c[i]]
    BY <2>1, <2>2
  <2>4. c = [i \in 1 .. Len(c) |-> c[i]]
    OBVIOUS
  <2>5. Len(c) = 0 => c = <<>>
    BY EmptySeq
  <2>6. QED
    BY <1>10, <2>3, <2>4, <2>5
<1>13. ASSUME ok PROVE Owned(y, no, B)
  <2>1. ASSUME NEW i \in Kept(y, no, B), i # no
        PROVE  /\ i \in Kept(u, no, B) /\ y.disk.inode[i] = u.disk.inode[i]
               /\ y.saved[i] = u.saved[i]
               /\ FileBytes(y.disk, i) = FileBytes(u.disk, i)
               /\ BlocksOf(y.disk.inode[i]) \cap Fresh(start, c) = {}
    <3>1. i \in B /\ i \in InodeNos /\ y.disk.inode[i].kind = 1
      BY <1>3, <2>1 DEF Kept
    <3>2. y.disk.inode[i] = u.disk.inode[i] /\ y.saved[i] = u.saved[i]
      BY <1>10, <2>1, <3>1
    <3>3. i \in Kept(u, no, B)
      BY <2>1, <3>1, <3>2 DEF Kept
    <3>4. FileBytes(y.disk, i) = FileBytes(u.disk, i)
      BY <1>10, <3>2 DEF FileBytes
    <3>5. BlocksOf(y.disk.inode[i]) \cap Fresh(start, c) = {}
      BY <1>4, <1>13, <2>1, <3>1, <3>2 DEF Prepared
    <3>6. QED
      BY <3>2, <3>3, <3>4, <3>5
  <2>2. Owned(u, no, B)
    BY <1>3, <1>13
  <2>3. ASSUME NEW i \in Kept(y, no, B)
        PROVE  /\ BlocksOf(y.disk.inode[i]) \subseteq y.disk.bitmap
               /\ FileBytes(y.disk, i) = y.saved[i]
    <3>1. CASE i = no
      <4>1. Fresh(start, c) \subseteq y.disk.bitmap
        BY <1>4, <1>10, <1>13 DEF Prepared
      <4>2. QED
        BY <1>6, <1>10, <1>12, <3>1, <4>1
    <3>2. CASE i # no
      BY <1>10, <2>1, <2>2, <3>2 DEF Owned
    <3>3. QED
      BY <3>1, <3>2
  <2>4. ASSUME NEW i \in Kept(y, no, B), NEW j \in Kept(y, no, B), i # j
        PROVE  BlocksOf(y.disk.inode[i]) \cap BlocksOf(y.disk.inode[j]) = {}
    <3>1. CASE i = no
      BY <1>6, <1>10, <2>1, <2>4, <3>1
    <3>2. CASE j = no
      BY <1>6, <1>10, <2>1, <2>4, <3>2
    <3>3. CASE i # no /\ j # no
      BY <2>1, <2>2, <2>4, <3>3 DEF Owned
    <3>4. QED
      BY <3>1, <3>2, <3>3
  <2>5. QED
    BY <2>3, <2>4 DEF Owned
<1>14. Sound(y, no, ok, B, R)
  BY <1>3, <1>9, <1>10, <1>11, <1>13 DEF Sound, Placed
<1>15. Landed(v, y, no, start, c, ok, B, R)
  BY <1>4, <1>5, <1>6, <1>9, <1>10, <1>14 DEF Landed
<1>16. Good(u, no, ok) /\ Good(y, no, ok)
  BY <1>2, <1>9, <1>14, SoundIsGood
<1>17. Run(u, <<w>>, y, no, c, ok)
  BY <1>7, <1>16, RunOne DEF y
<1>18. Run(v, ws \o <<w>>, y, no, c, ok)
  BY <1>1, <1>17, RunBoth
<1>19. StoreFile(no, v.disk.inode[no], start, c) = ws \o <<w>>
  BY DEF StoreFile, ws, w, m
<1>20. QED
  BY <1>15, <1>18, <1>19

(* The world when the old blocks are free on the disk.                     *)
Emptied(x, u, no, ok, B, R) ==
  /\ Placed(u) /\ Sound(u, no, ok, B, R) /\ u.stale = x.stale
  /\ u.disk.inode = x.disk.inode
  /\ u.disk.bitmap = x.disk.bitmap \ BlocksOf(x.disk.inode[no])
  /\ u.freed <=> x.disk.inode[no].block_count # 0

LEMMA ClearRun ==
  ASSUME NEW x, Placed(x), ~x.freed, NEW no \in InodeNos,
         x.disk.inode[no].kind = 1, NEW c \in Seq(Stored), NEW ok,
         NEW B, NEW R, Sound(x, no, ok, B, R), ok => no \in B
  PROVE  \E u : /\ Run(x, FreeBlocks(x.disk, x.disk.inode[no]), u, no, c, ok)
                /\ Emptied(x, u, no, ok, B, R)
<1> DEFINE n == x.disk.inode[no]
           left == x.disk.bitmap \ BlocksOf(n)
           w == WriteBitmap(left)
           u == After(x, w, no, c)
<1>1. /\ x \in World /\ x.disk \in Disk /\ x.disk.super /\ InRange(x.disk)
      /\ Lists(x.disk, B, R) /\ (ok => Owned(x, no, B)) /\ B \subseteq InodeNos
      /\ x.disk.bitmap \in SUBSET DataBlocks /\ DOMAIN R = InodeNos \ x.stale
  BY DEF Placed, World, Sound, Lists, Home, Disk
<1>2. Good(x, no, ok)
  BY SoundIsGood
<1>3. FreeBlocks(x.disk, n) = IF n.block_count # 0 THEN <<w>> ELSE <<>>
  BY DEF FreeBlocks
<1>4. CASE n.block_count = 0
  <2>1. Run(x, <<>>, x, no, c, ok)
    BY <1>2, RunNone
  <2>2. BlocksOf(n) = {}
    BY <1>1, <1>4, NoBlocks
  <2>3. Emptied(x, x, no, ok, B, R)
    BY <1>4, <2>2 DEF Emptied
  <2>4. QED
    BY <1>3, <1>4, <2>1, <2>3
<1>5. CASE n.block_count # 0
  <2>1. left \in SUBSET DataBlocks
    BY <1>1
  <2> HIDE DEF left
  <2>2. w \in Pages
    BY <2>1, PageType
  <2>3. BitmapChanges(x, u, left, no)
    BY <1>1, <2>1, WroteBitmap
  <2> HIDE DEF u, w
  <2>4. /\ u \in World /\ u.disk \in Disk /\ u.disk.bitmap = left
        /\ u.disk.inode = x.disk.inode /\ u.disk.super = x.disk.super
        /\ u.disk.block = x.disk.block /\ u.saved = x.saved
        /\ u.stale = x.stale
    BY <2>3 DEF BitmapChanges, World
  <2>5. u.freed
    <3>1. no # 0
      BY DEF InodeNos
    <3>2. QED
      BY <1>5, <2>3, <3>1 DEF BitmapChanges
  <2>6. Placed(u)
    BY <1>1, <2>4 DEF Placed, InRange
  <2>7. Lists(u.disk, B, R)
    BY <1>1, <2>4, ListsStay
  <2>8. ASSUME ok PROVE Owned(u, no, B)
    <3>1. no \in Kept(x, no, B) /\ Owned(x, no, B)
      BY <1>1, <2>8 DEF Kept
    <3>2. \A i \in Kept(u, no, B) : i \in Kept(x, no, B) /\ i # no /\ i \in B
      BY <2>4, <2>5 DEF Kept
    <3>3. ASSUME NEW i \in Kept(u, no, B)
          PROVE  /\ BlocksOf(u.disk.inode[i]) \subseteq u.disk.bitmap
                 /\ FileBytes(u.disk, i) = u.saved[i]
      <4>1. /\ BlocksOf(x.disk.inode[i]) \subseteq x.disk.bitmap
            /\ FileBytes(x.disk, i) = x.saved[i]
            /\ BlocksOf(x.disk.inode[i]) \cap BlocksOf(n) = {}
        BY <3>1, <3>2 DEF Owned
      <4>2. FileBytes(u.disk, i) = FileBytes(x.disk, i)
        BY <2>4 DEF FileBytes
      <4>3. QED
        BY <2>4, <4>1, <4>2 DEF left
    <3>4. \A i, j \in Kept(u, no, B) :
            i # j => BlocksOf(u.disk.inode[i]) \cap BlocksOf(u.disk.inode[j]) = {}
      BY <2>4, <3>1, <3>2 DEF Owned
    <3>5. QED
      BY <3>3, <3>4 DEF Owned
  <2>9. Sound(u, no, ok, B, R)
    BY <1>1, <2>4, <2>6, <2>7, <2>8 DEF Sound, Placed
  <2>10. Emptied(x, u, no, ok, B, R)
    BY <1>5, <2>4, <2>5, <2>6, <2>9 DEF Emptied, left
  <2>11. Good(u, no, ok)
    BY <2>6, <2>9, SoundIsGood
  <2>12. Run(x, <<w>>, u, no, c, ok)
    BY <1>2, <2>2, <2>11, RunOne DEF u
  <2>13. QED
    BY <1>3, <1>5, <2>10, <2>12
<1>6. QED
  BY <1>4, <1>5

(* The new blocks are marked.                                              *)
LEMMA AllocRun ==
  ASSUME NEW x, NEW no \in InodeNos, x.disk.inode[no].kind = 1,
         NEW c \in Seq(Stored), NEW ok, NEW B, NEW R,
         NEW u, Emptied(x, u, no, ok, B, R),
         NEW start \in DataBlocks, start + Len(c) - 1 <= Blocks, Len(c) # 0,
         Fresh(start, c) \cap u.disk.bitmap = {}
  PROVE  \E v : /\ Run(u, << WriteBitmap(u.disk.bitmap \cup Fresh(start, c)) >>, v,
                       no, c, ok)
                /\ Prepared(v, no, start, c, ok, B, R)
                /\ v.disk.inode = x.disk.inode /\ v.stale = x.stale
                /\ v.disk.bitmap = u.disk.bitmap \cup Fresh(start, c)
<1> DEFINE used == u.disk.bitmap \cup Fresh(start, c)
           w == WriteBitmap(used)
           v == After(u, w, no, c)
<1>1. /\ u \in World /\ u.disk \in Disk /\ u.disk.super /\ InRange(u.disk)
      /\ Lists(u.disk, B, R) /\ (ok => Owned(u, no, B)) /\ B \subseteq InodeNos
      /\ u.disk.bitmap \in SUBSET DataBlocks
      /\ u.disk.inode = x.disk.inode
      /\ DOMAIN R = InodeNos \ u.stale /\ u.stale = x.stale
      /\ u.freed <=> x.disk.inode[no].block_count # 0
  BY DEF Emptied, Placed, World, Sound, Lists, Home, Disk
<1>2. /\ Blocks \in Nat /\ Len(c) \in Nat
      /\ start \in 0 .. Blocks /\ Len(c) \in 0 .. Blocks
      /\ Fresh(start, c) \subseteq DataBlocks
  <2>1. Blocks \in Nat /\ Len(c) \in Nat
    BY VfsConstants
  <2>2. QED
    BY <2>1 DEF DataBlocks, Fresh
<1>3. used \in SUBSET DataBlocks
  BY <1>1, <1>2
<1>4. w \in Pages
  <2> HIDE DEF used
  <2>1. QED
    BY <1>3, PageType
<1>5. BitmapChanges(u, v, used, no)
  <2> HIDE DEF used
  <2>1. QED
    BY <1>1, <1>3, WroteBitmap
<1> HIDE DEF v, w
<1>6. /\ v \in World /\ v.disk \in Disk /\ v.disk.bitmap = used
      /\ v.disk.inode = u.disk.inode /\ v.disk.super = u.disk.super
      /\ v.disk.block = u.disk.block /\ v.saved = u.saved
      /\ v.stale = u.stale
  BY <1>5 DEF BitmapChanges, World
<1>7. v.freed <=> x.disk.inode[no].block_count # 0
  <2>1. no # 0
    BY DEF InodeNos
  <2>2. QED
    BY <1>1, <1>5, <2>1 DEF BitmapChanges
<1> HIDE DEF used
<1>8. Placed(v)
  BY <1>1, <1>6 DEF Placed, InRange
<1>9. Lists(v.disk, B, R)
  BY <1>1, <1>6, ListsStay
<1>10. u.disk.bitmap \subseteq v.disk.bitmap
  BY <1>6 DEF used
<1>11. ASSUME ok PROVE Owned(v, no, B)
  <2>1. Kept(v, no, B) = Kept(u, no, B)
    BY <1>1, <1>6, <1>7 DEF Kept
  <2>2. \A i \in B : FileBytes(v.disk, i) = FileBytes(u.disk, i)
    BY <1>6 DEF FileBytes
  <2>3. Kept(u, no, B) \subseteq B
    BY DEF Kept
  <2>4. QED
    BY <1>1, <1>6, <1>10, <1>11, <2>1, <2>2, <2>3 DEF Owned
<1>12. Sound(v, no, ok, B, R)
  BY <1>1, <1>6, <1>8, <1>9, <1>11 DEF Sound, Placed
<1>13. ASSUME ok
       PROVE  /\ Fresh(start, c) \subseteq v.disk.bitmap
              /\ \A i \in B \ {no} : v.disk.inode[i].kind = 1 =>
                   BlocksOf(v.disk.inode[i]) \cap Fresh(start, c) = {}
  <2>1. Fresh(start, c) \subseteq v.disk.bitmap
    BY <1>6 DEF used
  <2>2. ASSUME NEW i \in B \ {no}, v.disk.inode[i].kind = 1
        PROVE  BlocksOf(v.disk.inode[i]) \cap Fresh(start, c) = {}
    <3>1. i \in Kept(u, no, B)
      BY <1>6, <2>2 DEF Kept
    <3>2. BlocksOf(u.disk.inode[i]) \subseteq u.disk.bitmap
      BY <1>1, <1>13, <3>1 DEF Owned
    <3>3. QED
      BY <1>6, <3>2
  <2>3. QED
    BY <2>1, <2>2
<1>14. Prepared(v, no, start, c, ok, B, R)
  BY <1>1, <1>2, <1>6, <1>7, <1>8, <1>12, <1>13 DEF Prepared
<1>15. Good(u, no, ok) /\ Good(v, no, ok)
  BY <1>8, <1>12, SoundIsGood DEF Emptied
<1>16. Run(u, <<w>>, v, no, c, ok)
  BY <1>4, <1>15, RunOne DEF v
<1>17. QED
  BY <1>1, <1>6, <1>14, <1>16 DEF w, used

(* When the links stay, so does what they reach and what is in use.        *)
LEMMA ReachedStays ==
  ASSUME NEW d, NEW e, NEW B \in SUBSET InodeNos, NEW O,
         \A i \in InodeNos : Links(e.inode[i]) = Links(d.inode[i])
  PROVE  /\ Reached(d, B) => Reached(e, B)
         /\ Used(d, B, O) => Used(e, B, O)
<1>1. \A i \in InodeNos : /\ e.inode[i].kind = d.inode[i].kind
                          /\ e.inode[i].first_child = d.inode[i].first_child
                          /\ e.inode[i].next_sibling = d.inode[i].next_sibling
  BY DEF Links
<1>2. ASSUME Reached(d, B) PROVE Reached(e, B)
  <2> SUFFICES ASSUME NEW S \in SUBSET (B \cup {Root}), Root \in S,
                      Nearer(e, S) \subseteq S
               PROVE  B \subseteq S
    BY DEF Reached
  <2>1. Root \in InodeNos
    BY VfsConstants DEF Root, InodeNos
  <2>2. \A i \in S : i \in InodeNos
    BY <2>1
  <2>3. Nearer(d, S) = Nearer(e, S)
    BY <1>1, <2>2 DEF Nearer
  <2>4. QED
    BY <1>2, <2>3 DEF Reached
<1>3. ASSUME Used(d, B, O) PROVE Used(e, B, O)
  BY <1>1, <1>3 DEF Used
<1>4. QED
  BY <1>2, <1>3

(* The bitmap when the old blocks are exchanged for the new ones.          *)
LEMMA LandedWhole ==
  ASSUME NEW x, Placed(x), ~x.freed, NEW no \in InodeNos,
         x.disk.inode[no].kind = 1,
         NEW ok, NEW B, NEW R, Sound(x, no, ok, B, R), ok, no \in B,
         Whole(x, B),
         NEW v, v.disk.inode = x.disk.inode, v.stale = x.stale, NEW start, NEW c,
         v.disk.bitmap = (x.disk.bitmap \ BlocksOf(x.disk.inode[no]))
                         \cup Fresh(start, c),
         NEW y, Landed(v, y, no, start, c, ok, B, R)
  PROVE  Whole(y, B)
<1>1. /\ \A i \in InodeNos \ {no} : y.disk.inode[i] = x.disk.inode[i]
      /\ Links(y.disk.inode[no]) = Links(x.disk.inode[no])
      /\ BlocksOf(y.disk.inode[no]) = Fresh(start, c)
      /\ y.disk.bitmap = (x.disk.bitmap \ BlocksOf(x.disk.inode[no]))
                         \cup Fresh(start, c)
      /\ y.stale = x.stale
  BY DEF Landed
<1>2. B \in SUBSET InodeNos /\ Owned(x, no, B)
  BY DEF Sound, Lists, Home
<1>3. \A i \in InodeNos : Links(y.disk.inode[i]) = Links(x.disk.inode[i])
  BY <1>1
<1>4. Reached(y.disk, B) /\ Used(y.disk, B, y.stale)
  BY <1>1, <1>2, <1>3, ReachedStays DEF Whole
<1>5. \A i \in B : y.disk.inode[i].kind = x.disk.inode[i].kind
  BY <1>2, <1>3 DEF Links
<1>6. ASSUME NEW i \in B \ {no}, x.disk.inode[i].kind = 1
      PROVE  BlocksOf(x.disk.inode[i]) \cap BlocksOf(x.disk.inode[no]) = {}
  <2>1. i \in Kept(x, no, B) /\ no \in Kept(x, no, B)
    BY <1>6 DEF Kept
  <2>2. QED
    BY <1>2, <1>6, <2>1 DEF Owned
<1>7. Marked(y.disk, B, {})
  <2> SUFFICES ASSUME NEW b \in DataBlocks
               PROVE  b \in y.disk.bitmap <=>
                        \E i \in B : /\ y.disk.inode[i].kind = 1
                                     /\ b \in BlocksOf(y.disk.inode[i])
    BY DEF Marked
  <2>1. b \in x.disk.bitmap <=>
          \E i \in B : x.disk.inode[i].kind = 1 /\ b \in BlocksOf(x.disk.inode[i])
    BY DEF Whole, Marked
  <2>2. CASE b \in Fresh(start, c)
    BY <1>1, <1>5, <2>2
  <2>3. CASE b \notin Fresh(start, c)
    <3>1. b \in y.disk.bitmap <=>
            \E i \in B \ {no} : /\ x.disk.inode[i].kind = 1
                                /\ b \in BlocksOf(x.disk.inode[i])
      BY <1>1, <1>6, <2>1, <2>3
    <3>2. \A i \in B \ {no} : y.disk.inode[i] = x.disk.inode[i]
      BY <1>1, <1>2
    <3>3. b \notin BlocksOf(y.disk.inode[no])
      BY <1>1, <2>3
    <3>4. QED
      BY <3>1, <3>2, <3>3
  <2>4. QED
    BY <2>2, <2>3
<1>8. QED
  BY <1>4, <1>7 DEF Whole

(* The world behind the writes of write_file; stores: it did not run out of *)
(* blocks.                                                                 *)
Refilled(x, y, no, ok, B, R, stores) ==
  /\ Placed(y) /\ Sound(y, no, ok, B, R) /\ y.stale = x.stale
  /\ ok /\ Whole(x, B) => Whole(y, B)
  /\ stores => ~y.freed

LEMMA ReplaceRun ==
  ASSUME NEW x, Placed(x), ~x.freed, NEW no \in InodeNos,
         x.disk.inode[no].kind = 1, NEW c \in Seq(Stored), NEW ok,
         NEW B, NEW R, Sound(x, no, ok, B, R), ok => no \in B,
         NEW stores,
         stores => c = <<>> \/ Runs(x.disk.bitmap \ BlocksOf(x.disk.inode[no]),
                                    Len(c)) # {}
  PROVE  \E y : /\ Run(x, Replace(x.disk, no, c), y, no, c, ok)
                /\ Refilled(x, y, no, ok, B, R, stores)
<1> DEFINE d == x.disk
           n == d.inode[no]
           count == Len(c)
           left == d.bitmap \ BlocksOf(n)
           runs == Runs(left, count)
           start == CHOOSE b \in runs : \A a \in runs : b <= a
           freeing == FreeBlocks(d, n)
           stored(s) == StoreFile(no, n, s, c)
           used == left \cup (start .. start + count - 1)
<1>1. Replace(d, no, c) =
        IF count = 0 THEN freeing \o StoreFile(no, n, 0, <<>>)
        ELSE IF runs = {} THEN freeing
        ELSE freeing \o << WriteBitmap(used) >> \o stored(start)
  BY DEF Replace
<1>2. PICK u : Run(x, freeing, u, no, c, ok) /\ Emptied(x, u, no, ok, B, R)
  BY ClearRun
<1>3. /\ u.disk.inode = d.inode /\ u.disk.bitmap = left
      /\ Placed(u) /\ Sound(u, no, ok, B, R)
      /\ (u.freed <=> n.block_count # 0) /\ u.stale = x.stale
  BY <1>2 DEF Emptied
<1>4. B \in SUBSET InodeNos /\ count \in Nat /\ d \in Disk
  BY DEF Sound, Lists, Home, Placed, World
<1> HIDE DEF freeing, stored, left, count, runs, start, used
<1>5. ASSUME NEW v, NEW s, Prepared(v, no, s, c, ok, B, R),
             v.disk.inode = d.inode, v.stale = x.stale, v.disk.bitmap = left \cup Fresh(s, c),
             NEW ws, Run(x, ws, v, no, c, ok)
      PROVE  \E y : /\ Run(x, ws \o stored(s), y, no, c, ok)
                    /\ Refilled(x, y, no, ok, B, R, stores)
  <2>1. PICK y : /\ Run(v, StoreFile(no, v.disk.inode[no], s, c), y, no, c, ok)
                 /\ Landed(v, y, no, s, c, ok, B, R)
    BY <1>5, StoreRun
  <2>2. Run(v, stored(s), y, no, c, ok)
    BY <1>5, <2>1 DEF stored
  <2>3. Run(x, ws \o stored(s), y, no, c, ok)
    BY <1>5, <2>2, RunBoth
  <2>4. ok /\ Whole(x, B) => Whole(y, B)
    BY <1>5, <2>1, LandedWhole DEF left
  <2>5. Refilled(x, y, no, ok, B, R, stores)
    BY <1>5, <2>1, <2>4 DEF Refilled, Landed
  <2>6. QED
    BY <2>3, <2>5
<1>6. CASE count = 0
  <2>1. Fresh(0, c) = {}
    BY <1>6 DEF Fresh, count
  <2>2. Prepared(u, no, 0, c, ok, B, R)
    <3>1. Blocks \in Nat
      BY VfsConstants
    <3>2. QED
      BY <1>3, <1>6, <2>1, <3>1 DEF Prepared, count
  <2>3. u.disk.bitmap = left \cup Fresh(0, c)
    BY <1>3, <2>1
  <2>4. \E y : /\ Run(x, freeing \o stored(0), y, no, c, ok)
               /\ Refilled(x, y, no, ok, B, R, stores)
    BY <1>2, <1>3, <1>5, <2>2, <2>3
  <2>5. c = <<>>
    BY <1>6, EmptySeq DEF count
  <2>6. Replace(d, no, c) = freeing \o stored(0)
    BY <1>1, <1>6, <2>5 DEF stored
  <2>7. QED
    BY <2>4, <2>6
<1>7. CASE count # 0 /\ runs = {}
  <2>1. ASSUME ok, Whole(x, B) PROVE Whole(u, B)
    <3>1. Reached(u.disk, B) /\ Used(u.disk, B, u.stale)
      BY <1>3, <1>4, <2>1, ReachedStays DEF Whole
    <3>2. ASSUME ~u.freed PROVE Marked(u.disk, B, {})
      <4>1. BlocksOf(n) = {}
        BY <1>3, <1>4, <3>2, NoBlocks
      <4>2. u.disk.bitmap = d.bitmap
        BY <1>3, <4>1 DEF left
      <4>3. QED
        BY <1>3, <2>1, <4>2 DEF Whole, Marked
    <3>3. QED
      BY <3>1, <3>2 DEF Whole
  <2>2. ~stores
    <3>1. c # <<>>
      BY <1>7 DEF count
    <3>2. QED
      BY <1>7, <3>1 DEF runs, left, count
  <2>3. Refilled(x, u, no, ok, B, R, stores)
    BY <1>3, <2>1, <2>2 DEF Refilled
  <2>4. QED
    BY <1>1, <1>2, <1>7, <2>3
<1>8. CASE count # 0 /\ runs # {}
  <2>1. start \in runs
    <3>1. runs \in SUBSET Nat
      BY DEF runs, Runs, DataBlocks
    <3>2. \E b \in runs : \A a \in runs : b <= a
      BY <1>8, <3>1, LeastNat
    <3>3. QED
      BY <3>2 DEF start
  <2>2. /\ start \in DataBlocks /\ start + Len(c) - 1 <= Blocks /\ Len(c) # 0
        /\ Fresh(start, c) \cap u.disk.bitmap = {}
    BY <1>3, <1>8, <2>1 DEF runs, Runs, Fresh, count
  <2>3. PICK v : /\ Run(u, << WriteBitmap(u.disk.bitmap \cup Fresh(start, c)) >>, v,
                        no, c, ok)
                 /\ Prepared(v, no, start, c, ok, B, R)
                 /\ v.disk.inode = x.disk.inode /\ v.stale = x.stale
                 /\ v.disk.bitmap = u.disk.bitmap \cup Fresh(start, c)
    BY <1>2, <2>2, AllocRun
  <2>4. << WriteBitmap(u.disk.bitmap \cup Fresh(start, c)) >> = << WriteBitmap(used) >>
    BY <1>3 DEF used, Fresh, count
  <2>5. Run(x, freeing \o << WriteBitmap(used) >>, v, no, c, ok)
    BY <1>2, <2>3, <2>4, RunBoth
  <2>6. v.disk.bitmap = left \cup Fresh(start, c)
    BY <1>3, <2>3
  <2>7. \E y : /\ Run(x, freeing \o << WriteBitmap(used) >> \o stored(start), y,
                      no, c, ok)
               /\ Refilled(x, y, no, ok, B, R, stores)
    BY <1>5, <2>3, <2>5, <2>6
  <2>8. QED
    BY <1>1, <1>8, <2>7
<1>9. QED
  BY <1>6, <1>7, <1>8

(* What an operation leaves behind that stores to file t; done: it stored. *)
Ended(x, y, t, ok, B, done) ==
  /\ Placed(y) /\ (done => ~y.freed) /\ y.stale = x.stale
  /\ \E A, Q : /\ Sound(y, t, ok, A, Q)
               /\ ok /\ Whole(x, B) => Whole(y, A)

StoresIn(x, w, no, c, ok, B) ==
  /\ w.no = no
  /\ \E z : /\ Run(x, w.writes, z, no, c, ok)
            /\ Ended(x, z, no, ok, B, w.stores)

(* What storing in file no starts from.                                    *)
Stores(x, y, no, ok, B, A) ==
  /\ Placed(y) /\ ~y.freed /\ y.stale = x.stale
  /\ ok /\ no # 0 /\ y.disk.inode[no].kind = 1 => no \in A
  /\ ok /\ Whole(x, B) => Whole(y, A)

LEMMA StoreInRun ==
  ASSUME NEW x, NEW y, NEW made, NEW no \in {0} \cup InodeNos, NEW c \in Seq(Stored),
         NEW ok, Run(x, made, y, no, c, ok),
         NEW A, NEW Q, Sound(y, no, ok, A, Q), NEW B, Stores(x, y, no, ok, B, A)
  PROVE  StoresIn(x, StoreIn(y.disk, made, no, c), no, c, ok, B)
<1>0. /\ Placed(y) /\ ~y.freed /\ y.stale = x.stale
      /\ ok /\ no # 0 /\ y.disk.inode[no].kind = 1 => no \in A
      /\ ok /\ Whole(x, B) => Whole(y, A)
  BY DEF Stores
<1> USE <1>0
<1> DEFINE d == y.disk
           w == StoreIn(d, made, no, c)
           fits == no # 0 /\ d.inode[no].kind = 1 /\ Len(c) <= MaxFile
           room == c = <<>> \/ Runs(d.bitmap \ BlocksOf(d.inode[no]), Len(c)) # {}
           ws == IF fits THEN made \o Replace(d, no, c) ELSE made
           stores == fits /\ room
<1>1. w = [writes |-> ws, no |-> no, stores |-> stores]
  BY DEF StoreIn
<1> HIDE DEF w, ws, stores
<1>2. w.no = no /\ w.writes = ws /\ w.stores = stores
  BY <1>1
<1>3. CASE fits
  <2>1. stores => room
    BY DEF stores
  <2>2. no \in InodeNos /\ d.inode[no].kind = 1 /\ (ok => no \in A)
    BY <1>3
  <2> HIDE DEF fits
  <2>3. PICK z : /\ Run(y, Replace(d, no, c), z, no, c, ok)
                 /\ Refilled(y, z, no, ok, A, Q, stores)
    BY <2>1, <2>2, ReplaceRun
  <2>4. Run(x, made \o Replace(d, no, c), z, no, c, ok)
    BY <2>3, RunBoth
  <2>5. Ended(x, z, no, ok, B, stores)
    BY <2>3 DEF Refilled, Ended
  <2>6. QED
    BY <1>2, <1>3, <2>4, <2>5 DEF ws, w, StoresIn
<1>4. CASE ~fits
  <2>1. Ended(x, y, no, ok, B, stores)
    BY DEF Ended
  <2>2. QED
    BY <1>2, <1>4, <2>1 DEF ws, w, StoresIn
<1>5. QED
  BY <1>3, <1>4

LEMMA WriteFileRun ==
  ASSUME NEW x, Placed(x), ~x.freed, NEW c \in Seq(Stored), NEW ok,
         NEW B, NEW R, \A t : Sound(x, t, ok, B, R),
         NEW path \in DiskPath, NEW dir \in InodeNos \ x.stale,
         ok => Last(path.parts) \notin Dots \/ Whole(x, B)
  PROVE  LET w == write_file(x.disk, path, dir, c) IN
         /\ w.no \in {0} \cup InodeNos
         /\ \E y : /\ Run(x, w.writes, y, w.no, c, ok)
                   /\ Ended(x, y, w.no, ok, B, w.stores)
<1> DEFINE d == x.disk
           found == resolve(d, path, dir)
           made == IF found.error = "NotFound" THEN create_entry(d, path, dir, 1)
                                               ELSE <<>>
           no == IF made = <<>> THEN found.no ELSE made[1].no
           e == Created(d, made)
           w == StoreIn(e, made, no, c)
<1>1. write_file(d, path, dir, c) = w
  BY DEF write_file
<1>2. /\ d \in Disk /\ Lists(d, B, R) /\ B \subseteq InodeNos /\ RootOk(d)
      /\ DOMAIN R = InodeNos \ x.stale /\ dir \in DOMAIN R
  BY DEF Placed, World, Sound, Lists, Home
<1>3. /\ found \in Answers(DOMAIN R)
      /\ Last(path.parts) \notin Dots => found.no \in {0} \cup B
  BY <1>2, PathType, ResolveAnswers
<1> HIDE DEF found
<1>4. CASE made = <<>>
  <2>1. no = found.no /\ no \in {0} \cup InodeNos /\ (no # 0 => no \notin x.stale)
    <3>1. no = found.no
      BY <1>4
    <3>2. found.no \in {0} \cup DOMAIN R
      BY <1>3, AnswerType
    <3>3. 0 \notin InodeNos
      BY DEF InodeNos
    <3> HIDE DEF no
    <3>4. QED
      BY <1>2, <3>1, <3>2, <3>3
  <2>2. e = x.disk
    BY <1>4 DEF Created
  <2>3. Sound(x, no, ok, B, R)
    OBVIOUS
  <2>4. Run(x, made, x, no, c, ok)
    BY <1>4, <2>3, SoundIsGood, RunNone
  <2>5. ASSUME ok, no # 0, x.disk.inode[no].kind = 1 PROVE no \in B
    <3>1. CASE Last(path.parts) \notin Dots
      BY <1>3, <2>1, <2>5, <3>1
    <3>2. CASE Whole(x, B)
      <4>1. no # Root
        BY <1>2, <2>5 DEF RootOk
      <4>2. QED
        BY <2>1, <2>5, <3>2, <4>1 DEF Whole, Used
    <3>3. QED
      BY <2>5, <3>1, <3>2
  <2>6. w = StoreIn(x.disk, made, no, c)
    BY <2>2
  <2> HIDE DEF made, no, e, w
  <2>7. StoresIn(x, StoreIn(x.disk, made, no, c), no, c, ok, B)
    <3>1. Stores(x, x, no, ok, B, B)
      BY <2>5 DEF Stores
    <3>2. QED
      BY <2>1, <2>3, <2>4, <3>1, StoreInRun
  <2>8. QED
    BY <1>1, <2>1, <2>6, <2>7 DEF StoresIn
<1>5. CASE made # <<>>
  <2>1. made = create_entry(d, path, dir, 1)
    BY <1>5
  <2> HIDE DEF made
  <2>2. PICK i : \A t : Enters(x, made, i, 1, t, c, ok, B)
    <3>1. \E i : \A t : Enters(x, create_entry(x.disk, path, dir, 1), i, 1, t, c, ok, B)
      <4>1. create_entry(x.disk, path, dir, 1) # <<>> /\ 1 \in {1, 2}
        BY <1>5, <2>1
      <4>2. QED
        BY <4>1, CreateRun
    <3>2. QED
      BY <2>1, <3>1
  <2>3. Enters(x, made, i, 1, i, c, ok, B)
    BY <2>2
  <2>4. i \in InodeNos /\ made[1].no = i
    BY <2>3 DEF Enters
  <2>5. PICK y : /\ Run(x, made, y, i, c, ok) /\ y.disk = Created(x.disk, made)
                 /\ LinkedWorld(x, y, i, ok, B, B \cup {i}, i)
    BY <2>3 DEF Enters
  <2>6. /\ Placed(y) /\ ~y.freed
        /\ y.stale = x.stale
        /\ Whole(x, B) => Whole(y, B \cup {i})
    BY <2>5 DEF LinkedWorld
  <2>7. PICK Q : Sound(y, i, ok, B \cup {i}, Q)
    BY <2>5 DEF LinkedWorld
  <2>8. w = StoreIn(y.disk, made, i, c)
    BY <1>5, <2>4, <2>5
  <2> HIDE DEF no, e, w
  <2>9. StoresIn(x, StoreIn(y.disk, made, i, c), i, c, ok, B)
    <3>1. i \in {0} \cup InodeNos /\ i \in B \cup {i}
      BY <2>4
    <3>2. Run(x, made, y, i, c, ok)
      BY <2>5
    <3>3. Stores(x, y, i, ok, B, B \cup {i})
      BY <2>6, <3>1 DEF Stores
    <3>4. QED
      BY <2>7, <3>1, <3>2, <3>3, StoreInRun
  <2>10. QED
    BY <1>1, <2>4, <2>8, <2>9 DEF StoresIn
<1>6. QED
  BY <1>4, <1>5

LEMMA MakeRun ==
  ASSUME NEW x, Placed(x), ~x.freed, NEW c \in Seq(Stored), NEW ok,
         NEW B, NEW R, \A t : Sound(x, t, ok, B, R),
         NEW path \in DiskPath, NEW dir \in InodeNos \ x.stale, NEW kind \in {1, 2}
  PROVE  \E y : /\ Run(x, create_entry(x.disk, path, dir, kind), y, 0, c, ok)
                /\ Ended(x, y, 0, ok, B, TRUE)
<1> DEFINE made == create_entry(x.disk, path, dir, kind)
<1>1. Sound(x, 0, ok, B, R)
  OBVIOUS
<1>2. CASE made = <<>>
  <2>1. Run(x, <<>>, x, 0, c, ok)
    BY <1>1, SoundIsGood, RunNone
  <2>2. Ended(x, x, 0, ok, B, TRUE)
    BY <1>1 DEF Ended
  <2>3. QED
    BY <1>2, <2>1, <2>2
<1>3. CASE made # <<>>
  <2>1. PICK no : \A t : Enters(x, made, no, kind, t, c, ok, B)
    BY <1>3, CreateRun
  <2> HIDE DEF made
  <2>2. Enters(x, made, no, kind, 0, c, ok, B)
    BY <2>1
  <2>3. PICK y : /\ Run(x, made, y, 0, c, ok)
                 /\ LinkedWorld(x, y, 0, ok, B, B \cup {no}, no)
    BY <2>2 DEF Enters
  <2>4. Ended(x, y, 0, ok, B, TRUE)
    BY <2>3 DEF LinkedWorld, Ended
  <2>5. QED
    BY <2>3, <2>4 DEF made
<1>4. QED
  BY <1>2, <1>3

(* The root of an empty file system.                                       *)
LEMMA RootType ==
  /\ RootInode \in Inode /\ RootInode.kind = 2 /\ RootInode.parent = 0
  /\ RootInode.next_sibling = 0 /\ RootInode.first_child = 0
  /\ BlocksOf(RootInode) = {} /\ Root \in InodeNos
<1>1. Inodes \in Nat /\ Blocks \in Nat /\ Inodes # 0
  BY VfsConstants
<1>2. /\ RootInode.kind = 2 /\ RootInode.parent = 0 /\ RootInode.name = "/"
      /\ RootInode.next_sibling = 0 /\ RootInode.first_child = 0
      /\ RootInode.start_block = 0 /\ RootInode.block_count = 0
  BY DEF RootInode, ZeroInode
<1>3. RootInode \in Inode
  <2>1. ZeroInode \in Inode
    BY ZeroType
  <2> DEFINE m == [ZeroInode EXCEPT !.kind = 2]
  <2>2. m \in Inode
    BY <2>1 DEF Inode
  <2>3. RootInode = [m EXCEPT !.name = "/"]
    BY DEF RootInode
  <2>4. "/" \in InodeName
    BY DEF InodeName
  <2> HIDE DEF m
  <2>5. QED
    BY <2>2, <2>3, <2>4 DEF Inode
<1>4. BlocksOf(RootInode) = {}
  BY <1>2 DEF BlocksOf
<1>5. Root \in InodeNos
  BY <1>1 DEF Root, InodeNos
<1>6. QED
  BY <1>2, <1>3, <1>4, <1>5

----------------------------------------------------------------------------
(* Between two operations.                                                 *)

(* What an operation that runs to its end leaves behind.                   *)
Final(y, t) == \E B, R : Sound(y, t, TRUE, B, R) /\ Whole(y, B)

(* The same disk, and no blocks that are free too early.                   *)
Calms(x, z) == /\ z \in World /\ z.disk = x.disk /\ z.saved = x.saved
               /\ ~z.freed /\ z.stale = x.stale

LEMMA CalmSound ==
  ASSUME NEW x, NEW z, Calms(x, z), NEW t, NEW ok, NEW B, NEW R,
         Sound(x, t, ok, B, R), NEW weak, weak => ok /\ ~x.freed
  PROVE  \A u : Sound(z, u, weak, B, R)
<1> SUFFICES ASSUME NEW u PROVE Sound(z, u, weak, B, R)
  OBVIOUS
<1>1. z.disk = x.disk /\ z.saved = x.saved /\ ~z.freed /\ z.stale = x.stale
  BY DEF Calms
<1>2. ASSUME weak PROVE Owned(z, u, B)
  <2>1. Kept(z, u, B) = Kept(x, t, B)
    BY <1>1, <1>2 DEF Kept
  <2>2. Owned(x, t, B)
    BY <1>2 DEF Sound
  <2>3. QED
    BY <1>1, <2>1, <2>2 DEF Owned
<1>3. QED
  BY <1>1, <1>2 DEF Sound

LEMMA CalmGood ==
  ASSUME NEW x, NEW z, Calms(x, z), NEW t, NEW ok, Good(x, t, ok),
         NEW weak, weak => ok /\ ~x.freed
  PROVE  \A u : Good(z, u, weak)
<1> SUFFICES ASSUME NEW u PROVE Good(z, u, weak)
  OBVIOUS
<1>1. z \in World /\ z.disk = x.disk /\ InRange(x.disk)
  BY DEF Calms, Good
<1>2. PICK B, R : Sound(x, t, ok, B, R)
  BY DEF Good
<1>3. Sound(z, u, weak, B, R)
  BY <1>2, CalmSound
<1>4. QED
  BY <1>1, <1>3 DEF Good

LEMMA CalmFinal ==
  ASSUME NEW x, NEW z, Calms(x, z), NEW t, Final(x, t), ~x.freed
  PROVE  \A u : Final(z, u)
<1> SUFFICES ASSUME NEW u PROVE Final(z, u)
  OBVIOUS
<1>1. z.disk = x.disk /\ ~z.freed /\ z.stale = x.stale
  BY DEF Calms
<1>2. PICK B, R : Sound(x, t, TRUE, B, R) /\ Whole(x, B)
  BY DEF Final
<1>3. Sound(z, u, TRUE, B, R)
  BY <1>2, CalmSound
<1>4. Whole(z, B)
  BY <1>1, <1>2 DEF Whole
<1>5. QED
  BY <1>3, <1>4 DEF Final

(* A disk that calls can work on; fin: no operation was cut short before.  *)
Ready(z, ok, fin) ==
  /\ z \in World /\ InRange(z.disk) /\ z.disk.super /\ ~z.freed
  /\ \E B, R : /\ \A t : Sound(z, t, ok, B, R)
               /\ fin => ok /\ Whole(z, B)

LEMMA ReadyAfter ==
  ASSUME NEW x, NEW t, NEW ok, Good(x, t, ok),
         NEW fin, fin => Final(x, t),
         NEW z, Calms(x, z),
         NEW weak, weak => ok /\ ~x.freed,
         NEW end, end => fin /\ weak
  PROVE  Ready(z, weak, end)
<1>1. /\ z \in World /\ z.disk = x.disk /\ ~z.freed /\ InRange(x.disk)
      /\ z.stale = x.stale /\ x.disk.super
  BY DEF Calms, Good, Sound
<1>2. CASE end
  <2>1. PICK B, R : Sound(x, t, TRUE, B, R) /\ Whole(x, B)
    BY <1>2 DEF Final
  <2>2. weak /\ ~x.freed
    BY <1>2
  <2>3. \A u : Sound(z, u, weak, B, R)
    BY <2>1, <2>2, CalmSound
  <2>4. Whole(z, B)
    BY <1>1, <2>1, <2>2 DEF Whole
  <2>5. QED
    BY <1>1, <2>2, <2>3, <2>4 DEF Ready
<1>3. CASE ~end
  <2>1. PICK B, R : Sound(x, t, ok, B, R)
    BY DEF Good
  <2>2. \A u : Sound(z, u, weak, B, R)
    BY <2>1, CalmSound
  <2>3. QED
    BY <1>1, <1>3, <2>2 DEF Ready
<1>4. QED
  BY <1>2, <1>3

(* The writes of a call; keeps: no blocks are free too early at the end.   *)
CallRuns(z, ws, t, c, ok, fin, keeps) ==
  \E y : /\ Run(z, ws, y, t, c, ok)
         /\ fin => Final(y, t)
         /\ keeps => ~y.freed

LEMMA EndedRuns ==
  ASSUME NEW z, NEW ws, NEW t, NEW c, NEW ok, NEW fin, NEW keeps, NEW B,
         fin => ok /\ Whole(z, B), NEW y, Run(z, ws, y, t, c, ok),
         Ended(z, y, t, ok, B, keeps)
  PROVE  CallRuns(z, ws, t, c, ok, fin, keeps)
<1>1. PICK A, Q : Sound(y, t, ok, A, Q) /\ (ok /\ Whole(z, B) => Whole(y, A))
  BY DEF Ended
<1>2. ASSUME fin PROVE Final(y, t)
  <2>1. Sound(y, t, TRUE, A, Q) /\ Whole(y, A)
    BY <1>1, <1>2 DEF Sound
  <2>2. QED
    BY <2>1, Zenon DEF Final
<1>3. keeps => ~y.freed
  BY DEF Ended
<1>4. QED
  BY <1>2, <1>3 DEF CallRuns

LEMMA MakeCall ==
  ASSUME NEW z, NEW ok, NEW fin, Ready(z, ok, fin), NEW path \in DiskPath,
         NEW dir \in InodeNos \ z.stale, NEW kind \in {1, 2}, NEW c \in Seq(Stored)
  PROVE  CallRuns(z, create_entry(z.disk, path, dir, kind), 0, c, ok, fin, TRUE)
<1>1. PICK B, R : /\ \A t : Sound(z, t, ok, B, R)
                  /\ fin => ok /\ Whole(z, B)
  BY DEF Ready
<1>2. Placed(z) /\ ~z.freed
  BY DEF Ready, Placed
<1>3. \E y : /\ Run(z, create_entry(z.disk, path, dir, kind), y, 0, c, ok)
             /\ Ended(z, y, 0, ok, B, TRUE)
  BY <1>1, <1>2, MakeRun
<1>4. QED
  BY <1>1, <1>3, EndedRuns

LEMMA RemoveCall ==
  ASSUME NEW z, NEW ok, NEW fin, Ready(z, ok, fin), NEW path \in DiskPath,
         NEW dir \in InodeNos \ z.stale, NEW c \in Seq(Stored)
  PROVE  CallRuns(z, remove(z.disk, path, dir), 0, c, ok, fin, TRUE)
<1>1. PICK B, R : /\ \A t : Sound(z, t, ok, B, R)
                  /\ fin => ok /\ Whole(z, B)
  BY DEF Ready
<1>2. Placed(z) /\ ~z.freed /\ Sound(z, 0, ok, B, R)
  BY <1>1 DEF Ready, Placed
<1>3. PICK y : /\ Run(z, remove(z.disk, path, dir), y, 0, c, ok)
               /\ Done(z, y, ok, B)
  BY <1>2, RemoveRun
<1>4. Ended(z, y, 0, ok, B, TRUE)
  BY <1>3 DEF Done, Ended
<1>5. QED
  BY <1>1, <1>3, <1>4, EndedRuns

LEMMA WriteCall ==
  ASSUME NEW z, NEW ok, NEW fin, Ready(z, ok, fin), NEW path \in DiskPath,
         NEW dir \in InodeNos \ z.stale, NEW c \in Seq(Stored),
         ok => Last(path.parts) \notin Dots \/ fin
  PROVE  LET w == write_file(z.disk, path, dir, c) IN
         /\ w.writes # <<>> => w.no \in {0} \cup InodeNos
         /\ CallRuns(z, w.writes, w.no, c, ok, fin, w.stores)
<1> DEFINE w == write_file(z.disk, path, dir, c)
<1>1. PICK B, R : /\ \A t : Sound(z, t, ok, B, R)
                  /\ fin => ok /\ Whole(z, B)
  BY DEF Ready
<1>2. Placed(z) /\ ~z.freed
  BY DEF Ready, Placed
<1>3. ok => Last(path.parts) \notin Dots \/ Whole(z, B)
  BY <1>1
<1>4. /\ w.no \in {0} \cup InodeNos
      /\ \E y : /\ Run(z, w.writes, y, w.no, c, ok)
                /\ Ended(z, y, w.no, ok, B, w.stores)
  BY <1>1, <1>2, <1>3, WriteFileRun
<1> HIDE DEF w
<1>5. CallRuns(z, w.writes, w.no, c, ok, fin, w.stores)
  BY <1>1, <1>4, EndedRuns
<1>6. QED
  BY <1>4, <1>5 DEF w

----------------------------------------------------------------------------
(* The invariant.                                                          *)

(* No path in use ends in dots, or in nothing.                             *)
EndInNames == \A path \in Paths : Last(path.parts) \notin Dots

(* The blocks of files are sound.                                          *)
Trusted == ~damaged /\ (EndInNames \/ ~stopped)
(* Every operation ran to its end.                                         *)
Finished == ~damaged /\ ~stopped

Now == [disk |-> disk, saved |-> saved, freed |-> freed, stale |-> stale]

Boot ==
  /\ mounted \in BOOLEAN /\ phase \in {"off", "format", "up", "failed"}
  /\ mounted <=> phase = "up"
  /\ damaged \in BOOLEAN /\ stopped \in BOOLEAN
  /\ cwd \in InodeNos \ stale /\ target \in 0 .. Inodes
  /\ storing \in Seq(Stored)
  /\ moving \in Paths \cup {Nowhere}
  /\ phase # "up" => target = 0 /\ ~freed /\ moving = Nowhere /\ plan = <<>>

(* The writes of the plan end well; after them mv can remove the source.   *)
Steady ==
  \E t, c, y : /\ plan # <<>> => t = target /\ c = storing
               /\ Run(Now, plan, y, t, c, Trusted)
               /\ Finished => Final(y, t)
               /\ moving # Nowhere => ~y.freed

(* A disk that was wholly formatted.                                       *)
Formed == formatted = TRUE /\ Boot /\ Steady

LEMMA RunWeaker ==
  ASSUME NEW x, NEW p, NEW y, NEW t, NEW c, NEW ok, Run(x, p, y, t, c, ok),
         NEW weak, weak => ok
  PROVE  Run(x, p, y, t, c, weak)
<1>1. p \in Seq(Pages)
  BY DEF Run
<1>2. PICK f : /\ f[0] = x /\ f[Len(p)] = y
               /\ \A k \in 0 .. Len(p) : Good(f[k], t, ok)
               /\ \A k \in 1 .. Len(p) : f[k] = After(f[k - 1], p[k], t, c)
  BY DEF Run
<1>3. ASSUME NEW k \in 0 .. Len(p) PROVE Good(f[k], t, weak)
  <2>1. Good(f[k], t, ok)
    BY <1>2
  <2>2. QED
    BY <2>1, GoodWeaker
<1>4. QED
  BY <1>1, <1>2, <1>3 DEF Run

(* The state without its plan.                                             *)
LEMMA NowGood ==
  ASSUME Formed
  PROVE  \E t : /\ Good(Now, t, Trusted)
                /\ plan = <<>> /\ Finished => Final(Now, t)
                /\ plan = <<>> /\ moving # Nowhere => ~freed
<1>1. PICK t, c, y : /\ Run(Now, plan, y, t, c, Trusted)
                     /\ Finished => Final(y, t)
                     /\ moving # Nowhere => ~y.freed
  BY DEF Formed, Steady
<1>2. Good(Now, t, Trusted) /\ (plan = <<>> => y = Now)
  BY <1>1, RunEnds
<1>3. Now.freed = freed
  BY DEF Now
<1>4. QED
  BY <1>1, <1>2, <1>3

LEMMA NowType ==
  ASSUME Formed
  PROVE  /\ Now \in World /\ disk \in Disk /\ saved \in [InodeNos -> Seq(Stored)]
         /\ freed \in BOOLEAN /\ InRange(disk) /\ plan \in Seq(Pages)
         /\ Now.disk = disk /\ Now.saved = saved /\ Now.freed = freed
         /\ Now.stale = stale /\ stale \in SUBSET InodeNos
         /\ disk.super /\ Root \in InodeNos \ stale
<1>1. PICK t, c, y : Run(Now, plan, y, t, c, Trusted)
  BY DEF Formed, Steady
<1>2. Good(Now, t, Trusted) /\ plan \in Seq(Pages)
  BY <1>1, RunEnds
<1>3. /\ Now.disk = disk /\ Now.saved = saved /\ Now.freed = freed
      /\ Now.stale = stale
  BY DEF Now
<1>4. Now \in World /\ InRange(disk)
  BY <1>2, <1>3 DEF Good
<1>5. PICK B, R : Sound(Now, t, Trusted, B, R)
  BY <1>2 DEF Good
<1>6. disk.super /\ Root \in InodeNos \ stale
  BY <1>3, <1>5 DEF Sound, Lists, Home
<1>7. QED
  BY <1>2, <1>3, <1>4, <1>6 DEF World

(* The world without blocks that are free too early.                       *)
Calm == [disk |-> disk, saved |-> saved, freed |-> FALSE, stale |-> stale]

LEMMA CalmReady ==
  ASSUME Formed, plan = <<>>
  PROVE  /\ Calm.disk = disk /\ Calm.stale = stale /\ Calms(Now, Calm)
         /\ Ready(Calm, Trusted /\ ~freed, Finished /\ ~freed)
<1>1. PICK t : Good(Now, t, Trusted) /\ (Finished => Final(Now, t))
  BY NowGood
<1>2. /\ Now.disk = disk /\ Now.freed = freed /\ Now.saved = saved
      /\ disk \in Disk /\ saved \in [InodeNos -> Seq(Stored)]
      /\ Now.stale = stale /\ stale \in SUBSET InodeNos
  BY NowType
<1>3. Calm.disk = disk /\ Calm.stale = stale /\ Calms(Now, Calm)
  <2>1. Calm.disk = disk /\ Calm.saved = saved /\ ~Calm.freed /\ Calm.stale = stale
    BY DEF Calm
  <2>2. Calm \in World
    BY <1>2 DEF Calm, World
  <2>3. QED
    BY <1>2, <2>1, <2>2 DEF Calms
<1>4. /\ Trusted /\ ~freed => Trusted /\ ~Now.freed
      /\ Finished /\ ~freed => Finished /\ Trusted /\ ~freed
  BY <1>2 DEF Trusted, Finished
<1> DEFINE weak == Trusted /\ ~freed
           end == Finished /\ ~freed
           ok == Trusted
           fin == Finished
           x == Now
           z == Calm
<1>5. /\ Good(x, t, ok) /\ (fin => Final(x, t)) /\ Calms(x, z)
      /\ (weak => ok /\ ~x.freed) /\ (end => fin /\ weak)
  BY <1>1, <1>2, <1>3, <1>4
<1> HIDE DEF weak, end, ok, fin, x, z
<1>6. Ready(z, weak, end)
  BY <1>5, ReadyAfter
<1>7. QED
  BY <1>3, <1>6 DEF z, weak, end

(* What the blocks and the operations are worth after an early end.        *)
LEMMA EndsEarly ==
  ASSUME damaged \in BOOLEAN, freed \in BOOLEAN,
         damaged' = (damaged \/ freed), stopped => stopped'
  PROVE  /\ Trusted' => Trusted /\ ~freed
         /\ Finished' => Finished /\ ~freed
<1>1. EndInNames' <=> EndInNames
  BY DEF EndInNames
<1>2. ~damaged' => ~damaged /\ ~freed
  OBVIOUS
<1>3. Trusted' => Trusted /\ ~freed
  BY <1>1, <1>2 DEF Trusted
<1>4. Finished' => Finished /\ ~freed
  BY <1>2 DEF Finished
<1>5. QED
  BY <1>3, <1>4

LEMMA BeginStep ==
  ASSUME Formed, phase = "up",
         NEW ws, NEW no, ws # <<>> => no \in {0} \cup InodeNos,
         NEW data \in Seq(Stored), NEW after \in Paths \cup {Nowhere},
         Begin(ws, no, data, after),
         CallRuns(Calm, ws, no, data, Trusted /\ ~freed, Finished /\ ~freed,
                  after # Nowhere)
  PROVE  Formed'
<1>1. PICK y : /\ Run(Calm, ws, y, no, data, Trusted /\ ~freed)
               /\ Finished /\ ~freed => Final(y, no)
               /\ after # Nowhere => ~y.freed
  BY DEF CallRuns
<1>2. /\ plan' = ws /\ moving' = after
      /\ target' = IF ws = <<>> THEN 0 ELSE no
      /\ storing' = IF ws = <<>> THEN <<>> ELSE data
      /\ damaged' = (damaged \/ freed) /\ freed' = FALSE /\ stopped' = stopped
      /\ disk' = disk /\ mounted' = mounted /\ phase' = phase /\ cwd' = cwd
      /\ saved' = saved /\ stale' = stale /\ formatted' = formatted
  BY DEF Begin, Aim, format_ghosts
<1>3. Now' = Calm
  BY <1>2 DEF Now, Calm
<1>4. /\ Trusted' => Trusted /\ ~freed
      /\ Finished' => Finished /\ ~freed
  <2>1. damaged \in BOOLEAN /\ freed \in BOOLEAN
    BY NowType DEF Formed, Boot
  <2>2. QED
    BY <1>2, <2>1, EndsEarly
<1>5. Run(Calm, ws, y, no, data, Trusted')
  BY <1>1, <1>4, RunWeaker
<1>6. Steady'
  <2>1. ws # <<>> => no = target' /\ data = storing'
    BY <1>2
  <2>2. /\ plan' # <<>> => no = target' /\ data = storing'
        /\ Run(Now', plan', y, no, data, Trusted')
        /\ Finished' => Final(y, no)
        /\ moving' # Nowhere => ~y.freed
    BY <1>1, <1>2, <1>3, <1>4, <1>5, <2>1
  <2>3. QED
    BY <2>2 DEF Steady
<1>7. Boot'
  <2>1. target' \in 0 .. Inodes /\ storing' \in Seq(Stored)
    <3>1. Inodes \in Nat
      BY VfsConstants
    <3>2. <<>> \in Seq(Stored)
      OBVIOUS
    <3>3. QED
      BY <1>2, <3>1, <3>2 DEF InodeNos
  <2>2. QED
    BY <1>2, <2>1 DEF Formed, Boot
<1>8. QED
  BY <1>2, <1>6, <1>7 DEF Formed

(* A crash, or an error that the disk reports.                             *)
LEMMA StopStep ==
  ASSUME Formed, Stop
  PROVE  /\ Steady'
         /\ plan' = <<>> /\ moving' = Nowhere /\ target' = 0 /\ storing' = <<>>
         /\ ~freed' /\ disk' = disk /\ stale' = stale /\ formatted' = formatted
         /\ damaged' \in BOOLEAN /\ stopped' \in BOOLEAN
<1>1. /\ plan' = <<>> /\ moving' = Nowhere
      /\ damaged' = (damaged \/ freed) /\ freed' = FALSE
      /\ stopped' = (stopped \/ plan # <<>>)
      /\ target' = 0 /\ storing' = <<>>
      /\ disk' = disk /\ saved' = saved
      /\ stale' = stale /\ formatted' = formatted
  BY DEF Stop, format_ghosts
<1>2. /\ damaged \in BOOLEAN /\ freed \in BOOLEAN /\ stopped \in BOOLEAN
      /\ Now.freed = freed
  BY NowType DEF Formed, Boot
<1>3. /\ Trusted' => Trusted /\ ~freed
      /\ Finished' => Finished /\ ~freed /\ plan = <<>>
  <2>1. stopped => stopped'
    BY <1>1, <1>2
  <2>2. /\ Trusted' => Trusted /\ ~freed
        /\ Finished' => Finished /\ ~freed
    BY <1>1, <1>2, <2>1, EndsEarly
  <2>3. ~stopped' => plan = <<>>
    BY <1>1
  <2>4. Finished' => ~stopped'
    BY DEF Finished
  <2>5. QED
    BY <2>2, <2>3, <2>4
<1>4. PICK t : /\ Good(Now, t, Trusted)
               /\ plan = <<>> /\ Finished => Final(Now, t)
  BY NowGood
<1>5. Now' = Calm
  BY <1>1 DEF Now, Calm
<1>6. Calms(Now, Calm)
  <2>1. /\ Now.disk = disk /\ Now.saved = saved /\ Now.stale = stale
        /\ stale \in SUBSET InodeNos
        /\ disk \in Disk /\ saved \in [InodeNos -> Seq(Stored)]
    BY NowType
  <2>2. Calm.disk = disk /\ Calm.saved = saved /\ ~Calm.freed /\ Calm.stale = stale
    BY DEF Calm
  <2>3. Calm \in World
    BY <2>1 DEF Calm, World
  <2>4. QED
    BY <2>1, <2>2, <2>3 DEF Calms
<1>7. Good(Calm, 0, Trusted')
  <2>1. Trusted' => Trusted /\ ~Now.freed
    BY <1>2, <1>3
  <2>2. QED
    BY <1>4, <1>6, <2>1, CalmGood
<1>8. Finished' => Final(Calm, 0)
  BY <1>2, <1>3, <1>4, <1>6, CalmFinal
<1>9. Run(Calm, <<>>, Calm, 0, <<>>, Trusted')
  BY <1>7, RunNone
<1>10. Steady'
  <2>1. /\ plan' # <<>> => 0 = target' /\ <<>> = storing'
        /\ Run(Now', plan', Calm, 0, <<>>, Trusted')
        /\ Finished' => Final(Calm, 0)
        /\ moving' # Nowhere => ~Calm.freed
    BY <1>1, <1>5, <1>8, <1>9
  <2>2. QED
    BY <2>1 DEF Steady
<1>11. damaged' \in BOOLEAN /\ stopped' \in BOOLEAN
  BY <1>1
<1>12. QED
  BY <1>1, <1>10, <1>11

LEMMA IoErrorStep ==
  ASSUME Formed, IoError
  PROVE  Formed'
<1>1. /\ Stop /\ (plan # <<>> \/ phase = "off")
      /\ phase' = IF phase = "up" THEN "up" ELSE "failed"
      /\ mounted' = mounted /\ cwd' = cwd
  BY DEF IoError
<1>2. /\ Steady'
      /\ plan' = <<>> /\ moving' = Nowhere /\ target' = 0 /\ storing' = <<>>
      /\ ~freed' /\ disk' = disk /\ stale' = stale /\ formatted' = formatted
      /\ damaged' \in BOOLEAN /\ stopped' \in BOOLEAN
  BY <1>1, StopStep
<1>3. Boot'
  <2>1. 0 \in 0 .. Inodes /\ <<>> \in Seq(Stored)
    BY VfsConstants
  <2>2. QED
    BY <1>1, <1>2, <2>1 DEF Formed, Boot
<1>4. QED
  BY <1>2, <1>3 DEF Formed

LEMMA CrashStep ==
  ASSUME Formed, Crash
  PROVE  Formed'
<1>1. /\ Stop /\ mounted' = FALSE /\ phase' = "off" /\ cwd' = Root
  BY DEF Crash
<1>2. /\ Steady'
      /\ plan' = <<>> /\ moving' = Nowhere /\ target' = 0 /\ storing' = <<>>
      /\ ~freed' /\ disk' = disk /\ stale' = stale /\ formatted' = formatted
      /\ damaged' \in BOOLEAN /\ stopped' \in BOOLEAN
  BY <1>1, StopStep
<1>3. Boot'
  <2>1. 0 \in 0 .. Inodes /\ <<>> \in Seq(Stored) /\ Root \in InodeNos \ stale
    BY VfsConstants, NowType
  <2>2. QED
    BY <1>1, <1>2, <2>1 DEF Formed, Boot
<1>4. QED
  BY <1>2, <1>3 DEF Formed

LEMMA WritePageStep ==
  ASSUME Formed, WritePage
  PROVE  Formed'
<1> DEFINE w == Head(plan)
           u == After(Now, w, target, storing)
<1>1. /\ plan # <<>>
      /\ plan' = Tail(plan)
      /\ target' = IF plan' = <<>> THEN 0 ELSE target
      /\ storing' = IF plan' = <<>> THEN <<>> ELSE storing
      /\ mounted' = mounted /\ phase' = phase /\ moving' = moving /\ cwd' = cwd
      /\ damaged' = damaged /\ stopped' = stopped
      /\ disk' = Written(disk, w)
      /\ stale' = stale /\ formatted' = formatted
  BY DEF WritePage, Aim, format_ghosts, Formed, Boot
<1>2. Now' = u
  <2>1. /\ Now.disk = disk /\ Now.saved = saved /\ Now.freed = freed
        /\ Now.stale = stale
    BY DEF Now
  <2>2. /\ saved' = IF w.page = "inode" /\ w.inode.kind = 1
                    THEN [saved EXCEPT ![w.no] =
                            CASE w.inode.block_count = 0 -> <<>>
                              [] w.inode.block_count # 0 /\ w.no = target -> storing
                              [] OTHER -> saved[w.no]]
                    ELSE IF w.page = "inode" THEN [saved EXCEPT ![w.no] = <<>>]
                    ELSE saved
        /\ freed' = CASE w.page = "bitmap" ->
                           target # 0 /\ disk.inode[target].block_count # 0
                      [] w.page = "inode" /\ w.no = target -> FALSE
                      [] OTHER -> freed
    BY DEF WritePage
  <2>3. Now' = [disk |-> disk', saved |-> saved', freed |-> freed',
              stale |-> stale]
    BY <1>1 DEF Now
  <2> HIDE DEF w
  <2>4. u = [disk |-> disk', saved |-> saved', freed |-> freed',
            stale |-> stale]
    BY <1>1, <2>1, <2>2 DEF After
  <2>5. QED
    BY <2>3, <2>4
<1>3. PICK t, c, y : /\ plan # <<>> => t = target /\ c = storing
                     /\ Run(Now, plan, y, t, c, Trusted)
                     /\ Finished => Final(y, t)
                     /\ moving # Nowhere => ~y.freed
  BY DEF Formed, Steady
<1>4. w \in Pages /\ Run(u, Tail(plan), y, t, c, Trusted)
  BY <1>1, <1>3, RunFirst
<1>5. (Trusted' <=> Trusted) /\ (Finished' <=> Finished)
  <2>1. EndInNames' <=> EndInNames
    BY DEF EndInNames
  <2>2. QED
    BY <1>1, <2>1 DEF Trusted, Finished
<1> HIDE DEF w, u
<1>6. Steady'
  <2>1. Run(u, Tail(plan), y, t, c, Trusted')
    BY <1>4, <1>5, RunWeaker
  <2>2. /\ plan' # <<>> => t = target' /\ c = storing'
        /\ Run(Now', plan', y, t, c, Trusted')
        /\ Finished' => Final(y, t)
        /\ moving' # Nowhere => ~y.freed
    BY <1>1, <1>2, <1>3, <1>5, <2>1
  <2>3. QED
    BY <2>2 DEF Steady
<1>7. Boot'
  <2>1. 0 \in 0 .. Inodes /\ <<>> \in Seq(Stored)
    BY VfsConstants
  <2>2. phase = "up"
    BY <1>1 DEF Formed, Boot
  <2>3. QED
    BY <1>1, <2>1, <2>2 DEF Formed, Boot
<1>8. QED
  BY <1>1, <1>6, <1>7 DEF Formed

LEMMA MntType == MntPath \in DiskPath /\ Root \in InodeNos
<1>1. <<"mnt">> \in Seq(Names \cup Dots) /\ <<"mnt">> # <<>>
  BY VfsConstants
<1>2. MntPath \in DiskPath
  BY <1>1 DEF MntPath, DiskPath
<1>3. QED
  BY <1>2, RootType

LEMMA MountStep ==
  ASSUME Formed, phase # "up", plan = <<>>, Mount
  PROVE  Formed'
<1> DEFINE ws == create_entry(disk, MntPath, Root, 2)
<1>1. /\ mounted' = TRUE /\ phase' = "up" /\ plan' = ws
      /\ disk' = disk /\ moving' = moving /\ cwd' = cwd
      /\ target' = target /\ storing' = storing /\ saved' = saved
      /\ freed' = freed /\ damaged' = damaged /\ stopped' = stopped
      /\ stale' = stale /\ formatted' = formatted
  BY DEF Mount, ghosts, format_ghosts
<1>2. /\ target = 0 /\ ~freed /\ moving = Nowhere /\ storing \in Seq(Stored)
      /\ freed \in BOOLEAN
  BY NowType DEF Formed, Boot
<1>3. Calm.disk = disk /\ Calm.stale = stale /\ Ready(Calm, Trusted /\ ~freed, Finished /\ ~freed)
  BY CalmReady
<1>4. CallRuns(Calm, ws, 0, storing, Trusted /\ ~freed, Finished /\ ~freed, TRUE)
  <2> DEFINE ok == Trusted /\ ~freed
             fin == Finished /\ ~freed
             z == Calm
  <2>1. Ready(z, ok, fin) /\ z.disk = disk /\ Root \in InodeNos \ z.stale
    BY <1>3, NowType
  <2> HIDE DEF ok, fin, z
  <2>2. CallRuns(z, create_entry(z.disk, MntPath, Root, 2), 0, storing, ok, fin, TRUE)
    BY <1>2, <2>1, MntType, MakeCall
  <2>3. QED
    BY <2>1, <2>2 DEF ok, fin, z
<1> HIDE DEF ws
<1>5. PICK y : /\ Run(Calm, ws, y, 0, storing, Trusted /\ ~freed)
               /\ Finished /\ ~freed => Final(y, 0)
  BY <1>4 DEF CallRuns
<1>6. (Trusted' <=> Trusted) /\ (Finished' <=> Finished)
  <2>1. EndInNames' <=> EndInNames
    BY DEF EndInNames
  <2>2. QED
    BY <1>1, <2>1 DEF Trusted, Finished
<1>7. Now' = Calm
  BY <1>1, <1>2 DEF Now, Calm
<1>8. Run(Calm, ws, y, 0, storing, Trusted')
  BY <1>2, <1>5, <1>6, RunWeaker
<1>9. Steady'
  <2>1. /\ plan' # <<>> => 0 = target' /\ storing = storing'
        /\ Run(Now', plan', y, 0, storing, Trusted')
        /\ Finished' => Final(y, 0)
        /\ moving' # Nowhere => ~y.freed
    BY <1>1, <1>2, <1>5, <1>6, <1>7, <1>8
  <2>2. QED
    BY <2>1 DEF Steady
<1>10. Boot'
  BY <1>1 DEF Formed, Boot
<1>11. QED
  BY <1>1, <1>9, <1>10 DEF Formed

LEMMA AttachStep ==
  ASSUME Formed, Attach
  PROVE  Formed'
<1>1. phase = "off" /\ plan = <<>>
  BY DEF Attach, Formed, Boot
<1>2. Mount
  BY NowType DEF Attach
<1>3. QED
  BY <1>1, <1>2, MountStep

LEMMA FormattedStep ==
  ASSUME Formed, Formatted
  PROVE  Formed'
<1>1. phase = "format" /\ plan = <<>> /\ Mount
  BY DEF Formatted
<1>2. QED
  BY <1>1, MountStep

LEMMA MoveStep ==
  ASSUME Formed, MoveRemoves
  PROVE  Formed'
<1> DEFINE ws == remove(disk, moving, cwd)
<1>1. /\ plan = <<>> /\ moving # Nowhere /\ plan' = ws
      /\ moving' = Nowhere /\ target' = 0 /\ storing' = <<>>
      /\ mounted' = mounted /\ phase' = phase
      /\ disk' = disk /\ cwd' = cwd /\ saved' = saved
      /\ freed' = freed /\ damaged' = damaged /\ stopped' = stopped
      /\ stale' = stale /\ formatted' = formatted
  BY DEF MoveRemoves, format_ghosts
<1>2. ~freed
  BY <1>1, NowGood
<1>3. /\ phase = "up" /\ cwd \in InodeNos \ stale /\ moving \in Paths
      /\ freed \in BOOLEAN
  BY <1>1, NowType DEF Formed, Boot
<1>4. Calm.disk = disk /\ Calm.stale = stale /\ Ready(Calm, Trusted /\ ~freed, Finished /\ ~freed)
  BY <1>1, <1>3, CalmReady
<1>5. CallRuns(Calm, ws, 0, <<>>, Trusted /\ ~freed, Finished /\ ~freed, TRUE)
  <2> DEFINE ok == Trusted /\ ~freed
             fin == Finished /\ ~freed
             z == Calm
  <2>1. Ready(z, ok, fin) /\ z.disk = disk /\ cwd \in InodeNos \ z.stale
    BY <1>3, <1>4
  <2>2. moving \in DiskPath /\ <<>> \in Seq(Stored)
    BY <1>3, VfsConstants
  <2> HIDE DEF ok, fin, z
  <2>3. CallRuns(z, remove(z.disk, moving, cwd), 0, <<>>, ok, fin, TRUE)
    BY <2>1, <2>2, RemoveCall
  <2>4. QED
    BY <2>1, <2>3 DEF ok, fin, z
<1> HIDE DEF ws
<1>6. PICK y : /\ Run(Calm, ws, y, 0, <<>>, Trusted /\ ~freed)
               /\ Finished /\ ~freed => Final(y, 0)
  BY <1>5 DEF CallRuns
<1>7. (Trusted' <=> Trusted) /\ (Finished' <=> Finished)
  <2>1. EndInNames' <=> EndInNames
    BY DEF EndInNames
  <2>2. QED
    BY <1>1, <2>1 DEF Trusted, Finished
<1>8. Now' = Calm
  BY <1>1, <1>2, <1>3 DEF Now, Calm
<1>9. Run(Calm, ws, y, 0, <<>>, Trusted')
  BY <1>2, <1>6, <1>7, RunWeaker
<1>10. Steady'
  <2>1. /\ plan' # <<>> => 0 = target' /\ <<>> = storing'
        /\ Run(Now', plan', y, 0, <<>>, Trusted')
        /\ Finished' => Final(y, 0)
        /\ moving' # Nowhere => ~y.freed
    BY <1>1, <1>2, <1>6, <1>7, <1>8, <1>9
  <2>2. QED
    BY <2>1 DEF Steady
<1>11. Boot'
  <2>1. 0 \in 0 .. Inodes /\ <<>> \in Seq(Stored)
    BY VfsConstants
  <2>2. QED
    BY <1>1, <1>3, <2>1 DEF Formed, Boot
<1>12. QED
  BY <1>1, <1>10, <1>11 DEF Formed

(* What a file has is data.                                                *)
LEMMA BytesType ==
  ASSUME NEW d \in Disk, InRange(d), NEW i \in InodeNos
  PROVE  FileBytes(d, i) \in Seq(Stored)
<1> DEFINE s == d.inode[i].start_block
           n == d.inode[i].block_count
<1>1. s \in Nat /\ n \in Nat
  BY InodeType
<1>2. ASSUME NEW k \in 1 .. n PROVE d.block[s + k - 1] \in Stored
  <2>1. s + k - 1 \in BlocksOf(d.inode[i])
    BY <1>1 DEF BlocksOf
  <2>2. s + k - 1 \in DataBlocks
    BY <2>1 DEF InRange
  <2>3. QED
    BY <2>2 DEF Disk
<1>3. FileBytes(d, i) = [k \in 1 .. n |-> d.block[s + k - 1]]
  BY DEF FileBytes
<1> HIDE DEF s, n
<1>4. QED
  BY <1>1, <1>2, <1>3

(* The inode that a path leads to.                                         *)
LEMMA ResolveType ==
  ASSUME NEW d \in Disk, NEW t, NEW ok, NEW x, Good(x, t, ok), x.disk = d,
         NEW path \in DiskPath, NEW dir \in InodeNos \ x.stale
  PROVE  resolve(d, path, dir).no \in {0} \cup (InodeNos \ x.stale)
<1>1. PICK B, R : Lists(d, B, R) /\ DOMAIN R = InodeNos \ x.stale
  BY DEF Good, Sound
<1>2. resolve(d, path, dir) \in Answers(DOMAIN R)
  BY <1>1, PathType, ResolveAnswers
<1>3. QED
  BY <1>1, <1>2, AnswerType

(* A call, on a mounted disk with nothing left to write.                   *)
LEMMA CallReady ==
  ASSUME Formed, mounted, Resting
  PROVE  /\ phase = "up" /\ plan = <<>> /\ cwd \in InodeNos \ Calm.stale
         /\ Calm.disk = disk
         /\ Ready(Calm, Trusted /\ ~freed, Finished /\ ~freed)
<1>1. phase = "up" /\ plan = <<>> /\ cwd \in InodeNos \ stale
  BY DEF Formed, Boot, Resting
<1>2. QED
  BY <1>1, CalmReady

LEMMA MakeStep ==
  ASSUME Formed, mounted, Resting, NEW path \in Paths, NEW kind \in {1, 2},
         Begin(create_entry(disk, path, cwd, kind), 0, <<>>, Nowhere)
  PROVE  Formed'
<1> DEFINE ok == Trusted /\ ~freed
           fin == Finished /\ ~freed
           z == Calm
           ws == create_entry(disk, path, cwd, kind)
<1>1. /\ phase = "up" /\ cwd \in InodeNos \ z.stale /\ z.disk = disk /\ Ready(z, ok, fin)
  BY CallReady
<1>2. path \in DiskPath /\ <<>> \in Seq(Stored)
  BY VfsConstants
<1>3. CallRuns(z, ws, 0, <<>>, ok, fin, TRUE)
  <2> HIDE DEF ok, fin, z
  <2>1. CallRuns(z, create_entry(z.disk, path, cwd, kind), 0, <<>>, ok, fin, TRUE)
    BY <1>1, <1>2, MakeCall
  <2>2. QED
    BY <1>1, <2>1
<1>4. Begin(ws, 0, <<>>, Nowhere)
  OBVIOUS
<1> HIDE DEF ws
<1>5. CallRuns(Calm, ws, 0, <<>>, Trusted /\ ~freed, Finished /\ ~freed,
               Nowhere # Nowhere)
  BY <1>3 DEF CallRuns, ok, fin, z
<1>6. QED
  BY <1>1, <1>2, <1>4, <1>5, BeginStep

LEMMA VfsRemoveStep ==
  ASSUME Formed, mounted, Resting, NEW path \in Paths, RemoveFile(path)
  PROVE  Formed'
<1> DEFINE ok == Trusted /\ ~freed
           fin == Finished /\ ~freed
           z == Calm
           ws == remove(disk, path, cwd)
<1>1. /\ phase = "up" /\ cwd \in InodeNos \ z.stale /\ z.disk = disk /\ Ready(z, ok, fin)
  BY CallReady
<1>2. path \in DiskPath /\ <<>> \in Seq(Stored)
  BY VfsConstants
<1>3. CallRuns(z, ws, 0, <<>>, ok, fin, TRUE)
  <2> HIDE DEF ok, fin, z
  <2>1. CallRuns(z, remove(z.disk, path, cwd), 0, <<>>, ok, fin, TRUE)
    BY <1>1, <1>2, RemoveCall
  <2>2. QED
    BY <1>1, <2>1
<1>4. Begin(ws, 0, <<>>, Nowhere)
  BY DEF RemoveFile
<1> HIDE DEF ws
<1>5. CallRuns(Calm, ws, 0, <<>>, Trusted /\ ~freed, Finished /\ ~freed,
               Nowhere # Nowhere)
  BY <1>3 DEF CallRuns, ok, fin, z
<1>6. QED
  BY <1>1, <1>2, <1>4, <1>5, BeginStep

LEMMA VfsWriteStep ==
  ASSUME Formed, mounted, Resting, NEW path \in Paths, NEW data \in Seq(Stored),
         NEW after \in Paths \cup {Nowhere}, WriteFile(path, data, after)
  PROVE  Formed'
<1> DEFINE ok == Trusted /\ ~freed
           fin == Finished /\ ~freed
           z == Calm
           w == write_file(disk, path, cwd, data)
           then == IF w.stores THEN after ELSE Nowhere
<1>1. /\ phase = "up" /\ cwd \in InodeNos \ z.stale /\ z.disk = disk /\ Ready(z, ok, fin)
  BY CallReady
<1>2. path \in DiskPath
  BY VfsConstants
<1>3. ok => Last(path.parts) \notin Dots \/ fin
  BY DEF Trusted, Finished, EndInNames
<1>4. /\ w.writes # <<>> => w.no \in {0} \cup InodeNos
      /\ CallRuns(z, w.writes, w.no, data, ok, fin, w.stores)
  <2> HIDE DEF ok, fin, z
  <2>1. LET v == write_file(z.disk, path, cwd, data) IN
        /\ v.writes # <<>> => v.no \in {0} \cup InodeNos
        /\ CallRuns(z, v.writes, v.no, data, ok, fin, v.stores)
    BY <1>1, <1>2, <1>3, WriteCall
  <2>2. QED
    BY <1>1, <2>1
<1>5. Begin(w.writes, w.no, data, then)
  BY DEF WriteFile, BeginWriting
<1> HIDE DEF w
<1>6. then \in Paths \cup {Nowhere} /\ (then # Nowhere => w.stores)
  OBVIOUS
<1> HIDE DEF then
<1>7. CallRuns(Calm, w.writes, w.no, data, Trusted /\ ~freed, Finished /\ ~freed,
               then # Nowhere)
  BY <1>4, <1>6 DEF CallRuns, ok, fin, z
<1>8. QED
  BY <1>1, <1>4, <1>5, <1>6, <1>7, BeginStep

(* What cp and mv read is data.                                            *)
LEMMA SourceType ==
  ASSUME Formed, NEW from \in Paths, IsFile(from)
  PROVE  FileBytes(disk, resolve(disk, from, cwd).no) \in Seq(Stored)
<1> DEFINE no == resolve(disk, from, cwd).no
<1>1. disk \in Disk /\ InRange(disk) /\ Now.disk = disk /\ Now.stale = stale
  BY NowType
<1>2. PICK t : Good(Now, t, Trusted)
  BY NowGood
<1>3. from \in DiskPath /\ cwd \in InodeNos \ stale
  BY VfsConstants DEF Formed, Boot
<1>4. no \in {0} \cup (InodeNos \ stale)
  BY <1>1, <1>2, <1>3, ResolveType
<1>5. no # 0
  BY DEF IsFile
<1> HIDE DEF no
<1>6. FileBytes(disk, no) \in Seq(Stored)
  BY <1>1, <1>4, <1>5, BytesType
<1>7. QED
  BY <1>6 DEF no

LEMMA CallsStep ==
  ASSUME Formed, Calls
  PROVE  Formed'
<1>1. PICK path \in Paths :
        \/ ChangeDir(path)
        \/ MakeDir(path) \/ Touch(path) \/ RemoveFile(path)
        \/ \E data \in Data : WriteFile(path, data, Nowhere)
        \/ \E to \in Paths : Copy(path, to) \/ Move(path, to)
  BY DEF Calls
<1>2. mounted /\ Resting
  BY DEF Calls
<1>3. CASE ChangeDir(path)
  <2> DEFINE no == resolve(disk, path, Root).no
  <2>1. /\ no # 0 /\ cwd' = no
        /\ disk' = disk /\ mounted' = mounted /\ phase' = phase /\ plan' = plan
        /\ moving' = moving
        /\ target' = target /\ storing' = storing /\ saved' = saved
        /\ freed' = freed /\ damaged' = damaged /\ stopped' = stopped
        /\ stale' = stale /\ formatted' = formatted
    BY <1>3 DEF ChangeDir, ghosts, format_ghosts
  <2>2. no \in InodeNos \ stale
    <3>1. disk \in Disk /\ Now.disk = disk /\ Now.stale = stale
      BY NowType
    <3>2. PICK t : Good(Now, t, Trusted)
      BY NowGood
    <3>3. path \in DiskPath /\ Root \in InodeNos \ stale
      BY VfsConstants, NowType
    <3>4. no \in {0} \cup (InodeNos \ stale)
      BY <3>1, <3>2, <3>3, ResolveType
    <3>5. QED
      BY <2>1, <3>4
  <2> HIDE DEF no
  <2>3. Boot'
    BY <2>1, <2>2 DEF Formed, Boot
  <2>4. Steady'
    <3>1. EndInNames' <=> EndInNames
      BY DEF EndInNames
    <3>2. PICK t, c, y : /\ plan # <<>> => t = target /\ c = storing
                         /\ Run(Now, plan, y, t, c, Trusted)
                         /\ Finished => Final(y, t)
                         /\ moving # Nowhere => ~y.freed
      BY DEF Formed, Steady
    <3>3. (Trusted' <=> Trusted) /\ (Finished' <=> Finished) /\ Now' = Now
      BY <2>1, <3>1 DEF Trusted, Finished, Now
    <3>4. Run(Now, plan, y, t, c, Trusted')
      BY <3>2, <3>3, RunWeaker
    <3>5. /\ plan' # <<>> => t = target' /\ c = storing'
          /\ Run(Now', plan', y, t, c, Trusted')
          /\ Finished' => Final(y, t)
          /\ moving' # Nowhere => ~y.freed
      BY <2>1, <3>2, <3>3, <3>4
    <3>6. QED
      BY <3>5 DEF Steady
  <2>5. QED
    BY <2>1, <2>3, <2>4 DEF Formed
<1>4. CASE MakeDir(path)
  <2>1. Begin(create_entry(disk, path, cwd, 2), 0, <<>>, Nowhere)
    BY <1>4 DEF MakeDir
  <2>2. QED
    BY <1>2, <2>1, MakeStep
<1>5. CASE Touch(path)
  <2>1. Begin(create_entry(disk, path, cwd, 1), 0, <<>>, Nowhere)
    BY <1>5 DEF Touch
  <2>2. QED
    BY <1>2, <2>1, MakeStep
<1>6. CASE RemoveFile(path)
  BY <1>2, <1>6, VfsRemoveStep
<1>7. CASE \E data \in Data : WriteFile(path, data, Nowhere)
  <2>1. PICK data \in Data : WriteFile(path, data, Nowhere)
    BY <1>7
  <2>2. data \in Seq(Stored)
    <3>1. data \in Seq(BlockContents)
      BY VfsConstants
    <3>2. Len(data) \in Nat /\ data = [i \in 1 .. Len(data) |-> data[i]]
      BY <3>1
    <3>3. \A i \in 1 .. Len(data) : data[i] \in Stored
      BY <3>1 DEF Stored
    <3>4. QED
      BY <3>2, <3>3
  <2>3. QED
    BY <1>2, <2>1, <2>2, VfsWriteStep
<1>8. CASE \E to \in Paths : Copy(path, to) \/ Move(path, to)
  <2>1. PICK to \in Paths : Copy(path, to) \/ Move(path, to)
    BY <1>8
  <2> DEFINE data == FileBytes(disk, resolve(disk, path, cwd).no)
  <2>2. IsFile(path) /\ (WriteFile(to, data, Nowhere) \/ WriteFile(to, data, path))
    BY <2>1 DEF Copy, Move
  <2>3. data \in Seq(Stored)
    BY <2>2, SourceType
  <2> HIDE DEF data
  <2>4. QED
    BY <1>2, <2>2, <2>3, VfsWriteStep
<1>9. QED
  BY <1>1, <1>3, <1>4, <1>5, <1>6, <1>7, <1>8

LEMMA VfsStutter ==
  ASSUME Formed, UNCHANGED vfs_vars
  PROVE  Formed'
<1>1. /\ disk' = disk /\ mounted' = mounted /\ phase' = phase /\ plan' = plan
      /\ moving' = moving /\ cwd' = cwd
      /\ target' = target /\ storing' = storing /\ saved' = saved
      /\ freed' = freed /\ damaged' = damaged /\ stopped' = stopped
      /\ stale' = stale /\ formatted' = formatted
  BY DEF vfs_vars, ghosts, format_ghosts
<1>2. Boot'
  BY <1>1 DEF Formed, Boot
<1>3. (EndInNames' <=> EndInNames) /\ Now' = Now
  BY <1>1 DEF EndInNames, Now
<1>4. (Trusted' <=> Trusted) /\ (Finished' <=> Finished)
  BY <1>1, <1>3 DEF Trusted, Finished
<1>5. PICK t, c, y : /\ plan # <<>> => t = target /\ c = storing
                     /\ Run(Now, plan, y, t, c, Trusted)
                     /\ Finished => Final(y, t)
                     /\ moving # Nowhere => ~y.freed
  BY DEF Formed, Steady
<1>6. Run(Now, plan, y, t, c, Trusted')
  BY <1>4, <1>5, RunWeaker
<1>7. /\ plan' # <<>> => t = target' /\ c = storing'
      /\ Run(Now', plan', y, t, c, Trusted')
      /\ Finished' => Final(y, t)
      /\ moving' # Nowhere => ~y.freed
  BY <1>1, <1>3, <1>4, <1>5, <1>6
<1>8. Steady'
  BY <1>7 DEF Steady
<1>9. QED
  BY <1>1, <1>2, <1>8 DEF Formed

----------------------------------------------------------------------------
(* Before a format has made all of its writes.                             *)

(* What the disks to be formatted have for inodes.                         *)
Scrap(d) == /\ InRange(d)
            /\ \A i \in InodeNos : d.inode[i].kind = 0 => d.inode[i] = ZeroInode

(* The writes that format has still to make.                               *)
Formatting ==
  \/ /\ ~disk.super
     /\ plan = << WriteSuper, WriteBitmap({}), WriteTable >>
  \/ /\ disk.super
     /\ plan = << WriteBitmap({}), WriteTable >>
  \/ /\ disk.super /\ disk.bitmap = {}
     /\ plan = << WriteTable >>

(* Nothing has been written but by a format that is on its way.            *)
Raw ==
  /\ formatted = FALSE /\ stale = {} /\ mounted = FALSE
  /\ damaged \in BOOLEAN /\ stopped \in BOOLEAN
  /\ cwd = Root /\ target = 0 /\ storing = <<>> /\ moving = Nowhere
  /\ freed = FALSE /\ saved = [i \in InodeNos |-> <<>>]
  /\ disk \in Disk /\ Scrap(disk)
  /\ \/ phase \in {"off", "failed"} /\ plan = <<>> /\ ~disk.super
     \/ phase = "format" /\ Formatting

(* A format was cut short behind its first write: the disk has a superblock *)
(* and the inodes that it had before, and no format will come.             *)
Lost ==
  /\ formatted = FALSE /\ stopped = TRUE
  /\ phase \in {"off", "up", "failed"}
  /\ "super" \in DOMAIN disk /\ disk.super = TRUE

VfsInv == Formed \/ Raw \/ Lost

LEMMA RawAttach ==
  ASSUME Raw, Attach
  PROVE  Raw'
<1>1. phase = "off" /\ plan = <<>> /\ ~disk.super
  BY DEF Raw, Attach
<1>2. /\ phase' = "format"
      /\ plan' = << WriteSuper, WriteBitmap({}), WriteTable >>
      /\ disk' = disk /\ mounted' = mounted /\ moving' = moving /\ cwd' = cwd
      /\ target' = target /\ storing' = storing /\ saved' = saved
      /\ freed' = freed /\ damaged' = damaged /\ stopped' = stopped
      /\ stale' = stale /\ formatted' = formatted
  BY <1>1 DEF Attach, ghosts, format_ghosts
<1>3. Formatting'
  BY <1>1, <1>2 DEF Formatting
<1>4. Scrap(disk')
  BY <1>2 DEF Raw
<1>5. QED
  BY <1>2, <1>3, <1>4 DEF Raw

(* e is d with the first block of inodes cleared, but for the root.         *)
IsCleared(d, e) ==
  /\ e \in Disk /\ e.super = d.super /\ e.bitmap = d.bitmap
  /\ \A i \in InodeNos :
       e.inode[i] = IF i = Root THEN RootInode
                    ELSE IF i <= PerBlock THEN ZeroInode ELSE d.inode[i]

(* The end of a format: the root is the only entry, and the inodes that     *)
(* were not cleared stay as they are.                                      *)
LEMMA ClearedDisk ==
  ASSUME NEW d \in Disk, Scrap(d)
  PROVE  IsCleared(d, Written(d, WriteTable))
<1> DEFINE t == FirstCleared(d)
<1>1. Written(d, WriteTable) = [d EXCEPT !.inode = t]
  BY DEF Written, WriteTable
<1>2. t \in [InodeNos -> Inode]
  <2>1. RootInode \in Inode /\ ZeroInode \in Inode /\ d.inode \in [InodeNos -> Inode]
    BY RootType, ZeroType DEF Disk
  <2>2. QED
    BY <2>1 DEF FirstCleared
<1>3. \A i \in InodeNos :
        t[i] = IF i = Root THEN RootInode
               ELSE IF i <= PerBlock THEN ZeroInode ELSE d.inode[i]
  BY DEF FirstCleared
<1> HIDE DEF t
<1>4. QED
  BY <1>1, <1>2, <1>3 DEF Disk, IsCleared

LEMMA FormatDone ==
  ASSUME NEW d \in Disk, Scrap(d), d.super, d.bitmap = {},
         NEW y \in World, y.disk = Written(d, WriteTable),
         y.stale = {i \in InodeNos : i > PerBlock /\ d.inode[i].kind # 0}
  PROVE  \A ok : Good(y, 0, ok) /\ Final(y, 0)
<1> DEFINE e == y.disk
           R == [i \in InodeNos \ y.stale |-> 0]
<1>1. /\ e \in Disk /\ e.super = d.super /\ e.bitmap = d.bitmap
      /\ \A i \in InodeNos :
           e.inode[i] = IF i = Root THEN RootInode
                        ELSE IF i <= PerBlock THEN ZeroInode ELSE d.inode[i]
  <2>1. IsCleared(d, y.disk)
    BY ClearedDisk
  <2>2. QED
    BY <2>1 DEF IsCleared
<1>2. /\ Root \in InodeNos /\ PerBlock \in Nat /\ Root <= PerBlock
      /\ \A i \in InodeNos : i \in Nat
  BY VfsConstants DEF Root, InodeNos
<1>3. Root \in InodeNos \ y.stale
  BY <1>2
<1>4. /\ ZeroInode.kind = 0 /\ ZeroInode.first_child = 0 /\ ZeroInode.parent = 0
      /\ BlocksOf(ZeroInode) = {}
  BY ZeroType DEF ZeroInode
<1>5. e.inode[Root] = RootInode
  BY <1>1, <1>2
<1>6. \A i \in InodeNos \ y.stale : i # Root => e.inode[i] = ZeroInode
  BY <1>1, <1>2 DEF Scrap
<1>7. \A i \in y.stale : e.inode[i].kind # 0 /\ e.inode[i] = d.inode[i]
  BY <1>1, <1>2
<1>8. \A i \in InodeNos : i = Root \/ i \in y.stale \/ e.inode[i] = ZeroInode
  BY <1>6
<1>9. InRange(e)
  <2>1. \A i \in InodeNos : BlocksOf(d.inode[i]) \subseteq DataBlocks
    BY DEF Scrap, InRange
  <2>2. \A i \in y.stale : BlocksOf(e.inode[i]) \subseteq DataBlocks
    BY <1>7, <2>1
  <2>3. QED
    BY <1>4, <1>5, <1>8, <2>2, RootType DEF InRange
<1>10. Lists(e, {}, R)
  <2>1. DOMAIN R = InodeNos \ y.stale /\ R \in [DOMAIN R -> Nat]
    OBVIOUS
  <2> HIDE DEF R, e
  <2>2. \A p \in DOMAIN R : e.inode[p].parent = 0 /\ e.inode[p].first_child = 0
    BY <1>4, <1>5, <1>6, <2>1, RootType
  <2>3. Home(e, DOMAIN R)
    BY <1>3, <1>7, <2>1, <2>2 DEF Home
  <2>4. RootOk(e)
    BY <1>5, RootType DEF RootOk
  <2>5. \A p \in DOMAIN R : HeadOk(e, {}, p)
    BY <2>2 DEF HeadOk
  <2>6. QED
    BY <2>1, <2>3, <2>4, <2>5 DEF Lists
<1>11. \A ok : Sound(y, 0, ok, {}, R)
  <2>1. Owned(y, 0, {})
    BY DEF Owned, Kept
  <2>2. DOMAIN R = InodeNos \ y.stale
    OBVIOUS
  <2> HIDE DEF R
  <2>3. QED
    BY <1>1, <1>10, <2>1, <2>2 DEF Sound
<1>12. Whole(y, {})
  <2>1. Used(e, {}, y.stale)
    BY <1>4, <1>5, <1>7, <1>8, RootType DEF Used
  <2>2. Marked(e, {}, {}) /\ Reached(e, {})
    BY <1>1 DEF Marked, Reached
  <2>3. QED
    BY <2>1, <2>2 DEF Whole
<1> HIDE DEF R
<1>13. Final(y, 0)
  BY <1>11, <1>12 DEF Final
<1>14. ASSUME NEW ok PROVE Good(y, 0, ok)
  BY <1>9, <1>11 DEF Good
<1>15. QED
  BY <1>13, <1>14

(* A write of the format.                                                  *)
LEMMA RawWritePage ==
  ASSUME Raw, WritePage
  PROVE  Raw' \/ Formed'
<1> DEFINE w == Head(plan)
<1>1. /\ phase = "format" /\ Formatting
      /\ plan # <<>> /\ disk' = Written(disk, w) /\ plan' = Tail(plan)
      /\ phase' = phase /\ mounted' = mounted /\ moving' = moving /\ cwd' = cwd
      /\ damaged' = damaged /\ stopped' = stopped
      /\ target' = 0 /\ storing' = <<>>
      /\ IF plan' = <<>>
         THEN /\ formatted' = TRUE
              /\ stale' = {i \in InodeNos : i > PerBlock /\ disk.inode[i].kind # 0}
         ELSE formatted' = formatted /\ stale' = stale
  BY DEF Raw, WritePage, Aim, format_ghosts
<1>2. w.page # "inode" => saved' = saved
  BY DEF WritePage
<1>3. w.page # "inode" => freed' = FALSE
  BY DEF WritePage, Raw
<1>4. disk \in Disk /\ Scrap(disk)
  BY DEF Raw
<1>5. ASSUME plan' # <<>>, w.page # "inode", disk' \in Disk,
             disk'.inode = disk.inode, Formatting'
      PROVE  Raw'
  <2>1. Scrap(disk')
    BY <1>4, <1>5 DEF Scrap, InRange
  <2>2. QED
    BY <1>1, <1>2, <1>3, <1>5, <2>1 DEF Raw
<1>6. CASE plan = << WriteSuper, WriteBitmap({}), WriteTable >>
  <2>1. w = WriteSuper /\ plan' = << WriteBitmap({}), WriteTable >>
    BY <1>1, <1>6
  <2>2. w.page = "super" /\ plan' # <<>>
    BY <2>1 DEF WriteSuper
  <2>3. disk' = [disk EXCEPT !.super = TRUE]
    BY <1>1, <2>2 DEF Written
  <2> HIDE DEF w
  <2>4. disk' \in Disk /\ disk'.inode = disk.inode /\ disk'.super
    BY <1>4, <2>3 DEF Disk
  <2>5. QED
    BY <1>5, <2>1, <2>2, <2>4 DEF Formatting
<1>7. CASE plan = << WriteBitmap({}), WriteTable >> /\ disk.super
  <2>1. w = WriteBitmap({}) /\ plan' = << WriteTable >>
    BY <1>1, <1>7
  <2>2. w.page = "bitmap" /\ plan' # <<>>
    BY <2>1 DEF WriteBitmap
  <2>a. w.used = {}
    BY <2>1 DEF WriteBitmap
  <2> HIDE DEF w
  <2>3. disk' = [disk EXCEPT !.bitmap = {}]
    BY <1>1, <2>2, <2>a DEF Written
  <2>4. disk' \in Disk /\ disk'.inode = disk.inode /\ disk'.super
        /\ disk'.bitmap = {}
    BY <1>4, <1>7, <2>3 DEF Disk
  <2>5. QED
    BY <1>5, <2>1, <2>2, <2>4 DEF Formatting
<1>8. CASE plan = << WriteTable >> /\ disk.super /\ disk.bitmap = {}
  <2>1. w = WriteTable /\ plan' = <<>>
    BY <1>1, <1>8
  <2>2. w.page = "table"
    BY <2>1 DEF WriteTable
  <2>3. /\ disk' = Written(disk, WriteTable) /\ saved' = saved /\ freed' = FALSE
        /\ formatted' = TRUE
        /\ stale' = {i \in InodeNos : i > PerBlock /\ disk.inode[i].kind # 0}
    BY <1>1, <1>2, <1>3, <2>1, <2>2
  <2> HIDE DEF w
  <2>4. Now' = [disk |-> disk', saved |-> saved, freed |-> FALSE, stale |-> stale']
    BY <2>3 DEF Now
  <2>5. disk' \in Disk
    BY <1>4, <2>3, ClearedDisk DEF IsCleared
  <2>6. Now' \in World /\ Now'.disk = disk' /\ Now'.stale = stale'
    <3>1. saved \in [InodeNos -> Seq(Stored)]
      BY DEF Raw
    <3>2. stale' \in SUBSET InodeNos
      BY <2>3
    <3>3. QED
      BY <2>4, <2>5, <3>1, <3>2 DEF World
  <2> DEFINE y == Now'
  <2>7. /\ y \in World /\ y.disk = Written(disk, WriteTable)
        /\ y.stale = {i \in InodeNos : i > PerBlock /\ disk.inode[i].kind # 0}
    BY <2>3, <2>6
  <2> HIDE DEF y
  <2>8. \A ok : Good(y, 0, ok) /\ Final(y, 0)
    BY <1>4, <1>8, <2>7, FormatDone
  <2>9. Run(y, <<>>, y, 0, <<>>, Trusted')
    BY <2>8, RunNone
  <2>10. Steady'
    <3>1. moving' = Nowhere
      BY <1>1 DEF Raw
    <3>2. /\ plan' # <<>> => 0 = target' /\ <<>> = storing'
          /\ Run(Now', plan', y, 0, <<>>, Trusted')
          /\ Finished' => Final(y, 0)
          /\ moving' # Nowhere => ~y.freed
      BY <2>1, <2>8, <2>9, <3>1 DEF y
    <3>3. QED
      BY <3>2 DEF Steady
  <2>11. Boot'
    <3>1. cwd' \in InodeNos \ stale'
      <4>1. Root \in InodeNos /\ ~(Root > PerBlock)
        BY VfsConstants DEF Root, InodeNos
      <4>2. cwd' = Root
        BY <1>1 DEF Raw
      <4>3. QED
        BY <2>3, <4>1, <4>2
    <3>2. 0 \in 0 .. Inodes /\ <<>> \in Seq(Stored)
      BY VfsConstants
    <3>3. QED
      BY <1>1, <2>1, <2>3, <3>1, <3>2 DEF Raw, Boot
  <2>12. QED
    BY <2>3, <2>10, <2>11 DEF Formed
<1>9. QED
  BY <1>1, <1>6, <1>7, <1>8 DEF Formatting

(* A format is cut short.                                                  *)
CutShort == /\ Stop /\ mounted' = FALSE /\ cwd' = Root
            /\ phase' \in {"off", "failed"}

LEMMA RawStop ==
  ASSUME Raw, CutShort
  PROVE  Raw' \/ Lost'
<1>0. Stop /\ mounted' = FALSE /\ cwd' = Root /\ phase' \in {"off", "failed"}
  BY DEF CutShort
<1>1. /\ plan' = <<>> /\ moving' = Nowhere /\ freed' = FALSE
      /\ damaged' \in BOOLEAN /\ stopped' = (stopped \/ plan # <<>>)
      /\ target' = 0 /\ storing' = <<>> /\ disk' = disk /\ saved' = saved
      /\ stale' = stale /\ formatted' = formatted
  BY <1>0 DEF Raw, Stop, format_ghosts
<1>2. CASE ~disk.super
  <2>1. Scrap(disk')
    BY <1>1 DEF Raw
  <2>2. QED
    BY <1>0, <1>1, <1>2, <2>1 DEF Raw
<1>3. CASE disk.super
  <2>1. plan # <<>>
    BY <1>3 DEF Raw, Formatting
  <2>2. "super" \in DOMAIN disk /\ disk.super = TRUE
    BY <1>3 DEF Raw, Disk
  <2>3. QED
    BY <1>0, <1>1, <2>1, <2>2 DEF Raw, Lost
<1>4. QED
  BY <1>2, <1>3

LEMMA RawStep ==
  ASSUME Raw, VfsNext
  PROVE  VfsInv'
<1>1. CASE Attach
  BY <1>1, RawAttach DEF VfsInv
<1>2. ASSUME Formatted PROVE FALSE
  BY <1>2 DEF Raw, Formatting, Formatted
<1>3. ASSUME Calls PROVE FALSE
  BY <1>3 DEF Raw, Calls
<1>4. ASSUME MoveRemoves PROVE FALSE
  BY <1>4 DEF Raw, MoveRemoves
<1>5. CASE WritePage
  BY <1>5, RawWritePage DEF VfsInv
<1>6. CASE IoError
  <2>1. CutShort
    BY <1>6 DEF IoError, Raw, CutShort
  <2>2. Raw' \/ Lost'
    BY <2>1, RawStop
  <2>3. QED
    BY <2>2 DEF VfsInv
<1>7. CASE Crash
  <2>1. CutShort
    BY <1>7 DEF Crash, CutShort
  <2>2. Raw' \/ Lost'
    BY <2>1, RawStop
  <2>3. QED
    BY <2>2 DEF VfsInv
<1>8. QED
  BY <1>1, <1>2, <1>3, <1>4, <1>5, <1>6, <1>7 DEF VfsNext

LEMMA RawStutter ==
  ASSUME Raw, UNCHANGED vfs_vars
  PROVE  Raw'
<1>1. /\ disk' = disk /\ mounted' = mounted /\ phase' = phase /\ plan' = plan
      /\ moving' = moving /\ cwd' = cwd
      /\ target' = target /\ storing' = storing /\ saved' = saved
      /\ freed' = freed /\ damaged' = damaged /\ stopped' = stopped
      /\ stale' = stale /\ formatted' = formatted
  BY DEF vfs_vars, ghosts, format_ghosts
<1>2. Scrap(disk') /\ (Formatting => Formatting')
  BY <1>1 DEF Raw, Formatting
<1>3. QED
  BY <1>1, <1>2 DEF Raw

(* What is said of a disk that was not wholly formatted stays.              *)
LEMMA LostStep ==
  ASSUME Lost, [VfsNext]_vfs_vars
  PROVE  Lost'
<1>1. /\ formatted = FALSE /\ stopped = TRUE /\ phase \in {"off", "up", "failed"}
      /\ "super" \in DOMAIN disk /\ disk.super = TRUE
  BY DEF Lost
<1>2. ASSUME stopped' = TRUE, formatted' = FALSE, disk' = disk,
             phase' \in {"off", "up", "failed"}
      PROVE  Lost'
  BY <1>1, <1>2 DEF Lost
<1>3. ASSUME Stop PROVE stopped' = TRUE /\ formatted' = FALSE /\ disk' = disk
  BY <1>1, <1>3 DEF Stop, format_ghosts
<1>4. ASSUME NEW ws, NEW no, NEW data, NEW after, Begin(ws, no, data, after)
      PROVE  Lost'
  BY <1>1, <1>2, <1>4 DEF Begin, format_ghosts
<1>5. CASE Attach
  <2>1. Mount
    BY <1>1, <1>5 DEF Attach
  <2>2. QED
    BY <1>1, <1>2, <2>1 DEF Mount, ghosts, format_ghosts
<1>6. ASSUME Formatted PROVE FALSE
  BY <1>1, <1>6 DEF Formatted
<1>7. CASE Calls
  <2>1. PICK path \in Paths :
          \/ ChangeDir(path)
          \/ MakeDir(path) \/ Touch(path) \/ RemoveFile(path)
          \/ \E data \in Data : WriteFile(path, data, Nowhere)
          \/ \E to \in Paths : Copy(path, to) \/ Move(path, to)
    BY <1>7 DEF Calls
  <2>2. CASE ChangeDir(path)
    BY <1>1, <1>2, <2>2 DEF ChangeDir, ghosts, format_ghosts
  <2>3. CASE MakeDir(path) \/ Touch(path) \/ RemoveFile(path)
    BY <1>4, <2>3 DEF MakeDir, Touch, RemoveFile
  <2>4. ASSUME NEW to, NEW data, NEW after, WriteFile(to, data, after)
        PROVE  Lost'
    BY <1>4, <2>4 DEF WriteFile, BeginWriting
  <2>5. CASE \E data \in Data : WriteFile(path, data, Nowhere)
    BY <2>4, <2>5
  <2>6. CASE \E to \in Paths : Copy(path, to) \/ Move(path, to)
    BY <2>4, <2>6 DEF Copy, Move
  <2>7. QED
    BY <2>1, <2>2, <2>3, <2>5, <2>6
<1>8. CASE MoveRemoves
  BY <1>1, <1>2, <1>8 DEF MoveRemoves, format_ghosts
<1>9. CASE WritePage
  <2> DEFINE w == Head(plan)
  <2>1. /\ disk' = Written(disk, w) /\ stopped' = stopped /\ phase' = phase
        /\ formatted' = formatted
    BY <1>1, <1>9 DEF WritePage, format_ghosts
  <2> HIDE DEF w
  <2>2. "super" \in DOMAIN disk' /\ disk'.super = TRUE
    BY <1>1, <2>1 DEF Written
  <2>3. QED
    BY <1>1, <2>1, <2>2 DEF Lost
<1>10. CASE IoError
  BY <1>1, <1>2, <1>3, <1>10 DEF IoError
<1>11. CASE Crash
  BY <1>1, <1>2, <1>3, <1>11 DEF Crash
<1>12. CASE UNCHANGED vfs_vars
  BY <1>1, <1>2, <1>12 DEF vfs_vars, ghosts, format_ghosts
<1>13. QED
  BY <1>5, <1>6, <1>7, <1>8, <1>9, <1>10, <1>11, <1>12 DEF VfsNext

LEMMA VfsInitially ==
  ASSUME VfsInit
  PROVE  Raw
<1>1. PICK old \in OldDisks :
        disk = [super |-> FALSE, bitmap |-> old.bitmap, inode |-> old.inode,
                block |-> [b \in DataBlocks |-> "junk"]]
  BY DEF VfsInit
<1>2. /\ mounted = FALSE /\ phase = "off" /\ plan = <<>>
      /\ moving = Nowhere /\ cwd = Root /\ target = 0 /\ storing = <<>>
      /\ saved = [i \in InodeNos |-> <<>>]
      /\ freed = FALSE /\ damaged = FALSE /\ stopped = FALSE
      /\ formatted = FALSE /\ stale = {}
  BY DEF VfsInit
<1>3. /\ disk.super = FALSE /\ disk.inode = old.inode
      /\ old.bitmap \in SUBSET DataBlocks /\ old.inode \in [InodeNos -> Inode]
      /\ \A i \in InodeNos : /\ BlocksOf(old.inode[i]) \subseteq DataBlocks
                             /\ old.inode[i].kind = 0 => old.inode[i] = ZeroInode
  BY <1>1, OldDisksOk
<1>4. disk \in Disk
  <2> DEFINE blocks == [b \in DataBlocks |-> "junk"]
  <2>1. blocks \in [DataBlocks -> Stored]
    BY DEF Stored
  <2> HIDE DEF blocks
  <2>2. disk = [super |-> FALSE, bitmap |-> old.bitmap, inode |-> old.inode,
                block |-> blocks]
    BY <1>1 DEF blocks
  <2>3. QED
    BY <1>3, <2>1, <2>2 DEF Disk
<1>5. Scrap(disk)
  BY <1>3 DEF Scrap, InRange
<1>6. QED
  BY <1>2, <1>3, <1>4, <1>5 DEF Raw

(* What holds in every state.  Once a format has made all of its writes,   *)
(* every write that vfs.rs has still to make leads from the disk as it is  *)
(* to a disk that is in order; until then nothing but the format writes,   *)
(* unless one was cut short.                                               *)
THEOREM VfsInvariant == VfsSpec => []VfsInv
<1>1. VfsInit => VfsInv
  BY VfsInitially DEF VfsInv
<1>2. VfsInv /\ [VfsNext]_vfs_vars => VfsInv'
  <2> SUFFICES ASSUME VfsInv, [VfsNext]_vfs_vars PROVE VfsInv'
    OBVIOUS
  <2>1. CASE Raw
    BY <2>1, RawStep, RawStutter DEF VfsInv
  <2>2. CASE Lost
    BY <2>2, LostStep DEF VfsInv
  <2>3. CASE Formed
    <3>1. Formed'
      <4>1. CASE Attach
        BY <2>3, <4>1, AttachStep
      <4>2. CASE Formatted
        BY <2>3, <4>2, FormattedStep
      <4>3. CASE Calls
        BY <2>3, <4>3, CallsStep
      <4>4. CASE MoveRemoves
        BY <2>3, <4>4, MoveStep
      <4>5. CASE WritePage
        BY <2>3, <4>5, WritePageStep
      <4>6. CASE IoError
        BY <2>3, <4>6, IoErrorStep
      <4>7. CASE Crash
        BY <2>3, <4>7, CrashStep
      <4>8. CASE UNCHANGED vfs_vars
        BY <2>3, <4>8, VfsStutter
      <4>9. QED
        BY <4>1, <4>2, <4>3, <4>4, <4>5, <4>6, <4>7, <4>8 DEF VfsNext
    <3>2. QED
      BY <3>1 DEF VfsInv
  <2>4. QED
    BY <2>1, <2>2, <2>3 DEF VfsInv
<1>3. QED
  BY <1>1, <1>2, PTL DEF VfsSpec

(* Before the format is done, nothing is claimed but this.                 *)
LEMMA FormedIs ==
  ASSUME VfsInv
  PROVE  /\ formatted => Formed
         /\ mounted /\ ~stopped => Formed
BY DEF VfsInv, Raw, Lost, Formed

(* On a disk that was wholly formatted every variable has its type: the    *)
(* fields of the inodes that vfs.rs reads and writes stay in the disk's    *)
(* tables, and so do the pages it will write.                              *)
THEOREM VfsTypes == VfsSpec => [](formatted => VfsTypeOK)
<1>1. VfsInv => (formatted => VfsTypeOK)
  <2> SUFFICES ASSUME Formed PROVE VfsTypeOK
    BY FormedIs
  <2>1. disk \in Disk /\ plan \in Seq(Pages) /\ stale \in SUBSET InodeNos
    BY NowType
  <2>2. \A k \in DOMAIN plan : plan[k] \in Pages
    BY <2>1
  <2>3. QED
    BY <2>1, <2>2 DEF VfsTypeOK, Formed, Boot, Disk, Stored
<1>2. QED
  BY <1>1, VfsInvariant, PTL

(* Whichever operation of vfs.rs ends between which of its page writes, by *)
(* a crash or an error of the disk, the directories on a disk that was     *)
(* wholly formatted are a tree, and no two entries of a directory have one *)
(* name but where create_entry has cut a longer one.                       *)
THEOREM TreeIsSound == VfsSpec => []TreeSound
<1>1. VfsInv => TreeSound
  <2> SUFFICES ASSUME Formed PROVE TreeSound
    BY FormedIs DEF TreeSound
  <2>1. disk \in Disk /\ Now.disk = disk
    BY NowType
  <2>2. PICK t : Good(Now, t, Trusted)
    BY NowGood
  <2>3. PICK B, R : Lists(disk, B, R)
    BY <2>1, <2>2 DEF Good, Sound
  <2>4. QED
    BY <2>1, <2>3, ListsMakeTree
<1>2. QED
  BY <1>1, VfsInvariant, PTL

(* The entries that can be reached are entries of the lists.               *)
LEMMA FilesListed ==
  ASSUME disk \in Disk, NEW B, NEW R, Lists(disk, B, R)
  PROVE  \A i \in Files : i \in B /\ disk.inode[i].kind = 1
<1>1. Tree \subseteq B \cup {Root}
  BY TreeFacts
<1>2. disk.inode[Root].kind = 2
  BY DEF Lists, RootOk
<1>3. QED
  BY <1>1, <1>2 DEF Files

(* What the invariant says of the blocks when no operation is on the way.  *)
LEMMA RestingBlocks ==
  ASSUME Formed, Trusted, Resting, ~freed, NEW i \in Files
  PROVE  /\ BlocksOf(disk.inode[i]) \subseteq disk.bitmap
         /\ FileBytes(disk, i) = saved[i]
         /\ \A j \in Files \ {i} :
              BlocksOf(disk.inode[i]) \cap BlocksOf(disk.inode[j]) = {}
<1>1. disk \in Disk /\ Now.disk = disk /\ Now.saved = saved /\ Now.freed = freed
  BY NowType
<1>2. PICK t : Good(Now, t, Trusted)
  BY NowGood
<1>3. PICK B, R : Sound(Now, t, Trusted, B, R)
  BY <1>2 DEF Good
<1>4. Lists(disk, B, R) /\ Owned(Now, t, B)
  BY <1>1, <1>3 DEF Sound
<1>5. \A j \in Files : j \in Kept(Now, t, B)
  <2>1. \A j \in Files : j \in B /\ disk.inode[j].kind = 1
    BY <1>1, <1>4, FilesListed
  <2>2. QED
    BY <1>1, <2>1 DEF Kept
<1>6. QED
  BY <1>1, <1>4, <1>5 DEF Owned

(* On a disk that was wholly formatted, and when no path ends in dots, no  *)
(* block has two owners and the bitmap of vfs.rs shows every block of every *)
(* file, unless write_file was stopped after it had freed the old blocks of *)
(* a file.                                                                 *)
THEOREM BlocksAreOwned ==
  ASSUME EndInNames
  PROVE  VfsSpec => []BlocksOwned
<1>1. VfsInv => BlocksOwned
  <2> SUFFICES ASSUME Formed, Resting, ~damaged, ~freed, NEW i \in Files
               PROVE  /\ BlocksOf(disk.inode[i]) \subseteq disk.bitmap
                      /\ \A j \in Files \ {i} :
                           BlocksOf(disk.inode[i]) \cap BlocksOf(disk.inode[j]) = {}
    BY FormedIs DEF BlocksOwned
  <2>1. Trusted
    BY DEF Trusted
  <2>2. QED
    BY <2>1, RestingBlocks
<1>2. QED
  BY <1>1, VfsInvariant, PTL

(* Under the same conditions every file that read_file_bytes reads is what *)
(* was last stored in it.                                                  *)
THEOREM FilesReadBack ==
  ASSUME EndInNames
  PROVE  VfsSpec => []ReadsBack
<1>1. VfsInv => ReadsBack
  <2> SUFFICES ASSUME Formed, Resting, ~damaged, ~freed, NEW i \in Files
               PROVE  FileBytes(disk, i) = saved[i]
    BY FormedIs DEF ReadsBack
  <2>1. Trusted
    BY DEF Trusted
  <2>2. QED
    BY <2>1, RestingBlocks
<1>2. QED
  BY <1>1, VfsInvariant, PTL

(* Whatever the paths are, as long as no operation was cut short between    *)
(* two of its writes, the blocks have one owner each and the files read    *)
(* back what was stored in them.                                           *)
THEOREM FilesOfWholeRuns == VfsSpec => [](~stopped => BlocksOwned /\ ReadsBack)
<1>1. VfsInv => (~stopped => BlocksOwned /\ ReadsBack)
  <2> SUFFICES ASSUME Formed, ~stopped, Resting, ~damaged, ~freed,
                      NEW i \in Files
               PROVE  /\ BlocksOf(disk.inode[i]) \subseteq disk.bitmap
                      /\ FileBytes(disk, i) = saved[i]
                      /\ \A j \in Files \ {i} :
                           BlocksOf(disk.inode[i]) \cap BlocksOf(disk.inode[j]) = {}
    BY FormedIs DEF BlocksOwned, ReadsBack
  <2>1. Trusted
    BY DEF Trusted
  <2>2. QED
    BY <2>1, RestingBlocks
<1>2. QED
  BY <1>1, VfsInvariant, PTL

(* Whatever the paths are, as long as every operation of vfs.rs ran to its *)
(* end, the inodes in use are those of the tree and those that format left *)
(* as they were, and the blocks that the bitmap shows are those of files.  *)
THEOREM NothingIsLost == VfsSpec => []NothingLost
<1>1. VfsInv => NothingLost
  <2> SUFFICES ASSUME Formed, Resting, ~stopped, ~damaged, ~freed
               PROVE  /\ {i \in InodeNos : disk.inode[i].kind # 0} = Tree \cup stale
                      /\ Tree \cap stale = {}
                      /\ disk.bitmap = UNION {BlocksOf(disk.inode[i]) : i \in Files}
    <3>1. Formed => formatted
      BY DEF Formed
    <3>2. QED
      BY <3>1, FormedIs DEF NothingLost
  <2>1. /\ disk \in Disk /\ InRange(disk) /\ stale \in SUBSET InodeNos
        /\ Now.disk = disk /\ Now.saved = saved /\ Now.freed = freed
        /\ Now.stale = stale
    BY NowType
  <2>2. plan = <<>> /\ Finished
    BY DEF Resting, Finished
  <2>3. PICK t : Final(Now, t)
    BY <2>2, NowGood
  <2>4. PICK B, R : Sound(Now, t, TRUE, B, R) /\ Whole(Now, B)
    BY <2>3, Zenon DEF Final
  <2>5. Lists(disk, B, R) /\ DOMAIN R = InodeNos \ stale
    BY <2>1, <2>4 DEF Sound
  <2>6. Reached(disk, B) /\ Used(disk, B, stale) /\ Marked(disk, B, {})
    BY <2>1, <2>4 DEF Whole
  <2>7. Tree = B \cup {Root}
    <3>1. Tree \subseteq B \cup {Root} /\ Root \in Tree
      BY <2>1, <2>5, TreeFacts
    <3>2. Nearer(disk, Tree) = Tree
      BY <2>1, <2>5, TreeClosed
    <3>3. B \subseteq Tree
      BY <2>6, <3>1, <3>2 DEF Reached
    <3>4. QED
      BY <3>1, <3>3
  <2>8. /\ B \subseteq InodeNos \ stale /\ Root \in InodeNos \ stale
        /\ RootOk(disk)
    BY <2>5 DEF Lists, Home
  <2>9. {i \in InodeNos : disk.inode[i].kind # 0} = Tree \cup stale
    BY <2>1, <2>6, <2>7, <2>8, RootType DEF Used
  <2>10. Tree \cap stale = {}
    BY <2>7, <2>8
  <2>11. Files = {i \in B : disk.inode[i].kind = 1}
    BY <2>7, <2>8 DEF Files, RootOk
  <2>12. ASSUME NEW b
         PROVE  b \in disk.bitmap <=> \E i \in Files : b \in BlocksOf(disk.inode[i])
    <3>1. b \in disk.bitmap => b \in DataBlocks
      BY <2>1 DEF Disk
    <3>2. (\E i \in Files : b \in BlocksOf(disk.inode[i])) => b \in DataBlocks
      BY <2>1, <2>8, <2>11 DEF InRange
    <3>3. b \in DataBlocks =>
            (b \in disk.bitmap <=>
               \E i \in B : disk.inode[i].kind = 1 /\ b \in BlocksOf(disk.inode[i]))
      BY <2>6 DEF Marked
    <3>4. QED
      BY <2>11, <3>1, <3>2, <3>3
  <2>13. disk.bitmap = UNION {BlocksOf(disk.inode[i]) : i \in Files}
    BY <2>12
  <2>14. QED
    BY <2>9, <2>10, <2>13
<1>2. QED
  BY <1>1, VfsInvariant, PTL
=============================================================================
