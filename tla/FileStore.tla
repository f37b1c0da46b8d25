----------------------------- MODULE FileStore -----------------------------
(***************************************************************************)
(* What the writable files of vibuxOS promise to programs: a map from      *)
(* paths to sequences of bytes.  A descriptor names a path, not a file,    *)
(* and has a position of its own.  A hole that a write leaves behind holds *)
(* zeros or bytes that were once written to that very file.                *)
(***************************************************************************)
EXTENDS Integers, Sequences

CONSTANTS
  Path,       \* the names of files
  Builtin,    \* the contents of the built-in files, by path
  Directories, \* the entries that directories list, by path
  Offset,     \* where entry k + 1 would start in a whole listing, by path
  Byte,       \* contents of a byte that is written
  Zero,       \* the byte that nobody wrote
  Cap,        \* the length of the longest file
  Fds,        \* the descriptors
  MaxRequest, \* bound: the longest request of a caller
  Rooms       \* bound: the buffers that listings get

VARIABLES
  content,  \* the bytes of every file, by path
  written,  \* what was ever written to it
  open,     \* the descriptors
  reply     \* what the last call told

vars == <<content, written, open, reply>>

Files == DOMAIN content
Strings(n) == [1 .. n -> Byte]
Buffers == UNION {Strings(n) : n \in 1 .. MaxRequest}
Smaller(a, b) == IF a <= b THEN a ELSE b
Larger(a, b) == IF a <= b THEN b ELSE a
Without(f, p) == [q \in DOMAIN f \ {p} |-> f[q]]
With(f, p, x) == [q \in DOMAIN f \cup {p} |-> IF q = p THEN x ELSE f[q]]

Idle == [kind |-> "idle"]
Got(bytes) == [kind |-> "got", bytes |-> bytes]
Wrote(n) == [kind |-> "wrote", count |-> n]
Listed(names) == [kind |-> "listed", names |-> names]
Sized(n) == [kind |-> "sized", size |-> n]
Absent == [kind |-> "absent"]

Init ==
  /\ content = [p \in {} |-> <<>>]
  /\ written = [p \in {} |-> {}]
  /\ open = [fd \in Fds |-> [kind |-> "free"]]
  /\ reply = Idle

(* Descriptors come, go and move as the program likes.                     *)
Descriptors ==
  open' \in [Fds -> [kind : {"free"}]
                    \cup [kind : {"ram", "builtin", "dir"}, path : Path,
                          access : {"r", "w", "rw"}, append : BOOLEAN,
                          position : Nat]]

(* The file p gets the contents c.                                         *)
Store(p, c) == content' = With(content, p, c)

(* Open may find, empty or make a file, also when it then fails.           *)
OpenFile ==
  /\ reply' = Idle
  /\ \/ UNCHANGED <<content, written>>
     \/ \E p \in Files : Store(p, <<>>) /\ written' = written
     \/ \E p \in Path \ Files : Store(p, <<>>) /\ written' = With(written, p, {})
  /\ Descriptors

Truncate(p, n) ==
  /\ reply' = Idle
  /\ p \in Files
  /\ Store(p, [k \in 1 .. n |-> IF k <= Len(content[p]) THEN content[p][k]
                                ELSE Zero])
  /\ UNCHANGED <<written, open>>

Remove(p) ==
  /\ reply' = Idle
  /\ p \in Files
  /\ content' = Without(content, p)
  /\ written' = Without(written, p)
  /\ UNCHANGED open

(* A file that is given its own name is lost.                              *)
Rename(old, new) ==
  /\ reply' = Idle
  /\ old \in Files
  /\ IF old = new
     THEN content' = Without(content, old) /\ written' = Without(written, old)
     ELSE /\ content' = With(Without(content, old), new, content[old])
          /\ written' = With(Without(written, old), new, written[old])
  /\ UNCHANGED open

(* A read hands over what lies behind the position.  One that fails midway *)
(* reports the bytes it copied but does not move.                          *)
Bytes(d) == IF d.kind = "ram" THEN content[d.path] ELSE Builtin[d.path]
HasBytes(d) == \/ d.kind = "ram" /\ d.path \in Files
               \/ d.kind = "builtin"

Read(fd, n) ==
  /\ HasBytes(open[fd])
  /\ LET c == Bytes(open[fd])
         at == open[fd].position
     IN \E k \in 1 .. n :
          /\ at + k <= Len(c)
          /\ reply' = Got(SubSeq(c, at + 1, at + k))
          /\ \/ /\ k = n \/ at + k = Len(c)
                /\ open' = [open EXCEPT ![fd].position = at + k]
             \/ open' = open
  /\ UNCHANGED <<content, written>>

(* A read at an offset of a built-in file.                                 *)
ReadAt(fd, n) ==
  /\ open[fd].kind = "builtin"
  /\ LET c == Bytes(open[fd])
     IN \E from \in 1 .. Len(c), to \in 1 .. Len(c) :
          from <= to /\ to < from + n /\ reply' = Got(SubSeq(c, from, to))
  /\ UNCHANGED <<content, written, open>>

(* A listing goes on where the last one ended and leaves no entry out: it  *)
(* hands over nothing only at the end, or when the next entry is too big   *)
(* for the buffer.                                                         *)
List(fd, room) ==
  /\ open[fd].kind = "dir"
  /\ LET names == Directories[open[fd].path]
         start == Offset[open[fd].path]
         at == open[fd].position
     IN \E k \in 0 .. Len(names) :
          /\ k > 0 => at + k <= Len(names)
          /\ k = 0 => at >= Len(names) \/ start[at + 1] - start[at] > room
          /\ reply' = Listed(SubSeq(names, at + 1, at + k))
          /\ \/ open' = [open EXCEPT ![fd].position = at + k]
             \/ open' = open
  /\ UNCHANGED <<content, written>>

(* A write replaces or extends.  One that fails midway reports the bytes   *)
(* it copied, but neither moves nor extends: what it put behind the end is *)
(* lost.                                                                   *)
Write(fd, buffer) ==
  /\ open[fd].kind = "ram" /\ open[fd].path \in Files
  /\ LET p == open[fd].path
         c == content[p]
         at == IF open[fd].append THEN Len(c) ELSE open[fd].position
     IN \E k \in 1 .. Smaller(Len(buffer), Cap - at) :
          /\ written' = [written EXCEPT ![p] = @ \cup {buffer[i] : i \in 1 .. k}]
          /\ reply' = Wrote(k)
          /\ \E hole \in [(Len(c) + 1) .. at -> {Zero} \cup written[p]] :
               LET new == [i \in 1 .. Larger(Len(c), at + k) |->
                             IF i \in (at + 1) .. (at + k) THEN buffer[i - at]
                             ELSE IF i <= Len(c) THEN c[i] ELSE hole[i]]
               IN \/ /\ k = Smaller(Len(buffer), Cap - at)
                     /\ Store(p, new)
                     /\ open' = [open EXCEPT ![fd].position = at + k]
                  \/ /\ Store(p, SubSeq(new, 1, Len(c)))
                     /\ open' = open

(* By path only the lengths of built-in files are told.  What is there is  *)
(* never called absent.                                                    *)
Stat(p) ==
  /\ \/ reply' = Sized(IF p \in DOMAIN Builtin THEN Len(Builtin[p]) ELSE 0)
     \/ p \notin Files \cup DOMAIN Builtin /\ reply' = Absent
  /\ UNCHANGED <<content, written, open>>

(* A descriptor tells the length of its file, whoever changed it last.     *)
FileSize(d) ==
  IF d.kind = "builtin" THEN Len(Builtin[d.path])
  ELSE IF d.path \in Files THEN Len(content[d.path]) ELSE 0

Measure(fd) ==
  /\ open[fd].kind # "free"
  /\ reply' = Sized(FileSize(open[fd]))
  /\ UNCHANGED <<content, written, open>>

Next ==
  \/ OpenFile
  \/ \E p \in Path : Remove(p) \/ Stat(p) \/ \E n \in 0 .. Cap : Truncate(p, n)
  \/ \E old, new \in Path : Rename(old, new)
  \/ \E fd \in Fds :
       \/ Measure(fd)
       \/ \E n \in 1 .. MaxRequest : Read(fd, n)
       \/ \E b \in Buffers : Write(fd, b)
       \/ \E n \in 1 .. MaxRequest + 1 : ReadAt(fd, n)
       \/ \E room \in Rooms : List(fd, room)

Spec == Init /\ [][Next]_vars
=============================================================================
