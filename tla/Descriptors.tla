---------------------------- MODULE Descriptors ----------------------------
(***************************************************************************)
(* The descriptor table of the vibuxOS kernel and the objects behind it    *)
(* (kernel/src/arch/x86_64/syscall.rs): pipes, whose buffers live as long  *)
(* as a descriptor of the RUNNING program names them, and local socket     *)
(* pairs, which take two buffers and never give them back.                 *)
(*                                                                         *)
(* A fork or vfork suspends the caller with its table (module Processes);  *)
(* the buffers are shared with the child.  A buffer is abstracted to how   *)
(* full it is: module PipeRing has its bytes.                              *)
(***************************************************************************)
EXTENDS Integers, Sequences

CONSTANTS
  FdMax,     \* FILE_FD_MAX
  Reserved,  \* the descriptors alloc_fd and close_range leave alone: 3
  PipeMax,   \* PIPE_MAX
  PairMax,   \* SOCKET_MAX
  Cap,       \* PIPE_CAPACITY
  Cloexec,   \* bound: the close-on-exec bits that callers ask for
  MayFork    \* bound: whether programs fork

ASSUME DescriptorConstants ==
  /\ Reserved \in Nat /\ FdMax \in Nat /\ Reserved < FdMax
  /\ PipeMax \in Nat \ {0}
  /\ PairMax \in Nat \ {0}
  /\ Cap \in Nat \ {0}
  /\ Cloexec \subseteq BOOLEAN
  /\ MayFork \in BOOLEAN

VARIABLES
  fds,        \* STATE.fds
  suspended,  \* <<>>, or the table of the suspended parent
  used,       \* PIPE_BUFFERS[.].used
  level,      \* PIPE_BUFFERS[.].len
  pairs,      \* SOCKET_PAIRS
  stolen      \* ghost: buffers pipe() took although somebody had them

vars == <<fds, suspended, used, level, pairs, stolen>>

Fds == 0..(FdMax - 1)
Buffers == 0..(PipeMax - 1)
Pairs == 0..(PairMax - 1)

(* Fd: what it names and whether exec closes it.  "other" is everything    *)
(* that has no buffer: the terminal, files, directories.                   *)
Empty == [kind |-> "free"]
Other(cloexec) == [kind |-> "other", cloexec |-> cloexec]
PipeEnd(kind, b, cloexec) == [kind |-> kind, buffer |-> b, cloexec |-> cloexec]
Socket(p, side, cloexec) ==
  [kind |-> "socket", pair |-> p, side |-> side, cloexec |-> cloexec]

Descriptors ==
  [kind : {"free"}]
    \union [kind : {"other"}, cloexec : BOOLEAN]
    \union [kind : {"read", "write"}, buffer : Buffers, cloexec : BOOLEAN]
    \union [kind : {"socket"}, pair : Pairs, side : {0, 1}, cloexec : BOOLEAN]

NoPair == [used |-> FALSE]
Pair(a, b) == [used |-> TRUE, a_to_b |-> a, b_to_a |-> b]
PairStates ==
  {NoPair} \union [used : {TRUE}, a_to_b : Buffers, b_to_a : Buffers]

Init ==
  /\ fds = [fd \in Fds |-> IF fd < Reserved THEN Other(FALSE) ELSE Empty]
  /\ suspended = <<>>
  /\ used = [b \in Buffers |-> FALSE]
  /\ level = [b \in Buffers |-> 0]
  /\ pairs = [p \in Pairs |-> NoPair]
  /\ stolen = {}

IsLeast(x, S) == x \in S /\ \A y \in S : x <= y

Open(fd) == fds[fd].kind # "free"

(* alloc_fd takes the lowest of these.                                     *)
FreeFds == {fd \in Fds : fd >= Reserved /\ ~Open(fd)}

Ends(table, b) ==
  {fd \in Fds : table[fd].kind \in {"read", "write"} /\ table[fd].buffer = b}

pipe_has_reader(b) == \E fd \in Ends(fds, b) : fds[fd].kind = "read"
pipe_has_writer(b) == \E fd \in Ends(fds, b) : fds[fd].kind = "write"

(* pipe_slot_referenced looks at the running program only.                 *)
pipe_slot_referenced(b) == Ends(fds, b) # {}

(* socket_pipe_for: each side writes one buffer and reads the other.       *)
Outgoing(p, side) == IF side = 0 THEN pairs[p].a_to_b ELSE pairs[p].b_to_a
Incoming(p, side) == IF side = 0 THEN pairs[p].b_to_a ELSE pairs[p].a_to_b

HeldByPair(p, b) == pairs[p].used /\ b \in {pairs[p].a_to_b, pairs[p].b_to_a}

(* Somebody still counts on the buffer: the running program's pipe ends,   *)
(* the suspended program's, or a socket pair.                              *)
NamedBySuspended(b) == suspended # <<>> /\ Ends(suspended[1], b) # {}
Named(b) ==
  \/ pipe_slot_referenced(b)
  \/ NamedBySuspended(b)
  \/ \E p \in Pairs : HeldByPair(p, b)

----------------------------------------------------------------------------
(* alloc_fd twice, then the numbers are copied to the caller.  If that     *)
(* fails anywhere the table is left as it was.                             *)
TwoFds(failed, first, second) ==
  IF failed
  THEN fds' = fds
  ELSE \E one, two \in Fds :
         /\ IsLeast(one, FreeFds)
         /\ IsLeast(two, FreeFds \ {one})
         /\ fds' = [fds EXCEPT ![one] = first, ![two] = second]

TwoFree == \E one, two \in FreeFds : one # two

(* create_pipe: the lowest buffer no pipe descriptor of the running        *)
(* program names is wiped, used or not; then two descriptors are taken.    *)
(* When that fails everything is undone but the wiping, and the buffer is  *)
(* marked unused.                                                          *)
create_pipe(cloexec, badAddress) ==
  LET failed == badAddress \/ ~TwoFree
  IN \E id \in Buffers :
       /\ IsLeast(id, {b \in Buffers : ~pipe_slot_referenced(b)})
       /\ level' = [level EXCEPT ![id] = 0]
       /\ used' = [used EXCEPT ![id] = ~failed]
       /\ TwoFds(failed, PipeEnd("read", id, cloexec),
                         PipeEnd("write", id, cloexec))
       /\ stolen' = IF Named(id) THEN stolen \union {id} ELSE stolen
       /\ UNCHANGED <<suspended, pairs>>

(* Where socketpair looks for its buffers.  Faulty variant: like pipe(),   *)
(* it takes any that no pipe descriptor names.                             *)
BuffersNoPipeNames == {b \in Buffers : ~pipe_slot_referenced(b)}
UnusedBuffers == {b \in Buffers : ~used[b]}

(* socket_pair_from_user: the lowest unused pair and the two lowest unused *)
(* buffers.  When only one buffer is left it is wiped and given back; when *)
(* the descriptors or the copy fail, the pair is given back but not its    *)
(* buffers.                                                                *)
socket_pair_from_user(cloexec, badAddress) ==
  LET failed == badAddress \/ ~TwoFree
      unused == UnusedBuffers
  IN /\ \E p \in Pairs, a \in Buffers :
          /\ IsLeast(p, {q \in Pairs : ~pairs[q].used})
          /\ IsLeast(a, unused)
          /\ \/ /\ unused = {a}
                /\ level' = [level EXCEPT ![a] = 0]
                /\ UNCHANGED <<fds, used, pairs>>
             \/ \E b \in Buffers :
                  /\ IsLeast(b, unused \ {a})
                  /\ level' = [level EXCEPT ![a] = 0, ![b] = 0]
                  /\ used' = [used EXCEPT ![a] = TRUE, ![b] = TRUE]
                  /\ pairs' = IF failed THEN pairs
                                        ELSE [pairs EXCEPT ![p] = Pair(a, b)]
                  /\ TwoFds(failed, Socket(p, 0, cloexec), Socket(p, 1, cloexec))
     /\ UNCHANGED <<suspended, stolen>>

----------------------------------------------------------------------------
SetFds(table) ==
  /\ fds' = table
  /\ UNCHANGED <<suspended, used, level, pairs, stolen>>

(* open and the other calls that make a descriptor without a buffer.       *)
open_path(cloexec) ==
  \E fd \in Fds :
    /\ IsLeast(fd, FreeFds)
    /\ SetFds([fds EXCEPT ![fd] = Other(cloexec)])

(* Faulty variant: close gives back what the descriptor names, without     *)
(* looking for other descriptors of it.                                    *)
close_releasing(fd) ==
  /\ Open(fd)
  /\ fds' = [fds EXCEPT ![fd] = Empty]
  /\ LET ofPipe == fds[fd].kind \in {"read", "write"}
     IN /\ used' = IF ofPipe THEN [used EXCEPT ![fds[fd].buffer] = FALSE] ELSE used
        /\ level' = IF ofPipe THEN [level EXCEPT ![fds[fd].buffer] = 0] ELSE level
  /\ pairs' = IF fds[fd].kind = "socket"
              THEN [pairs EXCEPT ![fds[fd].pair] = NoPair] ELSE pairs
  /\ UNCHANGED <<suspended, stolen>>

close(fd) == Open(fd) /\ SetFds([fds EXCEPT ![fd] = Empty])

(* close_range skips the reserved descriptors, close does not.             *)
close_range(first, last) ==
  /\ first <= last
  /\ SetFds([fd \in Fds |-> IF fd >= Reserved /\ fd \in first..last
                            THEN Empty ELSE fds[fd]])

(* dup and fcntl(F_DUPFD): the lowest free descriptor from min_fd on.      *)
fd_duplicate(old, min_fd, cloexec) ==
  /\ Open(old)
  /\ \E target \in Fds :
       /\ IsLeast(target, {fd \in FreeFds : fd >= min_fd})
       /\ SetFds([fds EXCEPT ![target] = [fds[old] EXCEPT !.cloexec = cloexec]])

(* dup2 and dup3: onto any descriptor, open or not.                        *)
fd_duplicate_exact(old, new, cloexec) ==
  /\ old # new
  /\ Open(old)
  /\ SetFds([fds EXCEPT ![new] = [fds[old] EXCEPT !.cloexec = cloexec]])

(* fcntl(F_SETFD); F_SETFL replaces the close-on-exec bit as well.         *)
set_flags(fd, cloexec) ==
  Open(fd) /\ SetFds([fds EXCEPT ![fd].cloexec = cloexec])

----------------------------------------------------------------------------
(* n bytes are left in the buffer.                                         *)
Fill(b, n) ==
  /\ level' = [level EXCEPT ![b] = n]
  /\ UNCHANGED <<fds, suspended, used, pairs, stolen>>

(* read and write on the ends of a pipe; a partial transfer is one.        *)
pipe_read_fd(fd, n) ==
  /\ fds[fd].kind = "read"
  /\ used[fds[fd].buffer]
  /\ n < level[fds[fd].buffer]
  /\ Fill(fds[fd].buffer, n)

pipe_write_fd(fd, n) ==
  /\ fds[fd].kind = "write"
  /\ used[fds[fd].buffer]
  /\ pipe_has_reader(fds[fd].buffer)
  /\ n > level[fds[fd].buffer]
  /\ Fill(fds[fd].buffer, n)

(* On a socket: the buffer's used mark is not looked at.                   *)
socket_read_fd(fd, n) ==
  /\ fds[fd].kind = "socket"
  /\ pairs[fds[fd].pair].used
  /\ LET b == Incoming(fds[fd].pair, fds[fd].side)
     IN n < level[b] /\ Fill(b, n)

socket_write_fd(fd, n) ==
  /\ fds[fd].kind = "socket"
  /\ pairs[fds[fd].pair].used
  /\ LET b == Outgoing(fds[fd].pair, fds[fd].side)
     IN n > level[b] /\ Fill(b, n)

----------------------------------------------------------------------------
(* do_fork and do_vfork: the table is copied, the buffers are shared.      *)
fork ==
  /\ MayFork
  /\ suspended = <<>>
  /\ suspended' = <<fds>>
  /\ UNCHANGED <<fds, used, level, pairs, stolen>>

(* vibux_vfork_child_exit: the parent's table as it was.                   *)
child_exit ==
  /\ suspended # <<>>
  /\ fds' = suspended[1]
  /\ suspended' = <<>>
  /\ UNCHANGED <<used, level, pairs, stolen>>

(* reset_process_for_exec: close-on-exec, but not below Reserved.          *)
execve ==
  /\ suspended # <<>>
  /\ SetFds([fd \in Fds |-> IF fd >= Reserved /\ Open(fd) /\ fds[fd].cloexec
                            THEN Empty ELSE fds[fd]])

TableCalls ==
  \/ \E cloexec \in Cloexec, badAddress \in BOOLEAN : create_pipe(cloexec, badAddress)
  \/ \E cloexec \in Cloexec, badAddress \in BOOLEAN : socket_pair_from_user(cloexec, badAddress)
  \/ \E cloexec \in Cloexec : open_path(cloexec)
  \/ \E fd \in Fds : close(fd)
  \/ \E first, last \in Fds : close_range(first, last)
  \/ \E old, min_fd \in Fds, cloexec \in Cloexec : fd_duplicate(old, min_fd, cloexec)
  \/ \E old, new \in Fds, cloexec \in Cloexec : fd_duplicate_exact(old, new, cloexec)
  \/ \E fd \in Fds, cloexec \in Cloexec : set_flags(fd, cloexec)

Transfers ==
  \E fd \in Fds, n \in 0..Cap :
    \/ pipe_read_fd(fd, n)
    \/ pipe_write_fd(fd, n)
    \/ socket_read_fd(fd, n)
    \/ socket_write_fd(fd, n)

Next == TableCalls \/ Transfers \/ fork \/ child_exit \/ execve

Spec == Init /\ [][Next]_vars
----------------------------------------------------------------------------
(* Every variable keeps its range.                                         *)
TypeOK ==
  /\ fds \in [Fds -> Descriptors]
  /\ \/ suspended = <<>>
     \/ Len(suspended) = 1 /\ suspended[1] \in [Fds -> Descriptors]
  /\ used \in [Buffers -> BOOLEAN]
  /\ level \in [Buffers -> 0..Cap]
  /\ pairs \in [Pairs -> PairStates]
  /\ stolen \subseteq Buffers

(* A buffer that a pipe end of the running or of the suspended program     *)
(* names is in use and belongs to no socket pair, unless a pipe() call     *)
(* took it from its owner: pipe() only looks at the running program's pipe *)
(* ends, so it can take the buffer of a socket, or one that only the       *)
(* suspended parent still names.                                           *)
PipesOwnBuffers ==
  \A b \in Buffers \ stolen : pipe_slot_referenced(b) \/ NamedBySuspended(b) =>
    /\ used[b]
    /\ \A p \in Pairs : ~HeldByPair(p, b)

(* Two sockets share a buffer only if they are the two sides of one pair,  *)
(* in opposite directions, or a pipe() call took the buffer from one of    *)
(* the pairs.                                                              *)
PairsDisjoint ==
  \A p, q \in Pairs : \A b \in Buffers \ stolen :
    /\ HeldByPair(p, b) /\ HeldByPair(q, b) => p = q
    /\ HeldByPair(p, b) => used[b] /\ pairs[p].a_to_b # pairs[p].b_to_a

(* A descriptor of a socket always finds its pair.                         *)
SocketsConnected ==
  \A fd \in Fds :
    /\ fds[fd].kind = "socket" => pairs[fds[fd].pair].used
    /\ suspended # <<>> /\ suspended[1][fd].kind = "socket"
         => pairs[suspended[1][fd].pair].used

ReadsFrom(fd, b) ==
  \/ fds[fd].kind = "read" /\ fds[fd].buffer = b
  \/ fds[fd].kind = "socket" /\ Incoming(fds[fd].pair, fds[fd].side) = b

(* Bytes leave a buffer that somebody counts on only by a read of the      *)
(* running program: no pipe, socketpair, close, dup, exec, fork or exit    *)
(* discards them, unless a pipe() call took the buffer.                    *)
BytesKept ==
  [][\A b \in Buffers \ stolen' : Named(b) /\ level'[b] < level[b] =>
       /\ \E fd \in Fds : ReadsFrom(fd, b)
       /\ UNCHANGED <<fds, suspended, used, pairs>>]_vars
=============================================================================
