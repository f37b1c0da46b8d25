------------------------------ MODULE PipeRing ------------------------------
(***************************************************************************)
(* A PipeBuffer of the vibuxOS kernel (kernel/src/arch/x86_64/syscall.rs): *)
(* a ring of PIPE_CAPACITY bytes that pipes and local sockets are made of. *)
(* Bytes are copied in at most two chunks, before and after the end of the *)
(* array; the cursors move only after the copy from or to user memory      *)
(* succeeded.  It implements the queue of module PipeFifo.                 *)
(***************************************************************************)
EXTENDS Integers, Sequences

CONSTANTS
  Byte,       \* contents of a byte
  Zero,       \* the byte a fresh buffer is filled with
  Cap,        \* PIPE_CAPACITY
  MaxRequest  \* bound: the longest request of a caller

ASSUME RingConstants ==
  /\ Cap \in Nat \ {0}
  /\ MaxRequest \in Nat \ {0}
  /\ Zero \in Byte

VARIABLES
  data,      \* PipeBuffer.data
  read_pos,  \* PipeBuffer.read_pos
  write_pos, \* PipeBuffer.write_pos
  len,       \* PipeBuffer.len
  readers,   \* pipe_has_reader of this buffer
  writers,   \* pipe_has_writer of this buffer
  reply      \* what the last call asked for and what it got

ring == <<data, read_pos, write_pos, len>>
ends == <<readers, writers>>
pipeVars == <<ring, ends, reply>>

Smaller(a, b) == IF a <= b THEN a ELSE b
Requests == 1..MaxRequest
Buffers == UNION {[1..n -> Byte] : n \in Requests}

Calls == {"pipe", "socket"}
Failed(call, error) == [kind |-> "error", call |-> call, error |-> error]
Wrote(call, buffer, n) ==
  [kind |-> "wrote", call |-> call, buffer |-> buffer, count |-> n]
Got(call, n, bytes) ==
  [kind |-> "got", call |-> call, count |-> n, bytes |-> bytes]
Idle == [kind |-> "idle"]

PipeInit ==
  /\ data = [i \in 0..(Cap - 1) |-> Zero]
  /\ read_pos = 0
  /\ write_pos = 0
  /\ len = 0
  /\ readers = TRUE
  /\ writers = TRUE
  /\ reply = Idle

(* A cursor moves on, around the ring.                                     *)
Advance(cursor, amount) == (cursor + amount) % Cap

(* The call ends with an error and leaves the ring alone.                  *)
Fail(call, error) == reply' = Failed(call, error) /\ UNCHANGED ring

(* The end of the stream: read returns 0.                                  *)
End(call, count) == reply' = Got(call, count, <<>>) /\ UNCHANGED ring

(* Two chunks out: from read_pos to the end, then from the start.          *)
CopyOut(amount) ==
  LET first == Smaller(amount, Cap - read_pos)
  IN [i \in 1..amount |-> IF i <= first THEN data[read_pos + i - 1]
                                        ELSE data[i - first - 1]]

Take(call, count, amount) ==
  /\ reply' = Got(call, count, CopyOut(amount))
  /\ read_pos' = Advance(read_pos, amount)
  /\ len' = len - amount
  /\ UNCHANGED <<data, write_pos>>

(* Two chunks in: at write_pos up to the end, then at the start.  Faulty   *)
(* variant: the second chunk starts over in the caller's buffer.           *)
CopyInAgain(buffer, amount) ==
  LET first == Smaller(amount, Cap - write_pos)
  IN [j \in 0..(Cap - 1) |->
        IF j \in write_pos..(write_pos + first - 1)
        THEN buffer[j - write_pos + 1]
        ELSE IF j < amount - first THEN buffer[j + 1]
        ELSE data[j]]

CopyIn(buffer, amount) ==
  LET first == Smaller(amount, Cap - write_pos)
  IN [j \in 0..(Cap - 1) |->
        IF j \in write_pos..(write_pos + first - 1)
        THEN buffer[j - write_pos + 1]
        ELSE IF j < amount - first THEN buffer[first + j + 1]
        ELSE data[j]]

Fill(call, buffer, amount) ==
  /\ data' = CopyIn(buffer, amount)
  /\ write_pos' = Advance(write_pos, amount)
  /\ len' = len + amount
  /\ reply' = Wrote(call, buffer, amount)
  /\ read_pos' = read_pos

(* read: the error, the end, or the oldest bytes.                          *)
Read(call, deferred, count, badAddress) ==
  /\ \/ len = 0 /\ IF deferred THEN Fail(call, "EAGAIN") ELSE End(call, count)
     \/ len > 0 /\ IF badAddress THEN Fail(call, "EFAULT")
                                 ELSE Take(call, count, Smaller(count, len))
  /\ UNCHANGED ends

(* An empty pipe is at its end when nobody writes it.                      *)
pipe_read_fd(count, badAddress) == Read("pipe", writers, count, badAddress)

(* An empty socket is at its end unless the descriptor is non-blocking.    *)
socket_read_fd(count, nonblocking, badAddress) ==
  Read("socket", nonblocking, count, badAddress)

(* write: as many bytes as fit, EAGAIN when none does.                     *)
Write(call, buffer, badAddress) ==
  /\ \/ len = Cap /\ Fail(call, "EAGAIN")
     \/ len < Cap /\ IF badAddress THEN Fail(call, "EFAULT")
                     ELSE Fill(call, buffer, Smaller(Len(buffer), Cap - len))
  /\ UNCHANGED ends

(* A pipe without a reader refuses bytes.                                  *)
pipe_write_fd(buffer, badAddress) ==
  \/ ~readers /\ Fail("pipe", "EPIPE") /\ UNCHANGED ends
  \/ readers /\ Write("pipe", buffer, badAddress)

socket_write_fd(buffer, badAddress) == Write("socket", buffer, badAddress)

(* The running program opens, duplicates or closes ends, or another one    *)
(* runs.                                                                   *)
ChangeEnds ==
  /\ readers' \in BOOLEAN
  /\ writers' \in BOOLEAN
  /\ UNCHANGED <<ring, reply>>

PipeNext ==
  \/ \E count \in Requests, badAddress \in BOOLEAN :
       pipe_read_fd(count, badAddress)
  \/ \E count \in Requests, nonblocking, badAddress \in BOOLEAN :
       socket_read_fd(count, nonblocking, badAddress)
  \/ \E buffer \in Buffers, badAddress \in BOOLEAN :
       pipe_write_fd(buffer, badAddress)
  \/ \E buffer \in Buffers, badAddress \in BOOLEAN :
       socket_write_fd(buffer, badAddress)
  \/ ChangeEnds

PipeSpec == PipeInit /\ [][PipeNext]_pipeVars
----------------------------------------------------------------------------
(* The cursors stay inside the array and the length within the capacity.   *)
PipeTypeOK ==
  /\ data \in [0..(Cap - 1) -> Byte]
  /\ read_pos \in 0..(Cap - 1)
  /\ write_pos \in 0..(Cap - 1)
  /\ len \in 0..Cap
  /\ readers \in BOOLEAN
  /\ writers \in BOOLEAN

(* The three counters agree: the writer is len bytes ahead of the reader,  *)
(* whatever mix of partial reads, partial writes and refused calls came    *)
(* before.                                                                 *)
CursorsAgree == write_pos = (read_pos + len) % Cap

(* The bytes in transit, oldest first.                                     *)
Contents == [i \in 1..len |-> data[(read_pos + i - 1) % Cap]]

Fifo == INSTANCE PipeFifo WITH queue <- Contents

(* A pipe is a bounded queue: wrapping, two-chunk copies and partial       *)
(* transfers never lose, duplicate or reorder a byte, a reply counts       *)
(* exactly the bytes that moved, and an error moves none.                  *)
ImplementsFifo == Fifo!Spec
=============================================================================
