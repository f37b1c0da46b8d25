------------------------------ MODULE PipeFifo ------------------------------
(***************************************************************************)
(* What a vibuxOS pipe promises to the programs that use it: a queue of at *)
(* most Cap bytes.  A write takes as many leading bytes of the caller's    *)
(* buffer as fit, a read hands over the oldest bytes in order, no call     *)
(* ever waits, and a call that reports an error changes nothing.           *)
(***************************************************************************)
EXTENDS Integers, Sequences

CONSTANTS
  Byte,       \* contents of a byte
  Cap,        \* PIPE_CAPACITY
  MaxRequest  \* bound: the longest request of a caller

VARIABLES
  queue,    \* the bytes in transit, oldest first
  readers,  \* a descriptor of the running program reads the pipe
  writers,  \* a descriptor of the running program writes the pipe
  reply     \* what the last call asked for and what it got

vars == <<queue, readers, writers, reply>>

Smaller(a, b) == IF a <= b THEN a ELSE b
Requests == 1..MaxRequest
Buffers == UNION {[1..n -> Byte] : n \in Requests}

Calls == {"pipe", "socket"}
Failed(call, error) == [kind |-> "error", call |-> call, error |-> error]
Wrote(call, buffer, n) ==
  [kind |-> "wrote", call |-> call, buffer |-> buffer, count |-> n]
Got(call, n, bytes) ==
  [kind |-> "got", call |-> call, count |-> n, bytes |-> bytes]
Idle == [kind |-> "idle"]

Init ==
  /\ queue = <<>>
  /\ readers = TRUE
  /\ writers = TRUE
  /\ reply = Idle

(* A pipe takes bytes while somebody reads it, a socket always.            *)
Put(call, buffer) ==
  LET k == Smaller(Len(buffer), Cap - Len(queue))
  IN /\ call = "pipe" => readers
     /\ k > 0
     /\ queue' = queue \o SubSeq(buffer, 1, k)
     /\ reply' = Wrote(call, buffer, k)

Get(call, n) ==
  LET k == Smaller(n, Len(queue))
  IN /\ k > 0
     /\ queue' = SubSeq(queue, k + 1, Len(queue))
     /\ reply' = Got(call, n, SubSeq(queue, 1, k))

(* The end of a pipe is reached when it is empty and nobody writes it; an  *)
(* empty socket may claim its end.                                         *)
AtEnd(call, n) ==
  /\ queue = <<>>
  /\ call = "pipe" => ~writers
  /\ reply' = Got(call, n, <<>>)
  /\ queue' = queue

Refuse(call) ==
  /\ \/ call = "pipe" /\ ~readers /\ reply' = Failed(call, "EPIPE")
     \/ Len(queue) = Cap /\ reply' = Failed(call, "EAGAIN")
     \/ /\ queue = <<>>
        /\ call = "pipe" => writers
        /\ reply' = Failed(call, "EAGAIN")
     \/ reply' = Failed(call, "EFAULT")
  /\ queue' = queue

Transfer(call) ==
  /\ \/ \E buffer \in Buffers : Put(call, buffer)
     \/ \E n \in Requests : Get(call, n) \/ AtEnd(call, n)
     \/ Refuse(call)
  /\ UNCHANGED <<readers, writers>>

(* Descriptors come and go.                                                *)
Descriptors ==
  /\ readers' \in BOOLEAN
  /\ writers' \in BOOLEAN
  /\ UNCHANGED <<queue, reply>>

Next == (\E call \in Calls : Transfer(call)) \/ Descriptors

Spec == Init /\ [][Next]_vars
=============================================================================
