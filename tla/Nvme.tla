-------------------------------- MODULE Nvme --------------------------------
(***************************************************************************)
(* The NVMe driver of the vibuxOS kernel (kernel/src/storage/nvme.rs).     *)
(*                                                                         *)
(* The driver owns one admin and one I/O queue pair and one data page that *)
(* every command shares.  It issues one command at a time: it writes the   *)
(* entry at the tail of the submission queue, rings the doorbell and polls *)
(* the completion queue, whose entries are told new from old by a phase    *)
(* bit that flips on every lap.  A command that takes too long is given    *)
(* up, but the device still has it.  The device runs beside the driver: it *)
(* takes commands in order, moves data between the page and the disk when  *)
(* it executes them, and may answer any command with an error status.      *)
(*                                                                         *)
(* The unit of data is the logical block; a page holds BPP of them.        *)
(***************************************************************************)
EXTENDS Integers, Sequences

CONSTANTS
  Depth,        \* queue_depth: entries of every queue
  CidMax,       \* the largest command identifier, 2^16 - 1 in the code
  BPP,          \* blocks_per_page
  Blocks,       \* blocks of the namespace
  Data,         \* what a block can hold
  Fill,         \* bound: what callers write
  Zero,         \* a block of zeros
  Ident,        \* what Identify leaves in the data page
  Disk0,        \* the disk when the driver starts
  Lengths,      \* bound: lengths of the transfers
  MaxOps        \* bound: how many operations are called

Queues == {"admin", "io"}
Slots == 0 .. Depth - 1
Lbas == 0 .. Blocks - 1
PageCells == 1 .. BPP

ASSUME NvmeConstants ==
  /\ Depth \in Nat /\ Depth >= 2
  /\ CidMax \in Nat \ {0}
  /\ BPP \in Nat \ {0}
  /\ Blocks \in Nat
  /\ Zero \in Data /\ Ident \in Data /\ Fill \subseteq Data
  /\ Disk0 \in [Lbas -> Data]
  /\ Lengths \subseteq Nat \ {0}
  /\ MaxOps \in Nat

VARIABLES
  tail,     \* admin_tail, io_tail (and the doorbells that show them)
  head,     \* admin_head, io_head (and their doorbells)
  phase,    \* admin_phase, io_phase
  next_cid, \* next_cid
  sq,       \* the submission queues
  data,     \* the data page
  pc,       \* where the driver is
  cmd,      \* the command the driver waits for
  op,       \* the operation called last
  at,       \* its next block
  left,     \* blocks it has not transferred
  page,     \* its copy of the page it rewrites
  got,      \* the blocks it has read
  result,   \* what it returned; "none" while it runs
  cq,       \* the completion queues
  sq_head,  \* the device's place in the submission queues
  cq_tail,  \* the device's place in the completion queues
  cq_phase, \* the phase the device writes
  disk,     \* the blocks of the namespace
  before,   \* ghost: the disk when the operation was called
  fresh,    \* ghost: completions that are posted and not consumed
  ops,      \* ghost: operations called
  late      \* ghost: a command was given up

driverVars == <<tail, head, phase, next_cid, sq>>
opVars == <<op, at, left, page, got, result, before, ops>>
deviceVars == <<cq, sq_head, cq_tail, cq_phase, disk>>
vars == <<tail, head, phase, next_cid, sq, data, pc, cmd, opVars, deviceVars,
          fresh, late>>

Opcodes == {"create_cq", "create_sq", "identify_controller",
            "identify_namespace", "read", "write", "zeroes", "flush"}
Command == [opcode : Opcodes, lba : Nat, count : 0 .. BPP]
Entry == [opcode : Opcodes, lba : Nat, count : 0 .. BPP, cid : 0 .. CidMax]
Kinds == {"read_range", "read_blocks_into", "write_range", "zero_range",
          "write_blocks_from", "flush"}
Op == [kind : Kinds, off : Nat, len : Nat, val : Data]

NoCommand == [opcode |-> "flush", lba |-> 0, count |-> 0]
NoEntry == [opcode |-> "flush", lba |-> 0, count |-> 0, cid |-> 0]
NoOp == [kind |-> "flush", off |-> 0, len |-> 0, val |-> Zero]

Init ==
  /\ tail = [q \in Queues |-> 0]
  /\ head = [q \in Queues |-> 0]
  /\ phase = [q \in Queues |-> 1]
  /\ next_cid = 1
  /\ sq = [q \in Queues |-> [i \in Slots |-> NoEntry]]
  /\ data = [i \in PageCells |-> Zero]
  /\ pc = "disable"
  /\ cmd = NoCommand
  /\ op = NoOp /\ at = 0 /\ left = 0 /\ got = <<>> /\ result = "none"
  /\ page = [i \in PageCells |-> Zero]
  /\ cq = [q \in Queues |-> [i \in Slots |->
                               [cid |-> 0, ok |-> TRUE, phase |-> 0]]]
  /\ sq_head = [q \in Queues |-> 0]
  /\ cq_tail = [q \in Queues |-> 0]
  /\ cq_phase = [q \in Queues |-> 1]
  /\ disk = Disk0 /\ before = Disk0
  /\ fresh = [q \in Queues |-> 0]
  /\ ops = 0
  /\ late = FALSE

(***************************************************************************)
(* Commands.                                                               *)
(***************************************************************************)

AdminOpcodes == {"create_cq", "create_sq", "identify_controller",
                 "identify_namespace"}
QueueOf(c) == IF c.opcode \in AdminOpcodes THEN "admin" ELSE "io"

\* next_cid.wrapping_add(1).max(1)
NextCid(cid) == IF cid = CidMax THEN 1 ELSE cid + 1

\* A command goes to the tail of its queue: nothing asks whether the device
\* has taken the entry that is there.
Submit(c) ==
  LET q == QueueOf(c) IN
  /\ sq' = [sq EXCEPT ![q][tail[q]] =
              [opcode |-> c.opcode, lba |-> c.lba, count |-> c.count,
               cid |-> next_cid]]
  /\ tail' = [tail EXCEPT ![q] = (tail[q] + 1) % Depth]
  /\ cmd' = c
  /\ pc' = "wait"
  /\ UNCHANGED <<head, phase, next_cid, deviceVars, fresh, late>>

\* Commands that return data clear the page first.
Cleared == [i \in PageCells |-> Zero]

EntryAt(q) == cq[q][head[q]]
HasEntry(q) == EntryAt(q).phase = phase[q]

\* Faulty variant of the next: the phase stays as it is on every lap.
ConsumeSamePhase(q) ==
  /\ head' = [head EXCEPT ![q] = (head[q] + 1) % Depth]
  /\ fresh' = [fresh EXCEPT ![q] = fresh[q] - 1]
  /\ UNCHANGED <<phase, tail, sq, deviceVars, data, late>>

\* wait_cq takes the entry at the head and tells the device.
Consume(q) ==
  /\ head' = [head EXCEPT ![q] = IF head[q] + 1 >= Depth THEN 0
                                                          ELSE head[q] + 1]
  /\ phase' = [phase EXCEPT ![q] = IF head[q] + 1 >= Depth THEN 1 - phase[q]
                                                           ELSE phase[q]]
  /\ fresh' = [fresh EXCEPT ![q] = fresh[q] - 1]
  /\ UNCHANGED <<tail, sq, deviceVars, data, late>>

\* What wait_cq makes of the entry: the identifier first, then the status.
Answer(q) ==
  CASE EntryAt(q).cid # next_cid -> "invalid"
    [] EntryAt(q).cid = next_cid /\ ~EntryAt(q).ok -> "status"
    [] OTHER -> "ok"

(***************************************************************************)
(* Bring-up.  Any error gives the device up.                               *)
(***************************************************************************)

GiveUp(r) ==
  /\ pc' = "failed"
  /\ result' = r
  /\ UNCHANGED <<op, at, left, page, got, before, ops>>

\* disable and enable poll CSTS: the device gets there, or it is too late.
Disable ==
  /\ pc = "disable"
  /\ pc' = "enable"
  /\ UNCHANGED <<driverVars, data, cmd, opVars, deviceVars, fresh, late>>

Enable ==
  /\ pc = "enable"
  /\ pc' = "create_cq"
  /\ UNCHANGED <<driverVars, data, cmd, opVars, deviceVars, fresh, late>>

NotReady ==
  /\ pc \in {"disable", "enable"}
  /\ GiveUp("timeout")
  /\ UNCHANGED <<driverVars, data, cmd, deviceVars, fresh, late>>

\* The commands of the bring-up, in order; the last one looks for Btrfs.
AfterBoot(opcode) ==
  CASE opcode = "create_cq" -> "create_sq"
    [] opcode = "create_sq" -> "identify_controller"
    [] opcode = "identify_controller" -> "identify_namespace"
    [] opcode = "identify_namespace" -> "probe"
    [] OTHER -> "idle"

Booting == ops = 0

BootSubmit ==
  /\ pc \in AdminOpcodes \cup {"probe"}
  /\ IF pc = "probe"
     THEN Submit([opcode |-> "read", lba |-> 0, count |-> BPP])
     ELSE Submit([opcode |-> pc, lba |-> 0, count |-> 0])
  /\ data' = IF pc \in {"identify_controller", "identify_namespace", "probe"}
             THEN Cleared ELSE data
  /\ UNCHANGED opVars

\* identify_namespace refuses a page whose LBA format makes no sense.
BootDone ==
  /\ pc = "wait" /\ Booting
  /\ HasEntry(QueueOf(cmd))
  /\ Consume(QueueOf(cmd))
  /\ IF Answer(QueueOf(cmd)) = "ok"
     THEN /\ \/ pc' = AfterBoot(cmd.opcode) /\ UNCHANGED opVars
             \/ cmd.opcode = "identify_namespace" /\ GiveUp("invalid")
          /\ next_cid' = NextCid(next_cid)
     ELSE /\ GiveUp(Answer(QueueOf(cmd)))
          /\ UNCHANGED next_cid
  /\ UNCHANGED cmd

(***************************************************************************)
(* Operations: a loop of commands, a page or a chunk at a time.            *)
(***************************************************************************)

Call(o) ==
  /\ pc = "idle" /\ ops < MaxOps
  /\ o.off + o.len <= Blocks          \* else OutOfRange
  /\ pc' = "run"
  /\ op' = o
  /\ at' = o.off
  /\ left' = o.len
  /\ got' = <<>>
  /\ result' = "none"
  /\ before' = disk
  /\ ops' = ops + 1
  /\ UNCHANGED <<driverVars, data, cmd, page, deviceVars, fresh, late>>

Least(a, b) == IF a <= b THEN a ELSE b
PageOff == at % BPP
PageLba == at - PageOff
Chunk == Least(BPP - PageOff, left)      \* of read_range, write_range, ...
FullChunk == BPP                         \* faulty variant of BlockChunk
BlockChunk == Least(BPP, left)           \* of read_blocks_into, ...
LongEnough == left >= BPP                \* faulty variant of WholePage
WholePage == PageOff = 0 /\ left >= BPP

\* What the operation stores in its blocks.
Stored == IF op.kind = "zero_range" THEN Zero ELSE op.val

ReadPage ==
  /\ pc = "run" /\ left > 0
  /\ \/ op.kind = "read_range"
     \/ op.kind \in {"write_range", "zero_range"} /\ ~WholePage
  /\ data' = Cleared
  /\ Submit([opcode |-> "read", lba |-> PageLba, count |-> BPP])
  /\ UNCHANGED opVars

ReadChunk ==
  /\ pc = "run" /\ left > 0
  /\ op.kind = "read_blocks_into"
  /\ data' = Cleared
  /\ Submit([opcode |-> "read", lba |-> at, count |-> BlockChunk])
  /\ UNCHANGED opVars

\* write_4k, after the page was patched or when all of it is new.
WritePage ==
  /\ \/ pc = "patched"
     \/ pc = "run" /\ left > 0 /\ op.kind = "write_range" /\ WholePage
  /\ page' = IF pc = "patched" THEN page ELSE [i \in PageCells |-> op.val]
  /\ data' = page'
  /\ Submit([opcode |-> "write", lba |-> PageLba, count |-> BPP])
  /\ UNCHANGED <<op, at, left, got, result, before, ops>>

WriteChunk ==
  /\ pc = "run" /\ left > 0
  /\ op.kind = "write_blocks_from"
  /\ data' = [i \in PageCells |-> IF i <= BlockChunk THEN op.val ELSE data[i]]
  /\ Submit([opcode |-> "write", lba |-> at, count |-> BlockChunk])
  /\ UNCHANGED opVars

ZeroPage ==
  /\ pc = "run" /\ left > 0
  /\ op.kind = "zero_range" /\ WholePage
  /\ Submit([opcode |-> "zeroes", lba |-> at, count |-> BPP])
  /\ UNCHANGED <<data, opVars>>

Flush ==
  /\ pc = "run"
  /\ op.kind = "flush"
  /\ Submit([opcode |-> "flush", lba |-> 0, count |-> 0])
  /\ UNCHANGED <<data, opVars>>

Return(r) == pc' = "idle" /\ result' = r

\* The operation goes on behind n blocks, or returns.
Advance(n) ==
  /\ at' = at + n
  /\ left' = left - n
  /\ IF left > n THEN pc' = "run" /\ UNCHANGED result ELSE Return("ok")

\* The driver finds an entry at the head: it takes what the command read, or
\* goes on behind what it wrote.
Done ==
  /\ pc = "wait" /\ ~Booting
  /\ HasEntry("io")
  /\ Answer("io") = "ok"
  /\ Consume("io")
  /\ next_cid' = NextCid(next_cid)
  /\ \/ /\ cmd.opcode = "read"
        /\ op.kind \in {"read_range", "read_blocks_into"}
        /\ LET skip == IF op.kind = "read_range" THEN PageOff ELSE 0
               n == IF op.kind = "read_range" THEN Chunk ELSE BlockChunk
           IN /\ got' = got \o SubSeq(data, skip + 1, skip + n)
              /\ Advance(n)
        /\ UNCHANGED page
     \/ /\ cmd.opcode = "read"
        /\ op.kind \in {"write_range", "zero_range"}
        /\ page' = [i \in PageCells |->
                      IF i \in PageOff + 1 .. PageOff + Chunk THEN Stored
                                                              ELSE data[i]]
        /\ pc' = "patched"
        /\ UNCHANGED <<at, left, got, result>>
     \/ /\ cmd.opcode # "read"
        /\ Advance(IF op.kind = "write_blocks_from" THEN BlockChunk ELSE Chunk)
        /\ UNCHANGED <<page, got>>
  /\ UNCHANGED <<cmd, op, before, ops>>

Failed ==
  /\ pc = "wait" /\ ~Booting
  /\ HasEntry("io")
  /\ Answer("io") # "ok"
  /\ Consume("io")
  /\ Return(Answer("io"))
  /\ UNCHANGED <<next_cid, cmd, op, at, left, page, got, before, ops>>

\* Faulty variant of the next: wait_cq polls for ever.
NoTimeout == FALSE

\* WAIT_SPINS polls found nothing: the command is given up, and its
\* identifier is used again.
Timeout ==
  /\ pc = "wait"
  /\ ~HasEntry(QueueOf(cmd))
  /\ late' = TRUE
  /\ IF Booting THEN GiveUp("timeout")
                ELSE /\ Return("timeout")
                     /\ UNCHANGED <<op, at, left, page, got, before, ops>>
  /\ UNCHANGED <<driverVars, data, cmd, deviceVars, fresh>>

(***************************************************************************)
(* The device takes the entry at its place of the submission queue, moves  *)
(* the data and posts a completion, if the completion queue has room.      *)
(***************************************************************************)

InRange(c) == c.lba + c.count <= Blocks

Execute(q, ok) ==
  LET c == sq[q][sq_head[q]] IN
  /\ sq_head[q] # tail[q]
  /\ (cq_tail[q] + 1) % Depth # head[q]
  /\ ok => InRange(c)
  /\ disk' = IF ok /\ c.opcode \in {"write", "zeroes"}
             THEN [b \in Lbas |->
                     IF b \in c.lba .. c.lba + c.count - 1
                     THEN IF c.opcode = "zeroes" THEN Zero
                                                 ELSE data[b - c.lba + 1]
                     ELSE disk[b]]
             ELSE disk
  /\ data' = CASE ok /\ c.opcode = "read" ->
                    [i \in PageCells |->
                       IF i <= c.count THEN disk[c.lba + i - 1] ELSE data[i]]
               [] ok /\ c.opcode \in {"identify_controller",
                                      "identify_namespace"} ->
                    [i \in PageCells |-> Ident]
               [] OTHER -> data
  /\ cq' = [cq EXCEPT ![q][cq_tail[q]] =
              [cid |-> c.cid, ok |-> ok, phase |-> cq_phase[q]]]
  /\ sq_head' = [sq_head EXCEPT ![q] = (sq_head[q] + 1) % Depth]
  /\ cq_tail' = [cq_tail EXCEPT ![q] = (cq_tail[q] + 1) % Depth]
  /\ cq_phase' = [cq_phase EXCEPT ![q] = IF cq_tail[q] + 1 = Depth
                                         THEN 1 - cq_phase[q]
                                         ELSE cq_phase[q]]
  /\ fresh' = [fresh EXCEPT ![q] = fresh[q] + 1]
  /\ UNCHANGED <<driverVars, pc, cmd, opVars, late>>

Driver ==
  \/ Disable \/ Enable \/ NotReady \/ BootSubmit \/ BootDone
  \/ ReadPage \/ ReadChunk \/ WritePage \/ WriteChunk \/ ZeroPage \/ Flush
  \/ Done \/ Failed \/ Timeout

Callers ==
  \E off \in Lbas, len \in Lengths, v \in Fill :
     \/ \E k \in {"write_range", "write_blocks_from"} :
           Call([kind |-> k, off |-> off, len |-> len, val |-> v])
     \/ \E k \in {"read_range", "read_blocks_into", "zero_range"} :
           Call([kind |-> k, off |-> off, len |-> len, val |-> Zero])
     \/ Call(NoOp)

Device == \E q \in Queues, ok \in BOOLEAN : Execute(q, ok)

Next == Driver \/ Callers \/ Device

\* The driver polls until it gives up.  Nothing makes the device answer or a
\* caller come.
Spec == Init /\ [][Next]_vars /\ WF_vars(Driver)

(***************************************************************************)
(* Properties.                                                             *)
(***************************************************************************)

Entries == [cid : 0 .. CidMax, ok : BOOLEAN, phase : {0, 1}]

\* Every variable has its type.
TypeOK ==
  /\ tail \in [Queues -> Slots] /\ head \in [Queues -> Slots]
  /\ phase \in [Queues -> {0, 1}]
  /\ next_cid \in 1 .. CidMax
  /\ sq \in [Queues -> [Slots -> Entry]]
  /\ data \in [PageCells -> Data] /\ page \in [PageCells -> Data]
  /\ pc \in AdminOpcodes \cup {"disable", "enable", "probe", "failed",
                               "idle", "run", "patched", "wait"}
  /\ cmd \in Command
  /\ op \in Op
  /\ at \in Nat /\ left \in Nat
  /\ got \in Seq(Data)
  /\ result \in {"none", "ok", "invalid", "status", "timeout"}
  /\ cq \in [Queues -> [Slots -> Entries]]
  /\ sq_head \in [Queues -> Slots] /\ cq_tail \in [Queues -> Slots]
  /\ cq_phase \in [Queues -> {0, 1}]
  /\ disk \in [Lbas -> Data] /\ before \in [Lbas -> Data]
  /\ fresh \in [Queues -> Int]
  /\ ops \in Nat /\ late \in BOOLEAN

\* wait_cq takes an entry exactly when the device has posted one that was not
\* taken: on every lap, with late and failed commands, and in both queues the
\* phase bit tells the new entries from the old.
PhaseTells ==
  \A q \in Queues : fresh[q] >= 0 /\ (HasEntry(q) <=> fresh[q] > 0)

Clean == ~late

\* As long as no command was given up, the answer the driver finds is that of
\* the command it waits for: identifiers stay in step through bring-up,
\* through both queues and after commands the device refused.
OwnAnswer ==
  Clean /\ pc = "wait" /\ HasEntry(QueueOf(cmd)) =>
     EntryAt(QueueOf(cmd)).cid = next_cid

Covered == at - op.off

\* As long as no command was given up, what read_range and read_blocks_into
\* have put in the caller's buffer are the blocks of the disk, in order:
\* across pages, for every alignment, and after commands the device refused.
ReadsTheDisk ==
  Clean /\ op.kind \in {"read_range", "read_blocks_into"} =>
     /\ got = [i \in 1 .. Covered |-> disk[op.off + i - 1]]
     /\ result = "ok" => Len(got) = op.len

\* As long as no command was given up, an operation changes only the blocks
\* of its range, from the first on, and has changed all of them when it
\* returns Ok: the rest of a page that is read, patched and written back is
\* what it was, also when the device refuses one command of several.
WritesPrefix ==
  Clean /\ ~Booting =>
     /\ \E n \in 0 .. op.len :
          /\ disk = [b \in Lbas |->
                       IF b \in op.off .. op.off + n - 1 THEN Stored
                                                         ELSE before[b]]
          /\ n > 0 => op.kind \in {"write_range", "write_blocks_from",
                                   "zero_range"}
     /\ (result = "ok"
         /\ op.kind \in {"write_range", "write_blocks_from", "zero_range"}) =>
          \A b \in op.off .. op.off + op.len - 1 : disk[b] = Stored

\* Every operation returns: polling is bounded, and no loop of commands goes
\* round without transferring a block.
OperationsReturn == pc = "run" ~> pc = "idle"

=============================================================================
