----------------------------- MODULE NvmeProofs -----------------------------
(***************************************************************************)
(* Proofs about Nvme, for every queue depth, block size and namespace: the *)
(* variables have their types, the phase bit tells new entries from old,   *)
(* the driver finds the answer to its own command, reads return the disk,  *)
(* and writes change their range only.                                     *)
(***************************************************************************)
EXTENDS Nvme, TLAPS, SequenceTheorems

(***************************************************************************)
(* Arithmetic.                                                             *)
(***************************************************************************)

LEMMA ModRange ==
  ASSUME NEW x \in Nat, NEW c \in Nat \ {0}
  PROVE  x % c \in 0 .. c - 1 /\ x % c \in Nat /\ x % c <= x
OBVIOUS

(* The next slot of a ring.                                                *)
LEMMA NextSlot ==
  ASSUME NEW x \in Slots
  PROVE  (x + 1) % Depth = IF x + 1 = Depth THEN 0 ELSE x + 1
<1>1. Depth \in Nat /\ Depth >= 2 /\ x \in Nat /\ x <= Depth - 1
  BY NvmeConstants DEF Slots
<1>2. CASE x + 1 = Depth
  BY <1>1, <1>2
<1>3. CASE x + 1 < Depth
  BY <1>1, <1>3
<1>4. QED
  BY <1>1, <1>2, <1>3

LEMMA NextSlotType ==
  ASSUME NEW x \in Slots
  PROVE  (x + 1) % Depth \in Slots
BY NextSlot, NvmeConstants DEF Slots

LEMMA CidType ==
  ASSUME NEW cid \in 1 .. CidMax
  PROVE  NextCid(cid) \in 1 .. CidMax
BY NvmeConstants DEF NextCid

(* How far one command goes: never behind the range, never over a page.    *)
LEMMA ChunkTypes ==
  ASSUME at \in Nat, left \in Nat
  PROVE  /\ PageOff \in 0 .. BPP - 1
         /\ PageLba \in Nat
         /\ Chunk \in 0 .. BPP /\ Chunk <= left /\ PageOff + Chunk <= BPP
         /\ BlockChunk \in 0 .. BPP /\ BlockChunk <= left
<1> BPP \in Nat \ {0}
  BY NvmeConstants
<1>1. PageOff \in 0 .. BPP - 1 /\ PageOff <= at
  BY ModRange DEF PageOff
<1>2. QED
  BY <1>1 DEF PageLba, Chunk, BlockChunk, Least

(***************************************************************************)
(* Types.                                                                  *)
(***************************************************************************)

USE DEF Queues

Codes == AdminOpcodes \cup {"disable", "enable", "probe", "failed", "idle",
                            "run", "patched", "wait"}

(* The part of the type that commands and completions touch, and the rest. *)
QueueType ==
  /\ tail \in [Queues -> Slots] /\ head \in [Queues -> Slots]
  /\ phase \in [Queues -> {0, 1}]
  /\ next_cid \in 1 .. CidMax
  /\ sq \in [Queues -> [Slots -> Entry]]
  /\ cq \in [Queues -> [Slots -> Entries]]
  /\ sq_head \in [Queues -> Slots] /\ cq_tail \in [Queues -> Slots]
  /\ cq_phase \in [Queues -> {0, 1}]
  /\ fresh \in [Queues -> Int]

OpType ==
  /\ data \in [PageCells -> Data] /\ page \in [PageCells -> Data]
  /\ pc \in Codes
  /\ cmd \in Command
  /\ op \in Op
  /\ at \in Nat /\ left \in Nat
  /\ got \in Seq(Data)
  /\ result \in {"none", "ok", "invalid", "status", "timeout"}
  /\ disk \in [Lbas -> Data] /\ before \in [Lbas -> Data]
  /\ ops \in Nat /\ late \in BOOLEAN

LEMMA TypeParts == TypeOK <=> QueueType /\ OpType
BY DEF TypeOK, QueueType, OpType, Codes

LEMMA InitType == Init => TypeOK
<1> SUFFICES ASSUME Init PROVE QueueType /\ OpType
  BY TypeParts
<1> USE NvmeConstants
<1>1. 0 \in Slots /\ NoEntry \in Entry /\ NoCommand \in Command /\ NoOp \in Op
  BY DEF Slots, NoEntry, Entry, NoCommand, Command, NoOp, Op, Kinds, Opcodes
<1>2. [cid |-> 0, ok |-> TRUE, phase |-> 0] \in Entries
  BY DEF Entries
<1>3. QueueType
  BY <1>1, <1>2 DEF Init, QueueType
<1>4. OpType
  <2>1. got \in Seq(Data)
    BY EmptySeq DEF Init
  <2>2. data \in [PageCells -> Data] /\ page \in [PageCells -> Data]
    BY DEF Init
  <2>3. disk \in [Lbas -> Data] /\ before \in [Lbas -> Data]
    BY DEF Init
  <2>4. QED
    BY <1>1, <2>1, <2>2, <2>3 DEF Init, OpType, Codes
<1>5. QED
  BY <1>3, <1>4

(* Submitting a command that makes sense.                                  *)
LEMMA SubmitType ==
  ASSUME QueueType, NEW c \in Command, Submit(c)
  PROVE  QueueType' /\ cmd' \in Command /\ pc' \in Codes
<1> DEFINE q == QueueOf(c)
<1>1. q \in Queues
  BY DEF QueueOf
<1>2. [opcode |-> c.opcode, lba |-> c.lba, count |-> c.count,
       cid |-> next_cid] \in Entry
  BY DEF QueueType, Command, Entry
<1>3. tail[q] \in Slots /\ (tail[q] + 1) % Depth \in Slots
  BY <1>1, NextSlotType DEF QueueType
<1>4. sq' \in [Queues -> [Slots -> Entry]]
  BY <1>1, <1>2, <1>3 DEF Submit, QueueType
<1>5. tail' \in [Queues -> Slots]
  BY <1>1, <1>3 DEF Submit, QueueType
<1>6. QED
  BY <1>4, <1>5 DEF Submit, QueueType, Codes, deviceVars

LEMMA ConsumeType ==
  ASSUME QueueType, NEW q \in Queues, Consume(q), next_cid' \in 1 .. CidMax
  PROVE  QueueType'
<1>1. head[q] \in Slots /\ phase[q] \in {0, 1} /\ fresh[q] \in Int
  BY DEF QueueType
<1>2. (IF head[q] + 1 >= Depth THEN 0 ELSE head[q] + 1) \in Slots
  BY <1>1, NvmeConstants DEF Slots
<1>3. (IF head[q] + 1 >= Depth THEN 1 - phase[q] ELSE phase[q]) \in {0, 1}
  BY <1>1
<1>4. head' \in [Queues -> Slots]
  BY <1>2 DEF Consume, QueueType
<1>5. phase' \in [Queues -> {0, 1}]
  BY <1>3 DEF Consume, QueueType
<1>6. fresh' \in [Queues -> Int]
  BY <1>1 DEF Consume, QueueType
<1>7. QED
  BY <1>4, <1>5, <1>6 DEF Consume, QueueType, deviceVars

LEMMA AnswerType ==
  ASSUME NEW q
  PROVE  Answer(q) \in {"invalid", "status", "ok"}
BY DEF Answer

LEMMA ClearedType == Cleared \in [PageCells -> Data]
BY NvmeConstants DEF Cleared

LEMMA BootType ==
  ASSUME TypeOK, Disable \/ Enable \/ NotReady \/ BootSubmit \/ BootDone
  PROVE  TypeOK'
<1> QueueType /\ OpType
  BY TypeParts
<1> SUFFICES QueueType' /\ OpType'
  BY DEF TypeOK, QueueType, OpType, Codes
<1>1. CASE Disable \/ Enable \/ NotReady
  BY <1>1 DEF Disable, Enable, NotReady, GiveUp, QueueType, OpType, Codes,
     driverVars, opVars, deviceVars, AdminOpcodes
<1>2. CASE BootSubmit
  <2> DEFINE c == IF pc = "probe"
                  THEN [opcode |-> "read", lba |-> 0, count |-> BPP]
                  ELSE [opcode |-> pc, lba |-> 0, count |-> 0]
  <2>1. c \in Command
    BY <1>2, NvmeConstants DEF BootSubmit, Command, Opcodes, AdminOpcodes
  <2>2. Submit(c)
    BY <1>2 DEF BootSubmit
  <2>3. QueueType' /\ cmd' \in Command /\ pc' \in Codes
    BY <2>1, <2>2, SubmitType
  <2>4. data' \in [PageCells -> Data]
    BY <1>2, ClearedType DEF BootSubmit, OpType
  <2>5. QED
    BY <1>2, <2>2, <2>3, <2>4
       DEF BootSubmit, Submit, OpType, opVars, deviceVars
<1>3. CASE BootDone
  <2> DEFINE q == QueueOf(cmd)
  <2>1. q \in Queues /\ Consume(q)
    BY <1>3 DEF BootDone, QueueOf
  <2>2. next_cid' \in 1 .. CidMax
    BY <1>3, CidType DEF BootDone, QueueType
  <2>3. QueueType'
    BY <2>1, <2>2, ConsumeType
  <2>4. Answer(q) \in {"invalid", "status", "ok"}
    BY AnswerType
  <2>6. AfterBoot(cmd.opcode) \in Codes
    BY DEF AfterBoot, AdminOpcodes, Codes
  <2>7. pc' \in Codes
    BY <1>3, <2>6 DEF BootDone, GiveUp, Codes
  <2>8. result' \in {"none", "ok", "invalid", "status", "timeout"}
    BY <1>3, <2>4 DEF BootDone, GiveUp, OpType, opVars
  <2>9. QED
    BY <1>3, <2>1, <2>3, <2>7, <2>8
       DEF BootDone, GiveUp, Consume, OpType, opVars, deviceVars
<1>4. QED
  BY <1>1, <1>2, <1>3

LEMMA CallType ==
  ASSUME TypeOK, NEW o \in Op, Call(o)
  PROVE  TypeOK'
<1> QueueType /\ OpType
  BY TypeParts
<1> SUFFICES QueueType' /\ OpType'
  BY DEF TypeOK, QueueType, OpType, Codes
<1>1. o.off \in Nat /\ o.len \in Nat
  BY DEF Op
<1>2. got' \in Seq(Data)
  BY EmptySeq DEF Call
<1>3. QueueType'
  BY DEF Call, QueueType, driverVars, deviceVars
<1>4. QED
  BY <1>1, <1>2, <1>3
     DEF Call, OpType, Codes, driverVars, deviceVars

(* The commands of an operation.                                           *)
LEMMA RunType ==
  ASSUME TypeOK,
         ReadPage \/ ReadChunk \/ WritePage \/ WriteChunk \/ ZeroPage \/ Flush
  PROVE  TypeOK'
<1> QueueType /\ OpType
  BY TypeParts
<1> SUFFICES QueueType' /\ OpType'
  BY DEF TypeOK, QueueType, OpType, Codes
<1>1. /\ PageLba \in Nat /\ BlockChunk \in 0 .. BPP /\ at \in Nat
      /\ BPP \in 0 .. BPP /\ BPP \in Nat /\ 0 \in 0 .. BPP
  BY ChunkTypes, NvmeConstants DEF OpType
<1>2. op.val \in Data
  BY DEF OpType, Op
<1>3. PICK c \in Command : Submit(c)
  <2> DEFINE cs == {[opcode |-> "read", lba |-> PageLba, count |-> BPP],
                    [opcode |-> "read", lba |-> at, count |-> BlockChunk],
                    [opcode |-> "write", lba |-> PageLba, count |-> BPP],
                    [opcode |-> "write", lba |-> at, count |-> BlockChunk],
                    [opcode |-> "zeroes", lba |-> at, count |-> BPP],
                    [opcode |-> "flush", lba |-> 0, count |-> 0]}
  <2>1. cs \subseteq Command
    BY <1>1 DEF Command, Opcodes
  <2>2. \E c \in cs : Submit(c)
    BY DEF ReadPage, ReadChunk, WritePage, WriteChunk, ZeroPage, Flush
  <2>3. QED
    BY <2>1, <2>2
<1>4. QueueType' /\ cmd' \in Command /\ pc' \in Codes
  BY <1>3, SubmitType
<1>5. data' \in [PageCells -> Data] /\ page' \in [PageCells -> Data]
  BY <1>2, ClearedType
     DEF ReadPage, ReadChunk, WritePage, WriteChunk, ZeroPage, Flush, OpType,
         opVars
<1>6. QED
  BY <1>3, <1>4, <1>5
     DEF ReadPage, ReadChunk, WritePage, WriteChunk, ZeroPage, Flush, OpType,
         opVars, Submit, deviceVars

(* The page is a sequence, and what a read takes of it is one too.         *)
LEMMA TakenType ==
  ASSUME OpType, NEW skip \in Nat, NEW n \in Nat, skip + n <= BPP
  PROVE  SubSeq(data, skip + 1, skip + n) \in Seq(Data)
<1>1. data \in Seq(Data) /\ Len(data) = BPP
  BY NvmeConstants DEF OpType, PageCells
<1>2. \A i \in skip + 1 .. skip + n : i \in 1 .. Len(data)
  BY <1>1, NvmeConstants
<1>3. QED
  BY <1>1, <1>2, SubSeqProperties

LEMMA DoneType ==
  ASSUME TypeOK, Done
  PROVE  TypeOK'
<1> QueueType /\ OpType
  BY TypeParts
<1> SUFFICES QueueType' /\ OpType'
  BY DEF TypeOK, QueueType, OpType, Codes
<1>1. QueueType'
  BY ConsumeType, CidType DEF Done, QueueType
<1>2. /\ PageOff \in 0 .. BPP - 1 /\ PageOff + Chunk <= BPP /\ BPP \in Nat
      /\ Chunk \in Nat /\ Chunk <= left
      /\ BlockChunk \in Nat /\ BlockChunk <= left /\ BlockChunk <= BPP
  BY ChunkTypes, NvmeConstants DEF OpType
<1>3. Stored \in Data
  BY NvmeConstants DEF Stored, OpType, Op
<1>4. ASSUME NEW n \in Nat, n <= left, Advance(n)
      PROVE  /\ at' \in Nat /\ left' \in Nat /\ pc' \in Codes
             /\ result' \in {"none", "ok", "invalid", "status", "timeout"}
  BY <1>4 DEF Advance, Return, OpType, Codes
<1>5. /\ cmd' = cmd /\ op' = op /\ before' = before /\ ops' = ops
      /\ late' = late /\ data' = data /\ disk' = disk
  BY DEF Done, Consume, deviceVars
<1>6. CASE /\ op.kind \in {"read_range", "read_blocks_into"}
           /\ cmd.opcode = "read"
  <2> DEFINE skip == IF op.kind = "read_range" THEN PageOff ELSE 0
             n == IF op.kind = "read_range" THEN Chunk ELSE BlockChunk
  <2>1. skip \in Nat /\ n \in Nat /\ n <= left /\ skip + n <= BPP
    BY <1>2
  <2>2. got' = got \o SubSeq(data, skip + 1, skip + n) /\ Advance(n)
    BY <1>6 DEF Done
  <2>3. SubSeq(data, skip + 1, skip + n) \in Seq(Data)
    BY <2>1, TakenType
  <2>4. got' \in Seq(Data)
    BY <2>2, <2>3, ConcatProperties DEF OpType
  <2>5. page' = page
    BY <1>6 DEF Done
  <2>6. /\ at' \in Nat /\ left' \in Nat /\ pc' \in Codes
        /\ result' \in {"none", "ok", "invalid", "status", "timeout"}
    BY <1>4, <2>1, <2>2
  <2> HIDE DEF n, skip
  <2>7. QED
    BY <1>1, <1>5, <2>4, <2>5, <2>6 DEF OpType
<1>7. CASE cmd.opcode = "read" /\ op.kind \in {"write_range", "zero_range"}
  <2>1. page' \in [PageCells -> Data]
    BY <1>3, <1>7 DEF Done, OpType
  <2>2. QED
    BY <1>1, <1>5, <1>7, <2>1 DEF Done, OpType, Codes
<1>8. CASE cmd.opcode # "read"
  <2> DEFINE n == IF op.kind = "write_blocks_from" THEN BlockChunk ELSE Chunk
  <2>1. n \in Nat /\ n <= left
    BY <1>2
  <2>2. Advance(n) /\ page' = page /\ got' = got
    BY <1>8 DEF Done
  <2>3. /\ at' \in Nat /\ left' \in Nat /\ pc' \in Codes
        /\ result' \in {"none", "ok", "invalid", "status", "timeout"}
    BY <1>4, <2>1, <2>2
  <2> HIDE DEF n
  <2>4. QED
    BY <1>1, <1>5, <2>2, <2>3 DEF OpType
<1>9. QED
  BY <1>6, <1>7, <1>8 DEF Done

LEMMA EndType ==
  ASSUME TypeOK, Failed \/ Timeout
  PROVE  TypeOK'
<1> QueueType /\ OpType
  BY TypeParts
<1> SUFFICES QueueType' /\ OpType'
  BY DEF TypeOK, QueueType, OpType, Codes
<1>1. CASE Failed
  <2>1. QueueType'
    BY <1>1, ConsumeType DEF Failed, QueueType
  <2>2. Answer("io") \in {"invalid", "status", "ok"}
    BY AnswerType
  <2>3. QED
    BY <1>1, <2>1, <2>2
       DEF Failed, Return, Consume, deviceVars, OpType, Codes
<1>2. CASE Timeout
  BY <1>2
     DEF Timeout, GiveUp, Return, QueueType, OpType, Codes, driverVars,
         deviceVars
<1>3. QED
  BY <1>1, <1>2

LEMMA ExecuteType ==
  ASSUME TypeOK, NEW q \in Queues, NEW ok \in BOOLEAN, Execute(q, ok)
  PROVE  TypeOK'
<1> QueueType /\ OpType
  BY TypeParts
<1> SUFFICES QueueType' /\ OpType'
  BY DEF TypeOK, QueueType, OpType, Codes
<1> DEFINE c == sq[q][sq_head[q]]
<1>1. c \in Entry /\ cq_tail[q] \in Slots /\ sq_head[q] \in Slots
  BY DEF QueueType
<1>2. /\ c.lba \in Nat /\ c.count \in Nat /\ c.count <= BPP /\ c.cid \in 0 .. CidMax
      /\ BPP \in Nat /\ Blocks \in Nat /\ Zero \in Data /\ Ident \in Data
  BY <1>1, NvmeConstants DEF Entry
<1>3. disk' \in [Lbas -> Data]
  <2>1. CASE ok /\ c.opcode \in {"write", "zeroes"}
    <3>1. ASSUME NEW b \in Lbas, b \in c.lba .. c.lba + c.count - 1
          PROVE  b - c.lba + 1 \in PageCells
      BY <1>2, <3>1 DEF Lbas, PageCells
    <3>2. \A b \in Lbas :
             (IF b \in c.lba .. c.lba + c.count - 1
              THEN IF c.opcode = "zeroes" THEN Zero ELSE data[b - c.lba + 1]
              ELSE disk[b]) \in Data
      BY <1>2, <3>1 DEF OpType
    <3>3. QED
      BY <2>1, <3>2 DEF Execute
  <2>2. CASE ~(ok /\ c.opcode \in {"write", "zeroes"})
    BY <2>2 DEF Execute, OpType
  <2>3. QED
    BY <2>1, <2>2
<1>4. data' \in [PageCells -> Data]
  <2>1. CASE ok /\ c.opcode = "read"
    <3>1. c.lba + c.count <= Blocks
      BY <2>1 DEF Execute, InRange
    <3>2. ASSUME NEW i \in PageCells, i <= c.count
          PROVE  c.lba + i - 1 \in Lbas
      BY <1>2, <3>1, <3>2 DEF Lbas, PageCells
    <3>3. \A i \in PageCells :
             (IF i <= c.count THEN disk[c.lba + i - 1] ELSE data[i]) \in Data
      BY <3>2 DEF OpType
    <3>4. QED
      BY <2>1, <3>3 DEF Execute
  <2>2. CASE ok /\ c.opcode \in {"identify_controller", "identify_namespace"}
    BY <1>2, <2>2 DEF Execute
  <2>3. CASE ~(ok /\ c.opcode \in {"read", "identify_controller",
                                   "identify_namespace"})
    BY <2>3 DEF Execute, OpType
  <2>4. QED
    BY <2>1, <2>2, <2>3
<1>5. [cid |-> c.cid, ok |-> ok, phase |-> cq_phase[q]] \in Entries
  BY <1>2 DEF QueueType, Entries
<1>6. cq' \in [Queues -> [Slots -> Entries]]
  BY <1>1, <1>5 DEF Execute, QueueType
<1>7. sq_head' \in [Queues -> Slots] /\ cq_tail' \in [Queues -> Slots]
  BY <1>1, NextSlotType DEF Execute, QueueType
<1>8. cq_phase' \in [Queues -> {0, 1}]
  BY DEF Execute, QueueType
<1>9. fresh' \in [Queues -> Int]
  BY DEF Execute, QueueType
<1> HIDE DEF c
<1>10. QED
  BY <1>3, <1>4, <1>6, <1>7, <1>8, <1>9
     DEF Execute, QueueType, OpType, driverVars, opVars, Codes

LEMMA NextType == TypeOK /\ [Next]_vars => TypeOK'
<1> SUFFICES ASSUME TypeOK, [Next]_vars PROVE TypeOK'
  OBVIOUS
<1>1. CASE Driver
  BY <1>1, BootType, RunType, DoneType, EndType DEF Driver
<1>2. CASE Callers
  <2>1. PICK o \in Op : Call(o)
    <3>1. PICK off \in Lbas, len \in Lengths, v \in Fill :
             \/ \E k \in {"write_range", "write_blocks_from"} :
                   Call([kind |-> k, off |-> off, len |-> len, val |-> v])
             \/ \E k \in {"read_range", "read_blocks_into", "zero_range"} :
                   Call([kind |-> k, off |-> off, len |-> len, val |-> Zero])
             \/ Call(NoOp)
      BY <1>2 DEF Callers
    <3>2. \A k \in Kinds, x \in {v, Zero} :
             [kind |-> k, off |-> off, len |-> len, val |-> x] \in Op
      BY NvmeConstants DEF Op, Lbas
    <3>3. NoOp \in Op
      BY NvmeConstants DEF NoOp, Op, Kinds
    <3>4. QED
      BY <3>1, <3>2, <3>3 DEF Kinds
  <2>2. QED
    BY <2>1, CallType
<1>3. CASE Device
  BY <1>3, ExecuteType DEF Device
<1>4. CASE UNCHANGED vars
  BY <1>4 DEF vars, TypeOK, opVars, deviceVars
<1>5. QED
  BY <1>1, <1>2, <1>3, <1>4 DEF Next

(* The variables of the driver and of the device keep their types: cursors *)
(* stay in their rings, a command never names more blocks than the page    *)
(* holds, and an index into the page or the disk is always one of theirs.  *)
THEOREM TypeCorrect == Spec => []TypeOK
BY InitType, NextType, PTL DEF Spec

(***************************************************************************)
(* The phase bit.  The device has written cq_phase in every entry before   *)
(* its place and the other phase in the rest; the driver is on the same    *)
(* lap behind the device, or on the lap before it and in front of it.      *)
(***************************************************************************)

Lap(q) ==
  /\ \A i \in Slots : cq[q][i].phase = IF i < cq_tail[q] THEN cq_phase[q]
                                                        ELSE 1 - cq_phase[q]
  /\ \/ /\ phase[q] = cq_phase[q] /\ head[q] <= cq_tail[q]
        /\ fresh[q] = cq_tail[q] - head[q]
     \/ /\ phase[q] = 1 - cq_phase[q] /\ cq_tail[q] < head[q]
        /\ fresh[q] = cq_tail[q] + Depth - head[q]

Laps == \A q \in Queues : Lap(q)

LEMMA LapTells == TypeOK /\ Laps => PhaseTells
<1> SUFFICES ASSUME TypeOK, Laps, NEW q \in Queues
             PROVE  fresh[q] >= 0 /\ (HasEntry(q) <=> fresh[q] > 0)
  BY DEF PhaseTells
<1>1. /\ head[q] \in Slots /\ cq_tail[q] \in Slots /\ phase[q] \in {0, 1}
      /\ cq_phase[q] \in {0, 1} /\ Depth \in Nat
  BY NvmeConstants DEF TypeOK
<1>2. Lap(q)
  BY DEF Laps
<1>3. HasEntry(q) <=> (phase[q] = IF head[q] < cq_tail[q]
                                  THEN cq_phase[q] ELSE 1 - cq_phase[q])
  BY <1>1, <1>2 DEF Lap, HasEntry, EntryAt
<1>4. QED
  BY <1>1, <1>2, <1>3 DEF Lap, Slots

LEMMA InitLaps == Init => Laps
<1> SUFFICES ASSUME Init, NEW q \in Queues PROVE Lap(q)
  BY DEF Laps
<1>1. /\ phase[q] = 1 /\ cq_phase[q] = 1 /\ head[q] = 0 /\ cq_tail[q] = 0
      /\ fresh[q] = 0
  BY DEF Init
<1>2. \A i \in Slots : cq[q][i].phase = 0 /\ ~(i < 0)
  BY NvmeConstants DEF Init, Slots
<1>3. QED
  BY <1>1, <1>2 DEF Lap

ringVars == <<head, phase, cq, cq_tail, cq_phase, fresh>>

LEMMA LapsStay == Laps /\ UNCHANGED ringVars => Laps'
BY DEF Laps, Lap, ringVars

LEMMA LapsConsume ==
  ASSUME TypeOK, Laps, NEW q \in Queues, HasEntry(q), Consume(q)
  PROVE  Laps'
<1> SUFFICES ASSUME NEW r \in Queues PROVE Lap(r)'
  BY DEF Laps
<1>1. cq' = cq /\ cq_tail' = cq_tail /\ cq_phase' = cq_phase
  BY DEF Consume, deviceVars
<1>2. Lap(r)
  BY DEF Laps
<1>3. CASE r # q
  <2>1. head'[r] = head[r] /\ phase'[r] = phase[r] /\ fresh'[r] = fresh[r]
    BY <1>3 DEF Consume, TypeOK
  <2>2. QED
    BY <1>1, <1>2, <2>1 DEF Lap
<1>4. CASE r = q
  <2>1. /\ head'[q] = IF head[q] + 1 >= Depth THEN 0 ELSE head[q] + 1
        /\ phase'[q] = IF head[q] + 1 >= Depth THEN 1 - phase[q]
                                               ELSE phase[q]
        /\ fresh'[q] = fresh[q] - 1
    BY DEF Consume, TypeOK
  <2>2. /\ head[q] \in 0 .. Depth - 1 /\ cq_tail[q] \in 0 .. Depth - 1
        /\ phase[q] \in {0, 1} /\ cq_phase[q] \in {0, 1} /\ Depth \in Nat
        /\ fresh[q] \in Int
    BY NvmeConstants DEF TypeOK, Slots
  <2>3. fresh[q] > 0
    BY LapTells DEF PhaseTells
  <2>4. \/ /\ phase'[q] = cq_phase[q] /\ head'[q] <= cq_tail[q]
           /\ fresh'[q] = cq_tail[q] - head'[q]
        \/ /\ phase'[q] = 1 - cq_phase[q] /\ cq_tail[q] < head'[q]
           /\ fresh'[q] = cq_tail[q] + Depth - head'[q]
    <3>1. CASE head[q] + 1 >= Depth
      <4>1. head[q] = Depth - 1 /\ head'[q] = 0 /\ phase'[q] = 1 - phase[q]
        BY <2>1, <2>2, <3>1
      <4>2. QED
        BY <1>2, <1>4, <2>1, <2>2, <2>3, <4>1 DEF Lap
    <3>2. CASE head[q] + 1 < Depth
      <4>1. head'[q] = head[q] + 1 /\ phase'[q] = phase[q]
        BY <2>1, <2>2, <3>2
      <4>2. QED
        BY <1>2, <1>4, <2>1, <2>2, <2>3, <4>1 DEF Lap
    <3>3. QED
      BY <2>2, <3>1, <3>2
  <2>5. QED
    BY <1>1, <1>2, <1>4, <2>4 DEF Lap
<1>5. QED
  BY <1>3, <1>4

LEMMA LapsExecute ==
  ASSUME TypeOK, Laps, NEW q \in Queues, NEW ok \in BOOLEAN, Execute(q, ok)
  PROVE  Laps'
<1> SUFFICES ASSUME NEW r \in Queues PROVE Lap(r)'
  BY DEF Laps
<1>1. head' = head /\ phase' = phase
  BY DEF Execute, driverVars
<1>2. Lap(r)
  BY DEF Laps
<1> DEFINE e == [cid |-> sq[q][sq_head[q]].cid, ok |-> ok,
                 phase |-> cq_phase[q]]
<1>3. CASE r # q
  <2>1. /\ cq'[r] = cq[r] /\ cq_tail'[r] = cq_tail[r]
        /\ cq_phase'[r] = cq_phase[r] /\ fresh'[r] = fresh[r]
    BY <1>3 DEF Execute, TypeOK
  <2>2. QED
    BY <1>1, <1>2, <2>1 DEF Lap
<1>4. CASE r = q
  <2> DEFINE t == cq_tail[q]
  <2>1. /\ head[q] \in 0 .. Depth - 1 /\ t \in 0 .. Depth - 1
        /\ phase[q] \in {0, 1} /\ cq_phase[q] \in {0, 1} /\ Depth \in Nat
        /\ fresh[q] \in Int /\ t \in Slots
    BY NvmeConstants DEF TypeOK, Slots
  <2>2. /\ cq_tail'[q] = IF t + 1 = Depth THEN 0 ELSE t + 1
        /\ (IF t + 1 = Depth THEN 0 ELSE t + 1) # head[q]
    BY <2>1, NextSlot DEF Execute, TypeOK
  <2>3. /\ cq_phase'[q] = IF t + 1 = Depth THEN 1 - cq_phase[q]
                                           ELSE cq_phase[q]
        /\ fresh'[q] = fresh[q] + 1
    BY DEF Execute, TypeOK
  <2>4. /\ cq'[q][t].phase = cq_phase[q]
        /\ \A i \in Slots : i # t => cq'[q][i] = cq[q][i]
    <3>1. cq'[q] = [cq[q] EXCEPT ![t] = e]
      BY DEF Execute, TypeOK
    <3>2. cq[q] \in [Slots -> Entries]
      BY DEF TypeOK
    <3>3. QED
      BY <2>1, <3>1, <3>2
  <2>5. \A i \in Slots : i # t => cq'[q][i].phase = cq[q][i].phase
    BY <2>4
  <2> HIDE DEF t
  <2>6. \A i \in Slots :
           cq'[q][i].phase = IF i < cq_tail'[q] THEN cq_phase'[q]
                                                ELSE 1 - cq_phase'[q]
    <3> SUFFICES ASSUME NEW i \in Slots
                 PROVE  cq'[q][i].phase = IF i < cq_tail'[q]
                                          THEN cq_phase'[q]
                                          ELSE 1 - cq_phase'[q]
      OBVIOUS
    <3>1. i \in 0 .. Depth - 1
      BY DEF Slots
    <3>2. cq[q][i].phase = IF i < t THEN cq_phase[q] ELSE 1 - cq_phase[q]
      BY <1>2, <1>4 DEF Lap, t
    <3>3. CASE t + 1 = Depth
      <4>1. cq_tail'[q] = 0 /\ cq_phase'[q] = 1 - cq_phase[q]
        BY <2>2, <2>3, <3>3
      <4>2. cq'[q][i].phase = cq_phase[q]
        BY <2>1, <2>4, <2>5, <3>1, <3>2, <3>3
      <4>3. QED
        BY <2>1, <3>1, <4>1, <4>2
    <3>4. CASE t + 1 # Depth
      <4>1. cq_tail'[q] = t + 1 /\ cq_phase'[q] = cq_phase[q]
        BY <2>2, <2>3, <3>4
      <4>2. CASE i = t
        BY <2>1, <2>4, <4>1, <4>2
      <4>3. CASE i # t
        BY <2>1, <2>5, <3>1, <3>2, <4>1, <4>3
      <4>4. QED
        BY <4>2, <4>3
    <3>5. QED
      BY <3>3, <3>4
  <2>7. \/ /\ phase[q] = cq_phase'[q] /\ head[q] <= cq_tail'[q]
           /\ fresh'[q] = cq_tail'[q] - head[q]
        \/ /\ phase[q] = 1 - cq_phase'[q] /\ cq_tail'[q] < head[q]
           /\ fresh'[q] = cq_tail'[q] + Depth - head[q]
    <3>1. \/ /\ phase[q] = cq_phase[q] /\ head[q] <= t
             /\ fresh[q] = t - head[q]
          \/ /\ phase[q] = 1 - cq_phase[q] /\ t < head[q]
             /\ fresh[q] = t + Depth - head[q]
      BY <1>2, <1>4 DEF Lap, t
    <3>2. CASE t + 1 = Depth
      <4>1. cq_tail'[q] = 0 /\ cq_phase'[q] = 1 - cq_phase[q] /\ head[q] # 0
        BY <2>2, <2>3, <3>2
      <4>2. QED
        BY <2>1, <2>3, <3>1, <3>2, <4>1
    <3>3. CASE t + 1 # Depth
      <4>1. /\ cq_tail'[q] = t + 1 /\ cq_phase'[q] = cq_phase[q]
            /\ head[q] # t + 1
        BY <2>2, <2>3, <3>3
      <4>2. QED
        BY <2>1, <2>3, <3>1, <4>1
    <3>4. QED
      BY <3>2, <3>3
  <2>8. QED
    BY <1>1, <1>4, <2>6, <2>7 DEF Lap
<1>5. QED
  BY <1>3, <1>4

LEMMA NextLaps == TypeOK /\ Laps /\ [Next]_vars => Laps'
<1> SUFFICES ASSUME TypeOK, Laps, [Next]_vars PROVE Laps'
  OBVIOUS
<1>1. CASE BootDone
  <2>1. QueueOf(cmd) \in Queues
    BY DEF QueueOf
  <2>2. QED
    BY <1>1, <2>1, LapsConsume DEF BootDone
<1>2. CASE Done \/ Failed
  BY <1>2, LapsConsume DEF Done, Failed
<1>3. CASE Device
  BY <1>3, LapsExecute DEF Device
<1>4. CASE Disable \/ Enable \/ NotReady \/ Timeout
  BY <1>4, LapsStay
     DEF Disable, Enable, NotReady, Timeout, driverVars, deviceVars, ringVars
<1>5. CASE BootSubmit \/ ReadPage \/ ReadChunk \/ WritePage \/ WriteChunk
           \/ ZeroPage \/ Flush
  BY <1>5, LapsStay
     DEF BootSubmit, ReadPage, ReadChunk, WritePage, WriteChunk, ZeroPage,
         Flush, Submit, deviceVars, ringVars
<1>6. CASE Callers
  BY <1>6, LapsStay DEF Callers, Call, driverVars, deviceVars, ringVars
<1>7. CASE UNCHANGED vars
  BY <1>7, LapsStay DEF vars, deviceVars, ringVars
<1>8. QED
  BY <1>1, <1>2, <1>3, <1>4, <1>5, <1>6, <1>7 DEF Next, Driver

(* For every depth of the queues, the driver takes a completion exactly    *)
(* when there is a new one: no lap, no late and no failed command makes it *)
(* take an old entry or miss a new one.                                    *)
THEOREM PhaseCorrect == Spec => []PhaseTells
<1>1. Init => TypeOK /\ Laps
  BY InitType, InitLaps
<1>2. TypeOK /\ Laps /\ [Next]_vars => (TypeOK /\ Laps)'
  BY NextType, NextLaps
<1>3. TypeOK /\ Laps => PhaseTells
  BY LapTells
<1>4. QED
  BY <1>1, <1>2, <1>3, PTL DEF Spec

(***************************************************************************)
(* One command at a time.  As long as none was given up, the queue of the  *)
(* command the driver waits for holds that command, or its completion and  *)
(* nothing else, and every other queue is empty.                           *)
(***************************************************************************)

Settled(q) == tail[q] = sq_head[q] /\ fresh[q] = 0

Sent(q) ==
  \/ /\ tail[q] = (sq_head[q] + 1) % Depth /\ tail[q] # sq_head[q]
     /\ sq[q][sq_head[q]].cid = next_cid /\ fresh[q] = 0
  \/ /\ tail[q] = sq_head[q] /\ fresh[q] = 1
     /\ cq[q][head[q]].cid = next_cid

InStep ==
  Clean => \A q \in Queues :
              IF pc = "wait" /\ q = QueueOf(cmd) THEN Sent(q) ELSE Settled(q)

Inv == TypeOK /\ Laps /\ InStep

LEMMA InStepTells == Inv => OwnAnswer
<1> SUFFICES ASSUME Inv, Clean, pc = "wait", HasEntry(QueueOf(cmd))
             PROVE  EntryAt(QueueOf(cmd)).cid = next_cid
  BY DEF OwnAnswer
<1>1. QueueOf(cmd) \in Queues
  BY DEF QueueOf
<1>2. fresh[QueueOf(cmd)] > 0
  BY <1>1, LapTells DEF Inv, PhaseTells
<1>3. Sent(QueueOf(cmd))
  BY <1>1 DEF Inv, InStep
<1>4. QED
  BY <1>2, <1>3 DEF Sent, EntryAt

LEMMA InitInStep == Init => InStep
BY DEF Init, InStep, Settled

linkVars == <<tail, sq_head, sq, cq, head, next_cid, fresh>>

(* Where no command is sent or answered, a step out of a state in which    *)
(* none is waited for leaves everything settled.                           *)
LEMMA InStepIdle ==
  ASSUME InStep, pc # "wait", pc' # "wait", late' = late, UNCHANGED linkVars
  PROVE  InStep'
BY DEF InStep, Settled, Clean, linkVars

LEMMA InStepSubmit ==
  ASSUME TypeOK, InStep, pc # "wait", NEW c, Submit(c)
  PROVE  InStep'
<1> SUFFICES ASSUME Clean', NEW q \in Queues
             PROVE  IF q = QueueOf(c) THEN Sent(q)' ELSE Settled(q)'
  BY DEF InStep, Submit, QueueOf
<1>1. /\ sq_head' = sq_head /\ fresh' = fresh /\ cq' = cq /\ head' = head
      /\ next_cid' = next_cid /\ late' = late
  BY DEF Submit, deviceVars
<1>2. Settled(q)
  BY <1>1 DEF InStep, Clean
<1>3. CASE q # QueueOf(c)
  <2>1. tail'[q] = tail[q]
    BY <1>3 DEF Submit, TypeOK
  <2>2. QED
    BY <1>1, <1>2, <1>3, <2>1 DEF Settled
<1>4. CASE q = QueueOf(c)
  <2>1. tail[q] \in Slots
    BY DEF TypeOK
  <2>2. tail'[q] = (tail[q] + 1) % Depth
    BY <1>4 DEF Submit, TypeOK
  <2>3. (tail[q] + 1) % Depth # tail[q]
    BY <2>1, NextSlot, NvmeConstants DEF Slots
  <2>4. sq'[q][tail[q]].cid = next_cid
    BY <1>4, <2>1 DEF Submit, TypeOK
  <2>5. QED
    BY <1>1, <1>2, <1>4, <2>2, <2>3, <2>4 DEF Settled, Sent
<1>5. QED
  BY <1>3, <1>4

LEMMA InStepConsume ==
  ASSUME Inv, pc = "wait", NEW q \in Queues, HasEntry(q), Consume(q),
         pc' # "wait"
  PROVE  InStep'
<1> SUFFICES ASSUME Clean', NEW r \in Queues PROVE Settled(r)'
  BY DEF InStep
<1>1. tail' = tail /\ sq_head' = sq_head /\ late' = late
  BY DEF Consume, deviceVars
<1>2. fresh[q] > 0
  BY LapTells DEF Inv, PhaseTells
<1>3. q = QueueOf(cmd) /\ Sent(q)
  BY <1>1, <1>2 DEF Inv, InStep, Clean, Settled
<1>4. fresh[q] = 1 /\ tail[q] = sq_head[q]
  BY <1>2, <1>3 DEF Sent
<1>5. fresh' = [fresh EXCEPT ![q] = fresh[q] - 1] /\ fresh \in [Queues -> Int]
  BY DEF Consume, Inv, TypeOK
<1>6. CASE r = q
  BY <1>1, <1>4, <1>5, <1>6 DEF Settled
<1>7. CASE r # q
  <2>1. Settled(r)
    BY <1>1, <1>3, <1>7 DEF Inv, InStep, Clean
  <2>2. QED
    BY <1>1, <1>5, <1>7, <2>1 DEF Settled
<1>8. QED
  BY <1>6, <1>7

LEMMA InStepExecute ==
  ASSUME Inv, NEW q \in Queues, NEW ok \in BOOLEAN, Execute(q, ok)
  PROVE  InStep'
<1> USE DEF Inv
<1> SUFFICES ASSUME Clean', NEW r \in Queues
             PROVE  IF pc = "wait" /\ r = QueueOf(cmd) THEN Sent(r)'
                                                       ELSE Settled(r)'
  BY DEF InStep, Execute, QueueOf
<1>1. /\ tail' = tail /\ head' = head /\ next_cid' = next_cid /\ sq' = sq
      /\ late' = late
  BY DEF Execute, driverVars
<1>2. IF pc = "wait" /\ r = QueueOf(cmd) THEN Sent(r) ELSE Settled(r)
  BY <1>1 DEF InStep, Clean
<1>3. CASE r # q
  <2>1. sq_head'[r] = sq_head[r] /\ fresh'[r] = fresh[r] /\ cq'[r] = cq[r]
    BY <1>3 DEF Execute, TypeOK
  <2>2. QED
    BY <1>1, <1>2, <2>1 DEF Sent, Settled
<1>4. CASE r = q
  <2>1. pc = "wait" /\ r = QueueOf(cmd) /\ Sent(r)
    BY <1>2, <1>4 DEF Execute, Settled
  <2>2. /\ tail[q] = (sq_head[q] + 1) % Depth /\ fresh[q] = 0
        /\ sq[q][sq_head[q]].cid = next_cid
    BY <1>4, <2>1 DEF Execute, Sent
  <2>3. head[q] = cq_tail[q] /\ head[q] \in Slots
    <3>1. /\ head[q] \in 0 .. Depth - 1 /\ cq_tail[q] \in 0 .. Depth - 1
          /\ Depth \in Nat
      BY NvmeConstants DEF TypeOK, Slots
    <3>2. Lap(q)
      BY DEF Laps
    <3>3. QED
      BY <2>2, <3>1, <3>2 DEF Lap, Slots
  <2>4. sq_head'[q] = (sq_head[q] + 1) % Depth /\ fresh'[q] = fresh[q] + 1
    BY DEF Execute, TypeOK
  <2>5. cq'[q][cq_tail[q]].cid = next_cid
    BY <2>2, <2>3 DEF Execute, TypeOK
  <2>6. QED
    BY <1>1, <1>4, <2>1, <2>2, <2>3, <2>4, <2>5 DEF Sent
<1>5. QED
  BY <1>3, <1>4

LEMMA NextInStep == Inv /\ [Next]_vars => InStep'
<1> SUFFICES ASSUME Inv, [Next]_vars PROVE InStep'
  OBVIOUS
<1> TypeOK /\ Laps /\ InStep
  BY DEF Inv
<1>1. CASE Disable \/ Enable \/ NotReady
  BY <1>1, InStepIdle
     DEF Disable, Enable, NotReady, GiveUp, driverVars, deviceVars, linkVars
<1>2. CASE BootSubmit
  BY <1>2, InStepSubmit DEF BootSubmit, AdminOpcodes
<1>3. CASE ReadPage \/ ReadChunk \/ WritePage \/ WriteChunk \/ ZeroPage
           \/ Flush
  <2>1. pc # "wait" /\ \E c : Submit(c)
    BY <1>3 DEF ReadPage, ReadChunk, WritePage, WriteChunk, ZeroPage, Flush
  <2>2. QED
    BY <2>1, InStepSubmit
<1>4. CASE BootDone
  <2>1. QueueOf(cmd) \in Queues
    BY DEF QueueOf
  <2>2. pc' # "wait"
    BY <1>4 DEF BootDone, GiveUp, AfterBoot
  <2>3. QED
    BY <1>4, <2>1, <2>2, InStepConsume DEF BootDone
<1>5. CASE Done
  <2>1. pc' # "wait"
    BY <1>5 DEF Done, Advance, Return
  <2>2. QED
    BY <1>5, <2>1, InStepConsume DEF Done
<1>6. CASE Failed
  BY <1>6, InStepConsume DEF Failed, Return
<1>7. CASE Timeout
  BY <1>7 DEF Timeout, InStep, Clean
<1>8. CASE Callers
  <2>1. PICK o : Call(o)
    BY <1>8 DEF Callers
  <2>2. QED
    BY <2>1, InStepIdle DEF Call, driverVars, deviceVars, linkVars
<1>9. CASE Device
  BY <1>9, InStepExecute DEF Device
<1>10. CASE UNCHANGED vars
  BY <1>10
     DEF vars, deviceVars, InStep, Clean, Sent, Settled, QueueOf
<1>11. QED
  BY <1>1, <1>2, <1>3, <1>4, <1>5, <1>6, <1>7, <1>8, <1>9, <1>10
     DEF Next, Driver

(* For every depth and every number of identifiers, as long as no command  *)
(* was given up the completion the driver finds is the answer to the       *)
(* command it waits for, also after commands the device refused.           *)
THEOREM AnswerCorrect == Spec => []OwnAnswer
<1>1. Init => Inv
  BY InitType, InitLaps, InitInStep DEF Inv
<1>2. Inv /\ [Next]_vars => Inv'
  BY NextType, NextLaps, NextInStep DEF Inv
<1>3. Inv => OwnAnswer
  BY InStepTells
<1>4. QED
  BY <1>1, <1>2, <1>3, PTL DEF Spec

(***************************************************************************)
(* Data.  As long as no command was given up, the disk is the disk of the  *)
(* call with the blocks up to `at` written, and the page that is on its    *)
(* way holds what is on the disk around them.                              *)
(***************************************************************************)

Writing == op.kind \in {"write_range", "write_blocks_from", "zero_range"}
Reading == op.kind \in {"read_range", "read_blocks_into"}
Paged == op.kind \in {"read_range", "write_range", "zero_range"}

(* What the next command transfers, and the disk with n blocks written.    *)
Step == IF op.kind \in {"read_blocks_into", "write_blocks_from"}
        THEN BlockChunk ELSE Chunk
After(n) == [b \in Lbas |-> IF Writing /\ b \in op.off .. op.off + n - 1
                            THEN Stored ELSE before[b]]

(* The device has done the command the driver waits for.                   *)
Executed == tail["io"] = sq_head["io"] /\ cq["io"][head["io"]].ok
Written == IF pc = "wait" /\ Executed /\ cmd.opcode # "read"
           THEN Covered + Step ELSE Covered

(* The operation has got to its block `at`.                                *)
Bounds ==
  /\ op.off <= at /\ at + left = op.off + op.len /\ op.off + op.len <= Blocks
  /\ op.kind = "flush" => left = 0 /\ op.len = 0
Place ==
  /\ pc \in {"idle", "run", "patched", "wait"}
  /\ Bounds
  /\ pc # "idle" => result = "none" /\ (left > 0 \/ op.kind = "flush")
  /\ result = "ok" => pc = "idle" /\ left = 0
  /\ disk = After(Written)
  /\ Reading => got = [i \in 1 .. Covered |-> disk[op.off + i - 1]]

(* A command is the next one of the operation.                             *)
Asks(c) ==
  \/ op.kind = "flush" /\ c.opcode = "flush"
  \/ /\ op.kind # "flush" /\ c.opcode \in {"read", "write", "zeroes"}
     /\ c.lba = IF Paged THEN PageLba ELSE at
     /\ c.count = IF Paged THEN BPP ELSE BlockChunk
     /\ Reading => c.opcode = "read"
     /\ op.kind = "write_blocks_from" => c.opcode = "write"
     /\ op.kind = "write_range" => c.opcode # "zeroes"
     /\ c.opcode = "zeroes" => PageOff = 0 /\ left >= BPP

(* A write carries what the disk is to hold.                               *)
Brings(c) ==
  c.opcode = "write" =>
    \A b \in Lbas : b \in c.lba .. c.lba + c.count - 1 =>
                      data[b - c.lba + 1] = After(Covered + Step)[b]

(* A read has brought what the disk holds.                                 *)
Brought ==
  cmd.opcode = "read" /\ Executed =>
    \A i \in 1 .. cmd.count : /\ cmd.lba + i - 1 \in Lbas
                              /\ data[i] = disk[cmd.lba + i - 1]

IsEntry(c) ==
  LET e == sq["io"][sq_head["io"]]
  IN e.opcode = c.opcode /\ e.lba = c.lba /\ e.count = c.count

Fits ==
  /\ Asks(cmd) /\ Brings(cmd) /\ Brought
  /\ tail["io"] # sq_head["io"] => IsEntry(cmd)

(* The page that is about to be written back.                              *)
Patch ==
  /\ op.kind \in {"write_range", "zero_range"}
  /\ \A i \in PageCells : /\ PageLba + i - 1 \in Lbas
                          /\ page[i] = After(Covered + Step)[PageLba + i - 1]

Boots == Booting => op.kind = "flush" /\ pc \notin {"run", "patched"}

OnTheWay ==
  Clean /\ ~Booting =>
    Place /\ (pc = "wait" => Fits) /\ (pc = "patched" => Patch)

DataInv == Inv /\ Boots /\ OnTheWay

LEMMA Ranges ==
  ASSUME TypeOK, Bounds
  PROVE  /\ BPP \in Nat \ {0} /\ Blocks \in Nat
         /\ op.off \in Nat /\ op.len \in Nat /\ at \in Nat /\ left \in Nat
         /\ Covered \in Nat /\ at = op.off + Covered
         /\ Step \in Nat /\ Step <= left /\ Step <= BPP
         /\ Covered + Step <= op.len
         /\ PageOff \in 0 .. BPP - 1 /\ PageLba \in Nat
         /\ PageLba = at - PageOff
         /\ Chunk \in Nat /\ PageOff + Chunk <= BPP
         /\ PageOff = 0 /\ left >= BPP => Chunk = BPP
         /\ BlockChunk \in Nat
         /\ op.kind = "flush" => Step = 0
<1>1. /\ BPP \in Nat \ {0} /\ Blocks \in Nat
      /\ op.off \in Nat /\ op.len \in Nat /\ at \in Nat /\ left \in Nat
  BY NvmeConstants DEF TypeOK, Op
<1>2. Covered \in Nat /\ at = op.off + Covered /\ Covered + left = op.len
  BY <1>1 DEF Bounds, Covered
<1>3. /\ PageOff \in 0 .. BPP - 1 /\ PageLba \in Nat
      /\ Chunk \in 0 .. BPP /\ Chunk <= left /\ PageOff + Chunk <= BPP
      /\ BlockChunk \in 0 .. BPP /\ BlockChunk <= left
  BY <1>1, ChunkTypes
<1>4. Step \in Nat /\ Step <= left /\ Step <= BPP
  BY <1>1, <1>3 DEF Step
<1>5. PageOff = 0 /\ left >= BPP => Chunk = BPP
  BY <1>1 DEF Chunk, Least
<1>6. op.kind = "flush" => Step = 0
  BY <1>1, <1>4 DEF Bounds
<1>7. QED
  BY <1>1, <1>2, <1>3, <1>4, <1>5, <1>6 DEF PageLba

LEMMA AfterSame ==
  ASSUME op' = op, before' = before, NEW n
  PROVE  After(n)' = After(n)
BY DEF After, Stored, Writing

LEMMA InitData == Init => Boots /\ OnTheWay
BY DEF Init, Boots, OnTheWay, Booting, NoOp

(* The properties of the data follow.                                      *)
LEMMA DataReads == DataInv => ReadsTheDisk
<1> SUFFICES ASSUME DataInv, Clean, Reading
             PROVE  /\ got = [i \in 1 .. Covered |-> disk[op.off + i - 1]]
                    /\ result = "ok" => Len(got) = op.len
  BY DEF ReadsTheDisk, Reading
<1>1. Place
  BY DEF DataInv, Boots, OnTheWay, Reading
<1>2. TypeOK
  BY DEF DataInv, Inv
<1>3. got = [i \in 1 .. Covered |-> disk[op.off + i - 1]]
  BY <1>1 DEF Place
<1>4. Covered \in Nat /\ op.len \in Nat /\ op.off \in Nat
  BY <1>1, <1>2, Ranges DEF Place
<1>5. ASSUME result = "ok" PROVE Len(got) = op.len
  <2>1. left = 0 /\ at = op.off + op.len
    BY <1>1, <1>2, <1>5, Ranges DEF Place, Bounds
  <2>2. Covered = op.len
    BY <1>4, <2>1 DEF Covered
  <2>3. Len(got) = Covered
    BY <1>3, <1>4
  <2>4. QED
    BY <2>2, <2>3
<1>6. QED
  BY <1>3, <1>5

LEMMA DataWrites == DataInv => WritesPrefix
<1> SUFFICES ASSUME DataInv, Clean, ~Booting
    PROVE  /\ \E n \in 0 .. op.len :
                /\ disk = [b \in Lbas |->
                             IF b \in op.off .. op.off + n - 1 THEN Stored
                                                               ELSE before[b]]
                /\ n > 0 => Writing
           /\ result = "ok" /\ Writing =>
                \A b \in op.off .. op.off + op.len - 1 : disk[b] = Stored
  BY DEF WritesPrefix, Writing
<1>1. Place /\ TypeOK
  BY DEF DataInv, Inv, OnTheWay
<1>2. /\ Covered \in Nat /\ Step \in Nat /\ Covered + Step <= op.len
      /\ op.len \in Nat /\ op.off \in Nat /\ left \in Nat
      /\ op.off + op.len <= Blocks /\ Blocks \in Nat
  BY <1>1, Ranges DEF Place, Bounds
<1>3. Written \in 0 .. op.len /\ disk = After(Written)
  BY <1>1, <1>2 DEF Place, Written
<1>4. CASE Writing
  <2>1. disk = [b \in Lbas |->
                  IF b \in op.off .. op.off + Written - 1 THEN Stored
                                                          ELSE before[b]]
    BY <1>3, <1>4 DEF After
  <2>2. ASSUME result = "ok", NEW b \in op.off .. op.off + op.len - 1
        PROVE  disk[b] = Stored
    <3>1. left = 0 /\ pc = "idle" /\ at = op.off + op.len
      BY <1>1, <1>2, <2>2, Ranges DEF Place, Bounds
    <3>2. Written = op.len
      BY <1>2, <3>1 DEF Written, Covered
    <3>3. b \in Lbas
      BY <1>2 DEF Lbas
    <3>4. QED
      BY <2>1, <3>2, <3>3
  <2>3. QED
    BY <1>3, <1>4, <2>1, <2>2
<1>5. CASE ~Writing
  <2>1. \A b \in Lbas : ~(b \in op.off .. op.off + 0 - 1)
    BY <1>2 DEF Lbas
  <2>2. disk = [b \in Lbas |->
                  IF b \in op.off .. op.off + 0 - 1 THEN Stored
                                                    ELSE before[b]]
    BY <1>3, <1>5, <2>1 DEF After
  <2>3. QED
    BY <1>2, <1>5, <2>2
<1>6. QED
  BY <1>4, <1>5

stillVars == <<op, at, left, got, result, before, ops>>

LEMMA SubmitWay ==
  ASSUME DataInv, Clean, ~Booting, pc \in {"run", "patched"},
         left > 0 \/ op.kind = "flush",
         UNCHANGED stillVars, NEW c, Submit(c), Asks(c), Brings(c)'
  PROVE  OnTheWay'
<1> TypeOK /\ InStep /\ Place
  BY DEF DataInv, Inv, OnTheWay
<1>1. QueueOf(c) = "io"
  BY DEF Asks, QueueOf, AdminOpcodes
<1>2. /\ tail' = [tail EXCEPT !["io"] = (tail["io"] + 1) % Depth]
      /\ sq' = [sq EXCEPT !["io"][tail["io"]] =
                  [opcode |-> c.opcode, lba |-> c.lba, count |-> c.count,
                   cid |-> next_cid]]
      /\ cmd' = c /\ pc' = "wait" /\ sq_head' = sq_head /\ disk' = disk
      /\ cq' = cq /\ head' = head /\ late' = late
  BY <1>1 DEF Submit, deviceVars
<1>3. Settled("io")
  BY DEF InStep
<1>4. tail["io"] \in Slots /\ tail["io"] = sq_head["io"]
  BY <1>3 DEF Settled, TypeOK
<1>5. tail'["io"] # sq_head'["io"]
  <2>1. tail'["io"] = (tail["io"] + 1) % Depth
    BY <1>2 DEF TypeOK
  <2>2. (tail["io"] + 1) % Depth # tail["io"]
    BY <1>4, NextSlot, NvmeConstants DEF Slots
  <2>3. QED
    BY <1>2, <1>4, <2>1, <2>2
<1>6. IsEntry(c)'
  <2>1. sq'["io"][sq_head'["io"]] =
          [opcode |-> c.opcode, lba |-> c.lba, count |-> c.count,
           cid |-> next_cid]
    BY <1>2, <1>4 DEF TypeOK
  <2>2. QED
    BY <2>1 DEF IsEntry
<1>7. /\ Covered' = Covered /\ Written = Covered /\ Written' = Covered
      /\ ~Executed'
  BY <1>5 DEF Covered, Written, Executed, stillVars
<1>8. Place'
  <2>1. After(Covered)' = After(Covered)
    BY AfterSame, <1>7 DEF stillVars, After, Stored, Writing
  <2>2. disk' = After(Written)'
    <3>1. disk = After(Covered)
      BY <1>7 DEF Place
    <3>2. After(Written)' = After(Covered)
      BY <1>7 DEF stillVars, After, Stored, Writing
    <3>3. QED
      BY <1>2, <3>1, <3>2
  <2>3. QED
    BY <1>2, <1>7, <2>2 DEF Place, Bounds, Reading, stillVars
<1>9. Asks(c)'
  BY DEF Asks, stillVars, Paged, PageLba, PageOff, BlockChunk, Reading
<1>10. Fits'
  <2>1. Asks(cmd)' /\ Brings(cmd)' /\ IsEntry(cmd)'
    BY <1>2, <1>6, <1>9
       DEF Asks, Brings, IsEntry, Paged, PageLba, PageOff, BlockChunk,
           Reading, After, Stored, Writing, Covered, Step, Chunk
  <2>2. QED
    BY <1>7, <2>1 DEF Fits, Brought
<1>11. QED
  BY <1>2, <1>8, <1>10 DEF OnTheWay

(* What the steps of an operation send.                                    *)
LEMMA ReadWay ==
  ASSUME DataInv, Clean, ~Booting, ReadPage \/ ReadChunk
  PROVE  OnTheWay'
<1>0. PICK c : c = IF op.kind = "read_blocks_into"
                   THEN [opcode |-> "read", lba |-> at, count |-> BlockChunk]
                   ELSE [opcode |-> "read", lba |-> PageLba, count |-> BPP]
  OBVIOUS
<1>1. /\ pc = "run" /\ left > 0 /\ Submit(c) /\ UNCHANGED stillVars
      /\ op.kind \in {"read_range", "read_blocks_into", "write_range",
                      "zero_range"}
  BY <1>0 DEF ReadPage, ReadChunk, opVars, stillVars
<1>2. c.opcode = "read" /\ Asks(c)
  BY <1>0, <1>1 DEF Asks, Paged
<1>3. Brings(c)'
  BY <1>2 DEF Brings
<1>4. QED
  BY <1>1, <1>2, <1>3, SubmitWay

LEMMA WritePageWay ==
  ASSUME DataInv, Clean, ~Booting, WritePage
  PROVE  OnTheWay'
<1>0. PICK c : c = [opcode |-> "write", lba |-> PageLba, count |-> BPP]
  OBVIOUS
<1> TypeOK /\ Place /\ Bounds
  BY DEF DataInv, Inv, OnTheWay, Place
<1>1. /\ pc \in {"run", "patched"} /\ Submit(c) /\ UNCHANGED stillVars
      /\ data' = page'
      /\ page' = IF pc = "patched" THEN page ELSE [i \in PageCells |-> op.val]
      /\ pc = "run" => op.kind = "write_range" /\ WholePage /\ left > 0
  BY <1>0 DEF WritePage, stillVars
<1>2. pc = "patched" => Patch
  BY DEF DataInv, OnTheWay
<1>3. op.kind \in {"write_range", "zero_range"}
  BY <1>1, <1>2 DEF Patch
<1>4. left > 0
  BY <1>1, <1>3 DEF Place
<1>5. Asks(c)
  BY <1>0, <1>3 DEF Asks, Paged, Reading
<1>6. \A b \in Lbas : b \in PageLba .. PageLba + BPP - 1 =>
                        data'[b - PageLba + 1] = After(Covered + Step)[b]
  <2> SUFFICES ASSUME NEW b \in Lbas, b \in PageLba .. PageLba + BPP - 1
               PROVE  data'[b - PageLba + 1] = After(Covered + Step)[b]
    OBVIOUS
  <2>1. b - PageLba + 1 \in PageCells /\ PageLba + (b - PageLba + 1) - 1 = b
    BY Ranges DEF PageCells, Lbas
  <2>2. CASE pc = "patched"
    BY <1>1, <1>2, <2>1, <2>2 DEF Patch
  <2>3. CASE pc = "run"
    <3>1. op.kind = "write_range" /\ PageOff = 0 /\ left >= BPP
      BY <1>1, <2>3 DEF WholePage
    <3>2. Step = BPP
      BY <3>1, Ranges DEF Step
    <3>3. b \in op.off .. op.off + (Covered + Step) - 1
      BY <3>1, <3>2, Ranges DEF Lbas
    <3>4. After(Covered + Step)[b] = op.val
      BY <3>1, <3>3 DEF After, Writing, Stored
    <3>5. QED
      BY <1>1, <2>1, <2>3, <3>4
  <2>4. QED
    BY <1>1, <2>2, <2>3
<1>7. Brings(c)'
  <2>1. \A n : After(n)' = After(n)
    BY <1>1 DEF stillVars, After, Stored, Writing
  <2>2. Covered' = Covered /\ Step' = Step
    BY <1>1 DEF stillVars, Covered, Step, Chunk, BlockChunk, PageOff
  <2>3. QED
    BY <1>0, <1>6, <2>1, <2>2 DEF Brings
<1>8. QED
  BY <1>1, <1>4, <1>5, <1>7, SubmitWay

LEMMA WriteChunkWay ==
  ASSUME DataInv, Clean, ~Booting, WriteChunk
  PROVE  OnTheWay'
<1>0. PICK c : c = [opcode |-> "write", lba |-> at, count |-> BlockChunk]
  OBVIOUS
<1> TypeOK /\ Place /\ Bounds
  BY DEF DataInv, Inv, OnTheWay, Place
<1>1. /\ pc = "run" /\ left > 0 /\ Submit(c) /\ UNCHANGED stillVars
      /\ op.kind = "write_blocks_from"
      /\ data' = [i \in PageCells |-> IF i <= BlockChunk THEN op.val
                                                         ELSE data[i]]
  BY <1>0 DEF WriteChunk, opVars, stillVars
<1>2. Asks(c)
  BY <1>0, <1>1 DEF Asks, Paged, Reading
<1>3. \A b \in Lbas : b \in at .. at + BlockChunk - 1 =>
                        data'[b - at + 1] = After(Covered + Step)[b]
  <2> SUFFICES ASSUME NEW b \in Lbas, b \in at .. at + BlockChunk - 1
               PROVE  data'[b - at + 1] = After(Covered + Step)[b]
    OBVIOUS
  <2>1. Step = BlockChunk
    BY <1>1 DEF Step
  <2>2. b - at + 1 \in PageCells /\ b - at + 1 <= BlockChunk
    BY <2>1, Ranges DEF PageCells, Lbas
  <2>3. b \in op.off .. op.off + (Covered + Step) - 1
    BY <2>1, Ranges DEF Lbas
  <2>4. QED
    BY <1>1, <2>2, <2>3 DEF After, Writing, Stored
<1>4. Brings(c)'
  <2>1. \A n : After(n)' = After(n)
    BY <1>1 DEF stillVars, After, Stored, Writing
  <2>2. Covered' = Covered /\ Step' = Step
    BY <1>1 DEF stillVars, Covered, Step, Chunk, BlockChunk, PageOff
  <2>3. QED
    BY <1>0, <1>3, <2>1, <2>2 DEF Brings
<1>5. QED
  BY <1>1, <1>2, <1>4, SubmitWay

LEMMA PlainWay ==
  ASSUME DataInv, Clean, ~Booting, ZeroPage \/ Flush
  PROVE  OnTheWay'
<1>0. PICK c : c = IF op.kind = "flush"
                   THEN [opcode |-> "flush", lba |-> 0, count |-> 0]
                   ELSE [opcode |-> "zeroes", lba |-> at, count |-> BPP]
  OBVIOUS
<1> TypeOK /\ Place /\ Bounds
  BY DEF DataInv, Inv, OnTheWay, Place
<1>1. /\ pc = "run" /\ Submit(c) /\ UNCHANGED stillVars
      /\ left > 0 \/ op.kind = "flush"
      /\ op.kind \in {"zero_range", "flush"}
      /\ op.kind = "zero_range" => WholePage
  BY <1>0 DEF ZeroPage, Flush, opVars, stillVars
<1>2. Asks(c)
  <2>1. op.kind = "zero_range" => PageLba = at
    BY <1>1, Ranges DEF WholePage
  <2>2. QED
    BY <1>0, <1>1, <2>1 DEF Asks, Paged, Reading, WholePage
<1>3. c.opcode # "write"
  BY <1>0
<1>4. Brings(c)'
  BY <1>3 DEF Brings
<1>5. QED
  BY <1>1, <1>2, <1>4, SubmitWay

(* What the answer to a command tells.                                     *)
LEMMA AnswerWay ==
  ASSUME DataInv, Clean, ~Booting, pc = "wait", HasEntry("io")
  PROVE  /\ Fits /\ QueueOf(cmd) = "io" /\ tail["io"] = sq_head["io"]
         /\ Answer("io") = IF cq["io"][head["io"]].ok THEN "ok" ELSE "status"
<1> Inv /\ Fits
  BY DEF DataInv, OnTheWay
<1>1. QueueOf(cmd) = "io"
  BY DEF Fits, Asks, QueueOf, AdminOpcodes
<1>2. fresh["io"] > 0
  BY LapTells DEF Inv, PhaseTells
<1>3. Sent("io")
  BY <1>1 DEF Inv, InStep
<1>4. EntryAt("io").cid = next_cid
  BY <1>1, InStepTells DEF OwnAnswer
<1>5. QED
  BY <1>1, <1>2, <1>3, <1>4 DEF Sent, Answer, EntryAt

(* After an answer the operation stands behind n more blocks.              *)
LEMMA AdvanceWay ==
  ASSUME TypeOK, Place, Clean, ~Booting, pc = "wait",
         Advance(Step), disk' = disk, UNCHANGED <<op, before, ops, late>>,
         disk = After(IF Writing THEN Covered + Step ELSE Covered),
         Reading => got' = [i \in 1 .. Covered + Step |-> disk[op.off + i - 1]]
  PROVE  OnTheWay'
<1> Bounds
  BY DEF Place
<1>0. /\ at \in Nat /\ left \in Nat /\ Step \in Nat /\ Step <= left
      /\ op.off \in Nat /\ op.len \in Nat /\ Covered \in Nat
      /\ op.kind = "flush" => Step = 0
  BY Ranges
<1>1. /\ at' = at + Step /\ left' = left - Step /\ op' = op
      /\ IF left > Step THEN pc' = "run" /\ result' = result
                        ELSE pc' = "idle" /\ result' = "ok"
  BY DEF Advance, Return
<1>2. pc' \in {"run", "idle"}
  BY <1>1
<1>3. Covered' = Covered + Step
  BY <1>0, <1>1 DEF Covered
<1>4. Written' = Covered + Step
  BY <1>2, <1>3 DEF Written
<1>5. Bounds'
  BY <1>0, <1>1 DEF Bounds
<1>6. \A n : After(n)' = After(n)
  BY DEF After, Stored, Writing
<1>7. disk' = After(Written)'
  <2>1. After(Written)' = After(Covered + Step)
    BY <1>4 DEF After, Stored, Writing
  <2>2. ~Writing => After(Covered + Step) = After(Covered)
    BY DEF After
  <2>3. QED
    BY <2>1, <2>2
<1>8. /\ pc' # "idle" => result' = "none" /\ left' > 0
      /\ result' = "ok" => pc' = "idle" /\ left' = 0
  BY <1>0, <1>1 DEF Place
<1>9. Place'
  BY <1>2, <1>3, <1>5, <1>7, <1>8 DEF Place, Reading
<1>10. QED
  BY <1>2, <1>9 DEF OnTheWay

(* The blocks a read has taken are those behind the ones it had.           *)
LEMMA TakenBlocks ==
  ASSUME TypeOK, Place, Reading, NEW skip \in Nat, skip + Step <= BPP,
         \A i \in 1 .. Step : data[skip + i] = disk[at + i - 1]
  PROVE  got \o SubSeq(data, skip + 1, skip + Step) =
           [i \in 1 .. Covered + Step |-> disk[op.off + i - 1]]
<1> DEFINE part == SubSeq(data, skip + 1, skip + Step)
<1> Bounds
  BY DEF Place
<1>0. data \in Seq(Data) /\ Len(data) = BPP /\ BPP \in Nat
  BY NvmeConstants DEF TypeOK, PageCells
<1>1. /\ data \in Seq(Data) /\ Len(data) = BPP /\ BPP \in Nat
      /\ Step \in Nat /\ Covered \in Nat /\ op.off \in Nat
      /\ at = op.off + Covered
  BY <1>0, Ranges
<1>2. /\ part \in Seq(Data) /\ Len(part) = Step
      /\ \A i \in 1 .. Step : part[i] = data[skip + i]
  <2>1. \A i \in skip + 1 .. skip + Step : i \in 1 .. Len(data)
    BY <1>1
  <2>2. /\ Len(part) = IF skip + 1 <= skip + Step
                       THEN (skip + Step) - (skip + 1) + 1 ELSE 0
        /\ \A i \in 1 .. (skip + Step) - (skip + 1) + 1 :
              part[i] = data[(skip + 1) + i - 1]
        /\ part \in Seq(Data)
    <3>1. skip + 1 \in Int /\ skip + Step \in Int
      BY <1>1
    <3>2. \A i \in skip + 1 .. skip + Step : data[i] \in Data
      BY <1>1, <2>1
    <3>3. QED
      BY <3>1, <3>2, SubSeqProperties
  <2> HIDE DEF part
  <2>3. Len(part) = Step
    BY <1>1, <2>2
  <2>4. ASSUME NEW i \in 1 .. Step PROVE part[i] = data[skip + i]
    <3>1. (skip + Step) - (skip + 1) + 1 = Step /\ (skip + 1) + i - 1 = skip + i
      BY <1>1
    <3>2. QED
      BY <2>2, <3>1
  <2>5. QED
    BY <2>2, <2>3, <2>4
<1> HIDE DEF part
<1>3. got \in Seq(Data) /\ Len(got) = Covered
  BY <1>1 DEF Place, TypeOK
<1>4. /\ got \o part \in Seq(Data) /\ Len(got \o part) = Covered + Step
      /\ \A i \in 1 .. Covered + Step :
           (got \o part)[i] = IF i <= Covered THEN got[i] ELSE part[i - Covered]
  BY <1>1, <1>2, <1>3, ConcatProperties
<1> DEFINE all == got \o part
<1>8. /\ all \in Seq(Data) /\ Len(all) = Covered + Step
       /\ \A i \in 1 .. Covered + Step :
            all[i] = IF i <= Covered THEN got[i] ELSE part[i - Covered]
  BY <1>4
<1> HIDE DEF all
<1>5. ASSUME NEW i \in 1 .. Covered + Step
      PROVE  all[i] = disk[op.off + i - 1]
  <2>1. CASE i <= Covered
    BY <1>1, <1>8, <2>1 DEF Place
  <2>2. CASE i > Covered
    <3>1. i - Covered \in 1 .. Step
      BY <1>1, <2>2
    <3>2. at + (i - Covered) - 1 = op.off + i - 1
      BY <1>1
    <3>3. part[i - Covered] = disk[at + (i - Covered) - 1]
      BY <1>2, <3>1
    <3>4. ~(i <= Covered)
      BY <1>1, <2>2
    <3>5. QED
      BY <1>8, <3>2, <3>3, <3>4
  <2>3. QED
    BY <1>1, <2>1, <2>2
<1>6. all = [i \in 1 .. Len(all) |-> all[i]]
  BY <1>8
<1>7. QED
  BY <1>8, <1>5, <1>6 DEF all, part

LEMMA DoneWay ==
  ASSUME DataInv, Clean, Done
  PROVE  OnTheWay'
<1> ~Booting /\ pc = "wait" /\ HasEntry("io")
  BY DEF Done
<1> TypeOK /\ Place /\ Bounds
  BY DEF DataInv, Inv, OnTheWay, Place
<1>1. Fits /\ Executed
  BY AnswerWay DEF Done, Executed
<1>2. disk' = disk /\ data' = data /\ UNCHANGED <<op, before, ops, late>>
  BY DEF Done, Consume, deviceVars
<1>3. CASE Reading
  <2> DEFINE skip == IF op.kind = "read_range" THEN PageOff ELSE 0
  <2>1. /\ cmd.opcode = "read"
        /\ cmd.lba = IF op.kind = "read_range" THEN PageLba ELSE at
        /\ cmd.count = IF op.kind = "read_range" THEN BPP ELSE Step
    BY <1>1, <1>3 DEF Fits, Asks, Reading, Paged, Step
  <2>2. /\ got' = got \o SubSeq(data, skip + 1, skip + Step)
        /\ Advance(Step)
    BY <1>3, <2>1 DEF Done, Reading, Step
  <2>3. skip \in Nat /\ skip + Step <= BPP /\ cmd.lba + skip = at
        /\ skip + Step <= cmd.count /\ cmd.lba \in Nat /\ cmd.count \in Nat
    BY <1>3, <2>1, Ranges DEF Reading, Step
  <2> HIDE DEF skip
  <2>4. \A i \in 1 .. Step : data[skip + i] = disk[at + i - 1]
    <3>1. TAKE i \in 1 .. Step
    <3>2. /\ skip + i \in 1 .. cmd.count
          /\ cmd.lba + (skip + i) - 1 = at + i - 1
      BY <2>3, Ranges
    <3>3. QED
      BY <1>1, <2>1, <3>2 DEF Fits, Brought
  <2>5. got' = [i \in 1 .. Covered + Step |-> disk[op.off + i - 1]]
    BY <1>3, <2>2, <2>3, <2>4, TakenBlocks
  <2>6. disk = After(Covered) /\ ~Writing
    BY <1>3, <2>1 DEF Place, Written, Reading, Writing
  <2>7. QED
    BY <1>2, <2>2, <2>5, <2>6, AdvanceWay
<1>4. CASE cmd.opcode = "read" /\ ~Reading
  <2>1. /\ op.kind \in {"write_range", "zero_range"} /\ cmd.lba = PageLba
        /\ cmd.count = BPP
    BY <1>1, <1>4 DEF Fits, Asks, Reading, Paged, TypeOK, Op, Kinds
  <2>2. /\ page' = [i \in PageCells |->
                      IF i \in PageOff + 1 .. PageOff + Chunk THEN Stored
                                                              ELSE data[i]]
        /\ pc' = "patched" /\ UNCHANGED <<at, left, got, result>>
    BY <1>4, <2>1 DEF Done, Reading
  <2>3. Step = Chunk /\ disk = After(Covered)
    BY <1>4, <2>1 DEF Step, Place, Written
  <2>4. ASSUME NEW i \in PageCells
        PROVE  /\ PageLba + i - 1 \in Lbas
               /\ page'[i] = After(Covered + Step)[PageLba + i - 1]
    <3> DEFINE b == PageLba + i - 1
    <3>1. i \in 1 .. cmd.count
      BY <2>1 DEF PageCells
    <3>2. b \in Lbas /\ data[i] = After(Covered)[b]
      BY <1>1, <1>4, <2>1, <2>3, <3>1 DEF Fits, Brought
    <3>3. i \in PageOff + 1 .. PageOff + Chunk <=>
            b \in at .. at + Chunk - 1
      BY Ranges DEF PageCells
    <3>4. b \in op.off .. op.off + (Covered + Chunk) - 1 <=>
            \/ b \in op.off .. op.off + Covered - 1
            \/ b \in at .. at + Chunk - 1
      BY Ranges DEF PageCells
    <3> HIDE DEF b
    <3>5. page'[i] = After(Covered + Chunk)[b]
      BY <2>1, <2>2, <3>2, <3>3, <3>4 DEF After, Writing
    <3>6. QED
      BY <2>3, <3>2, <3>5 DEF b
  <2>5. /\ Covered' = Covered /\ Written' = Covered /\ Step' = Step
        /\ PageLba' = PageLba
    BY <1>2, <2>2 DEF Covered, Written, Step, Chunk, BlockChunk, PageOff, PageLba
  <2>6. \A n : After(n)' = After(n)
    BY <1>2 DEF After, Stored, Writing
  <2>7. Patch'
    BY <1>2, <2>1, <2>4, <2>5, <2>6 DEF Patch
  <2>8. disk' = After(Written)'
    BY <1>2, <2>3, <2>5 DEF After, Stored, Writing
  <2>9. Place'
    BY <1>2, <2>2, <2>5, <2>8 DEF Place, Bounds, Reading
  <2>10. QED
    BY <2>2, <2>7, <2>9 DEF OnTheWay
<1>5. CASE cmd.opcode # "read"
  <2>1. ~Reading /\ disk = After(Covered + Step)
    BY <1>1, <1>5 DEF Fits, Asks, Place, Written, Reading
  <2>2. Advance(IF op.kind = "write_blocks_from" THEN BlockChunk ELSE Chunk)
    BY <1>5 DEF Done
  <2>3. Advance(Step)
    BY <2>1, <2>2 DEF Step, Reading
  <2>4. ~Writing => After(Covered + Step) = After(Covered)
    BY DEF After
  <2>5. QED
    BY <1>2, <2>1, <2>3, <2>4, AdvanceWay
<1>6. QED
  BY <1>3, <1>4, <1>5

LEMMA FailedWay ==
  ASSUME DataInv, Clean, Failed
  PROVE  OnTheWay'
<1> ~Booting /\ pc = "wait" /\ HasEntry("io") /\ Answer("io") # "ok"
  BY DEF Failed
<1> Place
  BY DEF DataInv, OnTheWay
<1>1. ~Executed /\ Answer("io") = "status"
  BY AnswerWay DEF Executed
<1>2. /\ disk' = disk /\ pc' = "idle" /\ result' = "status"
      /\ UNCHANGED <<op, at, left, got, before, ops, late>>
  BY <1>1 DEF Failed, Return, Consume, deviceVars
<1>3. Written = Covered /\ Written' = Covered' /\ Covered' = Covered
  BY <1>1, <1>2 DEF Written, Covered
<1>4. disk' = After(Written)'
  BY <1>2, <1>3 DEF Place, After, Stored, Writing
<1>5. Place'
  BY <1>2, <1>3, <1>4 DEF Place, Bounds, Reading
<1>6. QED
  BY <1>2, <1>5 DEF OnTheWay

(* The device does the command the driver waits for.                       *)
LEMMA ExecuteWay ==
  ASSUME DataInv, Clean, ~Booting, NEW q \in Queues, NEW ok \in BOOLEAN,
         Execute(q, ok)
  PROVE  OnTheWay'
<1> TypeOK /\ Laps /\ InStep /\ Place /\ Bounds
  BY DEF DataInv, Inv, OnTheWay, Place
<1>1. UNCHANGED <<tail, head, sq, pc, cmd, op, at, left, page, got, result,
                  before, ops, late>>
  BY DEF Execute, driverVars, opVars
<1>2. pc = "wait" /\ q = QueueOf(cmd) /\ Sent(q) /\ tail[q] # sq_head[q]
  BY DEF Execute, InStep, Settled
<1>3. Fits
  BY <1>2 DEF DataInv, OnTheWay
<1>4. q = "io"
  BY <1>2, <1>3 DEF Fits, Asks, QueueOf, AdminOpcodes
<1> DEFINE c == sq["io"][sq_head["io"]]
<1>5. c.opcode = cmd.opcode /\ c.lba = cmd.lba /\ c.count = cmd.count
  BY <1>2, <1>3, <1>4 DEF Fits, IsEntry
<1>6. /\ ok => cmd.lba + cmd.count <= Blocks
      /\ disk' = IF ok /\ cmd.opcode \in {"write", "zeroes"}
                 THEN [b \in Lbas |->
                         IF b \in cmd.lba .. cmd.lba + cmd.count - 1
                         THEN IF cmd.opcode = "zeroes" THEN Zero
                              ELSE data[b - cmd.lba + 1]
                         ELSE disk[b]]
                 ELSE disk
      /\ ok /\ cmd.opcode = "read" =>
           data' = [i \in PageCells |-> IF i <= cmd.count
                                        THEN disk[cmd.lba + i - 1] ELSE data[i]]
      /\ cmd.opcode \in {"write", "zeroes", "flush"} => data' = data
  BY <1>4, <1>5 DEF Execute, InRange
<1> HIDE DEF c
<1>7. Executed' <=> ok
  <2>1. fresh["io"] = 0 /\ tail["io"] = (sq_head["io"] + 1) % Depth
    BY <1>2, <1>4 DEF Sent
  <2>2. head["io"] = cq_tail["io"] /\ head["io"] \in Slots
    <3>1. /\ head["io"] \in 0 .. Depth - 1 /\ cq_tail["io"] \in 0 .. Depth - 1
          /\ Depth \in Nat
      BY NvmeConstants DEF TypeOK, Slots
    <3>2. Lap("io")
      BY DEF Laps
    <3>3. QED
      BY <2>1, <3>1, <3>2 DEF Lap, Slots
  <2>3. sq_head'["io"] = tail["io"]
    BY <1>4, <2>1 DEF Execute, TypeOK
  <2>4. cq'["io"][head["io"]].ok = ok
    BY <1>4, <2>2 DEF Execute, TypeOK
  <2>5. QED
    BY <1>1, <2>3, <2>4 DEF Executed
<1>8. tail'["io"] = sq_head'["io"]
  <2>1. tail["io"] = (sq_head["io"] + 1) % Depth
    BY <1>2, <1>4 DEF Sent
  <2>2. QED
    BY <1>1, <1>4, <2>1 DEF Execute, TypeOK
<1>9. disk = After(Covered) /\ disk \in [Lbas -> Data]
  BY <1>2, <1>4 DEF Place, Written, Executed, TypeOK
<1>10. /\ cmd.lba \in Nat /\ cmd.count \in 0 .. BPP
       /\ op.kind # "flush" => /\ cmd.lba <= at
                               /\ at + Step <= cmd.lba + cmd.count
  <2>1. cmd.lba \in Nat /\ cmd.count \in 0 .. BPP
    BY DEF TypeOK, Command
  <2>2. CASE Paged
    <3>1. Step = Chunk
      BY <2>2 DEF Step, Paged
    <3>2. op.kind # "flush" => cmd.lba = PageLba /\ cmd.count = BPP
      BY <1>3, <2>2 DEF Fits, Asks
    <3>3. QED
      BY <2>1, <3>1, <3>2, Ranges
  <2>3. CASE ~Paged /\ op.kind # "flush"
    <3>1. Step = BlockChunk
      BY <2>3 DEF Step, Paged, TypeOK, Op, Kinds
    <3>2. cmd.lba = at /\ cmd.count = BlockChunk
      BY <1>3, <2>3 DEF Fits, Asks
    <3>3. QED
      BY <2>1, <3>1, <3>2, Ranges
  <2>4. QED
    BY <2>1, <2>2, <2>3
<1>11. cmd.opcode = "zeroes" => /\ op.kind = "zero_range" /\ cmd.lba = at
                                /\ cmd.count = Step
  BY <1>3, Ranges DEF Fits, Asks, Step, TypeOK, Op, Kinds, Reading, Paged
<1>12. ok /\ cmd.opcode # "read" => disk' = After(Covered + Step)
  <2> SUFFICES ASSUME ok, cmd.opcode # "read"
               PROVE  disk' = After(Covered + Step)
    OBVIOUS
  <2>1. CASE cmd.opcode = "flush"
    <3>1. op.kind = "flush"
      BY <1>3, <2>1 DEF Fits, Asks
    <3>2. QED
      BY <1>6, <1>9, <2>1, <3>1 DEF After, Writing
  <2>2. CASE cmd.opcode \in {"write", "zeroes"}
    <3>1. op.kind # "flush"
      BY <1>3, <2>2 DEF Fits, Asks
    <3>2. ASSUME NEW b \in Lbas PROVE disk'[b] = After(Covered + Step)[b]
      <4>1. b \in op.off .. op.off + (Covered + Step) - 1 <=>
              \/ b \in op.off .. op.off + Covered - 1
              \/ b \in at .. at + Step - 1
        BY Ranges DEF Lbas
      <4>2. CASE ~(b \in cmd.lba .. cmd.lba + cmd.count - 1)
        <5>1. ~(b \in at .. at + Step - 1)
          BY <1>10, <3>1, <4>2, Ranges DEF Lbas
        <5>2. disk'[b] = disk[b]
          BY <1>6, <2>2, <4>2
        <5>3. QED
          BY <1>9, <4>1, <5>1, <5>2 DEF After
      <4>3. CASE /\ b \in cmd.lba .. cmd.lba + cmd.count - 1
                 /\ cmd.opcode = "zeroes"
        <5>1. b \in at .. at + Step - 1
          BY <1>11, <4>3
        <5>2. disk'[b] = Zero
          BY <1>6, <4>3
        <5>3. QED
          BY <1>11, <4>1, <4>3, <5>1, <5>2 DEF After, Writing, Stored
      <4>4. CASE /\ b \in cmd.lba .. cmd.lba + cmd.count - 1
                 /\ cmd.opcode = "write"
        <5>1. disk'[b] = data[b - cmd.lba + 1]
          BY <1>6, <4>4
        <5>2. QED
          BY <1>3, <4>4, <5>1 DEF Fits, Brings
      <4>5. QED
        BY <2>2, <4>2, <4>3, <4>4
    <3>3. DOMAIN disk' = Lbas /\ disk' = [b \in Lbas |-> disk'[b]]
      BY <1>6, <2>2
    <3>4. QED
      BY <3>2, <3>3 DEF After
  <2>3. QED
    BY <1>3, <2>1, <2>2 DEF Fits, Asks
<1>13. ~(ok /\ cmd.opcode # "read") => disk' = After(Covered)
  BY <1>6, <1>9
<1>14. \A n : After(n)' = After(n)
  BY <1>1 DEF After, Stored, Writing
<1>15. Covered' = Covered /\ Step' = Step
  BY <1>1 DEF Covered, Step, Chunk, BlockChunk, PageOff
<1>16. Place'
  <2>1. Written' = IF ok /\ cmd.opcode # "read" THEN Covered + Step ELSE Covered
    BY <1>1, <1>2, <1>7, <1>15 DEF Written
  <2>2. disk' = After(Written)'
    BY <1>1, <1>12, <1>13, <2>1 DEF After, Stored, Writing
  <2>3. Reading => disk' = disk
    BY <1>3, <1>6 DEF Fits, Asks, Reading
  <2>4. QED
    BY <1>1, <1>15, <2>2, <2>3 DEF Place, Bounds, Reading
<1>17. Asks(cmd)'
  BY <1>1, <1>3 DEF Fits, Asks, Paged, PageLba, PageOff, BlockChunk, Reading
<1>18. Brings(cmd)'
  BY <1>1, <1>3, <1>6, <1>14, <1>15 DEF Fits, Brings
<1>19. Brought'
  <2> SUFFICES ASSUME cmd.opcode = "read", ok, NEW i \in 1 .. cmd.count
               PROVE  /\ cmd.lba + i - 1 \in Lbas
                      /\ data'[i] = disk'[cmd.lba + i - 1]
    BY <1>1, <1>7 DEF Brought
  <2>1. disk' = disk
    BY <1>6
  <2>2. cmd.lba + i - 1 \in Lbas /\ i \in PageCells /\ i <= cmd.count
    <3>1. cmd.lba + cmd.count <= Blocks
      BY <1>6
    <3>2. /\ cmd.lba \in Nat /\ cmd.count \in Nat /\ cmd.count <= BPP
          /\ BPP \in Nat /\ Blocks \in Nat
      BY <1>10, NvmeConstants
    <3>3. QED
      BY <3>1, <3>2 DEF Lbas, PageCells
  <2>3. QED
    BY <1>6, <2>1, <2>2
<1>20. QED
  BY <1>1, <1>2, <1>8, <1>16, <1>17, <1>18, <1>19 DEF OnTheWay, Fits

LEMMA CallWay ==
  ASSUME DataInv, Clean, NEW o \in Op, Call(o),
         IF o.kind = "flush" THEN o.len = 0 ELSE o.len > 0
  PROVE  OnTheWay'
<1> TypeOK
  BY DEF DataInv, Inv
<1>1. /\ op' = o /\ at' = o.off /\ left' = o.len /\ got' = <<>> /\ pc' = "run"
      /\ result' = "none" /\ before' = disk /\ disk' = disk
      /\ o.off + o.len <= Blocks
  BY DEF Call, deviceVars
<1>2. o.off \in Nat /\ o.len \in Nat
  BY DEF Op
<1>3. Covered' = 0 /\ Written' = 0
  BY <1>1, <1>2 DEF Covered, Written
<1>4. disk' = After(Written)'
  <2>1. \A b \in Lbas : ~(b \in o.off .. o.off + 0 - 1)
    BY <1>2 DEF Lbas
  <2>2. After(Written)' = [b \in Lbas |-> disk[b]]
    BY <1>1, <1>3, <2>1 DEF After
  <2>3. QED
    BY <1>1, <2>2 DEF TypeOK
<1>5. got' = [i \in 1 .. Covered' |-> disk'[op'.off + i - 1]]
  BY <1>1, <1>3
<1>6. Place'
  BY <1>1, <1>2, <1>4, <1>5 DEF Place, Bounds, Reading
<1>7. QED
  BY <1>1, <1>6 DEF OnTheWay

(* Bring-up leaves the operation alone.                                    *)
LEMMA NextBoots ==
  ASSUME DataInv, [Next]_vars
  PROVE  Boots'
<1> SUFFICES ASSUME Booting'
             PROVE  op'.kind = "flush" /\ pc' \notin {"run", "patched"}
  BY DEF Boots
<1> TypeOK
  BY DEF DataInv, Inv
<1> ops \in Nat
  BY DEF TypeOK
<1>1. ASSUME Booting, op' = op, pc' \notin {"run", "patched"}
      PROVE  op'.kind = "flush" /\ pc' \notin {"run", "patched"}
  BY <1>1 DEF DataInv, Boots
<1>2. CASE Disable \/ Enable \/ NotReady \/ BootSubmit
  <2>1. ops' = ops /\ op' = op /\ pc' \notin {"run", "patched"}
    BY <1>2 DEF Disable, Enable, NotReady, BootSubmit, Submit, GiveUp, opVars
  <2>2. QED
    BY <1>1, <2>1 DEF Booting
<1>3. CASE BootDone
  <2>1. op' = op /\ pc' \notin {"run", "patched"}
    BY <1>3 DEF BootDone, AfterBoot, GiveUp, opVars
  <2>2. QED
    BY <1>1, <1>3, <2>1 DEF BootDone
<1>4. CASE ReadPage \/ ReadChunk \/ WritePage \/ WriteChunk \/ ZeroPage
           \/ Flush \/ Done \/ Failed
  <2>1. ops' = ops /\ (Booting => pc \in {"run", "patched"})
    BY <1>4 DEF ReadPage, ReadChunk, WritePage, WriteChunk, ZeroPage, Flush,
                Done, Failed, opVars
  <2>2. QED
    BY <2>1 DEF DataInv, Boots, Booting
<1>5. CASE Timeout
  <2>1. op' = op /\ ops' = ops /\ pc' \notin {"run", "patched"}
    BY <1>5 DEF Timeout, GiveUp, Return
  <2>2. QED
    BY <1>1, <2>1 DEF Booting
<1>6. CASE Callers
  BY <1>6 DEF Callers, Call, Booting
<1>7. CASE Device \/ UNCHANGED vars
  <2>1. op' = op /\ ops' = ops /\ pc' = pc
    BY <1>7 DEF Device, Execute, vars, opVars
  <2>2. QED
    BY <2>1 DEF DataInv, Boots, Booting
<1>8. QED
  BY <1>2, <1>3, <1>4, <1>5, <1>6, <1>7 DEF Next, Driver

LEMMA NextOnTheWay ==
  ASSUME DataInv, [Next]_vars
  PROVE  OnTheWay'
<1> SUFFICES ASSUME Clean', ~Booting' PROVE OnTheWay'
  BY DEF OnTheWay
<1>0. CASE Callers
  <2>1. Clean
    BY <1>0 DEF Callers, Call, Clean
  <2>2. PICK o \in Op : /\ Call(o)
                        /\ IF o.kind = "flush" THEN o.len = 0 ELSE o.len > 0
    <3>1. NoOp \in Op /\ NoOp.kind = "flush" /\ NoOp.len = 0
      BY NvmeConstants DEF NoOp, Op, Kinds
    <3>2. ASSUME NEW off \in Lbas, NEW len \in Lengths, NEW v \in Fill,
                 NEW k \in Kinds \ {"flush"}
          PROVE  /\ [kind |-> k, off |-> off, len |-> len, val |-> v] \in Op
                 /\ [kind |-> k, off |-> off, len |-> len, val |-> Zero] \in Op
                 /\ len > 0
      BY NvmeConstants DEF Op, Lbas
    <3>3. PICK off \in Lbas, len \in Lengths, v \in Fill :
             \/ \E k \in Kinds \ {"flush"} :
                   \/ Call([kind |-> k, off |-> off, len |-> len, val |-> v])
                   \/ Call([kind |-> k, off |-> off, len |-> len, val |-> Zero])
             \/ Call(NoOp)
      BY <1>0 DEF Callers, Kinds
    <3>4. CASE Call(NoOp)
      BY <3>1, <3>4
    <3>5. ASSUME NEW k \in Kinds \ {"flush"}, NEW x \in {v, Zero},
                 Call([kind |-> k, off |-> off, len |-> len, val |-> x])
          PROVE  \E o \in Op : /\ Call(o)
                               /\ IF o.kind = "flush" THEN o.len = 0
                                                      ELSE o.len > 0
      <4> DEFINE o == [kind |-> k, off |-> off, len |-> len, val |-> x]
      <4>1. o \in Op /\ o.kind # "flush" /\ o.len > 0
        BY <3>2
      <4> HIDE DEF o
      <4>2. Call(o)
        BY <3>5 DEF o
      <4>3. QED
        BY <4>1, <4>2
    <3>6. QED
      BY <3>3, <3>4, <3>5
  <2>3. QED
    BY <2>1, <2>2, CallWay
<1>1. ASSUME ~Callers PROVE ops' = ops
  BY <1>1
     DEF Next, Driver, Disable, Enable, NotReady, BootSubmit, BootDone, GiveUp,
         ReadPage, ReadChunk, WritePage, WriteChunk, ZeroPage, Flush, Done,
         Failed, Timeout, Device, Execute, opVars, vars
<1> SUFFICES ASSUME ~Callers, ~Booting PROVE OnTheWay'
  BY <1>0, <1>1 DEF Booting
<1>2. CASE Timeout
  BY <1>2 DEF Timeout, Clean
<1> SUFFICES ASSUME ~Timeout, Clean PROVE OnTheWay'
  <2>1. ~Timeout => late' = late
    BY DEF Next, Driver, Disable, Enable, NotReady, BootSubmit, BootDone,
           ReadPage, ReadChunk, WritePage, WriteChunk, ZeroPage, Flush, Done,
           Failed, Device, Execute, vars, Submit, Consume
  <2>2. QED
    BY <1>2, <2>1 DEF Clean
<1> Place
  BY DEF DataInv, OnTheWay
<1>3. CASE Disable \/ Enable \/ NotReady \/ BootSubmit \/ BootDone
  BY <1>3 DEF Disable, Enable, NotReady, BootSubmit, BootDone, Place,
              AdminOpcodes
<1>4. CASE ReadPage \/ ReadChunk
  BY <1>4, ReadWay
<1>5. CASE WritePage
  BY <1>5, WritePageWay
<1>6. CASE WriteChunk
  BY <1>6, WriteChunkWay
<1>7. CASE ZeroPage \/ Flush
  BY <1>7, PlainWay
<1>8. CASE Done
  BY <1>8, DoneWay
<1>9. CASE Failed
  BY <1>9, FailedWay
<1>10. CASE Device
  BY <1>10, ExecuteWay DEF Device
<1>11. CASE UNCHANGED vars
  BY <1>11
     DEF vars, opVars, driverVars, deviceVars, DataInv, OnTheWay, Clean,
         Booting, Place, Bounds, Written, Executed, After, Writing, Reading,
         Paged, Stored, Covered, Step, Chunk, BlockChunk, PageOff, PageLba,
         Fits, Asks, Brings, Brought, IsEntry, Patch
<1>12. QED
  BY <1>3, <1>4, <1>5, <1>6, <1>7, <1>8, <1>9, <1>10, <1>11 DEF Next, Driver

LEMMA DataInvariant == Spec => []DataInv
<1>1. Init => DataInv
  BY InitType, InitLaps, InitInStep, InitData DEF DataInv, Inv
<1>2. DataInv /\ [Next]_vars => DataInv'
  BY NextType, NextLaps, NextInStep, NextBoots, NextOnTheWay DEF DataInv, Inv
<1>3. QED
  BY <1>1, <1>2, PTL DEF Spec

(* Whatever its alignment and length, and whatever commands the device     *)
(* refused before, a read puts the blocks of the disk in the caller's      *)
(* buffer, in order: of a page only those that are asked for.              *)
THEOREM ReadsCorrect == Spec => []ReadsTheDisk
BY DataInvariant, DataReads, PTL

(* Whatever its alignment and length, a write changes the blocks of its    *)
(* range, from the first on, and no other; a page that is read, patched    *)
(* and written back keeps the blocks around them.                          *)
THEOREM WritesCorrect == Spec => []WritesPrefix
BY DataInvariant, DataWrites, PTL

=============================================================================
