--------------------------- MODULE ScancodeQueue ---------------------------
(***************************************************************************)
(* The queue between the keyboard interrupt and the terminal of the        *)
(* vibuxOS kernel (kernel/src/arch/x86_64/idt.rs): a ring of Size slots    *)
(* with two wrapping cursors, and no counter to tell full from empty.      *)
(*                                                                         *)
(* One processor runs both sides: pop is interrupted between any two of    *)
(* its accesses to the cursors and the buffer, push, which is part of the  *)
(* interrupt handler, is not.                                              *)
(***************************************************************************)
EXTENDS Integers, Sequences

CONSTANTS
  Size,  \* SCANCODE_QUEUE_SIZE, which is also where a cursor wraps
  Code,  \* the scancodes
  None   \* Option::None

ASSUME QueueConstants ==
  /\ Size \in Nat /\ Size >= 2
  /\ None \notin Code

Slots == 0 .. Size - 1

VARIABLES
  slots,   \* the buffer
  head,    \* where push writes
  tail,    \* where pop reads
  at,      \* where pop is
  loaded,  \* the tail that pop has loaded
  value,   \* the code that pop has read
  answer   \* the answer of the last pop

popVars == <<at, loaded, value, answer>>
queueVars == <<slots, head, tail, popVars>>

QueueInit ==
  /\ \E zero \in Code : slots = [i \in Slots |-> zero]
  /\ head = 0 /\ tail = 0
  /\ at = "idle" /\ loaded = 0 /\ value = None /\ answer = None

\* head.wrapping_add(1)
After(cursor) == (cursor + 1) % Size

\* Faulty variant of the next: nothing is compared, a full ring is overrun.
PushUnchecked(code) ==
  /\ slots' = [slots EXCEPT ![head] = code]
  /\ head' = After(head)
  /\ UNCHANGED <<tail, popVars>>

Push(code) ==
  /\ IF After(head) = tail
     THEN UNCHANGED <<slots, head>>
     ELSE /\ slots' = [slots EXCEPT ![head] = code]
          /\ head' = After(head)
  /\ UNCHANGED <<tail, popVars>>

LoadTail ==
  /\ at = "idle"
  /\ loaded' = tail
  /\ at' = "loaded"
  /\ UNCHANGED <<slots, head, tail, value, answer>>

\* The head it loads here may be old by the next step.
LoadHead ==
  /\ at = "loaded"
  /\ IF loaded = head THEN at' = "idle" /\ answer' = None
                    ELSE at' = "read" /\ UNCHANGED answer
  /\ UNCHANGED <<slots, head, tail, loaded, value>>

ReadSlot ==
  /\ at = "read"
  /\ value' = slots[loaded]
  /\ at' = "store"
  /\ UNCHANGED <<slots, head, tail, loaded, answer>>

StoreTail ==
  /\ at = "store"
  /\ tail' = After(loaded)
  /\ answer' = value
  /\ at' = "idle"
  /\ UNCHANGED <<slots, head, loaded, value>>

QueueNext ==
  \/ \E code \in Code : Push(code)
  \/ LoadTail \/ LoadHead \/ ReadSlot \/ StoreTail

QueueSpec == QueueInit /\ [][QueueNext]_queueVars

(***************************************************************************)
(* Properties.                                                             *)
(***************************************************************************)

\* Every variable has its type.
QueueTypeOK ==
  /\ slots \in [Slots -> Code]
  /\ head \in Slots /\ tail \in Slots /\ loaded \in Slots
  /\ at \in {"idle", "loaded", "read", "store"}
  /\ value \in Code \cup {None} /\ answer \in Code \cup {None}

\* The codes between the cursors.
Count == IF tail <= head THEN head - tail ELSE head + Size - tail
Slot(i) == IF tail + i <= Size THEN tail + i - 1 ELSE tail + i - 1 - Size
Waiting == [i \in 1 .. Count |-> slots[Slot(i)]]

CodeFifo == INSTANCE ScancodeFifo
          WITH queue <- Waiting, Max <- Size - 1

\* The ring is the bounded queue, wherever an interrupt falls into a pop: no
\* key is lost that fits, none comes twice or out of order, no slot is
\* written while its code waits, and pop finds nothing only when there is
\* nothing, although the full ring and the empty one differ by one slot.
ImplementsCodeFifo == CodeFifo!Spec

=============================================================================
