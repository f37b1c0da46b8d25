-------------------------------- MODULE Tty --------------------------------
(***************************************************************************)
(* Terminal input of the vibuxOS kernel (kernel/src/tty.rs and the         *)
(* keyboard and timer interrupts of kernel/src/arch/x86_64/idt.rs).        *)
(*                                                                         *)
(* The keyboard interrupt treats modifiers and control keys at once and    *)
(* queues every other scancode.  A read of the terminal turns scancodes    *)
(* into bytes, edits the line and moves finished lines to the input ring.  *)
(* A system call starts with interrupts off; from its first sti on, the    *)
(* interrupt can come between any two steps of the reader, and both edit   *)
(* LINE_LEN and push to the ring.  A build keeps a static it has just read *)
(* in a register or reads it again: both are modelled.                     *)
(*                                                                         *)
(* Bytes are abstracted to what the line editor tells apart; each carries  *)
(* the number of the key press it comes from.                              *)
(***************************************************************************)
EXTENDS Integers, Sequences, FiniteSets

CONSTANTS
  RingSize,     \* INPUT_CAPACITY
  LineSize,     \* LINE_CAPACITY
  QueueMax,     \* scancodes the queue holds: SCANCODE_QUEUE_SIZE - 1
  Codes,        \* bound: the keys that are pressed
  SerialBytes,  \* bound: the bytes that arrive on the serial line
  Modes,        \* bound: the local flags programs set
  MaxKeys       \* bound: how many keys are pressed

(* ICANON and ISIG.                                                        *)
Mode == [canon : BOOLEAN, isig : BOOLEAN]
CodeNames == {"c", "d", "l", "enter", "backspace", "f1"}
ByteNames == {"letter", "etx", "eot", "ff", "nl", "del", "nul"}

ASSUME TtyConstants ==
  /\ RingSize \in Nat \ {0}
  /\ LineSize \in Nat \ {0}
  /\ QueueMax \in Nat
  /\ Codes \subseteq CodeNames
  /\ SerialBytes \subseteq ByteNames \ {"nul"}
  /\ Modes \subseteq Mode
  /\ MaxKeys \in Nat

VARIABLES
  halted,     \* the kernel panicked: an overflow check failed
  queue,      \* SCANCODES (module ScancodeQueue)
  ctrl,       \* CTRL
  mode,       \* LFLAG
  pending,    \* a signal from the terminal waits to be delivered
  input,      \* INPUT
  input_head, \* INPUT_HEAD
  input_tail, \* INPUT_TAIL
  line,       \* LINE
  line_len,   \* LINE_LEN
  pc,         \* where the reader is; "user": no read is under way
  enabled,    \* the read under way has executed sti
  raw,        \* the byte in process
  seen,       \* LINE_LEN as the reader last read it
  index,      \* flush_line: the next byte of the line
  next,       \* push_input: the tail to store
  typed,      \* ghost: key presses so far
  direct,     \* ghost: the keys that never were in the queue
  out,        \* ghost: the bytes that read returned, in order
  dropped,    \* ghost: the keys that were given up
  raced       \* ghost: an interrupt came in the middle of an update

inputVars == <<input, input_head, input_tail>>
lineVars == <<line, line_len>>
locals == <<raw, seen, index, next>>
ghosts == <<typed, direct, out, dropped, raced>>
vars == <<halted, queue, ctrl, mode, pending, inputVars, lineVars, pc, enabled,
          locals, ghosts>>

InputSlots == 0..(RingSize - 1)
Keys == 1..MaxKeys
NoByte == [byte |-> "nul", key |-> 0]
KeyByte(b, k) == [byte |-> b, key |-> k]
KeysOf(bytes) == {bytes[i].key : i \in 1..Len(bytes)}

Init ==
  /\ halted = FALSE
  /\ queue = <<>>
  /\ ctrl = FALSE
  /\ mode = [canon |-> TRUE, isig |-> TRUE]
  /\ pending = FALSE
  /\ input = [i \in InputSlots |-> NoByte]
  /\ input_head = 0
  /\ input_tail = 0
  /\ line = [i \in 0..(LineSize - 1) |-> NoByte]
  /\ line_len = 0
  /\ pc = "user"
  /\ enabled = FALSE
  /\ raw = NoByte
  /\ seen = 0
  /\ index = 0
  /\ next = 0
  /\ typed = 0
  /\ direct = {}
  /\ out = <<>>
  /\ dropped = {}
  /\ raced = FALSE

----------------------------------------------------------------------------
(* The input ring.                                                         *)
InputCount == (input_tail + RingSize - input_head) % RingSize
(* Faulty variant: the last free slot is used, and a full ring looks empty.*)
RoomOneMore == RingSize - InputCount
Room == RingSize - 1 - InputCount
Fits(bytes) == IF Len(bytes) <= Room THEN Len(bytes) ELSE Room

(* push_input of each of the bytes, in one interrupt: what does not fit is *)
(* dropped.                                                                *)
PushAll(bytes) ==
  /\ input' = [i \in InputSlots |->
                 LET d == (i + RingSize - input_tail) % RingSize
                 IN IF d < Fits(bytes) THEN bytes[d + 1] ELSE input[i]]
  /\ input_tail' = (input_tail + Fits(bytes)) % RingSize
  /\ input_head' = input_head

NotFitting(bytes) == KeysOf(SubSeq(bytes, Fits(bytes) + 1, Len(bytes)))

Line(from) == [i \in 1..(line_len - from) |-> line[from + i - 1]]

(* The reader is in the middle of an update of the line, or of the ring.   *)
EditsLine == pc \in {"erase", "store", "count", "load", "push", "clear"}
Pushes == pc = "push"

----------------------------------------------------------------------------
(* Interrupts come in user code and after the first sti of a call; they    *)
(* end a hlt.                                                              *)
Interrupt ==
  /\ ~halted
  /\ pc = "user" \/ enabled
  /\ pc' = IF pc = "halt" THEN "check" ELSE pc
  /\ UNCHANGED <<halted, mode, line, enabled, locals, out>>

(* The timer interrupt.  Faulty variant: it does not end the hlt.          *)
TimerTickUnheard ==
  /\ Interrupt
  /\ pc # "halt"
  /\ UNCHANGED <<queue, ctrl, pending, inputVars, line_len, typed, direct,
                 dropped, raced>>

TimerTick ==
  /\ Interrupt
  /\ UNCHANGED <<queue, ctrl, pending, inputVars, line_len, typed, direct,
                 dropped, raced>>

(* The control key is pressed or released.                                 *)
Control ==
  /\ Interrupt
  /\ ctrl' = ~ctrl
  /\ UNCHANGED <<queue, pending, inputVars, line_len, typed, direct,
                 dropped, raced>>

(* ScancodeQueue::push                                                     *)
QueueKey(code) ==
  /\ queue' = IF Len(queue) < QueueMax
              THEN Append(queue, [code |-> code, key |-> typed']) ELSE queue
  /\ dropped' = IF Len(queue) < QueueMax THEN dropped
                                         ELSE dropped \union {typed'}
  /\ UNCHANGED <<pending, inputVars, line_len, direct, raced>>

(* A control key pushes its byte.                                          *)
PushKey(byte) ==
  /\ PushAll(<<KeyByte(byte, typed')>>)
  /\ dropped' = dropped \union NotFitting(<<KeyByte(byte, typed')>>)
  /\ direct' = direct \union {typed'}
  /\ raced' = (raced \/ Pushes)
  /\ UNCHANGED <<queue, pending, line_len>>

(* Control-C (and control-\ and control-Z): the line is forgotten, and a   *)
(* signal is raised, if ISIG is set, which counts unless it is blocked or  *)
(* ignored.                                                                *)
Kill ==
  /\ line_len' = 0
  /\ IF mode.isig
     THEN /\ pending' \in {pending, TRUE}
          /\ dropped' = dropped \union KeysOf(Line(0)) \union {typed'}
          /\ UNCHANGED inputVars
     ELSE /\ PushAll(<<KeyByte("etx", typed')>>)
          /\ dropped' = dropped \union KeysOf(Line(0))
                                \union NotFitting(<<KeyByte("etx", typed')>>)
          /\ pending' = pending
  /\ direct' = direct \union {typed'}
  /\ raced' = (raced \/ EditsLine)
  /\ queue' = queue

(* Control-D flushes the line, or leaves the mark of an end of file.       *)
EndOfFile ==
  IF ~mode.canon THEN PushKey("eot")
  ELSE IF line_len = 0 THEN PushKey("nul")
  ELSE LET bytes == Append(Line(0), KeyByte("nl", typed'))
       IN /\ PushAll(bytes)
          /\ dropped' = dropped \union NotFitting(bytes)
          /\ line_len' = 0
          /\ direct' = direct \union {typed'}
          /\ raced' = (raced \/ EditsLine)
          /\ UNCHANGED <<queue, pending>>

(* handle_keyboard_interrupt of a key that is no modifier.                 *)
KeyPress(code) ==
  /\ Interrupt
  /\ typed < MaxKeys
  /\ typed' = typed + 1
  /\ CASE ctrl /\ code = "c" -> Kill
       [] ctrl /\ code = "d" -> EndOfFile
       [] ctrl /\ code = "l" -> PushKey("ff")
       [] OTHER -> QueueKey(code)
  /\ ctrl' = ctrl

----------------------------------------------------------------------------
(* The reader: read_fd, read_byte and what they call.                      *)
Reader(from) == ~halted /\ pc = from /\ UNCHANGED <<ctrl, mode, typed, raced>>

KeepShared == UNCHANGED <<halted, queue, pending, inputVars, lineVars>>
KeepLocals == UNCHANGED <<enabled, locals>>

(* A program sets the terminal's flags.                                    *)
set_lflag ==
  /\ ~halted
  /\ pc = "user"
  /\ mode' \in Modes \ {mode}
  /\ KeepShared
  /\ KeepLocals
  /\ UNCHANGED <<ctrl, pc, ghosts>>

(* read of the terminal: the call starts with interrupts off.              *)
StartRead ==
  /\ Reader("user")
  /\ pc' = "check"
  /\ KeepShared
  /\ KeepLocals
  /\ UNCHANGED <<direct, out, dropped>>

(* The call returns and a signal is delivered.                             *)
ToUser ==
  /\ pc' = "user"
  /\ enabled' = FALSE
  /\ pending' = FALSE
  /\ raw' = NoByte /\ seen' = 0 /\ index' = 0 /\ next' = 0
  /\ UNCHANGED <<halted, direct>>

Consumed(byte, key) ==
  out' = Append(out, KeyByte(byte, key)) /\ dropped' = dropped
GivenUp(key) == out' = out /\ dropped' = dropped \union {key}

(* read_fd with a byte: 0 is the end of the file, or EINTR if a signal     *)
(* arrived; any other byte is copied out, which may fail.                  *)
Deliver(byte, key) ==
  /\ \/ Consumed(byte, key) /\ ~(byte = "nul" /\ pending)
     \/ GivenUp(key) /\ (byte = "nul" => pending)
  /\ ToUser

(* pop_input: only the reader moves head, and the interrupt never writes   *)
(* the slots in use.                                                       *)
pop_input ==
  /\ input_head # input_tail
  /\ input_head' = (input_head + 1) % RingSize
  /\ Deliver(input[input_head].byte, input[input_head].key)
  /\ UNCHANGED <<input, input_tail, queue, lineVars>>

(* Moves on and changes nothing that is shared.                            *)
Goto(to) ==
  /\ pc' = to
  /\ KeepShared
  /\ KeepLocals
  /\ UNCHANGED <<direct, out, dropped>>

(* signal_pending_unblocked, twice in the loop: read_byte answers 0.       *)
(* Faulty variant: the signal is not looked at.                            *)
CheckSignalIgnored(from, to) == Reader(from) /\ Goto(to)

CheckSignal(from, to) ==
  /\ Reader(from)
  /\ \/ ~pending /\ Goto(to)
     \/ /\ pending
        /\ ToUser
        /\ UNCHANGED <<queue, inputVars, lineVars, out, dropped>>

(* The bytes already there, and those there after a byte was processed.    *)
Pop(from, to) ==
  /\ Reader(from)
  /\ pop_input \/ (input_head = input_tail /\ Goto(to))

(* poll_raw_input: the serial line comes first.                            *)
PollSerial ==
  /\ ~halted
  /\ pc = "poll"
  /\ typed < MaxKeys
  /\ typed' = typed + 1
  /\ direct' = direct \union {typed'}
  /\ \E b \in SerialBytes : raw' = KeyByte(b, typed')
  /\ pc' = "process"
  /\ KeepShared
  /\ UNCHANGED <<ctrl, mode, enabled, seen, index, next, out, dropped, raced>>

(* keyboard_ascii, with the modifiers of now, not of the key press.        *)
keyboard_ascii(code) ==
  IF ctrl THEN CASE code = "c" -> {"etx"}
                 [] code = "d" -> {"eot"}
                 [] code = "l" -> {"ff"}
                 [] OTHER -> {}
  ELSE CASE code = "enter" -> {"nl"}
         [] code = "backspace" -> {"del"}
         [] code = "f1" -> {}
         [] OTHER -> {"letter"}

(* The keyboard.  A key without a byte ends the poll, whatever is queued.  *)
PollKeyboard ==
  /\ Reader("poll")
  /\ queue # <<>>
  /\ queue' = Tail(queue)
  /\ LET bytes == keyboard_ascii(queue[1].code)
     IN \/ /\ bytes = {}
           /\ pc' = "recheck"
           /\ GivenUp(queue[1].key)
           /\ raw' = raw
        \/ /\ pc' = "process"
           /\ \E b \in bytes : raw' = KeyByte(b, queue[1].key)
           /\ UNCHANGED <<out, dropped>>
  /\ UNCHANGED <<halted, pending, inputVars, lineVars, enabled, seen, index,
                 next, direct>>

PollNothing ==
  /\ Reader("poll")
  /\ queue = <<>>
  /\ Goto("recheck")

----------------------------------------------------------------------------
(* process_input_byte.  Each branch up to the first point where an         *)
(* interrupt makes a difference is a step.                                 *)
Signalled == mode.isig /\ raw.byte = "etx"
Process == Reader("process") /\ UNCHANGED <<queue, inputVars, line, direct>>
Edits(bytes) == Process /\ mode.canon /\ ~Signalled /\ raw.byte \in bytes

(* The step ends the processing: the byte is given up, with these keys.    *)
Done(keys) ==
  /\ pc' = "take"
  /\ raw' = NoByte
  /\ dropped' = dropped \union keys \union {raw.key}
  /\ UNCHANGED <<halted, enabled, seen, index, next, out>>

ProcessSignal ==
  /\ Process
  /\ Signalled
  /\ line_len' = 0
  /\ pending' \in {pending, TRUE}
  /\ Done(KeysOf(Line(0)))

ProcessUncooked ==
  /\ Process
  /\ ~mode.canon /\ ~Signalled
  /\ Deliver(raw.byte, raw.key)
  /\ line_len' = line_len

ProcessDelete ==
  /\ Edits({"del"})
  /\ \/ line_len = 0 /\ Done({})
     \/ /\ line_len # 0
        /\ pc' = "erase"
        /\ seen' = line_len
        /\ GivenUp(raw.key)
        /\ raw' = NoByte
        /\ UNCHANGED <<halted, enabled, index, next>>
  /\ UNCHANGED <<line_len, pending>>

(* The trace that is written before flush_line takes its time.             *)
ProcessEof ==
  /\ Edits({"eot"})
  /\ \/ line_len = 0 /\ Deliver("nul", raw.key)
     \/ /\ line_len # 0
        /\ pc' = "flush"
        /\ UNCHANGED <<halted, pending, locals, enabled, out, dropped>>
  /\ line_len' = line_len

BeginFlush ==
  /\ \/ Edits({"nl"})
     \/ Reader("flush") /\ UNCHANGED <<queue, inputVars, line, direct>>
  /\ pc' = "load"
  /\ seen' = line_len
  /\ UNCHANGED <<halted, pending, line_len, enabled, raw, index, next, out,
                 dropped>>

(* One slot is never used.  Faulty variant: it is.                         *)
LineFullAtEnd == line_len >= LineSize
LineFull == line_len >= LineSize - 1

ProcessOther ==
  /\ Edits(ByteNames \ {"del", "eot", "nl"})
  /\ \/ LineFull /\ Done({})
     \/ /\ ~LineFull
        /\ pc' = "store"
        /\ seen' = line_len
        /\ UNCHANGED <<halted, enabled, raw, index, next, out, dropped>>
  /\ UNCHANGED <<pending, line_len>>

(* LINE_LEN is read again, or not, in the second half of an update.        *)
Rereads == {seen, line_len}
KeepRing == UNCHANGED <<halted, queue, pending, inputVars, enabled, direct>>

(* LINE_LEN -= 1.  If an interrupt has emptied the line the subtraction    *)
(* overflows, and a build that checks it panics.                           *)
Erase ==
  /\ Reader("erase")
  /\ \E len \in Rereads :
       IF len = 0
       THEN halted' = TRUE /\ UNCHANGED <<line_len, dropped>>
       ELSE /\ line_len' = len - 1
            /\ dropped' = dropped \union {line[len - 1].key}
            /\ halted' = halted
  /\ pc' = "take"
  /\ seen' = 0
  /\ UNCHANGED <<queue, pending, inputVars, line, enabled, direct, raw, index,
                 next, out>>

(* LINE[LINE_LEN] = byte; LINE_LEN += 1                                    *)
Store ==
  /\ Reader("store")
  /\ \E len \in Rereads : line' = [line EXCEPT ![len] = raw]
  /\ pc' = "count"
  /\ KeepRing
  /\ UNCHANGED <<line_len, locals, out, dropped>>

CountUp ==
  /\ Reader("count")
  /\ \E len \in Rereads : line_len' = len + 1
  /\ pc' = "take"
  /\ raw' = NoByte
  /\ seen' = 0
  /\ KeepRing
  /\ UNCHANGED <<line, index, next, out, dropped>>

(* flush_line: the bytes of 0..LINE_LEN, its value at the start, then a    *)
(* newline.                                                                *)
Sent == IF index < seen THEN line[index] ELSE KeyByte("nl", raw.key)
NextByte ==
  /\ index' = index + 1
  /\ pc' = IF index = seen THEN "clear" ELSE "load"
  /\ raw' = IF index = seen THEN NoByte ELSE raw

(* push_input: next is computed; a full ring drops the byte.               *)
Load ==
  /\ Reader("load")
  /\ LET after == (input_tail + 1) % RingSize
     IN IF after = input_head
        THEN NextByte /\ GivenUp(Sent.key) /\ next' = next
        ELSE /\ pc' = "push"
             /\ next' = after
             /\ UNCHANGED <<raw, index, out, dropped>>
  /\ KeepRing
  /\ UNCHANGED <<lineVars, seen>>

(* INPUT[INPUT_TAIL] = byte; INPUT_TAIL = next.  The tail is read again,   *)
(* or not.                                                                 *)
StoreByte ==
  /\ Reader("push")
  /\ \E slot \in {input_tail, (next + RingSize - 1) % RingSize} :
       input' = [input EXCEPT ![slot] = Sent]
  /\ input_tail' = next
  /\ next' = 0
  /\ NextByte
  /\ UNCHANGED <<halted, queue, pending, input_head, lineVars, enabled, direct,
                 seen, out, dropped>>

(* LINE_LEN = 0.  Faulty variant: the line is not forgotten.               *)
ClearNothing ==
  /\ Reader("clear")
  /\ pc' = "take"
  /\ index' = 0 /\ seen' = 0
  /\ KeepRing
  /\ UNCHANGED <<lineVars, raw, next, out, dropped>>

Clear ==
  /\ Reader("clear")
  /\ line_len' = 0
  /\ pc' = "take"
  /\ index' = 0 /\ seen' = 0
  /\ KeepRing
  /\ UNCHANGED <<line, raw, next, out, dropped>>

----------------------------------------------------------------------------
(* sti; hlt.  The first sti of a call takes effect after the hlt has       *)
(* begun; later in the call interrupts are on already, and one that comes  *)
(* just before the hlt does not end it.                                    *)
Halt ==
  /\ Reader("sleep")
  /\ pc' = "halt"
  /\ enabled' = TRUE
  /\ KeepShared
  /\ UNCHANGED <<locals, direct, out, dropped>>

ReaderStep ==
  \/ CheckSignal("check", "pop")
  \/ Pop("pop", "poll")
  \/ PollSerial \/ PollKeyboard \/ PollNothing
  \/ ProcessSignal \/ ProcessUncooked \/ ProcessDelete \/ ProcessEof
  \/ BeginFlush \/ ProcessOther
  \/ Erase \/ Store \/ CountUp \/ Load \/ StoreByte \/ Clear
  \/ Pop("take", "check")
  \/ CheckSignal("recheck", "sleep")
  \/ Halt

Next ==
  \/ set_lflag
  \/ StartRead
  \/ ReaderStep
  \/ TimerTick
  \/ Control
  \/ \E code \in Codes : KeyPress(code)

Spec == Init /\ [][Next]_vars

(* The processor executes the call, and the interval timer ticks.          *)
FairSpec == Spec /\ WF_vars(ReaderStep) /\ WF_vars(TimerTick)

----------------------------------------------------------------------------
(* Types, and the bounds of the line and the ring, whatever interrupts     *)
(* come in between.                                                        *)
ByteType == [byte : ByteNames, key : 0..MaxKeys]
TypeOK ==
  /\ halted \in BOOLEAN /\ ctrl \in BOOLEAN /\ pending \in BOOLEAN
  /\ enabled \in BOOLEAN /\ raced \in BOOLEAN
  /\ mode \in Mode
  /\ Len(queue) <= QueueMax
  /\ \A i \in DOMAIN queue : queue[i] \in [code : Codes, key : Keys]
  /\ input \in [InputSlots -> ByteType]
  /\ input_head \in InputSlots /\ input_tail \in InputSlots
  /\ next \in InputSlots
  /\ line \in [0..(LineSize - 1) -> ByteType]
  /\ line_len \in 0..(LineSize - 1) /\ seen \in 0..(LineSize - 1)
  /\ index \in 0..LineSize
  /\ raw \in ByteType
  /\ pc \in {"user", "check", "pop", "poll", "process", "erase", "store",
             "count", "flush", "load", "push", "clear", "take", "recheck",
             "sleep", "halt"}
  /\ typed \in 0..MaxKeys
  /\ direct \subseteq Keys /\ dropped \subseteq 0..MaxKeys
  /\ \A i \in DOMAIN out : out[i] \in ByteType

(* The keys on their way to the reader, the oldest first.                  *)
KeySeq(bytes) == [i \in DOMAIN bytes |-> bytes[i].key]
Ring == [i \in 1..InputCount |-> input[(input_head + i - 1) % RingSize]]
Unsent == IF pc = "clear" THEN <<>> ELSE Line(index)
InProcess == IF raw.key = 0 THEN <<>> ELSE <<raw>>
Held == KeySeq(out) \o KeySeq(Ring) \o KeySeq(Unsent) \o KeySeq(InProcess)
            \o KeySeq(queue)

(* Every key is in one place: read, in the ring, in the line, in process,  *)
(* in the scancode queue, or given up.  No interleaving of the reader and  *)
(* the keyboard interrupt loses or doubles a key, as long as the interrupt *)
(* does not fall into an update of the line or of the ring's tail.         *)
KeysAccounted ==
  ~raced =>
    \A k \in 1..typed :
      Cardinality({i \in DOMAIN Held : Held[i] = k}) =
        IF k \in dropped THEN 0 ELSE 1

(* In canonical mode what is typed is read in the order of typing, also    *)
(* when the interrupt flushes the line or fills the ring under the reader. *)
(* Not so the bytes the interrupt itself pushes, which overtake the        *)
(* scancode queue, and an end of file, which may overtake a line that the  *)
(* interrupt flushed after the reader had taken the control-D.             *)
Eofs == {i \in DOMAIN out : out[i].byte = "nul"}
Apart == direct \union {out[i].key : i \in Eofs}
KeysInOrder ==
  ~raced =>
    \A i, j \in DOMAIN Held :
      (i < j /\ Held[i] \notin Apart /\ Held[j] \notin Apart)
        => Held[i] < Held[j]

(* A key that is queued while a program reads does not wait for ever.      *)
KeysConsumed ==
  (pc # "user" /\ queue # <<>>) ~> (pc = "user" \/ queue = <<>> \/ halted)

(* A read returns when there is a byte for it or a signal, also when they  *)
(* arrive between the last look and the hlt.                               *)
ReadReturns ==
  (pc # "user" /\ (pending \/ input_head # input_tail))
    ~> (pc = "user" \/ halted)
----------------------------------------------------------------------------
(* The inductive invariants behind TypeOK, KeysAccounted and KeysInOrder.  *)

(* Where the reader is in the line.  An interrupt can only shorten it, so  *)
(* the slot it stores to stays in the line.                                *)
LinePlace ==
  /\ queue \in Seq([code : Codes, key : Keys])
  /\ out \in Seq(ByteType)
  /\ pc \in {"store", "count"} => line_len <= seen /\ seen < LineSize - 1
  /\ pc \in {"load", "push"} => index <= seen
  /\ pc \notin {"load", "push", "clear"} => index = 0
  /\ raw.key # 0 <=>
       pc \in {"process", "flush", "store", "count", "load", "push"}
TtyInv == TypeOK /\ LinePlace

(* The first n keys are held once each, but for the lost ones.             *)
Account(held, n, lost) ==
  /\ held \in Seq(1..n)
  /\ \A i, j \in 1..Len(held) : held[i] = held[j] => i = j
  /\ {held[i] : i \in 1..Len(held)} = (1..n) \ lost
  /\ lost \subseteq 0..n

(* As long as no interrupt fell into an update, what the reader has loaded *)
(* is still so.                                                            *)
Untorn ==
  /\ EditsLine => line_len = seen
  /\ pc = "erase" => seen > 0
  /\ pc = "count" => line[seen] = raw
  /\ pc = "push" =>
       next = (input_tail + 1) % RingSize /\ next # input_head
KeysInv == ~raced => Untorn /\ Account(Held, typed, dropped)

(* Keys that are not set apart are held in the order of typing.            *)
Ordered(held, apart) ==
  \A i, j \in 1..Len(held) :
    (i < j /\ held[i] \notin apart /\ held[j] \notin apart)
      => held[i] < held[j]
OrderInv == mode.canon /\ (~raced => Ordered(Held, Apart))
=============================================================================
