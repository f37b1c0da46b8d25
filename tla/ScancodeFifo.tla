---------------------------- MODULE ScancodeFifo ----------------------------
(***************************************************************************)
(* What the scancode queue promises to the keyboard interrupt and to the   *)
(* terminal: a queue of at most Max codes that drops what does not fit and *)
(* hands the codes over in the order of the key presses.                   *)
(***************************************************************************)
EXTENDS Integers, Sequences

CONSTANTS
  Code,  \* what the keyboard sends
  None,  \* the answer of an empty queue
  Max    \* codes the queue holds

VARIABLES
  queue,   \* the codes that wait, oldest first
  answer   \* the answer of the last pop

Init == queue = <<>> /\ answer = None

Push ==
  /\ Len(queue) < Max
  /\ \E c \in Code : queue' = Append(queue, c)
  /\ UNCHANGED answer

Pop ==
  /\ queue # <<>>
  /\ answer' = Head(queue)
  /\ queue' = Tail(queue)

\* Only an empty queue has nothing to hand over.
PopNone ==
  /\ queue = <<>>
  /\ answer' = None
  /\ UNCHANGED queue

Next == Push \/ Pop \/ PopNone

Spec == Init /\ [][Next]_<<queue, answer>>
=============================================================================
