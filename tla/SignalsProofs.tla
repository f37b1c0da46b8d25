--------------------------- MODULE SignalsProofs ---------------------------
(***************************************************************************)
(* Proofs about Signals, for every set of signals, actions and every depth *)
(* of the user stack.                                                      *)
(*                                                                         *)
(* IInv is inductive: it says of the running and of the suspended program  *)
(* what Sound says of a signal state.  The invariants of the runs follow   *)
(* from it.                                                                *)
(***************************************************************************)
EXTENDS Signals, SequenceTheorems, TLAPS

LEMMA DefaultIsAction ==
  DefaultAction \in Action
BY DEF DefaultAction, Action

(* A signal state is what its fields are.                                  *)
LEMMA SameState ==
  ASSUME NEW r \in SavedState,
         pending' = r.pending, mask' = r.mask, action' = r.action,
         stack' = r.stack, base' = r.base, opened' = r.opened,
         edited' = r.edited
  PROVE  Running' = r
BY DEF Running, SavedState

(* The boot state.                                                         *)
LEMMA InitInv == Init => IInv
<1> SUFFICES ASSUME Init PROVE IInv
  OBVIOUS
<1> USE SignalConstants DEF Init, InChild
<1>1. Running \in SavedState
  <2>1. /\ {} \in SUBSET Signals
        /\ [s \in Signals |-> DefaultAction] \in [Signals -> {DefaultAction} \union Actions]
        /\ <<>> \in Seq(Frame)
    OBVIOUS
  <2>2. QED
    BY <2>1 DEF Running, SavedState
<1>2. TypeOK
  <2>1. Len(stack) <= MaxDepth
    OBVIOUS
  <2>2. QED
    BY <1>1, <2>1 DEF TypeOK
<1>3. Sound(Running)
  BY DEF Sound, OuterMask, StaysOpen, NeverHandled, StaysBlocked, WasOpen,
         OwnFrames, Running
<1>4. QED
  BY <1>2, <1>3 DEF IInv, EntryStored

(* Steps that only move signals in and out of the pending word, enter and  *)
(* leave the kernel, or halt.                                              *)
LEMMA QuietInv ==
  ASSUME IInv,
         halted' \in BOOLEAN, phase' \in {"user", "kernel", "forked"},
         pending' \subseteq Signals, savedRsp' \in {"own", "child"},
         UNCHANGED <<mask, action, stack, suspended, base, opened, edited>>,
         EntryStored'
  PROVE  IInv'
<1> USE DEF IInv
<1>1. Running' \in SavedState
  BY DEF TypeOK, Running, SavedState
<1>2. TypeOK'
  BY <1>1 DEF TypeOK
<1>3. Sound(Running)'
  BY DEF Sound, OuterMask, StaysOpen, NeverHandled, StaysBlocked, WasOpen,
         OwnFrames, Running
<1>4. (InChild => Sound(suspended[1]))'
  BY DEF InChild, Sound, OuterMask, StaysOpen, NeverHandled, StaysBlocked,
         WasOpen, OwnFrames
<1>5. QED
  BY <1>2, <1>3, <1>4

(* A call stores the stack pointer of the first program only.              *)
LEMMA CallStores ==
  ASSUME IInv, Call
  PROVE  /\ halted' \in BOOLEAN /\ phase' \in {"user", "kernel", "forked"}
         /\ savedRsp' \in {"own", "child"}
         /\ suspended' = suspended
         /\ EntryStored'
BY DEF IInv, TypeOK, Call, EntryRsp, EntryStored, InChild

(* Nothing happens to the program that waits.                              *)
LEMMA SuspendedSound ==
  ASSUME IInv, UNCHANGED suspended
  PROVE  (InChild => Sound(suspended[1]))'
BY DEF IInv, InChild, Sound, OuterMask, StaysOpen, NeverHandled, StaysBlocked,
       WasOpen, OwnFrames

(* rt_sigaction leaves SIGKILL and SIGSTOP their default.                  *)
LEMMA SigactionInv ==
  ASSUME IInv, NEW s \in Signals, NEW new \in Actions, rt_sigaction(s, new)
  PROVE  IInv'
<1> USE DEF IInv
<1>1. /\ s \notin Unblockable
      /\ Call
      /\ action' = [action EXCEPT ![s] = new]
      /\ UNCHANGED <<pending, mask, stack, base, opened, edited>>
  BY DEF rt_sigaction, CanHaveAction
<1>2. /\ halted' \in BOOLEAN /\ phase' \in {"user", "kernel", "forked"}
      /\ savedRsp' \in {"own", "child"}
      /\ suspended' = suspended
      /\ EntryStored'
  BY <1>1, CallStores
<1>3. TypeOK'
  <2>1. Running' \in SavedState
    BY <1>1 DEF TypeOK, Running, SavedState
  <2>2. QED
    BY <1>1, <1>2, <2>1 DEF TypeOK
<1>4. Sound(Running)'
  <2>1. \A k \in Unblockable : action'[k] = DefaultAction
    BY <1>1, SignalConstants DEF TypeOK, Running, SavedState, Sound, NeverHandled
  <2>2. QED
    BY <1>1, <2>1 DEF Sound, OuterMask, StaysOpen, NeverHandled, StaysBlocked,
                      WasOpen, OwnFrames, Running
<1>5. QED
  BY <1>2, <1>3, <1>4, SuspendedSound

(* rt_sigprocmask: a handler that unblocks something is noted.             *)
LEMMA SigprocmaskInv ==
  ASSUME IInv, NEW how \in {"block", "unblock", "set"},
         NEW set \in SUBSET Signals, rt_sigprocmask(how, set)
  PROVE  IInv'
<1> USE DEF IInv
<1>1. /\ Call
      /\ \/ mask' = mask \union (set \ Unblockable)
         \/ mask' = mask \ (set \ Unblockable)
         \/ mask' = set \ Unblockable
      /\ base' = IF stack = <<>> THEN mask' ELSE base
      /\ opened' = (opened \/ (stack # <<>> /\ ~(mask \subseteq mask')))
      /\ UNCHANGED <<pending, action, stack, edited>>
  BY DEF rt_sigprocmask, Blockable
<1>2. /\ halted' \in BOOLEAN /\ phase' \in {"user", "kernel", "forked"}
      /\ savedRsp' \in {"own", "child"}
      /\ suspended' = suspended
      /\ EntryStored'
  BY <1>1, CallStores
<1>3. mask \subseteq Signals /\ mask' \subseteq Signals
  BY <1>1 DEF TypeOK, Running, SavedState
<1>4. TypeOK'
  <2>1. opened' \in BOOLEAN /\ base' \in SUBSET Signals
    BY <1>1, <1>3 DEF TypeOK, Running, SavedState
  <2>2. Running' \in SavedState
    BY <1>1, <1>3, <2>1 DEF TypeOK, Running, SavedState
  <2>3. QED
    BY <1>1, <1>2, <2>2 DEF TypeOK
<1>5. Sound(Running)'
  <2> USE DEF Sound, Running
  <2>1. OuterMask(Running)'
    BY <1>1 DEF OuterMask
  <2>2. StaysOpen(Running)'
    BY <1>1 DEF StaysOpen
  <2>3. StaysBlocked(Running)'
    <3>1. SUFFICES ASSUME ~opened', NEW i \in 1..Len(stack), ~stack[i].nodefer
                   PROVE  /\ stack[i].sig \in mask'
                          /\ \A j \in 1..Len(stack) :
                               i < j => stack[i].sig \in stack[j].saved
      BY <1>1 DEF StaysBlocked
    <3>2. stack # <<>>
      BY <3>1
    <3>3. ~opened /\ mask \subseteq mask'
      BY <1>1, <3>1, <3>2
    <3>4. QED
      BY <3>1, <3>3 DEF StaysBlocked
  <2>4. NeverHandled(Running)' /\ WasOpen(Running)' /\ OwnFrames(Running)'
    BY <1>1 DEF NeverHandled, WasOpen, OwnFrames
  <2>5. QED
    BY <1>1, <2>1, <2>2, <2>3, <2>4
<1>6. QED
  BY <1>2, <1>4, <1>5, SuspendedSound

(* What is left of the stack when the innermost frame goes.                *)
LEMMA DropLast ==
  ASSUME NEW S, NEW q \in Seq(S), q # <<>>
  PROVE  LET rest == SubSeq(q, 1, Len(q) - 1)
         IN /\ Len(q) \in Nat /\ Len(q) >= 1
            /\ rest \in Seq(S)
            /\ Len(rest) = Len(q) - 1
            /\ \A i \in 1..Len(rest) : rest[i] = q[i]
            /\ rest = <<>> <=> Len(q) = 1
<1> DEFINE rest == SubSeq(q, 1, Len(q) - 1)
<1>1. Len(q) \in Nat /\ Len(q) >= 1
  BY EmptySeq
<1>2. \A i \in 1..Len(q) : q[i] \in S
  BY LenProperties
<1> HIDE DEF rest
<1>3. /\ rest \in Seq(S)
      /\ Len(rest) = Len(q) - 1
      /\ \A i \in 1..(Len(q) - 1) : rest[i] = q[i]
  <2>1. /\ 1 \in Int /\ Len(q) - 1 \in Int
        /\ \A i \in 1..(Len(q) - 1) : q[i] \in S
    BY <1>1, <1>2
  <2>2. /\ rest \in Seq(S)
        /\ Len(rest) = IF 1 <= Len(q) - 1 THEN Len(q) - 1 - 1 + 1 ELSE 0
        /\ \A i \in 1..(Len(q) - 1 - 1 + 1) : rest[i] = q[1 + i - 1]
    BY <2>1, SubSeqProperties DEF rest
  <2>3. Len(rest) = Len(q) - 1
    <3>1. CASE 1 <= Len(q) - 1
      <4>1. Len(rest) = Len(q) - 1 - 1 + 1
        BY <2>2, <3>1, Zenon
      <4>2. QED
        BY <1>1, <4>1
    <3>2. CASE ~(1 <= Len(q) - 1)
      <4>1. Len(rest) = 0
        BY <2>2, <3>2, Zenon
      <4>2. \A n \in Nat : n >= 1 /\ ~(1 <= n - 1) => n - 1 = 0
        OBVIOUS
      <4>3. Len(q) - 1 = 0
        BY <1>1, <3>2, <4>2
      <4>4. QED
        BY <4>1, <4>3
    <3>3. QED
      BY <3>1, <3>2
  <2>4. ASSUME NEW i \in 1..(Len(q) - 1)
        PROVE  rest[i] = q[i]
    <3>1. i \in 1..(Len(q) - 1 - 1 + 1) /\ 1 + i - 1 = i
      BY <1>1
    <3>2. QED
      BY <2>2, <3>1
  <2>5. QED
    BY <2>2, <2>3, <2>4
<1>4. rest = <<>> <=> Len(q) = 1
  <2>1. Len(rest) = 0 => rest = <<>>
    BY <1>3, EmptySeq
  <2>2. rest = <<>> => Len(rest) = 0
    BY EmptySeq
  <2>3. QED
    BY <1>1, <1>3, <2>1, <2>2
<1>5. QED
  BY <1>1, <1>3, <1>4 DEF rest

(* rt_sigreturn: every frame below the innermost one keeps its promises.   *)
LEMMA SigreturnInv ==
  ASSUME IInv, NEW restored \in SUBSET Signals, rt_sigreturn(restored)
  PROVE  IInv'
<1> DEFINE n == Len(stack)
<1> USE DEF IInv
<1>1. /\ ~InChild /\ stack # <<>> /\ Call
      /\ mask' = restored
      /\ stack' = SubSeq(stack, 1, n - 1)
      /\ base' = IF n = 1 /\ restored # stack[n].saved THEN restored ELSE base
      /\ opened' = (n > 1 /\ (opened \/ restored # stack[n].saved))
      /\ edited' = (edited \/ restored \cap Unblockable # {})
      /\ UNCHANGED <<pending, action>>
  BY DEF rt_sigreturn
<1>2. /\ halted' \in BOOLEAN /\ phase' \in {"user", "kernel", "forked"}
      /\ savedRsp' \in {"own", "child"}
      /\ suspended' = suspended
      /\ EntryStored'
  BY <1>1, CallStores
<1>3. stack \in Seq(Frame) /\ n <= MaxDepth /\ base \in SUBSET Signals
  BY DEF TypeOK, Running, SavedState
<1>4. /\ n \in Nat /\ n >= 1
      /\ stack' \in Seq(Frame) /\ Len(stack') = n - 1
      /\ \A i \in 1..(n - 1) : stack'[i] = stack[i]
      /\ stack' = <<>> <=> n = 1
  BY <1>1, <1>3, DropLast
<1>5. TypeOK'
  <2>1. opened' \in BOOLEAN /\ edited' \in BOOLEAN /\ base' \in SUBSET Signals
    BY <1>1, <1>3 DEF TypeOK, Running, SavedState
  <2>2. Running' \in SavedState
    BY <1>1, <1>4, <2>1 DEF TypeOK, Running, SavedState
  <2>3. Len(stack') <= MaxDepth
    BY <1>3, <1>4, SignalConstants
  <2>4. QED
    BY <1>1, <1>2, <2>2, <2>3 DEF TypeOK
<1>6. Sound(Running)'
  <2> USE DEF Sound, Running
  <2>1. OuterMask(Running)'
    <3>1. CASE n = 1
      BY <1>1, <1>4, <3>1 DEF OuterMask
    <3>2. CASE n # 1
      <4>1. 1 \in 1..(n - 1) /\ stack' # <<>>
        BY <1>4, <3>2
      <4>2. stack'[1].saved = stack[1].saved /\ base' = base
        BY <1>1, <1>4, <3>2, <4>1
      <4>3. QED
        BY <1>1, <4>1, <4>2 DEF OuterMask
    <3>3. QED
      BY <3>1, <3>2
  <2>2. StaysOpen(Running)'
    <3>1. SUFFICES ASSUME ~edited'
                   PROVE  /\ mask' \cap Unblockable = {}
                          /\ \A i \in 1..(n - 1) :
                               stack'[i].saved \cap Unblockable = {}
      BY <1>4 DEF StaysOpen
    <3>2. ~edited /\ mask' \cap Unblockable = {}
      BY <1>1, <3>1
    <3>3. QED
      BY <1>4, <3>2 DEF StaysOpen
  <2>3. StaysBlocked(Running)'
    <3>1. SUFFICES ASSUME ~opened', NEW i \in 1..(n - 1), ~stack[i].nodefer
                   PROVE  /\ stack[i].sig \in mask'
                          /\ \A j \in 1..(n - 1) :
                               i < j => stack[i].sig \in stack[j].saved
      BY <1>4 DEF StaysBlocked
    <3>2. n > 1 /\ i \in 1..n /\ n \in 1..n /\ i < n
      BY <1>4
    <3>3. ~opened /\ mask' = stack[n].saved
      BY <1>1, <3>1, <3>2
    <3>4. stack[i].sig \in stack[n].saved
      BY <3>1, <3>2, <3>3 DEF StaysBlocked
    <3>5. QED
      BY <1>4, <3>1, <3>2, <3>3, <3>4 DEF StaysBlocked
  <2>4. NeverHandled(Running)' /\ WasOpen(Running)' /\ OwnFrames(Running)'
    BY <1>1, <1>4 DEF NeverHandled, WasOpen, OwnFrames
  <2>5. QED
    BY <1>3, <1>4, <2>1, <2>2, <2>3, <2>4, SignalConstants
<1>7. QED
  BY <1>2, <1>5, <1>6, SuspendedSound

(* What deliver_pending_signal knows when it enters a handler.             *)
LEMMA HandlerFacts ==
  ASSUME IInv, phase # "user", NEW s \in Signals, IsLeast(s, Deliverable),
         action[s].handler = "user"
  PROVE  /\ s \notin Unblockable /\ s \notin mask
         /\ action[s] \in Action
         /\ NewFrame(s) \in Frame
         /\ NewFrame(s).rsp = "child" => NewFrame(s).atFork
         /\ HandlerMask(s) \subseteq Signals
<1> USE SignalConstants DEF IInv, TypeOK, Running, SavedState
<1>1. s \notin mask
  BY DEF IsLeast, Deliverable
<1>2. s \notin Unblockable
  BY DEF Sound, NeverHandled, DefaultAction
<1>3. action[s] \in Action
  BY DefaultIsAction
<1>4. /\ action[s].nodefer \in BOOLEAN /\ action[s].mask \in SUBSET Signals
  BY <1>3 DEF Action
<1>5. NewFrame(s) \in Frame
  BY <1>4 DEF NewFrame, Frame
<1>6. NewFrame(s).rsp = "child" => NewFrame(s).atFork
  BY DEF NewFrame, EntryStored
<1>7. HandlerMask(s) \subseteq Signals
  BY <1>4 DEF HandlerMask
<1>8. QED
  BY <1>1, <1>2, <1>3, <1>5, <1>6, <1>7

(* A handler is entered: the new frame and the new mask.                   *)
LEMMA EnterHandlerInv ==
  ASSUME IInv, phase # "user", NEW s \in Signals, IsLeast(s, Deliverable),
         action[s].handler = "user", FrameFits, EnterHandler(s)
  PROVE  IInv'
<1> DEFINE n == Len(stack)
           f == NewFrame(s)
<1> USE DEF IInv
<1>1. /\ stack' = Append(stack, f)
      /\ mask' = (mask \union HandlerMask(s)) \ Unblockable
      /\ action' = IF action[s].resethand
                   THEN [action EXCEPT ![s] = DefaultAction] ELSE action
      /\ savedRsp' \in {"own", "child"}
      /\ pending' = pending \ {s}
      /\ phase' = "user"
      /\ UNCHANGED <<halted, suspended, base, opened, edited>>
  BY DEF EnterHandler, Blockable
<1>2. /\ s \notin Unblockable /\ s \notin mask
      /\ f \in Frame
      /\ f.rsp = "child" => f.atFork
      /\ HandlerMask(s) \subseteq Signals
  BY HandlerFacts
<1>3. /\ f.sig = s /\ f.saved = mask
      /\ ~f.nodefer => s \in HandlerMask(s)
  BY DEF NewFrame, HandlerMask
<1>4. /\ stack \in Seq(Frame) /\ n \in Nat /\ n < MaxDepth
      /\ stack = <<>> <=> n = 0
  BY EmptySeq DEF TypeOK, Running, SavedState, FrameFits
<1> HIDE DEF f
<1>5. /\ stack' \in Seq(Frame) /\ Len(stack') = n + 1 /\ stack' # <<>>
      /\ \A i \in 1..n : stack'[i] = stack[i]
      /\ stack'[n + 1] = f
  BY <1>1, <1>2, <1>4, AppendProperties
<1>6. TypeOK'
  <2>1. action' \in [Signals -> {DefaultAction} \union Actions]
    BY <1>1 DEF TypeOK, Running, SavedState
  <2>2. Running' \in SavedState
    BY <1>1, <1>2, <1>5, <2>1 DEF TypeOK, Running, SavedState
  <2>3. Len(stack') <= MaxDepth
    BY <1>4, <1>5, SignalConstants
  <2>4. QED
    BY <1>1, <2>2, <2>3 DEF TypeOK
<1>7. Sound(Running)'
  <2> USE DEF Sound, Running
  <2>1. OuterMask(Running)'
    <3>1. stack'[1].saved = base
      <4>1. CASE n = 0
        BY <1>3, <1>4, <1>5, <4>1 DEF OuterMask
      <4>2. CASE n # 0
        <5>1. 1 \in 1..n /\ stack # <<>>
          BY <1>4, <4>2
        <5>2. QED
          BY <1>5, <5>1 DEF OuterMask
      <4>3. QED
        BY <4>1, <4>2
    <3>2. QED
      BY <1>1, <1>5, <3>1 DEF OuterMask
  <2>2. StaysOpen(Running)'
    BY <1>1, <1>3, <1>4, <1>5 DEF StaysOpen
  <2>3. NeverHandled(Running)'
    <3>1. \A k \in Unblockable : action'[k] = DefaultAction
      BY <1>1, <1>2, SignalConstants DEF TypeOK, SavedState, NeverHandled
    <3>2. \A i \in 1..(n + 1) : stack'[i].sig \notin Unblockable
      BY <1>2, <1>3, <1>4, <1>5 DEF NeverHandled
    <3>3. QED
      BY <1>5, <3>1, <3>2 DEF NeverHandled
  <2>4. StaysBlocked(Running)'
    <3>1. SUFFICES ASSUME ~opened', NEW i \in 1..(n + 1), ~stack'[i].nodefer
                   PROVE  /\ stack'[i].sig \in mask'
                          /\ \A j \in 1..(n + 1) :
                               i < j => stack'[i].sig \in stack'[j].saved
      BY <1>5 DEF StaysBlocked
    <3>2. CASE i = n + 1
      BY <1>1, <1>2, <1>3, <1>4, <1>5, <3>1, <3>2
    <3>3. CASE i \in 1..n
      <4>1. /\ ~opened /\ stack'[i] = stack[i]
            /\ stack[i].sig \in mask /\ stack[i].sig \notin Unblockable
            /\ \A j \in 1..n : i < j => stack[i].sig \in stack[j].saved
        BY <1>1, <1>5, <3>1, <3>3 DEF StaysBlocked, NeverHandled
      <4>2. QED
        BY <1>1, <1>3, <1>4, <1>5, <4>1
    <3>4. QED
      BY <1>4, <3>2, <3>3
  <2>5. WasOpen(Running)'
    BY <1>2, <1>3, <1>4, <1>5 DEF WasOpen
  <2>6. OwnFrames(Running)'
    BY <1>2, <1>4, <1>5 DEF OwnFrames
  <2>7. QED
    BY <1>4, <1>5, <2>1, <2>2, <2>3, <2>4, <2>5, <2>6, SignalConstants
<1>8. EntryStored'
  BY <1>1 DEF EntryStored
<1>9. QED
  BY <1>1, <1>6, <1>7, <1>8, SuspendedSound

(* The child is gone: what was true of the saved state is true again.      *)
LEMMA ResumeParentInv ==
  ASSUME IInv, InChild, ResumeParent
  PROVE  IInv'
<1> USE DEF IInv
<1>1. suspended[1] \in SavedState /\ Sound(suspended[1])
  BY DEF TypeOK, InChild
<1>2. /\ pending' = suspended[1].pending /\ mask' = suspended[1].mask
      /\ action' = suspended[1].action /\ stack' = suspended[1].stack
      /\ base' = suspended[1].base /\ opened' = suspended[1].opened
      /\ edited' = suspended[1].edited
      /\ suspended' = <<>> /\ phase' = "forked"
      /\ UNCHANGED <<halted, savedRsp>>
  BY DEF ResumeParent
<1>3. Running' = suspended[1]
  BY <1>1, <1>2, SameState
<1>4. TypeOK'
  <2>1. Len(stack') <= MaxDepth
    BY <1>1, <1>2 DEF Sound
  <2>2. QED
    BY <1>1, <1>2, <1>3, <2>1 DEF TypeOK
<1>5. Sound(Running)'
  BY <1>1, <1>3 DEF Sound, OuterMask, StaysOpen, NeverHandled, StaysBlocked,
                    WasOpen, OwnFrames
<1>6. QED
  BY <1>2, <1>4, <1>5 DEF InChild, EntryStored

(* The machine halts, or the parent goes on.                               *)
LEMMA EndProgramInv ==
  ASSUME IInv, EndProgram
  PROVE  IInv'
<1>1. CASE InChild /\ ResumeParent
  BY <1>1, ResumeParentInv
<1>2. CASE ~InChild /\ halted' = TRUE
           /\ UNCHANGED <<phase, progVars, suspended, savedRsp>>
  <2>1. /\ halted' \in BOOLEAN /\ phase' \in {"user", "kernel", "forked"}
        /\ pending' \subseteq Signals /\ savedRsp' \in {"own", "child"}
        /\ UNCHANGED <<mask, action, stack, suspended, base, opened, edited>>
        /\ EntryStored'
    BY <1>2 DEF progVars, IInv, TypeOK, Running, SavedState, EntryStored, InChild
  <2>2. QED
    BY <2>1, QuietInv
<1>3. QED
  BY <1>1, <1>2 DEF EndProgram

(* Both programs go on from the state the parent had.                      *)
LEMMA ForkInv ==
  ASSUME IInv, fork
  PROVE  IInv'
<1> USE DEF IInv
<1>1. /\ suspended' = <<Running>> /\ phase = "user"
      /\ savedRsp' \in {"own", "child"}
      /\ UNCHANGED <<halted, phase, pending, mask, action, stack, base, opened,
                     edited>>
  BY DEF fork, EntryRsp, progVars, TypeOK
<1>2. Running' = Running
  BY <1>1 DEF Running
<1>3. Len(suspended') = 1 /\ suspended'[1] = Running
  BY <1>1
<1>4. TypeOK'
  BY <1>1, <1>2, <1>3 DEF TypeOK
<1>5. Sound(Running)' /\ Sound(suspended[1])'
  BY <1>2, <1>3 DEF Sound, OuterMask, StaysOpen, NeverHandled, StaysBlocked,
                    WasOpen, OwnFrames
<1>6. QED
  BY <1>1, <1>4, <1>5 DEF EntryStored

(* execve starts over but keeps the mask, SIGKILL and SIGSTOP open in it.  *)
LEMMA ExecveInv ==
  ASSUME IInv, execve
  PROVE  IInv'
<1> USE DEF IInv
<1>1. /\ pending' = {} /\ action' = [s \in Signals |-> DefaultAction]
      /\ stack' = <<>> /\ base' = mask /\ opened' = FALSE
      /\ UNCHANGED <<halted, phase, mask, suspended, savedRsp, edited>>
      /\ InChild
  BY DEF execve
<1>2. /\ stack' \in Seq(Frame) /\ Len(stack') = 0
  BY <1>1, EmptySeq
<1>3. TypeOK'
  <2>1. Running' \in SavedState
    BY <1>1, <1>2 DEF TypeOK, Running, SavedState
  <2>2. Len(stack') <= MaxDepth
    BY <1>2, SignalConstants
  <2>3. QED
    BY <1>1, <2>1, <2>2 DEF TypeOK
<1>4. Sound(Running)'
  <2>1. \A s \in Unblockable : action'[s] = DefaultAction
    BY <1>1, SignalConstants
  <2>2. \A i : i \notin 1..Len(stack')
    BY <1>2
  <2>3. StaysOpen(Running)'
    BY <1>1, <2>2 DEF Sound, StaysOpen, Running
  <2>4. QED
    BY <1>1, <1>2, <2>1, <2>2, <2>3, SignalConstants
       DEF Sound, OuterMask, NeverHandled, StaysBlocked, WasOpen, OwnFrames,
           Running
<1>5. QED
  BY <1>1, <1>3, <1>4, SuspendedSound DEF EntryStored, InChild

(* The end of a call.                                                      *)
LEMMA DeliverInv ==
  ASSUME IInv, NEW badStack \in BOOLEAN, deliver_pending_signal(badStack)
  PROVE  IInv'
<1>1. PICK s \in Signals :
        /\ phase # "user"
        /\ IsLeast(s, Deliverable)
        /\ \/ EndProgram
           \/ action[s].handler = "user" /\ FrameFits /\ EnterHandler(s)
  BY DEF deliver_pending_signal
<1>2. CASE EndProgram
  BY <1>2, EndProgramInv
<1>3. CASE action[s].handler = "user" /\ FrameFits /\ EnterHandler(s)
  BY <1>1, <1>3, EnterHandlerInv
<1>4. QED
  BY <1>1, <1>2, <1>3

(* Every step keeps the invariant.                                         *)
LEMMA NextInv == IInv /\ [Next]_vars => IInv'
<1> SUFFICES ASSUME IInv, [Next]_vars PROVE IInv'
  OBVIOUS
<1> USE SignalConstants DEF progVars
<1>1. /\ pending \subseteq Signals /\ savedRsp \in {"own", "child"}
      /\ halted \in BOOLEAN /\ phase \in {"user", "kernel", "forked"}
      /\ EntryStored
  BY DEF IInv, TypeOK, Running, SavedState
<1>2. CASE Calls
  <2>1. CASE OtherCall
    BY <1>1, <2>1, CallStores, QuietInv DEF OtherCall
  <2>2. CASE \E s \in Signals : raise_signal(s)
    BY <1>1, <2>2, CallStores, QuietInv DEF raise_signal
  <2>3. CASE \E s \in Signals, new \in Actions : rt_sigaction(s, new)
    BY <2>3, SigactionInv
  <2>4. CASE \E how \in {"block", "unblock", "set"}, set \in SUBSET Signals :
               rt_sigprocmask(how, set)
    BY <2>4, SigprocmaskInv
  <2>5. CASE \E set \in SUBSET Signals : signalfd_read(set)
    BY <1>1, <2>5, CallStores, QuietInv DEF signalfd_read
  <2>6. CASE \E restored \in SUBSET Signals : rt_sigreturn(restored)
    BY <2>6, SigreturnInv
  <2>7. CASE rt_sigreturn_astray
    BY <1>1, <2>7, QuietInv DEF rt_sigreturn_astray, EntryStored, InChild
  <2>8. CASE fork
    BY <2>8, ForkInv
  <2>9. CASE exit
    BY <2>9, EndProgramInv DEF exit
  <2>10. CASE execve
    BY <2>10, ExecveInv
  <2>11. QED
    BY <1>2, <2>1, <2>2, <2>3, <2>4, <2>5, <2>6, <2>7, <2>8, <2>9, <2>10
       DEF Calls
<1>3. CASE Delivery
  <2>1. CASE DropIgnored
    BY <1>1, <2>1, QuietInv DEF DropIgnored, EntryStored, InChild
  <2>2. CASE \E badStack \in BOOLEAN : deliver_pending_signal(badStack)
    BY <2>2, DeliverInv
  <2>3. CASE ReturnToUser
    BY <1>1, <2>3, QuietInv DEF ReturnToUser, EntryStored, InChild
  <2>4. QED
    BY <1>3, <2>1, <2>2, <2>3 DEF Delivery
<1>4. CASE \E s \in TtySignals : raise_signal_from_tty(s)
  BY <1>1, <1>4, QuietInv DEF raise_signal_from_tty, EntryStored, InChild
<1>5. CASE UNCHANGED vars
  BY <1>1, <1>5, QuietInv DEF vars, EntryStored, InChild
<1>6. QED
  BY <1>2, <1>3, <1>4, <1>5 DEF Next
----------------------------------------------------------------------------
(* The inductive invariant: what the properties below rest on.             *)
THEOREM SignalsInvariant == Spec => []IInv
BY InitInv, NextInv, PTL DEF Spec

(* The signal state keeps its types; frames never overflow the user stack. *)
THEOREM SignalsTypeOK == Spec => []TypeOK
<1>1. IInv => TypeOK
  BY DEF IInv
<1>2. QED
  BY <1>1, SignalsInvariant, PTL

(* Handlers, however nested, and children, however they end, leave the     *)
(* mask of a program as the program set it: deliver_pending_signal and     *)
(* rt_sigreturn are inverse, and the end of a child brings everything back.*)
THEOREM MaskAlwaysRestored == Spec => []MaskRestored
<1>1. IInv => MaskRestored
  BY DEF IInv, Sound, OuterMask, Running, MaskRestored
<1>2. QED
  BY <1>1, SignalsInvariant, PTL

(* rt_sigprocmask and deliver_pending_signal keep SIGKILL and SIGSTOP out  *)
(* of the mask; only a frame that its handler rewrote brings them in.      *)
THEOREM KillStopNeverBlocked == Spec => []KillStopOpen
<1>1. IInv => KillStopOpen
  BY DEF IInv, Sound, StaysOpen, Running, KillStopOpen
<1>2. QED
  BY <1>1, SignalsInvariant, PTL

(* deliver_pending_signal enters a handler that already runs only if it    *)
(* was installed with SA_NODEFER or a handler unblocked signals.           *)
THEOREM HandlersNotReentered == Spec => []NoReentry
<1>1. IInv => NoReentry
  <2> SUFFICES ASSUME IInv, ~opened, NEW i \in 1..Len(stack),
                      NEW j \in 1..Len(stack), i < j,
                      stack[i].sig = stack[j].sig
               PROVE  stack[i].nodefer
    BY DEF NoReentry
  <2>1. ~stack[i].nodefer => stack[i].sig \in stack[j].saved
    BY DEF IInv, Sound, StaysBlocked, Running
  <2>2. stack[j].sig \notin stack[j].saved
    BY DEF IInv, Sound, WasOpen, Running
  <2>3. QED
    BY <2>1, <2>2
<1>2. QED
  BY <1>1, SignalsInvariant, PTL

(* build_signal_frame uses the stack pointer of the program it interrupts, *)
(* except at the end of a fork call.                                       *)
THEOREM HandlersOnOwnStack == Spec => []OwnStack
<1>1. IInv => OwnStack
  BY DEF IInv, Sound, OwnFrames, Running, OwnStack
<1>2. QED
  BY <1>1, SignalsInvariant, PTL

(* take_deliverable_signal and deliver_pending_signal take SIGKILL or      *)
(* SIGSTOP from the pending word only to end the program: in a child, the  *)
(* parent goes on.                                                         *)
THEOREM KillAlwaysEnds == Spec => KillUncaught
<1> DEFINE Ends == phase # "user" /\ ~(pending \cap Unblockable \subseteq pending')
                     => InChild /\ suspended' = <<>>
<1>1. IInv /\ [Next]_vars => Ends
  <2> SUFFICES ASSUME IInv, [Next]_vars, phase # "user"
               PROVE  \/ pending \cap Unblockable \subseteq pending'
                      \/ InChild /\ suspended' = <<>>
    OBVIOUS
  <2> USE SignalConstants DEF progVars
  <2>1. \A s \in Unblockable : action[s] = DefaultAction
    BY DEF IInv, Sound, NeverHandled, Running
  <2>2. CASE Calls
    BY <2>2 DEF Calls, OtherCall, raise_signal, rt_sigaction, rt_sigprocmask,
                signalfd_read, rt_sigreturn, rt_sigreturn_astray, fork, exit,
                execve, Call
  <2>3. CASE DropIgnored
    <3>1. PICK s \in Signals : Ignored(s) /\ pending' = pending \ {s}
      BY <2>3 DEF DropIgnored
    <3>2. s \notin Unblockable
      <4>1. DefaultAction.handler = "default"
        BY DEF DefaultAction
      <4>2. CASE action[s].handler = "ignore"
        BY <2>1, <4>1, <4>2
      <4>3. CASE s \in DefaultIgnored
        BY <4>3
      <4>4. QED
        BY <3>1, <4>2, <4>3 DEF Ignored
    <3>3. QED
      BY <3>1, <3>2
  <2>4. CASE \E badStack \in BOOLEAN : deliver_pending_signal(badStack)
    <3>1. PICK s \in Signals :
            \/ EndProgram
            \/ action[s].handler = "user" /\ pending' = pending \ {s}
      BY <2>4 DEF deliver_pending_signal, EnterHandler
    <3>2. CASE EndProgram
      BY <3>2 DEF EndProgram, ResumeParent
    <3>3. CASE action[s].handler = "user" /\ pending' = pending \ {s}
      BY <2>1, <3>3 DEF DefaultAction
    <3>4. QED
      BY <3>1, <3>2, <3>3
  <2>5. CASE ReturnToUser \/ UNCHANGED vars
    BY <2>5 DEF ReturnToUser, vars
  <2>6. CASE \E s \in TtySignals : raise_signal_from_tty(s)
    BY <2>6 DEF raise_signal_from_tty
  <2>7. QED
    BY <2>2, <2>3, <2>4, <2>5, <2>6 DEF Next, Delivery
<1>2. QED
  BY <1>1, SignalsInvariant, PTL DEF Spec, KillUncaught
=============================================================================
