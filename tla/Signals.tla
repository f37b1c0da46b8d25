------------------------------ MODULE Signals ------------------------------
(***************************************************************************)
(* Signals of the vibuxOS kernel (kernel/src/arch/x86_64/syscall.rs).      *)
(*                                                                         *)
(* PENDING_SIGNALS is one word for the whole machine; interrupt handlers   *)
(* set bits of it at any time, the end of a system call takes at most one. *)
(* A handled signal pushes a frame with the old mask on the user stack and *)
(* rt_sigreturn pops it.  fork saves the signal state with the rest of the *)
(* process state (module Processes) and the child's end puts it back.      *)
(*                                                                         *)
(* User stack pointers are abstracted to whose they are.  One step takes   *)
(* or drops one signal: between the load of PENDING_SIGNALS and the        *)
(* clearing of one bit an interrupt can only set bits, which is the same   *)
(* as setting them before or after the step.                               *)
(***************************************************************************)
EXTENDS Integers, Sequences

CONSTANTS
  Signals,         \* signal numbers
  Unblockable,     \* SIGKILL and SIGSTOP
  DefaultIgnored,  \* signal_default_ignored
  TtySignals,      \* what raise_signal_from_tty is called with
  Actions,         \* bound: the actions programs install
  MaxDepth,        \* how many signal frames fit on the user stack
  MayFork,         \* bound: whether programs fork
  MayEdit          \* bound: whether handlers rewrite the mask in their frame

(* SignalAction, as far as it is looked at.                                *)
Action == [handler : {"default", "ignore", "user"}, mask : SUBSET Signals,
           nodefer : BOOLEAN, resethand : BOOLEAN, restorer : BOOLEAN]

ASSUME SignalConstants ==
  /\ Signals \subseteq Nat
  /\ Unblockable \subseteq Signals
  /\ DefaultIgnored \subseteq Signals \ Unblockable
  /\ TtySignals \subseteq Signals
  /\ Actions \subseteq Action
  /\ MaxDepth \in Nat
  /\ MayFork \in BOOLEAN /\ MayEdit \in BOOLEAN

VARIABLES
  halted,    \* the first program ended, or is no longer followed
  phase,     \* "user", "kernel" in a call, "forked" in a fork that returns
  pending,   \* PENDING_SIGNALS
  mask,      \* STATE.signal_mask
  action,    \* STATE.signal_actions
  stack,     \* signal frames on the user stack, innermost last
  suspended, \* <<>>, or the signal state of the suspended parent
  savedRsp,  \* whose stack pointer SYSCALL_SAVED_RSP holds
  base,      \* ghost: the mask the program set outside its handlers
  opened,    \* ghost: a handler unblocked signals while it ran
  edited     \* ghost: a handler put SIGKILL or SIGSTOP in its frame

progVars == <<pending, mask, action, stack, base, opened, edited>>
vars == <<halted, phase, progVars, suspended, savedRsp>>

(* SignalAction::empty()                                                   *)
DefaultAction == [handler |-> "default", mask |-> {}, nodefer |-> FALSE,
                  resethand |-> FALSE, restorer |-> FALSE]

Frame == [sig : Signals, saved : SUBSET Signals, nodefer : BOOLEAN,
          rsp : {"own", "child"}, atFork : BOOLEAN]

InChild == suspended # <<>>

Init ==
  /\ halted = FALSE
  /\ phase = "user"
  /\ pending = {}
  /\ mask = {}
  /\ action = [s \in Signals |-> DefaultAction]
  /\ stack = <<>>
  /\ suspended = <<>>
  /\ savedRsp = "own"
  /\ base = {}
  /\ opened = FALSE
  /\ edited = FALSE

----------------------------------------------------------------------------
(* An interrupt handler raises a signal, whoever runs and whatever call is *)
(* under way.                                                              *)
raise_signal_from_tty(s) ==
  /\ ~halted
  /\ pending' = pending \union {s}
  /\ UNCHANGED <<halted, phase, mask, action, stack, suspended, savedRsp,
                 base, opened, edited>>

(* The system call entry: only the first program stores its stack pointer  *)
(* in SYSCALL_SAVED_RSP.  Faulty variant: nobody does.                     *)
EntryRspKept == savedRsp
EntryRsp == IF InChild THEN savedRsp ELSE "own"

Call ==
  /\ ~halted
  /\ phase = "user"
  /\ phase' = "kernel"
  /\ savedRsp' = EntryRsp
  /\ UNCHANGED <<halted, suspended>>

(* A call that leaves the signal state alone.                              *)
OtherCall == Call /\ UNCHANGED progVars

(* kill, tkill and tgkill of the program itself.                           *)
raise_signal(s) ==
  /\ Call
  /\ pending' = pending \union {s}
  /\ UNCHANGED <<mask, action, stack, base, opened, edited>>

(* rt_sigaction answers EINVAL for SIGKILL and SIGSTOP.  Faulty variant:   *)
(* it takes any signal.                                                    *)
AnySignal(s) == TRUE
CanHaveAction(s) == s \notin Unblockable

rt_sigaction(s, new) ==
  /\ CanHaveAction(s)
  /\ Call
  /\ action' = [action EXCEPT ![s] = new]
  /\ UNCHANGED <<pending, mask, stack, base, opened, edited>>

(* What may enter the mask.  Faulty variant: SIGKILL and SIGSTOP too.      *)
AllOf(set) == set
Blockable(set) == set \ Unblockable

rt_sigprocmask(how, set) ==
  /\ Call
  /\ LET value == Blockable(set)
     IN mask' = CASE how = "block"   -> mask \union value
                  [] how = "unblock" -> mask \ value
                  [] how = "set"     -> value
  /\ base' = IF stack = <<>> THEN mask' ELSE base
  /\ opened' = (opened \/ (stack # <<>> /\ ~(mask \subseteq mask')))
  /\ UNCHANGED <<pending, action, stack, edited>>

IsLeast(x, S) == x \in S /\ \A y \in S : x <= y

(* read of a signalfd: the lowest signal of its set is consumed, blocked   *)
(* or not, before the buffer is looked at.                                 *)
signalfd_read(set) ==
  /\ Call
  /\ \E s \in Signals :
       /\ IsLeast(s, pending \cap set)
       /\ pending' = pending \ {s}
  /\ UNCHANGED <<mask, action, stack, base, opened, edited>>

----------------------------------------------------------------------------
Deliverable == pending \ mask

Ignored(s) ==
  \/ action[s].handler = "ignore"
  \/ action[s].handler = "default" /\ s \in DefaultIgnored

(* One turn of the loops of signal_pending_unblocked, in a call that       *)
(* waits, and of take_deliverable_signal.                                  *)
DropIgnored ==
  /\ ~halted
  /\ phase # "user"
  /\ \E s \in Signals :
       /\ IsLeast(s, Deliverable)
       /\ Ignored(s)
       /\ pending' = pending \ {s}
  /\ UNCHANGED <<halted, phase, mask, action, stack, suspended, savedRsp,
                 base, opened, edited>>

(* vibux_vfork_child_exit: the parent goes on in its fork call with the    *)
(* signal state it had; what was raised meanwhile is forgotten.            *)
ResumeParent ==
  /\ pending' = suspended[1].pending
  /\ mask' = suspended[1].mask
  /\ action' = suspended[1].action
  /\ stack' = suspended[1].stack
  /\ base' = suspended[1].base
  /\ opened' = suspended[1].opened
  /\ edited' = suspended[1].edited
  /\ suspended' = <<>>
  /\ phase' = "forked"
  /\ UNCHANGED <<halted, savedRsp>>

(* The running program ends: the machine halts, or the parent goes on.     *)
EndProgram ==
  \/ InChild /\ ResumeParent
  \/ ~InChild /\ halted' = TRUE /\ UNCHANGED <<phase, progVars, suspended, savedRsp>>

(* build_signal_frame has room for one more frame on the user stack.       *)
FrameFits == Len(stack) < MaxDepth

(* What a handler blocks besides the old mask.  Faulty variant: not its    *)
(* own signal.                                                             *)
ActionMask(s) == action[s].mask
HandlerMask(s) ==
  IF action[s].nodefer THEN action[s].mask ELSE action[s].mask \union {s}

(* build_signal_frame: the old mask and stack pointer.  Faulty variant:    *)
(* the signal counts as blocked already.                                   *)
FrameBlocked(s) ==
  [sig |-> s, saved |-> mask \union {s}, nodefer |-> action[s].nodefer,
   rsp |-> IF InChild THEN "own" ELSE savedRsp, atFork |-> phase = "forked"]
NewFrame(s) ==
  [sig |-> s, saved |-> mask, nodefer |-> action[s].nodefer,
   rsp |-> IF InChild THEN "own" ELSE savedRsp, atFork |-> phase = "forked"]

(* The rest of deliver_pending_signal; the new stack pointer goes to       *)
(* SYSCALL_SAVED_RSP, even in a child.                                     *)
EnterHandler(s) ==
  /\ stack' = Append(stack, NewFrame(s))
  /\ mask' = Blockable(mask \union HandlerMask(s))
  /\ action' = IF action[s].resethand
               THEN [action EXCEPT ![s] = DefaultAction] ELSE action
  /\ savedRsp' = IF InChild THEN "child" ELSE "own"
  /\ pending' = pending \ {s}
  /\ phase' = "user"
  /\ UNCHANGED <<halted, suspended, base, opened, edited>>

(* deliver_pending_signal at the end of a call: the lowest signal that can *)
(* be delivered ends the program, enters its handler, or, when the frame   *)
(* cannot be written, ends the program with SIGSEGV.                       *)
deliver_pending_signal(badStack) ==
  /\ ~halted
  /\ phase # "user"
  /\ \E s \in Signals :
       /\ IsLeast(s, Deliverable)
       /\ ~Ignored(s)
       /\ \/ action[s].handler = "default" /\ EndProgram
          \/ /\ action[s].handler = "user"
             /\ IF ~action[s].restorer \/ badStack \/ ~FrameFits
                THEN EndProgram
                ELSE EnterHandler(s)

(* Nothing to deliver: back to the program.                                *)
ReturnToUser ==
  /\ ~halted
  /\ phase # "user"
  /\ Deliverable = {}
  /\ phase' = "user"
  /\ UNCHANGED <<halted, progVars, suspended, savedRsp>>

(* rt_sigreturn in the first program: the mask of the innermost frame, as  *)
(* the handler left it there, comes back unfiltered.  In a child the frame *)
(* is looked for at the wrong place and the call fails: OtherCall.         *)
rt_sigreturn(restored) ==
  /\ ~InChild
  /\ stack # <<>>
  /\ Call
  /\ LET frame == stack[Len(stack)]
     IN /\ frame.rsp = "own"
        /\ restored = frame.saved \/ MayEdit
        /\ mask' = restored
        /\ stack' = SubSeq(stack, 1, Len(stack) - 1)
        /\ base' = IF Len(stack) = 1 /\ restored # frame.saved THEN restored ELSE base
        /\ opened' = (Len(stack) > 1 /\ (opened \/ restored # frame.saved))
        /\ edited' = (edited \/ restored \cap Unblockable # {})
        /\ UNCHANGED <<pending, action>>

(* The frame holds a stack pointer of a dead child: what the program does  *)
(* after that is not followed.                                             *)
rt_sigreturn_astray ==
  /\ ~halted
  /\ phase = "user"
  /\ ~InChild
  /\ stack # <<>>
  /\ stack[Len(stack)].rsp = "child"
  /\ halted' = TRUE
  /\ UNCHANGED <<phase, progVars, suspended, savedRsp>>

----------------------------------------------------------------------------
Running ==
  [pending |-> pending, mask |-> mask, action |-> action, stack |-> stack,
   base |-> base, opened |-> opened, edited |-> edited]

(* do_fork and do_vfork: the child starts with everything the parent had,  *)
(* pending signals included.                                               *)
fork ==
  /\ MayFork
  /\ ~halted
  /\ phase = "user"
  /\ ~InChild
  /\ savedRsp' = EntryRsp
  /\ suspended' = <<Running>>
  /\ UNCHANGED <<halted, phase, progVars>>

(* exit, and an execve that fails in a child: no signal is delivered.      *)
exit ==
  /\ ~halted
  /\ phase = "user"
  /\ EndProgram

(* reset_process_for_exec: the actions are reset and pending signals       *)
(* forgotten, the mask stays.                                              *)
execve ==
  /\ ~halted
  /\ phase = "user"
  /\ InChild
  /\ pending' = {}
  /\ action' = [s \in Signals |-> DefaultAction]
  /\ stack' = <<>>
  /\ base' = mask
  /\ opened' = FALSE
  /\ UNCHANGED <<halted, phase, mask, suspended, savedRsp, edited>>

Calls ==
  \/ OtherCall
  \/ \E s \in Signals : raise_signal(s)
  \/ \E s \in Signals, new \in Actions : rt_sigaction(s, new)
  \/ \E how \in {"block", "unblock", "set"}, set \in SUBSET Signals :
       rt_sigprocmask(how, set)
  \/ \E set \in SUBSET Signals : signalfd_read(set)
  \/ \E restored \in SUBSET Signals : rt_sigreturn(restored)
  \/ rt_sigreturn_astray
  \/ fork
  \/ exit
  \/ execve

Delivery ==
  \/ DropIgnored
  \/ \E badStack \in BOOLEAN : deliver_pending_signal(badStack)
  \/ ReturnToUser

Next ==
  \/ Calls
  \/ Delivery
  \/ \E s \in TtySignals : raise_signal_from_tty(s)

Spec == Init /\ [][Next]_vars
----------------------------------------------------------------------------
SavedState ==
  [pending : SUBSET Signals, mask : SUBSET Signals,
   action : [Signals -> {DefaultAction} \union Actions], stack : Seq(Frame),
   base : SUBSET Signals, opened : BOOLEAN, edited : BOOLEAN]

(* Every variable keeps its range.                                         *)
TypeOK ==
  /\ halted \in BOOLEAN
  /\ phase \in {"user", "kernel", "forked"}
  /\ Running \in SavedState
  /\ \/ suspended = <<>>
     \/ Len(suspended) = 1 /\ suspended[1] \in SavedState
  /\ savedRsp \in {"own", "child"}
  /\ Len(stack) <= MaxDepth

(* Handlers leave no trace in the mask: however they nest, and whatever a  *)
(* child did meanwhile, the mask of a program outside its handlers is the  *)
(* one it chose itself, and the outermost frame will bring it back.        *)
MaskRestored ==
  /\ stack = <<>> => mask = base
  /\ stack # <<>> => stack[1].saved = base

(* SIGKILL and SIGSTOP cannot be blocked, neither by rt_sigprocmask nor by *)
(* the mask of an action, unless a handler writes them into its own frame: *)
(* rt_sigreturn does not filter.                                           *)
KillStopOpen ==
  ~edited => mask \cap Unblockable = {}

(* A handler is not entered again while it runs, unless it was installed   *)
(* with SA_NODEFER or a handler unblocked signals itself.                  *)
NoReentry ==
  ~opened => \A i, j \in 1..Len(stack) :
    i < j /\ stack[i].sig = stack[j].sig => stack[i].nodefer

(* A handler runs, and returns, on the stack of its own program; only one  *)
(* that is entered at the end of a fork may get the stack pointer of a     *)
(* child that died in a handler of its own.                                *)
OwnStack ==
  \A i \in 1..Len(stack) : stack[i].rsp = "child" => stack[i].atFork

(* SIGKILL and SIGSTOP cannot be caught or ignored: at the end of a call   *)
(* such a signal leaves PENDING_SIGNALS only by ending the program.        *)
KillUncaught ==
  [][phase # "user" /\ ~(pending \cap Unblockable \subseteq pending') =>
       InChild /\ suspended' = <<>>]_vars
----------------------------------------------------------------------------
(* The inductive invariant behind the properties above: what is true of    *)
(* the signal state of a program, running or suspended.                    *)
OuterMask(r) ==
  /\ r.stack = <<>> => r.mask = r.base
  /\ r.stack # <<>> => r.stack[1].saved = r.base

StaysOpen(r) == ~r.edited =>
  /\ r.mask \cap Unblockable = {}
  /\ \A i \in 1..Len(r.stack) : r.stack[i].saved \cap Unblockable = {}

NeverHandled(r) ==
  /\ \A s \in Unblockable : r.action[s] = DefaultAction
  /\ \A i \in 1..Len(r.stack) : r.stack[i].sig \notin Unblockable

(* A handler's own signal is blocked while it runs, also under the         *)
(* handlers that interrupt it.                                             *)
StaysBlocked(r) == ~r.opened =>
  \A i \in 1..Len(r.stack) : ~r.stack[i].nodefer =>
    /\ r.stack[i].sig \in r.mask
    /\ \A j \in 1..Len(r.stack) : i < j => r.stack[i].sig \in r.stack[j].saved

WasOpen(r) ==
  \A i \in 1..Len(r.stack) : r.stack[i].sig \notin r.stack[i].saved

OwnFrames(r) ==
  \A i \in 1..Len(r.stack) : r.stack[i].rsp = "child" => r.stack[i].atFork

Sound(r) ==
  /\ Len(r.stack) <= MaxDepth
  /\ OuterMask(r)
  /\ StaysOpen(r)
  /\ NeverHandled(r)
  /\ StaysBlocked(r)
  /\ WasOpen(r)
  /\ OwnFrames(r)

(* Only a fork that returns may find a stack pointer of somebody else.     *)
EntryStored == phase = "kernel" /\ ~InChild => savedRsp = "own"

IInv ==
  /\ TypeOK
  /\ Sound(Running)
  /\ InChild => Sound(suspended[1])
  /\ EntryStored
=============================================================================
