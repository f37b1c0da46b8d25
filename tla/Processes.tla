----------------------------- MODULE Processes -----------------------------
(***************************************************************************)
(* Process control of the vibuxOS kernel (kernel/src/process.rs).          *)
(*                                                                         *)
(* One program runs at a time.  fork and vfork suspend the caller inside   *)
(* its own system call, save its process state in the single PARENT_STATE  *)
(* buffer and run the child to its end; the child's exit switches back to  *)
(* the parent's address space, restores the saved state and files the exit *)
(* status in the CHILDREN table, which wait4 reads.                        *)
(*                                                                         *)
(* Memory is abstracted to what fork, vfork and exec tell apart: an        *)
(* address space holds the stack region (with the TLS page), which vfork   *)
(* snapshots, and the rest.  Physical frames come from a bump allocator    *)
(* and are never given back.                                               *)
(***************************************************************************)
EXTENDS Integers

CONSTANTS
  MaxChildren,  \* slots of the CHILDREN table
  MaxPid,       \* bound: the largest pid handed out in a run
  Frames,       \* physical frames the allocator starts with
  Costs,        \* frames a cloned address space or a loaded program takes
  Val,          \* contents of a memory region
  Codes         \* exit codes programs pass to exit

ASSUME ProcessConstants ==
  /\ MaxChildren \in Nat \ {0}
  /\ MaxPid \in Nat \ {0}
  /\ Frames \in Nat
  /\ Costs \subseteq Nat \ {0}
  /\ Codes \subseteq Nat
  /\ Val # {}

VARIABLES
  halted,     \* the machine stopped: bash exited or the CPU faulted
  pid,        \* STATE.pid of the running program
  nextPid,    \* NEXT_PID
  active,     \* vibux_vfork_child_active
  childPid,   \* vibux_vfork_child_pid
  parentPid,  \* pid in PARENT_STATE
  children,   \* CHILDREN
  cr3,        \* address space in use
  parentCr3,  \* vibux_vfork_parent_cr3
  stackSnap,  \* VFORK_STACK_SNAPSHOT and VFORK_TLS_SNAPSHOT with their flags
  mem,        \* contents of every address space
  spaces,     \* address spaces built so far
  free,       \* frames the allocator has left
  kind,       \* ghost: how the suspended parent made its child
  promise,    \* ghost: the parent's memory when it was suspended
  own,        \* ghost: the child has an address space of its own
  image,      \* ghost: the parent's memory when the child got one
  fate,       \* ghost: what became of every pid
  status      \* ghost: the wait status every exited child left

procVars == <<pid, nextPid, active, childPid, parentPid, children>>
memVars == <<cr3, parentCr3, stackSnap, mem, spaces, free>>
ghostVars == <<kind, promise, own, image, fate, status>>
vars == <<halted, procVars, memVars, ghostVars>>

Slots == 1..MaxChildren
Pids == 1..MaxPid
SpaceIds == 1..(Frames + 1)
Memory == [stack : Val, rest : Val]
Fates == {"unborn", "live", "zombie", "reaped", "dropped", "lost"}

(* ChildEntry::empty() *)
EmptyEntry == [used |-> FALSE, pid |-> 0, status |-> 0]

(* The status word of a normal exit: the low byte of the code, shifted.    *)
ExitStatus(code) == (code % 256) * 256

ENOENT == 2
ENOEXEC == 8
ENOMEM == 12
EFAULT == 14
EINVAL == 22
ENAMETOOLONG == 36

NoSnapshot == [valid |-> FALSE]
Snapshot(v) == [valid |-> TRUE, stack |-> v]

Init ==
  /\ halted = FALSE
  /\ pid = 1
  /\ nextPid = 2
  /\ active = FALSE
  /\ childPid = 0
  /\ parentPid = 0
  /\ children = [i \in Slots |-> EmptyEntry]
  /\ cr3 = 1
  /\ parentCr3 = 0
  /\ stackSnap = NoSnapshot
  /\ \E m \in Memory : mem = [s \in SpaceIds |-> m] /\ promise = m /\ image = m
  /\ spaces = 1
  /\ free = Frames
  /\ kind = "none"
  /\ own = FALSE
  /\ fate = [p \in Pids |-> IF p = 1 THEN "live" ELSE "unborn"]
  /\ status = [p \in Pids |-> 0]

----------------------------------------------------------------------------
(* User code of the running program writes its own memory.                 *)
UserWrite(region, v) ==
  /\ ~halted
  /\ mem' = [mem EXCEPT ![cr3] = [@ EXCEPT ![region] = v]]
  /\ UNCHANGED <<halted, procVars, cr3, parentCr3, stackSnap, spaces, free,
                 ghostVars>>

(* do_fork and do_vfork answer EAGAIN while a child runs.  The first       *)
(* definition is a faulty variant, which does not ask.                     *)
MayForkUnchecked == TRUE
MayFork == ~active

(* What do_fork and do_vfork have in common: the parent's state goes to    *)
(* PARENT_STATE and a pid is taken.  Faulty variant: the pid stays free.   *)
SuspendKeepingPid ==
  /\ parentPid' = pid
  /\ parentCr3' = cr3
  /\ childPid' = nextPid
  /\ nextPid' = nextPid

Suspend ==
  /\ parentPid' = pid
  /\ parentCr3' = cr3
  /\ childPid' = nextPid
  /\ nextPid' = nextPid + 1

(* The child now runs under its own pid.                                   *)
EnterChild(how) ==
  /\ active' = TRUE
  /\ pid' = nextPid
  /\ kind' = how
  /\ promise' = mem[cr3]
  /\ own' = (how = "fork")
  /\ image' = mem[cr3]
  /\ fate' = [fate EXCEPT ![nextPid] = "live"]
  /\ UNCHANGED <<halted, children, status>>

(* The bump allocator.                                                     *)
TakeFrames(cost) == cost <= free /\ free' = free - cost

(* clone_user_address_space, then the switch to the copy.                  *)
CloneSpace ==
  /\ spaces' = spaces + 1
  /\ mem' = [mem EXCEPT ![spaces + 1] = mem[cr3]]
  /\ cr3' = spaces + 1

(* fork, and clone without bit 0x100: the child gets a deep copy of the  *)
(* address space.                                                          *)
Fork ==
  /\ ~halted
  /\ MayFork
  /\ nextPid \in Pids
  /\ \E cost \in Costs : TakeFrames(cost)
  /\ CloneSpace
  /\ stackSnap' = stackSnap
  /\ Suspend
  /\ EnterChild("fork")

(* The clone runs out of frames half-way: the frames it took are lost, the *)
(* pid is used up, and the caller gets ENOMEM.                             *)
ForkNoMemory ==
  /\ ~halted
  /\ MayFork
  /\ nextPid \in Pids
  /\ \E cost \in Costs : cost > free
  /\ free' = 0
  /\ Suspend
  /\ UNCHANGED <<halted, pid, active, children, cr3, stackSnap, mem, spaces,
                 ghostVars>>

(* vfork, and clone with bit 0x100: the child runs in the parent's         *)
(* address space.  Without a stack of its own, and when the parent's stack *)
(* pointer lies in the fully mapped stack region, the region is saved.     *)
Vfork(ownStack, inRegion) ==
  /\ ~halted
  /\ MayFork
  /\ nextPid \in Pids
  /\ stackSnap' = IF ~ownStack /\ inRegion THEN Snapshot(mem[cr3].stack)
                                           ELSE NoSnapshot
  /\ Suspend
  /\ EnterChild(IF ~ownStack /\ inRegion THEN "vfork" ELSE "sharedStack")
  /\ UNCHANGED <<cr3, mem, spaces, free>>

(* clone3 passes a null frame: entering the child reads through it and the *)
(* page fault halts the machine.                                           *)
Clone3 ==
  /\ ~halted
  /\ MayFork
  /\ halted' = TRUE
  /\ UNCHANGED <<procVars, memVars, ghostVars>>

----------------------------------------------------------------------------
(* The slot an exited child gets: the first free one.  Faulty variant:     *)
(* always the first, free or not.                                          *)
FirstSlot(i) == i = 1
FreeSlot(i) ==
  /\ ~children[i].used
  /\ \A j \in Slots : j < i => children[j].used

(* No slot is free.                                                        *)
TableFull == \A i \in Slots : children[i].used

(* push_exited_child: nowhere when no slot is free.                        *)
PushExitedChild(p, word) ==
  \/ \E i \in Slots :
       /\ FreeSlot(i)
       /\ children' = [children EXCEPT
                         ![i] = [used |-> TRUE, pid |-> p, status |-> word]]
       /\ fate' = [fate EXCEPT ![p] = "zombie"]
  \/ /\ TableFull
     /\ children' = children
     /\ fate' = [fate EXCEPT ![p] = "dropped"]

(* restore_vfork_shared_memory: the stack snapshot, if valid, is copied    *)
(* back.  Faulty variant: it is only marked invalid.                       *)
DiscardSnapshot == mem' = mem /\ stackSnap' = NoSnapshot
RestoreSnapshot ==
  /\ mem' = IF stackSnap.valid
            THEN [mem EXCEPT ![parentCr3] =
                    [@ EXCEPT !.stack = stackSnap.stack]]
            ELSE mem
  /\ stackSnap' = NoSnapshot

(* vibux_vfork_child_exit, then the rest of do_fork or do_vfork in the     *)
(* resumed parent.                                                         *)
ChildExit(code) ==
  /\ active
  /\ cr3' = parentCr3
  /\ pid' = parentPid
  /\ active' = FALSE
  /\ PushExitedChild(childPid, ExitStatus(code))
  /\ RestoreSnapshot
  /\ kind' = "none"
  /\ own' = FALSE
  /\ status' = [status EXCEPT ![childPid] = ExitStatus(code)]
  /\ UNCHANGED <<halted, nextPid, childPid, parentPid, parentCr3, spaces,
                 promise, image>>

(* exit and exit_group in a child.                                         *)
Exit(code) ==
  /\ ~halted
  /\ ChildExit(code)
  /\ UNCHANGED free

(* exit and exit_group in the first program: enter_user returns to         *)
(* run_bash, which returns to the boot code, which halts.                  *)
ExitFirst ==
  /\ ~halted
  /\ ~active
  /\ halted' = TRUE
  /\ UNCHANGED <<procVars, memVars, ghostVars>>

(* A CPU exception, in user or kernel code, halts the machine.             *)
Exception ==
  /\ ~halted
  /\ halted' = TRUE
  /\ UNCHANGED <<procVars, memVars, ghostVars>>

----------------------------------------------------------------------------
(* The program is loaded in a fresh address space, and the old one is      *)
(* abandoned.  Faulty variant: it is loaded over the old one.              *)
LoadInPlace(m) ==
  /\ mem' = [mem EXCEPT ![cr3] = m]
  /\ UNCHANGED <<spaces, cr3>>

LoadFresh(m) ==
  /\ spaces' = spaces + 1
  /\ mem' = [mem EXCEPT ![spaces + 1] = m]
  /\ cr3' = spaces + 1

(* execve, only allowed in a child.                                        *)
Exec ==
  /\ ~halted
  /\ active
  /\ \E cost \in Costs, m \in Memory : TakeFrames(cost + 1) /\ LoadFresh(m)
  /\ own' = TRUE
  /\ image' = IF own THEN image ELSE mem[parentCr3]
  /\ UNCHANGED <<halted, procVars, parentCr3, stackSnap, kind, promise, fate,
                 status>>

(* execve never returns an error to its caller: whatever fails, and at     *)
(* whatever point, the child exits with the error number as its code.  The *)
(* arguments are read first (no frame is taken), then the page table root  *)
(* is allocated, then the program is looked up and parsed, then loaded:    *)
(* every loader error becomes ENOMEM, wherever it stopped.                 *)
ExecFail ==
  /\ ~halted
  /\ active
  /\ \/ /\ \E code \in {EFAULT, EINVAL, ENAMETOOLONG} : ChildExit(code)
        /\ free' = free
     \/ /\ free = 0
        /\ ChildExit(ENOMEM)
        /\ free' = free
     \/ /\ free > 0
        /\ \E code \in {ENOENT, ENOEXEC} : ChildExit(code)
        /\ free' = free - 1
     \/ /\ free > 0
        /\ ChildExit(ENOMEM)
        /\ free' \in 0..(free - 1)

----------------------------------------------------------------------------
Matches(entry, requested) ==
  entry.used /\ (requested <= 0 \/ entry.pid = requested)

(* wait4 in whichever program runs: the first matching entry is cleared    *)
(* before the status is copied out, so a bad status or rusage address      *)
(* loses it.                                                               *)
Wait4(requested, badAddress) ==
  /\ ~halted
  /\ \E i \in Slots :
       /\ Matches(children[i], requested)
       /\ \A j \in Slots : j < i => ~Matches(children[j], requested)
       /\ children' = [children EXCEPT ![i] = EmptyEntry]
       /\ fate' = [fate EXCEPT ![children[i].pid] =
                     IF badAddress THEN "lost" ELSE "reaped"]
  /\ UNCHANGED <<halted, pid, nextPid, active, childPid, parentPid, memVars,
                 kind, promise, own, image, status>>

Next ==
  \/ \E region \in {"stack", "rest"}, v \in Val : UserWrite(region, v)
  \/ Fork
  \/ ForkNoMemory
  \/ \E ownStack, inRegion \in BOOLEAN : Vfork(ownStack, inRegion)
  \/ Clone3
  \/ \E code \in Codes : Exit(code)
  \/ ExitFirst
  \/ Exception
  \/ Exec
  \/ ExecFail
  \/ \E requested \in {-1} \union Pids, badAddress \in BOOLEAN :
       Wait4(requested, badAddress)

Spec == Init /\ [][Next]_vars
----------------------------------------------------------------------------
Entry == [used : BOOLEAN, pid : Nat, status : Nat]

(* Every variable keeps the range its Rust counterpart has.                *)
TypeOK ==
  /\ halted \in BOOLEAN
  /\ pid \in Nat /\ nextPid \in Nat /\ childPid \in Nat /\ parentPid \in Nat
  /\ active \in BOOLEAN
  /\ children \in [Slots -> Entry]
  /\ cr3 \in SpaceIds
  /\ parentCr3 \in {0} \union SpaceIds
  /\ stackSnap \in {NoSnapshot} \union {Snapshot(v) : v \in Val}
  /\ mem \in [SpaceIds -> Memory]
  /\ spaces \in SpaceIds
  /\ free \in 0..Frames
  /\ kind \in {"none", "fork", "vfork", "sharedStack"}
  /\ promise \in Memory
  /\ own \in BOOLEAN /\ image \in Memory
  /\ fate \in [Pids -> Fates]
  /\ status \in [Pids -> Nat]

(* PARENT_STATE is one buffer: a second fork while a child runs would      *)
(* overwrite the first program's saved state.  So the first program is     *)
(* either running or the one that is saved, the only other live program is *)
(* the child recorded in vibux_vfork_child_pid, and no pid is its own      *)
(* parent.                                                                 *)
OneSuspendedParent ==
  /\ active => parentPid = 1 /\ pid = childPid /\ childPid # 1
  /\ ~active => pid = 1
  /\ \A p \in Pids : fate[p] = "live" <=> p = 1 \/ (active /\ p = childPid)

(* CHILDREN and the children that exited agree: every used slot holds the  *)
(* status of an exited child nobody waited for, every such child has       *)
(* exactly one slot.                                                       *)
ZombieTable ==
  /\ \A i \in Slots : children[i].used =>
       /\ children[i].pid \in Pids
       /\ fate[children[i].pid] = "zombie"
       /\ children[i].status = status[children[i].pid]
  /\ \A p \in Pids : fate[p] = "zombie" =>
       \E i \in Slots : children[i].used /\ children[i].pid = p
  /\ \A i, j \in Slots :
       children[i].used /\ children[j].used /\ children[i].pid = children[j].pid
         => i = j

(* A forked child never reaches the memory of its suspended parent, and a  *)
(* vforked child, which runs in that memory, leaves it alone from its exec *)
(* on: it stays as it was when the child got an address space of its own,  *)
(* whatever the child writes there and however often it calls exec again.  *)
ForkIsolation ==
  active /\ own => cr3 # parentCr3 /\ mem[parentCr3] = image

(* When a child ends, by exit or by a failed exec, its parent resumes as   *)
(* it was suspended: its pid, its address space, its stack unless the      *)
(* child was given a stack of its own or the stack could not be saved, and *)
(* all of its memory if the child was forked.                              *)
ParentResumes ==
  [][active /\ ~active' =>
       /\ pid' = 1
       /\ cr3' = parentCr3
       /\ kind \in {"fork", "vfork"} => mem'[cr3'].stack = promise.stack
       /\ kind = "fork" => mem'[cr3'] = promise]_vars

(* The exit status of a child disappears without a wait4 only while as     *)
(* many others as there are slots have exited and were not waited for: no  *)
(* slot is lost to a child that was reaped, and none is taken twice.       *)
DroppedOnlyWhenFull ==
  [][\A p \in Pids : fate[p] # "dropped" /\ fate'[p] = "dropped" =>
       \E waiting \in [Slots -> Pids \ {p}] :
         /\ \A i \in Slots : fate[waiting[i]] = "zombie"
         /\ \A i, j \in Slots : waiting[i] = waiting[j] => i = j]_vars

(* A pid is born once, ends once and is reported at most once.             *)
PidLifecycle ==
  [][\A p \in Pids : fate'[p] # fate[p] =>
       <<fate[p], fate'[p]>> \in {<<"unborn", "live">>, <<"live", "zombie">>,
          <<"live", "dropped">>, <<"zombie", "reaped">>, <<"zombie", "lost">>}
    ]_vars
----------------------------------------------------------------------------
(* The inductive invariant behind the safety properties above.             *)
PidBounds ==
  /\ nextPid >= 2
  /\ active => childPid \in Pids /\ childPid < nextPid
  /\ \A p \in Pids : p >= nextPid => fate[p] = "unborn"

SpaceBounds ==
  /\ cr3 <= spaces
  /\ spaces + free <= Frames + 1
  /\ active => parentCr3 \in SpaceIds /\ parentCr3 <= spaces

SavedMemory ==
  /\ active <=> kind # "none"
  /\ kind = "vfork" <=> stackSnap.valid
  /\ stackSnap.valid => stackSnap = Snapshot(promise.stack)
  /\ kind = "fork" => own /\ image = promise

IInv ==
  /\ TypeOK
  /\ OneSuspendedParent
  /\ ZombieTable
  /\ ForkIsolation
  /\ PidBounds
  /\ SpaceBounds
  /\ SavedMemory
=============================================================================
