--------------------------- MODULE ProcessesProofs ---------------------------
(***************************************************************************)
(* Proofs about Processes, for every size of the CHILDREN table, every     *)
(* number of pids and frames, every cost of an address space and every     *)
(* set of memory contents and exit codes.                                  *)
(*                                                                         *)
(* IInv is inductive; the invariants of the runs are among its conjuncts   *)
(* and the action properties follow from it step by step.                  *)
(***************************************************************************)
EXTENDS Processes, TLAPS

(* What a finished child leaves in the table is a status word.             *)
LEMMA ExitStatusType ==
  ASSUME NEW code \in Nat
  PROVE  ExitStatus(code) \in Nat
BY DEF ExitStatus

(* Frames given up never break the bound on address spaces.                *)
LEMMA SumBound ==
  \A a, b, c, d \in Nat : a + b <= c + 1 /\ d <= b => a + d <= c + 1
OBVIOUS

LEMMA FewerFrames ==
  ASSUME spaces \in Nat, free \in Nat, free' \in Nat, Frames \in Nat,
         spaces + free <= Frames + 1, free' <= free
  PROVE  spaces + free' <= Frames + 1
BY SumBound

(* The first program runs, nothing is suspended and the table is empty.    *)
LEMMA InitInv == Init => IInv
<1> SUFFICES ASSUME Init PROVE IInv
  OBVIOUS
<1> USE ProcessConstants DEF Init
<1>1. TypeOK
  <2>1. children \in [Slots -> Entry]
    BY DEF EmptyEntry, Entry
  <2>2. fate \in [Pids -> Fates] /\ status \in [Pids -> Nat]
    BY DEF Fates
  <2>3. /\ mem \in [SpaceIds -> Memory] /\ promise \in Memory
        /\ own \in BOOLEAN /\ image \in Memory
    OBVIOUS
  <2>4. cr3 \in SpaceIds /\ spaces \in SpaceIds /\ free \in 0..Frames
    BY DEF SpaceIds
  <2>5. QED
    BY <2>1, <2>2, <2>3, <2>4 DEF TypeOK
<1>2. OneSuspendedParent
  BY DEF OneSuspendedParent, Pids
<1>3. ZombieTable
  BY DEF ZombieTable, EmptyEntry, Pids
<1>4. ForkIsolation /\ PidBounds /\ SpaceBounds /\ SavedMemory
  BY DEF ForkIsolation, PidBounds, SpaceBounds, SavedMemory, NoSnapshot, Pids
<1>5. QED
  BY <1>1, <1>2, <1>3, <1>4 DEF IInv

(* Writes of user code only reach the address space in use.                *)
LEMMA UserWriteInv ==
  ASSUME IInv, NEW region \in {"stack", "rest"}, NEW v \in Val,
         UserWrite(region, v)
  PROVE  IInv'
<1> USE DEF IInv, UserWrite, procVars, ghostVars
<1>1. TypeOK'
  BY DEF TypeOK, Memory
<1>2. OneSuspendedParent' /\ ZombieTable'
  BY DEF OneSuspendedParent, ZombieTable
<1>3. ForkIsolation'
  BY DEF ForkIsolation, TypeOK
<1>4. PidBounds' /\ SpaceBounds' /\ SavedMemory'
  BY DEF PidBounds, SpaceBounds, SavedMemory
<1>5. QED
  BY <1>1, <1>2, <1>3, <1>4

(* What the three successful or failed ways to fork share.                 *)
LEMMA NextPidUnborn ==
  ASSUME IInv, nextPid \in Pids
  PROVE  /\ fate[nextPid] = "unborn"
         /\ nextPid # 1 /\ nextPid \in Nat
         /\ \A i \in Slots : children[i].used => children[i].pid # nextPid
BY DEF IInv, TypeOK, PidBounds, ZombieTable, Pids

(* A new child process does not disturb the pids already accounted for.    *)
LEMMA EnterChildInv ==
  ASSUME IInv, nextPid \in Pids, ~active, Suspend,
         NEW how \in {"fork", "vfork", "sharedStack"}, EnterChild(how)
  PROVE  /\ OneSuspendedParent' /\ ZombieTable' /\ PidBounds'
         /\ halted' \in BOOLEAN /\ pid' \in Nat /\ nextPid' \in Nat
         /\ childPid' \in Nat /\ parentPid' \in Nat /\ active' \in BOOLEAN
         /\ children' \in [Slots -> Entry] /\ kind' = how
         /\ promise' = mem[cr3] /\ promise' \in Memory
         /\ own' = (how = "fork") /\ own' \in BOOLEAN
         /\ image' = mem[cr3] /\ image' \in Memory
         /\ fate' \in [Pids -> Fates] /\ status' \in [Pids -> Nat]
<1> USE DEF IInv, Suspend, EnterChild
<1>1. fate' \in [Pids -> Fates] /\ status' \in [Pids -> Nat]
  BY DEF TypeOK, Fates
<1>2. OneSuspendedParent'
  BY NextPidUnborn DEF OneSuspendedParent, TypeOK
<1>3. ZombieTable'
  <2>1. \A p \in Pids : fate'[p] = "zombie" <=> fate[p] = "zombie"
    BY NextPidUnborn DEF TypeOK
  <2>2. QED
    BY <2>1 DEF ZombieTable
<1>4. PidBounds'
  BY NextPidUnborn DEF PidBounds, TypeOK, Pids
<1>5. QED
  BY <1>1, <1>2, <1>3, <1>4 DEF TypeOK, Pids

(* fork: the copy lives in a new address space.                            *)
LEMMA ForkInv ==
  ASSUME IInv, Fork
  PROVE  IInv'
<1> USE DEF IInv, Fork, MayFork, CloneSpace, TakeFrames, Suspend
<1>1. spaces + 1 \in SpaceIds /\ free' \in 0..Frames /\ free' < free
  <2>1. PICK cost \in Nat \ {0} : cost <= free /\ free' = free - cost
    BY ProcessConstants
  <2>2. free \in 0..Frames /\ spaces \in Nat \ {0} /\ Frames \in Nat
    BY ProcessConstants DEF TypeOK, SpaceIds
  <2>3. free' \in 0..Frames /\ free' < free
    BY <2>1, <2>2
  <2>4. spaces + 1 <= Frames + 1
    BY <2>1, <2>2 DEF SpaceBounds
  <2>5. QED
    BY <2>2, <2>3, <2>4 DEF SpaceIds
<1>2. mem' \in [SpaceIds -> Memory]
  BY <1>1 DEF TypeOK
<1>3. EnterChild("fork") /\ nextPid \in Pids /\ ~active
  OBVIOUS
<1>4. TypeOK'
  BY <1>1, <1>2, <1>3, EnterChildInv DEF TypeOK
<1>5. ForkIsolation'
  <2>1. image' = mem[cr3] /\ cr3' = spaces + 1 /\ parentCr3' = cr3
    BY DEF EnterChild
  <2>2. cr3 \in SpaceIds /\ cr3 # spaces + 1
    BY DEF TypeOK, SpaceBounds, SpaceIds
  <2>3. mem'[cr3] = mem[cr3]
    BY <2>2 DEF TypeOK
  <2>4. QED
    BY <2>1, <2>2, <2>3 DEF ForkIsolation
<1>6. SpaceBounds'
  <2>1. spaces' + free' <= Frames + 1
    BY <1>1, ProcessConstants DEF SpaceBounds, TypeOK, SpaceIds
  <2>2. cr3' <= spaces' /\ parentCr3' \in SpaceIds /\ parentCr3' <= spaces'
    BY <1>1, ProcessConstants DEF SpaceBounds, TypeOK, SpaceIds
  <2>3. QED
    BY <2>1, <2>2 DEF SpaceBounds
<1>7. SavedMemory'
  BY <1>3, EnterChildInv DEF SavedMemory, EnterChild
<1>8. QED
  BY <1>3, <1>4, <1>5, <1>6, <1>7, EnterChildInv

(* The failed fork only costs a pid and the frames.                        *)
LEMMA ForkNoMemoryInv ==
  ASSUME IInv, ForkNoMemory
  PROVE  IInv'
<1> USE DEF IInv, ForkNoMemory, MayFork, Suspend, ghostVars
<1>1. TypeOK'
  BY ProcessConstants DEF TypeOK
<1>2. OneSuspendedParent' /\ ZombieTable' /\ ForkIsolation'
  BY DEF OneSuspendedParent, ZombieTable, ForkIsolation, SavedMemory
<1>3. PidBounds'
  BY DEF PidBounds, TypeOK, Pids
<1>4. SpaceBounds' /\ SavedMemory'
  BY DEF SpaceBounds, SavedMemory, TypeOK, SpaceIds
<1>5. QED
  BY <1>1, <1>2, <1>3, <1>4

(* vfork: the snapshot, when taken, is the promised stack.                 *)
LEMMA VforkInv ==
  ASSUME IInv, NEW ownStack \in BOOLEAN, NEW inRegion \in BOOLEAN,
         Vfork(ownStack, inRegion)
  PROVE  IInv'
<1> DEFINE how == IF ~ownStack /\ inRegion THEN "vfork" ELSE "sharedStack"
<1> USE DEF IInv
<1>1. /\ Suspend /\ EnterChild(how) /\ nextPid \in Pids /\ ~active
      /\ UNCHANGED <<cr3, mem, spaces, free>>
      /\ how \in {"fork", "vfork", "sharedStack"}
  BY DEF Vfork, MayFork
<1>2. stackSnap' = IF how = "vfork" THEN Snapshot(mem[cr3].stack) ELSE NoSnapshot
  BY DEF Vfork, MayFork
<1>3. mem[cr3].stack \in Val
  BY DEF TypeOK, Memory
<1>4. stackSnap' \in {NoSnapshot} \union {Snapshot(v) : v \in Val}
  BY <1>2, <1>3
<1>5. kind' = how /\ promise' = mem[cr3] /\ active' /\ own' = (how = "fork")
  BY <1>1 DEF EnterChild
<1> HIDE DEF how
<1>6. TypeOK'
  BY <1>1, <1>4, EnterChildInv DEF TypeOK, Suspend
<1>7. ForkIsolation'
  <2>1. how # "fork"
    BY DEF how
  <2>2. QED
    BY <1>5, <2>1 DEF ForkIsolation
<1>8. SpaceBounds'
  BY <1>1 DEF SpaceBounds, TypeOK, Suspend
<1>9. SavedMemory'
  <2>1. how \in {"vfork", "sharedStack"}
    BY DEF how
  <2>2. QED
    BY <1>2, <1>5, <2>1 DEF SavedMemory, Snapshot, NoSnapshot
<1>10. QED
  BY <1>1, <1>6, <1>7, <1>8, <1>9, EnterChildInv

----------------------------------------------------------------------------
(* A finished child goes to a free slot or is dropped; either way the      *)
(* table and the fates agree again.                                        *)
LEMMA PushInv ==
  ASSUME IInv, active, NEW word \in Nat, PushExitedChild(childPid, word),
         status' = [status EXCEPT ![childPid] = word]
  PROVE  /\ children' \in [Slots -> Entry]
         /\ fate' \in [Pids -> Fates] /\ status' \in [Pids -> Nat]
         /\ fate'[childPid] \in {"zombie", "dropped"}
         /\ \A p \in Pids : p # childPid => fate'[p] = fate[p]
         /\ ZombieTable'
<1> USE DEF IInv
<1>1. childPid \in Pids /\ childPid \in Nat /\ fate[childPid] = "live"
  BY DEF PidBounds, TypeOK, OneSuspendedParent
<1>2. /\ fate \in [Pids -> Fates] /\ status \in [Pids -> Nat]
      /\ children \in [Slots -> Entry]
  BY DEF TypeOK
<1>3. \A i \in Slots : children[i].used => children[i].pid # childPid
  BY <1>1 DEF ZombieTable
<1>4. CASE \A i \in Slots : children[i].used
  <2>1. children' = children /\ fate' = [fate EXCEPT ![childPid] = "dropped"]
    BY <1>4 DEF PushExitedChild, FreeSlot, TableFull
  <2>2. ZombieTable'
    BY <1>1, <1>2, <1>3, <2>1 DEF ZombieTable
  <2>3. QED
    BY <1>1, <1>2, <2>1, <2>2 DEF Fates
<1>5. CASE \E i \in Slots : ~children[i].used
  <2>1. PICK k \in Slots :
          /\ ~children[k].used
          /\ children' = [children EXCEPT
               ![k] = [used |-> TRUE, pid |-> childPid, status |-> word]]
          /\ fate' = [fate EXCEPT ![childPid] = "zombie"]
    BY <1>5 DEF PushExitedChild, FreeSlot, TableFull
  <2>2. children' \in [Slots -> Entry]
    BY <1>1, <1>2, <2>1 DEF Entry
  <2>3. /\ fate' \in [Pids -> Fates] /\ status' \in [Pids -> Nat]
        /\ fate'[childPid] = "zombie"
        /\ \A p \in Pids : p # childPid => fate'[p] = fate[p]
    BY <1>1, <1>2, <2>1 DEF Fates
  <2>4. ASSUME NEW i \in Slots, children'[i].used
        PROVE  /\ children'[i].pid \in Pids
               /\ fate'[children'[i].pid] = "zombie"
               /\ children'[i].status = status'[children'[i].pid]
    <3>1. CASE i = k
      BY <1>1, <1>2, <2>1, <3>1
    <3>2. CASE i # k
      <4>1. children'[i] = children[i]
        BY <1>2, <2>1, <3>2
      <4>2. children[i].pid \in Pids /\ children[i].pid # childPid
        BY <1>3, <2>4, <4>1 DEF ZombieTable
      <4>3. QED
        BY <1>2, <2>3, <2>4, <4>1, <4>2 DEF ZombieTable
    <3>3. QED
      BY <3>1, <3>2
  <2>5. ASSUME NEW p \in Pids, fate'[p] = "zombie"
        PROVE  \E i \in Slots : children'[i].used /\ children'[i].pid = p
    <3>1. CASE p = childPid
      BY <1>2, <2>1, <3>1
    <3>2. CASE p # childPid
      <4>1. PICK i \in Slots : children[i].used /\ children[i].pid = p
        BY <2>3, <2>5, <3>2 DEF ZombieTable
      <4>2. children'[i] = children[i]
        BY <1>2, <2>1, <4>1
      <4>3. QED
        BY <4>1, <4>2
    <3>3. QED
      BY <3>1, <3>2
  <2>6. ASSUME NEW i \in Slots, NEW j \in Slots,
               children'[i].used, children'[j].used,
               children'[i].pid = children'[j].pid
        PROVE  i = j
    <3>1. \A l \in Slots : l # k => children'[l] = children[l]
      BY <1>2, <2>1
    <3>2. children'[k].pid = childPid
      BY <1>2, <2>1
    <3>3. QED
      BY <1>3, <2>6, <3>1, <3>2 DEF ZombieTable
  <2>7. QED
    BY <2>2, <2>3, <2>4, <2>5, <2>6 DEF ZombieTable
<1>6. QED
  BY <1>4, <1>5

(* Ending a child brings back the parent and its memory.                   *)
LEMMA ChildExitInv ==
  ASSUME IInv, NEW code \in Nat, ChildExit(code), free' \in 0..free
  PROVE  IInv'
<1> USE DEF IInv
<1>1. /\ active /\ ExitStatus(code) \in Nat
      /\ PushExitedChild(childPid, ExitStatus(code))
      /\ status' = [status EXCEPT ![childPid] = ExitStatus(code)]
      /\ cr3' = parentCr3 /\ pid' = parentPid /\ active' = FALSE
      /\ stackSnap' = NoSnapshot /\ kind' = "none" /\ own' = FALSE
      /\ UNCHANGED <<halted, nextPid, childPid, parentPid, parentCr3, spaces,
                     promise, image>>
  BY ExitStatusType DEF ChildExit, RestoreSnapshot
<1>2. mem' \in [SpaceIds -> Memory]
  <2>1. CASE ~stackSnap.valid
    BY <2>1 DEF TypeOK, ChildExit, RestoreSnapshot
  <2>2. CASE stackSnap.valid
    <3>1. stackSnap.stack \in Val
      BY <2>2 DEF TypeOK, Snapshot, NoSnapshot
    <3>2. mem' = [mem EXCEPT ![parentCr3] =
                    [mem[parentCr3] EXCEPT !.stack = stackSnap.stack]]
      BY <2>2 DEF ChildExit, RestoreSnapshot
    <3>3. QED
      BY <1>1, <3>1, <3>2 DEF TypeOK, Memory, SpaceBounds
  <2>3. QED
    BY <2>1, <2>2
<1>3. TypeOK'
  <2>1. free' \in 0..Frames
    BY ProcessConstants DEF TypeOK
  <2>2. parentCr3 \in SpaceIds
    BY <1>1 DEF SpaceBounds
  <2>3. QED
    BY <1>1, <1>2, <2>1, <2>2, PushInv DEF TypeOK
<1>4. OneSuspendedParent'
  <2>1. parentPid = 1 /\ childPid # 1 /\ childPid \in Pids
    BY <1>1 DEF OneSuspendedParent, PidBounds
  <2>2. QED
    BY <1>1, <2>1, PushInv DEF OneSuspendedParent
<1>5. ZombieTable'
  BY <1>1, PushInv
<1>6. PidBounds'
  <2>1. \A p \in Pids : p >= nextPid => p # childPid
    BY <1>1 DEF PidBounds, Pids, TypeOK
  <2>2. QED
    BY <1>1, <2>1, PushInv DEF PidBounds
<1>7. SpaceBounds'
  <2>1. /\ free \in Nat /\ spaces \in Nat /\ Frames \in Nat
        /\ spaces + free <= Frames + 1
    BY ProcessConstants DEF TypeOK, SpaceIds, SpaceBounds
  <2>2. free' \in Nat /\ free' <= free
    BY <2>1
  <2>3. spaces' = spaces
    BY <1>1
  <2>4. spaces' + free' <= Frames + 1
    <3>1. spaces + free' <= Frames + 1
      BY <2>1, <2>2, FewerFrames
    <3>2. QED
      BY <2>3, <3>1
  <2>5. parentCr3 <= spaces
    BY <1>1 DEF SpaceBounds
  <2>6. QED
    BY <1>1, <2>4, <2>5 DEF SpaceBounds
<1>8. ForkIsolation' /\ SavedMemory'
  BY <1>1 DEF ForkIsolation, SavedMemory, NoSnapshot
<1>9. QED
  BY <1>3, <1>4, <1>5, <1>6, <1>7, <1>8

(* exit of a child.                                                        *)
LEMMA ExitInv ==
  ASSUME IInv, NEW code \in Codes, Exit(code)
  PROVE  IInv'
<1>1. code \in Nat /\ ChildExit(code) /\ free' = free
  BY ProcessConstants DEF Exit
<1>2. free' \in 0..free
  BY <1>1, ProcessConstants DEF IInv, TypeOK
<1>3. QED
  BY <1>1, <1>2, ChildExitInv

(* execve that fails: the child exits with the error number.               *)
LEMMA ExecFailInv ==
  ASSUME IInv, ExecFail
  PROVE  IInv'
<1>1. PICK code \in Nat : ChildExit(code)
  BY DEF ExecFail, EFAULT, EINVAL, ENAMETOOLONG, ENOMEM, ENOENT, ENOEXEC
<1>2. free' \in 0..free
  BY ProcessConstants DEF ExecFail, IInv, TypeOK
<1>3. QED
  BY <1>1, <1>2, ChildExitInv

(* execve that succeeds: only the new address space changes.               *)
LEMMA ExecInv ==
  ASSUME IInv, Exec
  PROVE  IInv'
<1> USE DEF IInv
<1>1. PICK cost \in Nat \ {0}, m \in Memory :
        /\ cost + 1 <= free
        /\ free' = free - (cost + 1)
        /\ mem' = [mem EXCEPT ![spaces + 1] = m]
  BY ProcessConstants DEF Exec, LoadFresh, TakeFrames
<1>2. /\ active /\ spaces' = spaces + 1 /\ cr3' = spaces + 1
      /\ own' = TRUE /\ image' = IF own THEN image ELSE mem[parentCr3]
      /\ UNCHANGED <<halted, procVars, parentCr3, stackSnap, kind, promise, fate,
                     status>>
  BY DEF Exec, LoadFresh, TakeFrames
<1>3. free \in 0..Frames /\ spaces \in SpaceIds /\ spaces \in Nat /\ Frames \in Nat
  BY ProcessConstants DEF TypeOK, SpaceIds
<1>4. free' \in 0..Frames /\ spaces + 1 \in SpaceIds /\ spaces + 1 + free' <= Frames + 1
  BY <1>1, <1>3 DEF SpaceBounds, SpaceIds
<1>5. TypeOK'
  <2>1. image' \in Memory
    BY <1>2 DEF TypeOK, SpaceBounds
  <2>2. QED
    BY <1>1, <1>2, <1>4, <2>1 DEF TypeOK, procVars
<1>6. OneSuspendedParent' /\ ZombieTable' /\ PidBounds' /\ SavedMemory'
  BY <1>2 DEF OneSuspendedParent, ZombieTable, PidBounds, SavedMemory, procVars
<1>7. SpaceBounds'
  <2>1. /\ parentCr3 \in SpaceIds /\ parentCr3 \in Nat /\ parentCr3 <= spaces
    BY <1>2, <1>3 DEF SpaceBounds, SpaceIds
  <2>2. parentCr3' = parentCr3 /\ parentCr3 <= spaces + 1
    BY <1>2, <1>3, <2>1
  <2>3. spaces' = spaces + 1 /\ cr3' = spaces + 1
    BY <1>2
  <2>4. spaces' + free' <= Frames + 1 /\ cr3' <= spaces'
    <3>1. spaces + 1 <= spaces + 1
      BY <1>3
    <3>2. QED
      BY <1>4, <2>3, <3>1
  <2>5. QED
    BY <2>1, <2>2, <2>3, <2>4 DEF SpaceBounds
<1>8. ForkIsolation'
  <2>1. parentCr3 \in SpaceIds /\ parentCr3 <= spaces
    BY <1>2 DEF SpaceBounds
  <2>2. parentCr3 # spaces + 1
    BY <1>3, <2>1 DEF SpaceIds
  <2>3. QED
    BY <1>1, <1>2, <2>1, <2>2 DEF ForkIsolation, TypeOK
<1>9. QED
  BY <1>5, <1>6, <1>7, <1>8

(* wait4 empties exactly one slot and settles exactly one pid.             *)
LEMMA Wait4Inv ==
  ASSUME IInv, NEW requested \in {-1} \union Pids, NEW badAddress \in BOOLEAN,
         Wait4(requested, badAddress)
  PROVE  IInv'
<1> USE DEF IInv
<1>1. PICK k \in Slots :
        /\ Matches(children[k], requested)
        /\ children' = [children EXCEPT ![k] = EmptyEntry]
        /\ fate' = [fate EXCEPT ![children[k].pid] =
                      IF badAddress THEN "lost" ELSE "reaped"]
  BY DEF Wait4
<1>2. UNCHANGED <<halted, pid, nextPid, active, childPid, parentPid, memVars,
                  kind, promise, own, image, status>>
  BY DEF Wait4
<1> DEFINE q == children[k].pid
<1>3. children[k].used /\ q \in Pids /\ q \in Nat /\ fate[q] = "zombie"
  BY <1>1 DEF Matches, ZombieTable, Pids
<1>4. /\ fate \in [Pids -> Fates] /\ children \in [Slots -> Entry]
      /\ children'[k] = EmptyEntry
      /\ \A i \in Slots : i # k => children'[i] = children[i]
  BY <1>1 DEF TypeOK
<1>5. /\ fate' \in [Pids -> Fates] /\ fate'[q] \in {"lost", "reaped"}
      /\ \A p \in Pids : p # q => fate'[p] = fate[p]
  BY <1>1, <1>3, <1>4 DEF Fates
<1> HIDE DEF q
<1>6. TypeOK'
  <2>1. children' \in [Slots -> Entry]
    BY <1>1, <1>4 DEF EmptyEntry, Entry
  <2>2. QED
    BY <1>2, <1>5, <2>1 DEF TypeOK, memVars
<1>7. OneSuspendedParent'
  BY <1>2, <1>3, <1>5 DEF OneSuspendedParent
<1>8. ZombieTable'
  <2>1. \A i \in Slots : i # k /\ children[i].used => children[i].pid # q
    BY <1>3 DEF ZombieTable, q
  <2>2. ~children'[k].used
    BY <1>4 DEF EmptyEntry
  <2>3. ASSUME NEW i \in Slots, children'[i].used
        PROVE  /\ children'[i].pid \in Pids
               /\ fate'[children'[i].pid] = "zombie"
               /\ children'[i].status = status'[children'[i].pid]
    BY <1>2, <1>4, <1>5, <2>1, <2>2, <2>3 DEF ZombieTable
  <2>4. ASSUME NEW p \in Pids, fate'[p] = "zombie"
        PROVE  \E i \in Slots : children'[i].used /\ children'[i].pid = p
    <3>1. p # q /\ fate[p] = "zombie"
      BY <1>5, <2>4
    <3>2. PICK i \in Slots : children[i].used /\ children[i].pid = p
      BY <3>1 DEF ZombieTable
    <3>3. i # k
      BY <3>1, <3>2 DEF q
    <3>4. QED
      BY <1>4, <3>2, <3>3
  <2>5. ASSUME NEW i \in Slots, NEW j \in Slots,
               children'[i].used, children'[j].used,
               children'[i].pid = children'[j].pid
        PROVE  i = j
    BY <1>4, <2>2, <2>5 DEF ZombieTable
  <2>6. QED
    BY <2>3, <2>4, <2>5 DEF ZombieTable
<1>9. PidBounds'
  BY <1>2, <1>3, <1>5 DEF PidBounds
<1>10. ForkIsolation' /\ SpaceBounds' /\ SavedMemory'
  BY <1>2 DEF ForkIsolation, SpaceBounds, SavedMemory, memVars
<1>11. QED
  BY <1>6, <1>7, <1>8, <1>9, <1>10

(* Stopping the machine, and stuttering, change nothing IInv speaks of.    *)
LEMMA HaltInv ==
  ASSUME IInv, halted' \in BOOLEAN, UNCHANGED <<procVars, memVars, ghostVars>>
  PROVE  IInv'
<1> USE DEF IInv, procVars, memVars, ghostVars
<1>1. TypeOK'
  BY DEF TypeOK
<1>2. OneSuspendedParent' /\ ZombieTable' /\ PidBounds'
  BY DEF OneSuspendedParent, ZombieTable, PidBounds
<1>3. ForkIsolation' /\ SpaceBounds' /\ SavedMemory'
  BY DEF ForkIsolation, SpaceBounds, SavedMemory
<1>4. QED
  BY <1>1, <1>2, <1>3

LEMMA NextInv == IInv /\ [Next]_vars => IInv'
<1> SUFFICES ASSUME IInv, [Next]_vars PROVE IInv'
  OBVIOUS
<1>1. ASSUME NEW region \in {"stack", "rest"}, NEW v \in Val,
             UserWrite(region, v)
      PROVE  IInv'
  BY <1>1, UserWriteInv
<1>2. CASE Fork
  BY <1>2, ForkInv
<1>3. CASE ForkNoMemory
  BY <1>3, ForkNoMemoryInv
<1>4. ASSUME NEW ownStack \in BOOLEAN, NEW inRegion \in BOOLEAN,
             Vfork(ownStack, inRegion)
      PROVE  IInv'
  BY <1>4, VforkInv
<1>5. CASE Clone3 \/ ExitFirst \/ Exception
  BY <1>5, HaltInv DEF Clone3, MayFork, ExitFirst, Exception
<1>6. ASSUME NEW code \in Codes, Exit(code)
      PROVE  IInv'
  BY <1>6, ExitInv
<1>7. CASE Exec
  BY <1>7, ExecInv
<1>8. CASE ExecFail
  BY <1>8, ExecFailInv
<1>9. ASSUME NEW requested \in {-1} \union Pids, NEW badAddress \in BOOLEAN,
             Wait4(requested, badAddress)
      PROVE  IInv'
  BY <1>9, Wait4Inv
<1>10. CASE UNCHANGED vars
  BY <1>10, HaltInv DEF vars, IInv, TypeOK
<1>11. QED
  BY <1>1, <1>2, <1>3, <1>4, <1>5, <1>6, <1>7, <1>8, <1>9, <1>10 DEF Next

(* The inductive invariant holds in every state of every run of the        *)
(* kernel's process control.                                               *)
THEOREM ProcessesInvariant == Spec => []IInv
<1>1. QED
  BY InitInv, NextInv, PTL DEF Spec

----------------------------------------------------------------------------
(* Every variable keeps its range.                                         *)
THEOREM ProcessesTypeOK == Spec => []TypeOK
<1>1. IInv => TypeOK
  BY DEF IInv
<1>2. QED
  BY <1>1, ProcessesInvariant, PTL

(* The first program is running or is the one saved in PARENT_STATE.       *)
THEOREM FirstProgramNeverLost == Spec => []OneSuspendedParent
<1>1. IInv => OneSuspendedParent
  BY DEF IInv
<1>2. QED
  BY <1>1, ProcessesInvariant, PTL

(* The CHILDREN table holds exactly the children nobody waited for.        *)
THEOREM ChildrenTableExact == Spec => []ZombieTable
<1>1. IInv => ZombieTable
  BY DEF IInv
<1>2. QED
  BY <1>1, ProcessesInvariant, PTL

(* A child with an address space of its own, by fork or by exec after      *)
(* vfork, never changes the memory of its suspended parent.                *)
THEOREM ForkedChildIsolated == Spec => []ForkIsolation
<1>1. IInv => ForkIsolation
  BY DEF IInv
<1>2. QED
  BY <1>1, ProcessesInvariant, PTL

----------------------------------------------------------------------------
(* What a child's end does to its parent.                                  *)
LEMMA ChildExitResumes ==
  ASSUME IInv, NEW code \in Nat, ChildExit(code)
  PROVE  /\ pid' = 1
         /\ cr3' = parentCr3
         /\ kind \in {"fork", "vfork"} => mem'[cr3'].stack = promise.stack
         /\ kind = "fork" => mem'[cr3'] = promise
<1> USE DEF IInv
<1>1. /\ active /\ cr3' = parentCr3 /\ pid' = parentPid
      /\ mem' = IF stackSnap.valid
                THEN [mem EXCEPT ![parentCr3] =
                        [@ EXCEPT !.stack = stackSnap.stack]]
                ELSE mem
  BY DEF ChildExit, RestoreSnapshot
<1>2. pid' = 1
  BY <1>1 DEF OneSuspendedParent
<1>3. /\ parentCr3 \in SpaceIds /\ mem \in [SpaceIds -> Memory]
      /\ mem[parentCr3] \in Memory
  BY <1>1 DEF SpaceBounds, TypeOK
<1>4. CASE kind = "fork"
  <2>1. ~stackSnap.valid /\ mem[parentCr3] = promise
    BY <1>4 DEF SavedMemory, ForkIsolation
  <2>2. QED
    BY <1>1, <1>2, <1>4, <2>1
<1>5. CASE kind = "vfork"
  <2>1. stackSnap.valid /\ stackSnap.stack = promise.stack
    BY <1>5 DEF SavedMemory, Snapshot
  <2>2. mem'[parentCr3] = [mem[parentCr3] EXCEPT !.stack = stackSnap.stack]
    BY <1>1, <1>3, <2>1
  <2>3. mem'[parentCr3].stack = promise.stack
    BY <1>3, <2>1, <2>2 DEF Memory
  <2>4. QED
    BY <1>1, <1>2, <1>5, <2>3
<1>6. CASE kind \notin {"fork", "vfork"}
  BY <1>1, <1>2, <1>6
<1>7. QED
  BY <1>4, <1>5, <1>6

(* A child ends by exit or by a failed exec, and in no other step.         *)
LEMMA OnlyExitResumes ==
  ASSUME IInv, Next, active, ~active'
  PROVE  \E code \in Nat : ChildExit(code)
<1>1. CASE \E code \in Codes : Exit(code)
  BY <1>1, ProcessConstants DEF Exit
<1>2. CASE ExecFail
  BY <1>2 DEF ExecFail, EFAULT, EINVAL, ENAMETOOLONG, ENOMEM, ENOENT, ENOEXEC
<1>3. QED
  BY <1>1, <1>2 DEF Next, UserWrite, Fork, MayFork, CloneSpace, TakeFrames, ForkNoMemory, Vfork, Clone3,
                    ExitFirst, Exception, Exec, LoadFresh, Wait4, procVars

(* When a child ends its parent resumes as it was suspended.               *)
THEOREM ParentResumesIntact == Spec => ParentResumes
<1>1. IInv /\ [Next]_vars =>
        [active /\ ~active' =>
           /\ pid' = 1
           /\ cr3' = parentCr3
           /\ kind \in {"fork", "vfork"} => mem'[cr3'].stack = promise.stack
           /\ kind = "fork" => mem'[cr3'] = promise]_vars
  <2> SUFFICES ASSUME IInv, Next, active, ~active'
               PROVE  /\ pid' = 1
                      /\ cr3' = parentCr3
                      /\ kind \in {"fork", "vfork"} =>
                           mem'[cr3'].stack = promise.stack
                      /\ kind = "fork" => mem'[cr3'] = promise
    OBVIOUS
  <2>1. PICK code \in Nat : ChildExit(code)
    BY OnlyExitResumes
  <2>2. QED
    BY <2>1, ChildExitResumes
<1>2. QED
  BY <1>1, ProcessesInvariant, PTL DEF Spec, ParentResumes

----------------------------------------------------------------------------
(* How one step can change what became of a pid.                           *)
Fated(p, before, after) == fate[p] = before /\ fate'[p] = after

LEMMA BirthStep ==
  ASSUME IInv, nextPid \in Pids, fate' = [fate EXCEPT ![nextPid] = "live"],
         NEW p \in Pids, fate'[p] # fate[p]
  PROVE  Fated(p, "unborn", "live")
<1>1. fate \in [Pids -> Fates] /\ fate[nextPid] = "unborn"
  BY DEF IInv, TypeOK, PidBounds, Pids
<1>2. QED
  BY <1>1 DEF Fated

LEMMA DeathStep ==
  ASSUME IInv, NEW code \in Nat, ChildExit(code),
         NEW p \in Pids, fate'[p] # fate[p]
  PROVE  \/ Fated(p, "live", "zombie")
         \/ Fated(p, "live", "dropped") /\ \A i \in Slots : children[i].used
<1>1. /\ active /\ childPid \in Pids /\ fate[childPid] = "live"
      /\ fate \in [Pids -> Fates]
  BY DEF IInv, TypeOK, PidBounds, OneSuspendedParent, ChildExit, RestoreSnapshot
<1>2. PushExitedChild(childPid, ExitStatus(code))
  BY DEF ChildExit, RestoreSnapshot
<1>3. \/ fate' = [fate EXCEPT ![childPid] = "zombie"]
      \/ /\ fate' = [fate EXCEPT ![childPid] = "dropped"]
         /\ \A i \in Slots : children[i].used
  BY <1>2 DEF PushExitedChild, FreeSlot, TableFull
<1>4. QED
  BY <1>1, <1>3 DEF Fated

LEMMA WaitStep ==
  ASSUME IInv, NEW requested \in {-1} \union Pids, NEW badAddress \in BOOLEAN,
         Wait4(requested, badAddress), NEW p \in Pids, fate'[p] # fate[p]
  PROVE  Fated(p, "zombie", "reaped") \/ Fated(p, "zombie", "lost")
<1>1. PICK k \in Slots :
        /\ Matches(children[k], requested)
        /\ fate' = [fate EXCEPT ![children[k].pid] =
                      IF badAddress THEN "lost" ELSE "reaped"]
  BY DEF Wait4
<1>2. /\ children[k].pid \in Pids /\ fate[children[k].pid] = "zombie"
      /\ fate \in [Pids -> Fates]
  BY <1>1 DEF Matches, IInv, ZombieTable, TypeOK
<1>3. QED
  BY <1>1, <1>2 DEF Fated

(* Every change of a pid's fate, whichever step makes it.                  *)
LEMMA FateStep ==
  ASSUME IInv, Next, NEW p \in Pids, fate'[p] # fate[p]
  PROVE  \/ Fated(p, "unborn", "live")
         \/ Fated(p, "live", "zombie")
         \/ Fated(p, "live", "dropped") /\ \A i \in Slots : children[i].used
         \/ Fated(p, "zombie", "reaped")
         \/ Fated(p, "zombie", "lost")
<1>1. CASE Fork \/ \E ownStack, inRegion \in BOOLEAN : Vfork(ownStack, inRegion)
  <2>1. nextPid \in Pids /\ fate' = [fate EXCEPT ![nextPid] = "live"]
    BY <1>1 DEF Fork, MayFork, CloneSpace, TakeFrames, Vfork, EnterChild
  <2>2. QED
    BY <2>1, BirthStep
<1>2. CASE ExecFail \/ \E code \in Codes : Exit(code)
  <2>1. PICK code \in Nat : ChildExit(code)
    BY <1>2, ProcessConstants
       DEF Exit, ExecFail, EFAULT, EINVAL, ENAMETOOLONG, ENOMEM, ENOENT, ENOEXEC
  <2>2. QED
    BY <2>1, DeathStep
<1>3. CASE \E requested \in {-1} \union Pids, badAddress \in BOOLEAN :
             Wait4(requested, badAddress)
  BY <1>3, WaitStep
<1>4. QED
  BY <1>1, <1>2, <1>3 DEF Next, UserWrite, ForkNoMemory, MayFork, Clone3, ExitFirst,
                          Exception, Exec, LoadFresh, TakeFrames, ghostVars

(* A pid is born once, ends once and is reported at most once.             *)
THEOREM PidLivesOnce == Spec => PidLifecycle
<1>1. IInv /\ [Next]_vars =>
        [\A p \in Pids : fate'[p] # fate[p] =>
           <<fate[p], fate'[p]>> \in
             {<<"unborn", "live">>, <<"live", "zombie">>, <<"live", "dropped">>,
              <<"zombie", "reaped">>, <<"zombie", "lost">>}]_vars
  BY FateStep DEF Fated
<1>2. QED
  BY <1>1, ProcessesInvariant, PTL DEF Spec, PidLifecycle

(* With a full table, its slots hold the statuses of different children    *)
(* that nobody waited for.                                                 *)
LEMMA FullTable ==
  ASSUME IInv, \A i \in Slots : children[i].used, NEW p \in Pids,
         fate[p] # "zombie"
  PROVE  \E waiting \in [Slots -> Pids \ {p}] :
           /\ \A i \in Slots : fate[waiting[i]] = "zombie"
           /\ \A i, j \in Slots : waiting[i] = waiting[j] => i = j
<1> DEFINE waiting == [i \in Slots |-> children[i].pid]
<1>1. \A i \in Slots : waiting[i] \in Pids \ {p} /\ fate[waiting[i]] = "zombie"
  BY DEF IInv, ZombieTable
<1>2. \A i, j \in Slots : waiting[i] = waiting[j] => i = j
  BY DEF IInv, ZombieTable
<1>3. waiting \in [Slots -> Pids \ {p}]
  BY <1>1
<1>4. QED
  BY <1>1, <1>2, <1>3

(* A status is dropped only while every slot holds the status of another   *)
(* child that exited and was not waited for.                               *)
THEOREM StatusDroppedOnlyWhenFull == Spec => DroppedOnlyWhenFull
<1>1. IInv /\ [Next]_vars =>
        [\A p \in Pids : fate[p] # "dropped" /\ fate'[p] = "dropped" =>
           \E waiting \in [Slots -> Pids \ {p}] :
             /\ \A i \in Slots : fate[waiting[i]] = "zombie"
             /\ \A i, j \in Slots : waiting[i] = waiting[j] => i = j]_vars
  <2> SUFFICES ASSUME IInv, Next, NEW p \in Pids,
                      fate[p] # "dropped", fate'[p] = "dropped"
               PROVE  \E waiting \in [Slots -> Pids \ {p}] :
                        /\ \A i \in Slots : fate[waiting[i]] = "zombie"
                        /\ \A i, j \in Slots : waiting[i] = waiting[j] => i = j
    OBVIOUS
  <2>1. Fated(p, "live", "dropped") /\ \A i \in Slots : children[i].used
    BY FateStep DEF Fated
  <2>2. QED
    BY <2>1, FullTable DEF Fated
<1>2. QED
  BY <1>1, ProcessesInvariant, PTL DEF Spec, DroppedOnlyWhenFull
=============================================================================
