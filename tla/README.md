# vibuxOS in TLA+

vibuxOS is a small x86-64 kernel in Rust (`src/kernel/src`, about 19 800 lines)
that boots, mounts its own file system from an NVMe disk, loads `bash` as the
only first program and serves some 200 Linux system calls. This directory holds
TLA+ models of the parts whose correctness depends on the order in which things
happen, the TLC configurations that check them, and proofs that TLAPS checks.

Paths below are relative to `src/kernel/src`; `syscall.rs` and `paging.rs` stand
for the files in `arch/x86_64`.

## 1. The system

One CPU, no scheduler, no threads. At any moment one program runs. What makes
the code hard is not parallelism but four things:

* **suspension.** `fork` and `vfork` do not create a second runnable process.
  They save the caller in one set of static buffers, run the child *inside the
  parent's system call* until it ends, and then put the parent back. Every piece
  of kernel state is therefore either saved and restored (descriptor table,
  signal mask, actions, pending signals, pid), or shared by both (pipe buffers,
  sockets, in-memory files, physical frames), and much of the code looks only at
  the program that runs at the moment.
* **interrupts.** The keyboard and timer handlers (`idt.rs`) run while user code
  runs, and inside those system calls that wait with `sti; hlt`. They share the
  terminal buffers and the word of pending signals with the code they interrupt.
* **failure half-way.** Calls that take several resources, or copy to user
  memory after they changed something, undo only part of what they did.
* **devices.** The NVMe controller works beside the CPU and may answer late or
  not at all; what is on the disk outlives a power loss between any two writes.

### Inventory

| component | state | operations | hard because | what makes it correct |
|---|---|---|---|---|
| process control: `process.rs`, exit paths of `syscall.rs`, `velf/runner.rs`, `paging.rs`, `memory/frame.rs` | `PARENT_STATE`, `vibux_vfork_*`, `NEXT_PID`, `CHILDREN` (16 slots), page tables, bump allocator | `do_fork`, `do_vfork`, `clone3`, `execve`, exit, `wait4`, exceptions | single save buffer, shared or copied memory, table overflow, running out of frames half-way | the first program is never lost; the parent resumes with its pid, memory and stack; every exit status is reported at most once and lost only when the table is full |
| pipe and socket buffers: `syscall.rs` | `PIPE_BUFFERS[..]`: 4096-byte ring, two cursors, length | pipe and socket read and write | wrapping two-chunk copies, partial transfers, failed copies | a bounded byte queue |
| descriptor table: `syscall.rs` | `STATE.fds`, `PIPE_BUFFERS.used`, `SOCKET_PAIRS` | pipe, socketpair, open, close, close_range, dup*, fcntl, fork, exec, exit | buffers have no reference count; the search for a free buffer sees the running program only; failing calls roll back partly | one owner per buffer, sockets stay connected, bytes are not discarded |
| signals: `syscall.rs`, `process.rs` | `PENDING_SIGNALS`, `signal_mask`, `signal_actions`, frames on the user stack, `SYSCALL_SAVED_RSP` | kill, rt_sigaction, rt_sigprocmask, delivery, rt_sigreturn, signalfd read, fork, exec, exit | nesting handlers, raising from interrupts, one shared word for all programs, stack pointer stored globally | masks unwind, SIGKILL and SIGSTOP stay open, handlers do not re-enter and run on their own stack |
| terminal input: `tty.rs`, `idt.rs` | `INPUT` ring, `LINE`, `LINE_LEN`, scancode queue, modifiers | keyboard interrupt, `read_byte`, `process_input_byte`, `flush_line` | the interrupt and the reader both push to the ring and edit the line | no byte lost or reordered, a waiting reader wakes up |
| scancode queue: `idt.rs` | 256 slots, two 8-bit cursors | `push` in the interrupt, `pop` in the reader | a pop is interrupted anywhere, no counter tells full from empty | a bounded queue |
| NVMe driver: `storage/nvme.rs` | submission and completion rings, phase bits, `next_cid`, one data page | bring-up, reads, writes, zeroes and flushes of ranges | polling with a limit, late completions, phase turnover, pages read, patched and written back | an answer is that of the command waited for, a read returns the disk, a write changes its range only |
| VFS: `storage/vfs.rs`, `coreutils.rs` | superblock, bitmap, inodes and data blocks on disk | format, mkdir, touch, write, rm, cp, mv, cd | several page writes per operation, no journal | the directories stay a tree and blocks have one owner, also after a power loss |
| memory: `paging.rs`, `memory/*`, `velf/*`, mmap family of `syscall.rs` | page tables, `brk`, `next_mmap`, bump allocator | brk, mmap, munmap, mprotect, fork, vfork, execve, exit, loading | failure at every page, frames never freed, two programs with one or two address spaces | no frame serves two purposes, heap and break agree, a suspended parent is left alone |
| in-memory files: `syscall.rs` | `RAM_FILES`, built-in files and directories, positions | open, read, pread, getdents, write, lseek, truncate, rename, unlink, stat, fstat, access | descriptors name files by path, slots are reused, transfers fail midway | a map from paths to contents |
| event descriptors: `syscall.rs` | `EVENTFDS`, `TIMERFDS`, `SIGNALFDS`, `EPOLLS`, the clock | create, set, read; poll, ppoll, select, epoll_wait, nanosleep | the looks of a waiting call and its `hlt` are interrupted by what it waits for | waits end, reports hold, expirations are counted once |
| other system calls, boot, consoles, network and USB probes, power, build | see `PROJECT.json` | | | not modelled: straight-line code, parsing or output, with nothing to interleave |

### How the components meet

* A system call enters through `vibux_syscall_entry`, which stores the user
  stack pointer of the *first* program in `SYSCALL_SAVED_RSP`, runs `syscall()`
  with interrupts off, and ends in `deliver_pending_signal`.
* `do_fork` and `do_vfork` copy the whole `STATE` (descriptors and signals
  included) to `PARENT_STATE` and enter the child; the child's exit path jumps
  back to the saved kernel stack, and the parent's own call returns, delivering
  signals as every call does. In the modules `Descriptors` and `Signals` this is
  the variable `suspended`: empty, or the one saved state.
* Interrupt handlers call `raise_signal_from_tty`, at any moment.
* The clock of the event descriptors is the tick of the timer interrupt, and
  signals, which the keyboard raises, end some of their waits.
* The file system is on the disk behind the NVMe driver; `Vfs` takes a page
  write as one step, which is what `WritesPrefix` of `Nvme` promises of a write
  that returns, and fails or stops before any of them.
* `bash` reaches in-memory files and devices only. The commands of the built-in
  shell reach the file system; the shell is compiled but not started.

## 2. Modules

Written so that they can be proved about: parameters are CONSTANTS with a named
assumption, one action per operation, and no recursive operator: the lists and
paths of `Vfs` are walked by recursive functions. `PipeFifo`, `ScancodeFifo` and `FileStore` are
abstract: they say what programs see. The others follow the code.

### Processes.tla (`process.rs`)

Variables are the statics of `process.rs` (`active`, `childPid`, `parentPid`,
`nextPid`, `children`, `cr3`, `parentCr3`, `stackSnap`), the memory of every
address space, the frames left, and ghosts (`fate`, `status`: what became of
every pid; `promise`: the parent's memory when it was suspended; `own`,
`image`: whether the child has an address space of its own, and the parent's
memory when it got one, by the fork or by an exec).

| action | code |
|---|---|
| `Fork`, `ForkNoMemory` | `do_fork`: copy of the address space; when frames run out the pid is used up and the frames are gone |
| `Vfork` | `do_vfork`: shared address space; the stack region is saved unless the child has a stack of its own or the parent's stack lies outside of the mapped region |
| `Clone3` | `clone3_impl` passes a null frame: the page fault halts the machine |
| `Exec`, `ExecFail` | `execve` in a child: fresh address space, or the child ends with the error number, after taking some frames |
| `Exit`, `ExitFirst` | exit in a child (`vibux_vfork_child_exit`: table, stack snapshot, saved state), exit of `bash` |
| `Exception` | any CPU exception halts |
| `Wait4` | the first matching entry is cleared *before* the status is copied out |
| `UserWrite` | user code |

Memory contents are abstracted to one value for the stack region and one for the
rest, which is what fork, vfork and exec treat differently.

### PipeFifo.tla, PipeRing.tla (pipe and socket buffers)

`PipeRing` has the data array, both cursors and the length, and a read or write
is one action with the two chunks the code copies. `PipeFifo` is what a program
sees: a bounded queue. `reply` records the whole call, arguments and result, so
that an implementation cannot deliver other bytes than those it was given.
`PipeRing` implements `PipeFifo` with `queue <- Contents`.

### Descriptors.tla (descriptor table)

Descriptors of pipes, sockets and everything else; buffers with their `used`
mark and fill level; socket pairs. The peculiarities of the code are kept:
`create_pipe` takes the lowest buffer that no *pipe* descriptor of the *running*
program names, and wipes it; a failing `create_pipe` marks the buffer unused; a
failing `socketpair` forgets its two buffers; `fcntl(F_SETFL)` overwrites
close-on-exec; `exec` and `close_range` leave descriptors below 3 alone. The
ghost `stolen` collects the buffers that `pipe()` took from somebody. The
properties are about all other buffers: they say that this is the *only* way
for two objects to get into each other's way.

### Signals.tla (signals)

`pending` is the machine-wide word. A call takes two or more steps: `Call` (in
one of the forms that change the signal state, or `OtherCall`), then
`DropIgnored` any number of times, then `deliver_pending_signal` or
`ReturnToUser`; interrupts raise signals in between. A frame on the user stack
keeps the signal, the mask to restore, and *whose* stack pointer it was built
from: a handler entered in a child overwrites `SYSCALL_SAVED_RSP`, and the
parent's fork call, which then returns, builds its own frame from that value.
Ghosts: `base` (the mask the program chose outside handlers), `opened` (a
handler unblocked signals), `edited` (a handler wrote SIGKILL or SIGSTOP in its
own frame).

### Tty.tla (`tty.rs`, `idt.rs`)

One read of the terminal, and the interrupts that come between its steps. A
system call starts with interrupts off; from its first `sti; hlt` on
(`enabled`) an interrupt may come anywhere. The reader's steps are cut where an
interrupt makes a difference:

| reader | code |
|---|---|
| `CheckSignal`, `Pop`, `PollSerial`, `PollKeyboard`, `PollNothing`, `Halt` | the loop of `read_byte` |
| `ProcessSignal`, `ProcessUncooked`, `ProcessDelete`, `ProcessEof`, `ProcessOther` | the branches of `process_input_byte` |
| `Erase`; `Store`, `CountUp` | `LINE_LEN -= 1`; `LINE[LINE_LEN] = byte; LINE_LEN += 1` |
| `BeginFlush`, `Load`, `StoreByte`, `Clear` | `flush_line`, and the two halves of `push_input` in it |

The statics are plain memory to the compiler: the second use of one may read it
again or take the value read before, so `Erase`, `Store`, `CountUp` and
`StoreByte` choose. An underflow of `LINE_LEN` stops the machine, as it does in a build with
overflow checks. The interrupt (`KeyPress`, `Control`, `TimerTick`) is one step.

Bytes are abstracted to the classes the line editor distinguishes, and carry
the number of the key press they come from, so that `Held`, the sequence of all
keys on their way to the program, is a function of the state. The ghost `raced`
is set when a control-C or control-D arrives in the middle of an update of the
line, or any pushing key between the two halves of `push_input`. These are the
places where the code does lose, double or resurrect keys; the properties say
that it happens nowhere else. A separate section at the end of the module states
the inductive invariants the proofs use.

### ScancodeFifo.tla, ScancodeQueue.tla (`idt.rs`)

`pop` is cut at its accesses to the cursors and the slot (`LoadTail`,
`LoadHead`, ...), `Push` is one step and may come between any two of them. The
queue it implements, `ScancodeFifo`, is the bounded sequence that `Tty` uses.

### Nvme.tla (`storage/nvme.rs`)

Driver and device side by side. The driver: `Disable`, `Enable`, `NotReady`,
`BootSubmit`, `BootDone` (bring-up), `Call` with the loops of `read_range`,
`read_blocks_into`, `write_range`, `write_blocks_from`, `zero_range` and `flush`
(`ReadPage` .. `Flush` submit a command, `Done` and `Failed` take its answer),
`Timeout` (`WAIT_SPINS` polls without an answer). The device, `Execute`, takes
entries in order and may answer any of them with an error, whenever it likes:
also after the driver has given the command up. Ghosts: `fresh` counts the
completions not yet taken, `before` keeps the disk of the call, `late` says that
a command was given up.

### Vfs.tla (`storage/vfs.rs`, `coreutils.rs`)

The operators (`resolve`, `create_entry`, `unlink_child`, `remove`,
`write_file`, `Runs` for `find_run`) compute, from what is on the disk, the
series of page writes an operation makes. The series becomes the variable
`plan`, and `WritePage` does one of them; `IoError` drops the rest, and `Crash`
drops the rest and all that is in memory, after which `Mount` or `Attach` starts
again from the disk. This is faithful because nothing else runs between two
writes, and each page is read back only after it was written. A loop over the
list of a directory is the operator `List`, which follows the list for as many
entries as there are inodes: a list without a circle (`TreeSound`) is no longer.
The specification is called `VfsSpec`, and its parts `VfsInit`, `VfsNext`,
`vfs_vars`, because `FilesProofs` extends both `RamFiles` and `Vfs`.

`attach` formats a disk that has no superblock of its size, and the disk may have
been used with another one: `VfsInit` takes any of `OldDisks`. `format` writes the superblock, the
bitmap and the first block of inodes (`WriteTable`, the inodes up to
`PerBlock`), so inodes behind that block which were in use stay so for ever; the
ghost `stale` has them, and `formatted` says that the three writes were made.
`create_entry` compares a name as it was given with the names of the entries,
and stores what `Cut` leaves of it, as the code stores 56 bytes: a longer name is
not found again, and each attempt to make it makes another entry.

### Memory.tla (`paging.rs`, `memory/frame.rs`, `velf/`, mmap family)

Every loop over pages is taken one turn at a time: `TakeLeaf` (the frame for the
page), `LinkTable` (a missing page table), `MapPage`, `MapDone`, and their
failures `LeafFails` and `MapFails`, for brk, mmap with and without `MAP_FIXED`
and loading; `CloneTable`, `ClonePage`, `CloneDone`, `CloneFails` for fork. The
allocator walks regions whose ends are not whole pages. The words of a break wrap
at `WordSize`. `ram` tells who wrote a frame last. The ghost `astray` collects the
address spaces whose heap and break may have parted, each addition at the action
that does it.

### FileStore.tla, RamFiles.tla (in-memory files)

`RamFiles` has the table with its slots, the bytes that stay behind the end of a
file, descriptors that keep a path, and copies in chunks that may stop midway.
`FileStore` is a map from paths to sequences of bytes. What the code gets wrong
is part of `FileStore`, narrowed as far as it holds: a partial write reports bytes
that are not in the file, holes hold zeros or bytes once written to that very
file, a file given its own name is lost, `stat` knows the lengths of built-in
files only. `fstat` answers for the file that has the descriptor's path now. One
descriptor, opened for both directions, is enough in the instance: positions are
per descriptor and go anywhere, and the store does not ask for the direction.

### Events.tla (event descriptors and waiting)

A waiting call is a loop of steps: `Look` at one descriptor after the other,
`Looked`, `Check` (deadline, and signals where the call looks for them), `Halt`
(`sti; hlt`). In its first turn interrupts are off, later they come between any
two steps: `TimerTick`, `OtherInterrupt`, which end the sleep (`Wake`). Other
calls are one step. `tally` is a ghost with the first expiration of each timer
and how many were read.

### Faulty variants

Several definitions are preceded by a variant with a plausible mistake
(`MayForkUnchecked`, `CopyInAgain`, `close_releasing`, `ActionMask`, ...). No
action uses them. Each stands for one way the code could be wrong, and putting
it in the place of the correct definition makes TLC report a violation of the
property named with it under "mutants" in `PROJECT.json`.

## 3. Runs

| run | bounds | states | properties: what they say |
|---|---|---|---|
| `processes` | 2 table slots, pids up to 4, 2 frames, address spaces of 1 frame, exit code 257, two values per memory region | 398,800 | `OneSuspendedParent`: the saved program is the first one. `ZombieTable`: the table holds exactly the exited children nobody waited for. `PidLifecycle`. `ForkIsolation`: from the fork, or from the exec of a vforked child, nothing the child does reaches its parent's memory. `ParentResumes`: what the parent finds |
| `pipe_ring` | capacity 3, two byte values, requests up to 4 | 9,988 | `ImplementsFifo`: refinement of `PipeFifo` |
| `descriptors` | 2 descriptors, 4 buffers, 2 socket pairs, fork and exec | 753,172 | `PipesOwnBuffers`, `PairsDisjoint`, `SocketsConnected`, `BytesKept`: no two objects share a buffer, sockets keep their pair, bytes leave by reads only |
| `signals` | SIGINT, SIGKILL; 2 nested frames; handlers with a mask and reset, and with SA_NODEFER, on good and bad stacks; edited frames; a child at a time | 2,605,955 | `MaskRestored`, `KillStopOpen`, `NoReentry`, `OwnStack`, `KillUncaught` |
| `tty` | ring and line of 2 bytes, 2 scancodes, 4 keys, the default mode (canonical, with signals) | 640,064 | `TypeOK`, `KeysAccounted`: no key is lost or doubled. `KeysInOrder`: what is typed is read in that order |
| `tty_modes` | the same, 2 keys of every sort, every mode and changes of it, serial newlines | 102,678 | under fairness `KeysConsumed`, `ReadReturns`: nothing that arrives before a `hlt` is slept on |
| `scancodes` | 4 slots, two codes | 1,880 | `ImplementsCodeFifo`: refinement of `ScancodeFifo` |
| `nvme` | queues of 3 entries, identifiers 1..4, pages of 2 blocks, a disk of 4, 2 operations of up to 3 blocks | 165,104 | `PhaseTells`, `OwnAnswer`, `ReadsTheDisk`, `WritesPrefix`; under fairness `OperationsReturn` |
| `vfs` | a blank and a used disk, 5 inodes of which a format clears 3, 3 blocks, files of up to 2, 3 operations over paths in two directories, one name that is cut to another, 1 power loss | 1,294,045 | `TreeSound`, `BlocksOwned`, `ReadsBack`, `NothingLost`: what an operation that is stopped anywhere can do to the others |
| `memory` | 9 pages in 3 tables, two regions of frames, 4 calls with mappings of two pages | 206,344 | `FramesOwned`, `HeapExact`, `SuspendedUntouched`, `KeepsMapped` |
| `ram_files` | 2 slots, files of 2 bytes in chunks of 1, a writable path, a built-in program, a directory of two entries | 43,150 | `PathsUnique`; `ImplementsStore`: refinement of `FileStore` |
| `events` | 2 descriptors, one object of each kind, one signal, 3 ticks of 2 units | 729,421 | `ReportsHold`, `NeverOversleeps`, `TimerExact`; under fairness `WaitReturns` |

Two runs count states that differ only in what no action reads as one (VIEW):
`processes` those that differ in what was saved for a child that has ended or in
the status of one that is no zombie, `ram_files` those that differ in the answer
of the last call. Every step out of such a state is still checked.

Why the bounds are enough to meet the interesting cases. A table of two slots
overflows with the third child, and every pid up to the last can be live,
waiting, reaped and dropped; two frames let two calls have an address space of their own
and the third fail. A ring of three bytes wraps at every position and requests of four
do not fit. With four buffers and two descriptors a child can take the buffers
its parent names, and a pipe those of a socket pair, while another pair is in
use; a descriptor that is closed makes room for the next object, so two at a
time reach every combination of owners. Two frames are the least that nest, and
a handler that blocks another signal, one that does not block its own, and one
that is reset differ from there on. A ring of two bytes overflows when a line of
two letters is flushed, two letters fill a line, and four keys are a line, the
key that ends it and a control key that meets it. Queues of three entries and
seven commands or more turn both phases over, identifiers wrap, and a late
answer meets a command with its own identifier; with blocks of half a page, every
alignment and every number of pages from one to two occurs. Three operations
create, replace and remove or move a file; five inodes are the root, `/mnt`, a
directory and two files. Nine pages are the image, the hole that mmap searches, a
heap and a stack; the frames run out during the second program. Two slots are
reused with the bytes of the file before, and a position behind the end of a file
of two bytes leaves a hole. Three ticks let a timer with an interval expire
unseen, and be read late, while another deadline passes.

Type invariants other than `Tty`'s are proved (below), or were checked on the
same instances, and are not among the runs' properties.

Where a run has `CHECK_DEADLOCK FALSE` the system may stop: the machine halts
when `bash` ends or the CPU faults (`Processes`, `Memory`), when the first program
is killed (`Signals`), and when the kernel panics (`Tty`); a controller that fails
in its bring-up is given up, and callers need not call more often than bounded
(`Nvme`, `Vfs`). In the other runs no state is without a successor.

**Fairness.** Four specifications have fairness conditions.

* `FairSpec` of `Tty`: `WF(ReaderStep)`, the processor executes the system call;
  no other code can take it away for ever, since an interrupt handler ends and
  there is no scheduler. `WF(TimerTick)`: `pit.rs` programs the interval timer at
  250 Hz and nothing stops it. The second one is needed: from the second
  `sti; hlt` of a call on, interrupts are on before the `hlt`, and a key or a
  signal in that gap does not end it; only the next tick does.
* `Spec` of `Events`: `WF(Turn)` and `WF(TimerTick)`, for the same two reasons. A
  turn of the loop is a few thousand instructions and a tick is 4 ms, so the
  model has at most one tick in a turn; without that bound the ticks of a stopped
  model clock could overtake a turn for ever. `MaxTick` stops the clock, not the
  interrupt, and deadlines lie before it.
* `Spec` of `Nvme`: `WF(Driver)`, the polling loop runs. The device is under no
  fairness: it may never answer.

User code, the keyboard and callers are under no fairness. The other
specifications have none: no call of theirs waits (an empty or full pipe answers
`EAGAIN`), and signals are delivered at the end of calls that a program may never
make.

## 4. Proofs

TLAPS proves the following for every value of the constants that satisfies the
module's named assumption (positive capacities, finite ranges; `SignalConstants`
also says that SIGKILL and SIGSTOP are not ignored by default, which
`signal_default_ignored` shows; in the run of `signals` no signal is ignored by
default, the proofs are for any set of them). Each module of proofs has one lemma per action,
`NextInv` puts them together, and a theorem of the form `Spec => []P` follows.

| module | theorems | inductive invariant |
|---|---|---|
| `ProcessesProofs` | `ProcessesTypeOK`, `FirstProgramNeverLost`, `ChildrenTableExact`, `ForkedChildIsolated`; the action properties `ParentResumesIntact`, `PidLivesOnce`, `StatusDroppedOnlyWhenFull` | `IInv` of `Processes`: the invariants of the runs plus `PidBounds` (the next pid is unborn, the live child is older), `SpaceBounds` (address spaces in use and frames left never exceed what there was) and `SavedMemory` (the stack snapshot is valid exactly after a vfork that took one, and holds the promised stack; the image is the promised memory after a fork). `StatusDroppedOnlyWhenFull` says more than that the table is full: the waiting children it names are as many as there are slots, which `FullTable` derives from the exactness of the table |
| `QueueProofs`, part 1: `PipeRing` | `CursorsAlwaysAgree`; `RingIsQueue`, the refinement of `PipeFifo` | `PipeTypeOK /\ CursorsAgree`. The refinement rests on lemmas about the two-chunk copies: what `CopyOut` returns is a prefix of the contents (`CopyOutIsPrefix`), taking leaves the rest (`TakeLeavesRest`), filling appends (`FillAppends`) |
| `DescriptorsProofs` | `DescriptorsTypeOK`, `PipesOwnTheirBuffers`, `SocketPairsDisjoint`, `SocketsStayConnected`; the action property `BytesNeverDiscarded` | the four invariants together: none is inductive alone, since who owns a buffer depends on both the tables and the pairs |
| `SignalsProofs` | `SignalsInvariant`, `SignalsTypeOK`, `MaskAlwaysRestored`, `KillStopNeverBlocked`, `HandlersNotReentered`, `HandlersOnOwnStack`; the action property `KillAlwaysEnds` | `IInv` of `Signals`: `Sound` of the running and of the suspended program. `Sound` says of every frame that the mask it will restore fits with the frames below it, that what its handler blocks stays blocked while it runs, and whose stack it was built on; the visible masks alone are not inductive because `rt_sigreturn` installs what a frame has kept since |
| `QueueProofs`, part 2: `ScancodeQueue` | `QueueTypeCorrect`; `RefinesFifo`, the refinement of `ScancodeFifo` | the cursors are slots, and between its steps a pop holds the tail it loaded and the code that is still in that slot: pushes never write where it reads. The contents are the slots from tail to head modulo the size, and lemmas say what one more and one less of them is |
| `QueueProofs`, part 3: `Tty` | `TtyTypeCorrect`, `KeysStayAccounted`; `KeysStayInOrder`, when every mode programs set is canonical | `TtyInv`, `KeysInv` and `OrderInv` of `Tty`, see below |
| `MemoryProofs` | `TypeCorrect`, `FramesAreOwned`, `HeapIsExact`; the action properties `ParentStaysUntouched`, `MappedPagesStay` | `MemoryInv` of `Memory`, see below |
| `NvmeProofs` | `TypeCorrect`, `PhaseCorrect`, `AnswerCorrect`, `ReadsCorrect`, `WritesCorrect` | `Laps`: in both queues the entries between the driver's head and the device's tail have the device's phase and all others the opposite one, which is the driver's phase exactly when the two are on the same lap; `fresh` is their distance. `InStep`, until a command is given up: at most the command waited for is with the device, and the completion not yet taken is its own. `OnTheWay` adds the data: the disk is that of the call with the blocks up to the present one written, the entry with the device asks for the next blocks, and the page holds what the disk holds, or is to hold, around them |
| `FilesProofs`, part 1: `RamFiles` | `TypeCorrect`, `PathsStayUnique`, `BytesStayOwn`; `RefinesStore`, the refinement of `FileStore` | `FilesOk /\ FdsOk`: paths are distinct, a slot in use has a path, descriptors of built-in files and directories name one that exists, and every byte of a slot, behind the end of the file too, is zero or was written to the file that has the slot. The last is what a hole shows when a file grows again, so the refinement needs it. The mapping reads a file off the one slot with its path; each call, and each chunk after which a copy stops, is a step of the store |
| `FilesProofs`, part 2: `Vfs` | `VfsTypes`, `TreeIsSound`, `NothingIsLost`, `FilesOfWholeRuns`; `BlocksAreOwned`, `FilesReadBack`, for paths that do not end in dots or a slash | `VfsInv`: once the disk was formatted, every disk on the way through the writes to come is good, see below |
| `EventsProofs` | `TypeCorrect`, `NoOversleeping`, `ReportsStayTrue`; the action property `ExactTimers` | `Awake`: a wait whose deadline has passed on the clock it last looked at does not reach its `hlt`, and at most one tick lies between the look and the `hlt`, which ends the sleep after it. `FoundHold`: what the looks of the present turn have found still holds, since only the program itself takes anything back. `TallyOk`: the expiration a timer is armed for is the first one plus the intervals already read |

**Memory.** `FramesOwned` alone is not inductive, since nothing in it says that
the allocator hands out frames nobody has. `FramesPassed` says that every frame
in use is whole, lies in a usable region and *behind* the cursor of the
allocator; the cursor only moves up, so a frame that is handed out is new
(`FramesOnce`). That regions of the memory map do not overlap is assumed, that
their ends are whole pages is not. `UnusedEmpty`
keeps what is no root yet without pages, which the reset of execve and the copy of fork
start from. For `HeapExact` the invariant has to say where the loops are: while
a break moves up, the pages mapped so far are those below the page in turn
(`HeapOfRunning`), and a vforked child, which uses the page tables of its parent,
moves the parent's pages as well unless both breaks end in the same page
(`HeapOfParent`); the address spaces for which that fails are in `astray`, and
the two conditions are claimed for all others. `ClonePlace` says that the copy
of fork has the pages of the parent up to the page in turn and none behind it.

**Terminal.** `TtyInv` adds to `TypeOK` where the reader is in the line
(`LinePlace`). The line keeps to its bounds for a reason that is not visible in
`TypeOK`: an interrupt that comes between the test for a full line and
`LINE_LEN += 1` can only shorten the line, so what the reader stores was in
bounds when it looked and still is, whichever of the two values a build uses;
`flush_line` keeps `index <= seen`. `KeysInv` holds as long as no interrupt fell
into an update: what the reader has loaded is then still so (`Untorn`), and the
keys `1..typed` without the dropped ones are held once each (`Account`). The
proof does not follow the sequences index by index in every action. `Held` is
the concatenation of five lists: what was read, ring, line, the byte in process,
scancode queue. A first group of lemmas (`Five...`) says what a change of one or
two of the lists is for the whole: nothing, a stretch taken out (`Lost`), one
element put in (`Gained`), one element moved (`Moved`). `ChangeAccount` and
`ChangeOrder` say that these changes keep the accounts, and the order but for
the keys set apart. A second group says what pushing, popping, flushing
and editing do to the lists (`RingGrows`, `PushLast`, `LineStretch`, ...), and one lemma
per action (`...Moves`) combines the two. `OrderInv` is the order of `Held`
in canonical mode; it needs that a key set apart stays so (`ApartGrows`): bytes
that were returned are not taken back. The order is claimed under the assumption
`\A m \in Modes : m.canon`: outside canonical mode a read
overtakes the bytes of an unfinished line, and the order does not hold.
`KeysConsumed` and `ReadReturns` are liveness and only checked.

**File system.** A property of the disk between any two writes cannot be an
invariant by itself: that a write keeps it depends on the writes before and
behind it. The invariant therefore speaks of the whole plan. `VfsInv` is
`Formed \/ Raw \/ Lost`. In `Raw` nothing has been written but by a format that
is on its way, over inodes whose blocks lie on the disk. `Lost` is a format that
was cut short behind its superblock: the disk will be mounted with what it had
before, and nothing is claimed but that this state stays. `Formed`, the one
with content, begins with the last write of a format; its disk satisfies the rest
of the invariant whatever inodes were left behind (`FormatDone`), and they are
kept apart from the lists for good (`Home`). A *world* is the
disk with the ghosts that matter to it; `After` is the world behind a write,
and `Run(x, p, y, ...)` says that the writes `p` lead from `x` to `y` and that
*every* world on the way is `Good`. `Steady` says that the present plan is such
a run, and, when nothing was cut short so far, that it ends in a `Final` world,
where nothing is lost. With that the steps are easy: `WritePage` moves one world
along the run, `Crash`, `Stop` and `IoError` leave a world of the run behind, and
the empty plan is a run from there on. The work is in the operations, each of
which must be a run from every good world it can start in: one lemma per operation
(`LinkRun`, `ReplaceRun`, `VfsRemoveStep`, `VfsWriteStep`, ...), put together from
lemmas about one write, because `RunBoth` joins two runs.

`Good` describes the disk without following a path. `Lists(d, B, R)`: `B` is a set
of entries, every list runs inside it and leads to larger numbers `R`, so none
is a circle; an entry is linked from one place, by the head of its parent's
list or by one entry before it, and two of a parent have one name only when it
is what is left of a longer one. `B` is not the tree. It also holds what an interrupted `rm` has cut off, a directory
with all that is below it; such a directory can be the working directory and
gets new entries, and the conditions hold for those too. The tree is the part
of `B` that is reached from the root, and `TreeSound` follows. `Owned(x, t, B)`
says that the blocks of the files of `B` are marked, have one owner each and
read back what was stored, except those of the file `t` that `write_file`
stores to while its old blocks are free on the disk. `Whole` adds, as long as no operation was cut
short, that `B` is reached from the root and that inodes and blocks in use are
exactly those of `B`, but for the inodes in `stale`; this is `NothingLost`. That a list has no more entries
than there are inodes, which the operator `List` takes for granted, is proved
from the numbers `R` and the pigeonhole principle. What `List`, `Child` and
`Walk` return is proved as well: that the recursive function each of them is
built from exists (`RecursiveFunction`), and what it does at every index, by the
least index at which it would not (`LeastNat`, `InductUpTo`), which serves where
the library's induction theorems cannot be instantiated.

`BlocksOwned` and `ReadsBack` do not hold for all paths, which the attempt to prove them
brought out and TLC confirmed on an instance with more operations. The parent of
a removed directory is not looked at again, so `..` of a working directory that
was removed can be the inode of something else: make `/d` and `/d/e`, go to
`/d/e`, have an error of the disk end `rm /d/e` after it was unlinked, remove
`/d`, write a file `f`, which gets the inode of `/d`, have an error end `rm f`
after the bitmap was written, write `g`, which gets the block of `f`, and write
nothing to `..`: that is still the inode of `f`, whose blocks are freed, and `g`
has lost its own. `EndInNames`, that no path in use ends in `..`, `.` or a
slash, excludes it and is a hypothesis of `BlocksAreOwned` and `FilesReadBack`; paths may have `..`
anywhere else. `FilesOfWholeRuns` needs no hypothesis: while no operation was cut
short both properties hold for every path. `TreeIsSound` and `NothingIsLost` hold
for every path in any case. The invariant says there are sets, numbers and worlds
such that, and TLC cannot enumerate those; the four properties it implies are
what the run checks.

`TtyInv`, `KeysInv`, `OrderInv` and `MemoryInv` were checked by TLC on the
instances of the runs before they were proved. `QueueProofs` holds the proofs of
three components because they share the arithmetic of rings (`Wrap`,
`WrapTwice`) and the lemmas about sequences.

`FilesProofs` holds the proofs of both modules of files.

Only model-checked: the liveness properties `KeysConsumed`, `ReadReturns`,
`OperationsReturn` and `WaitReturns`. Fairness and `ENABLED` are out of the
prover's reach. Every safety property of the runs is proved.

## 5. Limits

* **External code.** User programs are arbitrary: any call in any order, any
  write to their own memory.
* **Undefined outcomes.** `vibux_enter_vfork_child` does not save the
  callee-saved registers and the exit path does not restore them, so what
  `do_fork` keeps in registers across the call is the child's. `Processes` has
  the action `Exception` for the outcomes that fault, and otherwise assumes that
  the locals of `do_fork` live in memory.
* **Known defects** are listed as hazards in `PROJECT.json`, with a note where
  the model follows the code into a bad outcome: a signal raised while a child
  runs is forgotten, a failed `wait4` loses the status, `rt_sigreturn` fails in
  a child, `pipe()` takes buffers that are in use, `clone3` halts, a late answer
  of the disk is taken for that of another command, a power loss during a write
  can leave a file with free blocks, `..` of a removed directory can be any
  inode (section 4), a name longer than 56 bytes makes a new entry each time, a
  format leaves inodes of a used disk in use, a shrunk break keeps its pages, `ppoll`
  without a timeout does not wait. The repository has no tests or documents that
  promise otherwise, so no run expects a violation.
* **Terminal.** Echo, shift and caps lock, non-blocking reads and the readiness
  tests of poll and select are left out; the serial byte 0, which a read takes
  for an end of file, does not arrive.
* **Not modelled in the components above:** `rt_sigpending` and
  `rt_sigtimedwait` (they read a stale copy of the pending word), `sigaltstack`
  (stored, never used), `mremap`, the modes and times that `stat` makes up, the
  terminal, pipes and sockets among the descriptors of a wait, the contents of
  the loaded program.
* **Composition.** Each module takes the others' state as arbitrary: positions
  and files in `Descriptors`, the buffers' owners in `PipeRing`, the loader in
  `Processes`. Fork, exec and exit are in `Processes`, `Descriptors`, `Signals`
  and `Memory`, each with the part of the state it is about.
* **The code not modelled at all** is listed in `PROJECT.json` with the reason:
  hardware set-up that runs once with interrupts off, drawing, drivers that no
  program reaches, calls that read or store one value, and the host-side build.
* Liveness and `ENABLED` are out of reach of the prover; everything proved is a
  safety property or a refinement of one.
* **File system.** The paths of the run have `/` alone, which `create_entry`
  takes for a nameless entry of the working directory, but no `.` and no doubled
  slashes; the proofs have them all. Used disks have free inodes that are
  zero, as `format` and `rm` leave them, and blocks that lie on the disk; a disk
  of arbitrary bytes with no superblock is not modelled. Of a used disk whose
  format was cut short behind the superblock nothing is claimed: `formatted` is
  a premise of the properties, or follows from theirs. The bitmap is one page
  (the build makes a disk of 128 MiB, `src/main.rs`, whose 24576 blocks fit in
  it), so writing it is one step; a larger disk has up to four.
* **Arguments left out.** `Munmap` and `Mprotect` take user pages only;
  `unmap_memory` and `change_protection` do not test that. `rt_sigreturn` returns
  from a handler that runs, not from a frame a program made up. The calls of
  `Nvme` lie on the disk; `read_blocks_into` and `write_blocks_from` leave
  the range to the device, which refuses what lies outside. A path of `RamFiles` is
  the one the descriptor keeps: that `store::find` matches built-in files by
  their last part, that `/proc/self/exe` is the shell, that `.` opens the
  working directory, and the device files are left out.
* **In-memory files.** `FileStore` allows what the code does in the cases of its
  hazards (partial writes, renaming to the same name, open without a free
  descriptor, `stat` by path), so the refinement excludes everything but these.
  Its `OpenFile` also stands for lseek, close and F_SETFL, and lets them set any
  position, since no more is promised of them.
* **What premises leave open.** Buffers that `pipe()` took from their owners,
  keys while an interrupt fell into an update, answers of the disk after a command was
  given up, and files an interrupted `write_file` had half replaced are exempt from
  the properties of their modules, because the code keeps no promise about them;
  the hazards say so one by one.

## 6. Plan

What is left, the most important first.

1. **An atomic write of a page**: the step of `Vfs` as a consequence of
   `WritesPrefix` of `Nvme`, stated as a refinement.
2. **Composition**: `Processes` with `Descriptors` and `Signals` around one
   `PARENT_STATE`, each a refinement of its part; the terminal, pipes and sockets
   among the descriptors `Events` waits for.
3. **rt_sigpending and rt_sigtimedwait** in `Signals`, with the stale copy of the
   pending word as a variable of its own.
