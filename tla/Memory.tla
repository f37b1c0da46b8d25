------------------------------- MODULE Memory -------------------------------
(***************************************************************************)
(* The memory of the programs: the bump allocator of physical frames, the  *)
(* page tables, and what changes them: loading a program, brk, mmap,       *)
(* munmap, mprotect, fork with its deep copy, vfork, execve and exit.      *)
(*                                                                         *)
(* A call that maps pages is a loop that takes a frame, then builds the    *)
(* missing page tables, then writes the entry; it may run out of frames at *)
(* each of these points and keeps what it has done.  The loops are taken   *)
(* one turn at a time, although nothing interrupts them, so that every     *)
(* point of failure is a state.                                            *)
(*                                                                         *)
(* Physical addresses are bytes, virtual ones page numbers, except for the *)
(* break, which is a byte of an address space of WordSize bytes.           *)
(***************************************************************************)
EXTENDS Integers, Sequences

CONSTANTS
  PageSize,     \* bytes of a page and of a frame
  WordSize,     \* 2^64: where the sum of two addresses wraps
  Regions,      \* memory map: a sequence of [usable, start, end]
  Reserved,     \* RESERVED_LOW_MEMORY
  MemoryTop,    \* end of physical memory
  BootRoot,     \* root of the page tables the boot loader built
  Limit,        \* USER_LIMIT as a page number
  MmapBase,     \* MMAP_BASE, likewise
  HeapBase,     \* HEAP_BASE, likewise
  StackBottom,  \* lowest page of the stack
  Images,       \* programs: the pages the loader maps, in its order, with
                \* those of the stack and of TLS at the end
  ReadOnly,     \* pages of programs that are not writable
  Tables,       \* page tables below the root
  TablePath,    \* the tables on the way to a page, from the root down
  Requests,     \* breaks a program asks for
  Hints,        \* pages it names in mmap, munmap and mprotect
  Lengths,      \* lengths of mappings, in pages
  MaxCalls      \* bound: calls in one behaviour

VARIABLES
  alloc,      \* FrameAllocator: region_index and next_frame
  ram,        \* what a frame that holds a page contains
  roots,      \* page table roots that exist
  space,      \* the entries under each root; 0 is an entry not present
  cr3,        \* root of the running program
  brk,        \* break of the running program
  next_mmap,  \* where it looks for room first
  saved,      \* the suspended parent
  call,       \* the loop under way
  halted,     \* the machine has stopped
  astray,     \* ghost: roots whose heap and break may have parted
  calls       \* calls made, for the bound

vars == <<alloc, ram, roots, space, cr3, brk, next_mmap, saved, call, halted,
          astray, calls>>

Pages == 0..(Limit - 1)
Frames == {f \in 0..MemoryTop : f % PageSize = 0}
(* Set by the kernel, to zeroes or from a file, or by a program, the first *)
(* one or a child of it.                                                   *)
Contents == {"junk", "clean", "parent", "child"}

ASSUME MemoryAssumption ==
  /\ PageSize \in Nat \ {0}
  /\ WordSize \in Nat
  /\ MemoryTop \in Nat /\ Reserved \in Nat \ {0}
  /\ Regions \in Seq([usable : BOOLEAN, start : Nat, end : 0..MemoryTop])
  /\ \A i, j \in 1..Len(Regions) :
       i # j => Regions[i].end <= Regions[j].start
                \/ Regions[j].end <= Regions[i].start
  /\ BootRoot \in Frames
  /\ \A i \in 1..Len(Regions) :
       Regions[i].usable => \/ BootRoot < Regions[i].start
                            \/ Regions[i].end <= BootRoot
  /\ Limit \in Nat /\ MmapBase \in Nat /\ HeapBase \in Nat
  /\ StackBottom \in Nat
  /\ MmapBase <= HeapBase /\ HeapBase < StackBottom /\ StackBottom < Limit
  /\ Limit * PageSize <= WordSize
  /\ Images \subseteq Seq(Pages) /\ ReadOnly \subseteq Pages
  /\ TablePath \in [Pages -> Seq(Tables)]
  /\ Requests \subseteq 1..(WordSize - 1)
  /\ Hints \subseteq Pages /\ Lengths \subseteq Nat
  /\ MaxCalls \in Nat

----------------------------------------------------------------------------
(* FrameAllocator::allocate.  Where region i would hand out its next frame *)
(* and whether it can; faulty variants: the start is not moved up to a     *)
(* whole page, the end is not looked at.                                   *)
AlignUp(a) == ((a + PageSize - 1) \div PageSize) * PageSize
RegionStart(i) ==
  AlignUp(IF Regions[i].start > Reserved THEN Regions[i].start ELSE Reserved)
NextIn(a, i) == IF i = a.region /\ a.next > RegionStart(i)
                THEN a.next ELSE RegionStart(i)

FitsLoose(a, i) == Regions[i].usable /\ NextIn(a, i) < Regions[i].end
Fits(a, i) == Regions[i].usable /\ NextIn(a, i) + PageSize <= Regions[i].end

(* The region the next frame comes from, and the frame; none is left.      *)
Source(a, i) ==
  /\ i \in 1..Len(Regions)
  /\ a.region <= i
  /\ Fits(a, i)
  /\ \A j \in a.region..(i - 1) : ~Fits(a, j)
Exhausted(a) == \A i \in 1..Len(Regions) : a.region <= i => ~Fits(a, i)
AtEnd == [region |-> Len(Regions) + 1, next |-> 0]

(* allocate() answers f, or None.                                          *)
Allocate(f) ==
  \E i \in 1..Len(Regions) :
    /\ Source(alloc, i)
    /\ f = NextIn(alloc, i)
    /\ alloc' = [region |-> i, next |-> f + PageSize]
NoFrame == Exhausted(alloc) /\ alloc' = AtEnd

----------------------------------------------------------------------------
EmptySpace == [table |-> [t \in Tables |-> 0],
               leaf |-> [p \in Pages |-> 0],
               write |-> {}]
Leaf(p) == IF p \in Pages THEN space[cr3].leaf[p] ELSE 0
Mapped(p) == Leaf(p) # 0

(* map_4k walks from the root down: the first table it does not find.      *)
Missing(root, p, t) ==
  \E i \in 1..Len(TablePath[p]) :
    /\ t = TablePath[p][i]
    /\ space[root].table[t] = 0
    /\ \A j \in 1..(i - 1) : space[root].table[TablePath[p][j]] # 0
PathPresent(root, p) ==
  \A i \in 1..Len(TablePath[p]) : space[root].table[TablePath[p][i]] # 0

Loop(op, page, end, write, want, image) ==
  [op |-> op, page |-> page, end |-> end, leaf |-> 0, write |-> write,
   want |-> want, image |-> image]
Idle == Loop("none", 0, 0, FALSE, 0, <<>>)
Load(image) == Loop("load", 1, Len(image) + 1, TRUE, 0, image)
NoParent == [how |-> "none", cr3 |-> 0, brk |-> 0, next |-> 0]

(* The page number a break rounds up to, in 64-bit arithmetic.             *)
PageUp(b) == ((b + PageSize - 1) % WordSize) \div PageSize
HeapArea == HeapBase..(StackBottom - 1)

(* run_bash in the page tables of the boot loader: nothing is mapped yet   *)
(* where programs live.                                                    *)
Init ==
  /\ alloc = [region |-> 1, next |-> 0]
  /\ ram = [f \in Frames |-> "junk"]
  /\ roots = {BootRoot}
  /\ space = [f \in Frames |-> EmptySpace]
  /\ cr3 = BootRoot
  /\ brk = HeapBase * PageSize
  /\ next_mmap = MmapBase
  /\ saved = NoParent
  /\ \E image \in Images : call = Load(image)
  /\ halted = FALSE
  /\ astray = {}
  /\ calls = 0

Running == ~halted /\ call.op = "none" /\ calls < MaxCalls
NewCall == calls' = calls + 1 /\ halted' = halted

(* vibux_vfork_child_exit: the parent goes on with what was saved.         *)
(* Faulty variant: with the break of the child.                            *)
ResumeKeepingBreak ==
  /\ cr3' = saved.cr3 /\ next_mmap' = saved.next /\ brk' = brk
  /\ saved' = NoParent
  /\ call' = Idle
ResumeParent ==
  /\ cr3' = saved.cr3 /\ next_mmap' = saved.next /\ brk' = saved.brk
  /\ saved' = NoParent
  /\ call' = Idle

(* The end of a child, by exit or by an execve that fails.                 *)
EndChild ==
  /\ saved.how # "none"
  /\ ResumeParent
  /\ UNCHANGED <<ram, roots, space, astray>>

Exit ==
  /\ Running
  /\ EndChild
  /\ NewCall
  /\ UNCHANGED alloc

----------------------------------------------------------------------------
(* The loops that map pages one by one: map_with_runtime_allocator with    *)
(* and without MAP_FIXED, the growth of the break, load_at with            *)
(* allocate_user_stack and the TLS page.                                   *)
MapLoops == {"fixed", "mmap", "brk", "load"}
AtPage == call.op \in MapLoops /\ call.page # call.end /\ ~halted
Target == IF call.op = "load" THEN call.image[call.page] ELSE call.page
Strays(p) == IF call.op # "brk" /\ p \in HeapArea
             THEN astray \union {cr3} ELSE astray

(* The call gives up and keeps what it mapped so far: ENOMEM, a child that *)
(* ends, or a boot that fails.  Pages of a break that did not move are     *)
(* left behind.                                                            *)
GiveUp ==
  /\ \/ /\ call.op # "load"
        /\ call' = Idle
        /\ UNCHANGED <<cr3, brk, next_mmap, saved, halted>>
     \/ /\ call.op = "load" /\ saved.how # "none"
        /\ ResumeParent
        /\ halted' = halted
     \/ /\ call.op = "load" /\ saved.how = "none"
        /\ call' = Idle
        /\ halted' = TRUE
        /\ UNCHANGED <<cr3, brk, next_mmap, saved>>
  /\ UNCHANGED calls

(* The frame for the page comes first; with MAP_FIXED, after the old page  *)
(* is gone.                                                                *)
Dropped == IF call.op = "fixed" /\ Mapped(Target)
           THEN [space EXCEPT ![cr3].leaf[Target] = 0] ELSE space
DropStrays == IF call.op = "fixed" /\ Mapped(Target)
              THEN Strays(Target) ELSE astray

TakeLeaf ==
  /\ AtPage /\ call.leaf = 0
  /\ call.op = "load" => ~Mapped(Target)
  /\ \E f \in Frames : Allocate(f) /\ call' = [call EXCEPT !.leaf = f]
  /\ space' = Dropped
  /\ astray' = DropStrays
  /\ UNCHANGED <<ram, roots, cr3, brk, next_mmap, saved, halted, calls>>

(* brk that stops short of its end has left pages above the break.         *)
LeavesPages == call.op = "brk" /\ call.page # PageUp(brk)

LeafFails ==
  /\ AtPage /\ call.leaf = 0
  /\ \/ /\ call.op = "load" /\ Mapped(Target)
        /\ UNCHANGED <<alloc, space, astray>>
     \/ /\ call.op = "load" => ~Mapped(Target)
        /\ NoFrame
        /\ space' = Dropped
        /\ astray' = IF LeavesPages THEN astray \union {cr3} ELSE DropStrays
  /\ GiveUp
  /\ UNCHANGED <<ram, roots>>

(* map_4k: a missing table is taken and linked; then the entry is written, *)
(* unless the page is outside the user's half or present.                  *)
LinkTable ==
  /\ AtPage /\ call.leaf # 0 /\ Target \in Pages
  /\ \E f \in Frames, t \in Tables :
       /\ Missing(cr3, Target, t)
       /\ Allocate(f)
       /\ space' = [space EXCEPT ![cr3].table[t] = f]
  /\ UNCHANGED <<ram, roots, cr3, brk, next_mmap, saved, call, halted,
                 astray, calls>>

(* AlreadyMapped.  Faulty variant: the entry is overwritten.               *)
AlwaysFree(p) == TRUE
EntryFree(p) == ~Mapped(p)

MapPage ==
  /\ AtPage /\ call.leaf # 0 /\ Target \in Pages
  /\ PathPresent(cr3, Target)
  /\ EntryFree(Target)
  /\ space' = [space EXCEPT ![cr3].leaf[Target] = call.leaf,
                            ![cr3].write =
                              IF call.write /\ ~(call.op = "load"
                                                /\ Target \in ReadOnly)
                              THEN @ \union {Target} ELSE @ \ {Target}]
  /\ ram' = [ram EXCEPT ![call.leaf] = "clean"]
  /\ call' = [call EXCEPT !.page = @ + 1, !.leaf = 0]
  /\ astray' = Strays(Target)
  /\ UNCHANGED <<alloc, roots, cr3, brk, next_mmap, saved, halted, calls>>

MapFails ==
  /\ AtPage /\ call.leaf # 0
  /\ \/ /\ \/ Target \notin Pages
           \/ PathPresent(cr3, Target) /\ ~EntryFree(Target)
        /\ alloc' = alloc
     \/ /\ Target \in Pages
        /\ ~PathPresent(cr3, Target)
        /\ NoFrame
  /\ GiveUp
  /\ astray' = IF LeavesPages THEN astray \union {cr3} ELSE astray
  /\ UNCHANGED <<ram, roots, space>>

(* The end of a loop.  A break moves; a vforked child moves its own copy   *)
(* of it, while the pages are the parent's too.                            *)
MapDone ==
  /\ call.op \in MapLoops /\ call.page = call.end /\ ~halted
  /\ call' = Idle
  /\ brk' = IF call.op = "brk" THEN call.want ELSE brk
  /\ astray' = IF /\ call.op = "brk" /\ saved.how # "none"
                  /\ saved.cr3 = cr3
               THEN astray \union {cr3} ELSE astray
  /\ UNCHANGED <<alloc, ram, roots, space, cr3, next_mmap, saved, halted,
                 calls>>

----------------------------------------------------------------------------
(* brk(requested), requested not 0.  Downwards nothing is unmapped.  A     *)
(* request in the last page of the address space rounds up to 0 in a build *)
(* without overflow checks, and panics in one with them.                   *)
Wraps(b) == b + PageSize - 1 >= WordSize

Brk(requested) ==
  /\ Running
  /\ \/ /\ PageUp(brk) < PageUp(requested)
        /\ brk < requested
        /\ call' = Loop("brk", PageUp(brk), PageUp(requested), TRUE,
                        requested, <<>>)
        /\ UNCHANGED <<brk, astray>>
     \/ /\ ~(PageUp(brk) < PageUp(requested) /\ brk < requested)
        /\ brk' = requested
        /\ astray' = IF PageUp(requested) = PageUp(brk)
                     THEN astray ELSE astray \union {cr3}
        /\ call' = call
  /\ NewCall
  /\ UNCHANGED <<alloc, ram, roots, space, cr3, next_mmap, saved>>

BrkPanics(requested) ==
  /\ Running
  /\ brk < requested
  /\ Wraps(requested) \/ Wraps(brk)
  /\ halted' = TRUE
  /\ calls' = calls + 1
  /\ UNCHANGED <<alloc, ram, roots, space, cr3, brk, next_mmap, saved, call,
                 astray>>

(* map_memory.  A hint of 0 asks for the next room, and moves next_mmap    *)
(* before the other arguments are looked at: the type of the mapping, the  *)
(* descriptor of the file.                                                 *)
Mmap(hint, len, fixed, write, valid) ==
  LET room == ~fixed /\ hint = 0
      target == IF room THEN next_mmap ELSE hint
  IN /\ Running
     /\ next_mmap' = IF room THEN next_mmap + len ELSE next_mmap
     /\ call' = IF valid /\ target + len <= Limit
                THEN Loop(IF fixed THEN "fixed" ELSE "search",
                          target, target + len, write, 0, <<>>)
                ELSE Idle
     /\ NewCall
     /\ UNCHANGED <<alloc, ram, roots, space, cr3, brk, saved, astray>>

(* map_with_runtime_allocator without MAP_FIXED: candidates are tried one  *)
(* after the other.                                                        *)
RoomFree(from, to) == \A p \in from..(to - 1) : ~Mapped(p)

SearchRoom ==
  /\ call.op = "search" /\ ~halted
  /\ \/ /\ RoomFree(call.page, call.end)
        /\ call' = [call EXCEPT !.op = "mmap"]
        /\ next_mmap' = next_mmap
     \/ /\ ~RoomFree(call.page, call.end)
        /\ next_mmap < Limit
        /\ call' = [call EXCEPT
                      !.page = next_mmap,
                      !.end = next_mmap + (call.end - call.page)]
        /\ next_mmap' = next_mmap + (call.end - call.page)
     \/ /\ ~RoomFree(call.page, call.end)
        /\ next_mmap >= Limit
        /\ call' = Idle
        /\ next_mmap' = next_mmap
  /\ UNCHANGED <<alloc, ram, roots, space, cr3, brk, saved, halted, astray,
                 calls>>

(* munmap and mprotect go page by page and stop at the first that is not   *)
(* mapped, keeping what they did; no frame is returned to the allocator.   *)
Prefix(page, len) ==
  {p \in Pages : /\ page <= p /\ p < page + len
                 /\ \A q \in page..p : Mapped(q)}

Munmap(page, len) ==
  LET gone == Prefix(page, len)
  IN /\ Running
     /\ space' = [space EXCEPT ![cr3].leaf =
                    [p \in Pages |-> IF p \in gone THEN 0 ELSE @[p]]]
     /\ astray' = IF gone \intersect HeapArea # {}
                  THEN astray \union {cr3} ELSE astray
     /\ NewCall
     /\ UNCHANGED <<alloc, ram, roots, cr3, brk, next_mmap, saved, call>>

Mprotect(page, len, write) ==
  LET changed == Prefix(page, len)
  IN /\ Running
     /\ space' = [space EXCEPT ![cr3].write =
                    IF write THEN @ \union changed ELSE @ \ changed]
     /\ NewCall
     /\ UNCHANGED <<alloc, ram, roots, cr3, brk, next_mmap, saved, call,
                    astray>>

(* User code writes its memory.                                            *)
Who == IF saved.how = "none" THEN "parent" ELSE "child"
UserWrite(p) ==
  /\ Running
  /\ Mapped(p) /\ p \in space[cr3].write
  /\ ram' = [ram EXCEPT ![Leaf(p)] = Who]
  /\ NewCall
  /\ UNCHANGED <<alloc, roots, space, cr3, brk, next_mmap, saved, call,
                 astray>>

(* copy_user_out asks whether the page is mapped, not whether it may be    *)
(* written: with CR0.WP set the kernel faults on a read-only page and the  *)
(* machine halts.                                                          *)
copy_user_out(p) ==
  /\ Running
  /\ Mapped(p) /\ p \notin space[cr3].write
  /\ halted' = TRUE
  /\ calls' = calls + 1
  /\ UNCHANGED <<alloc, ram, roots, space, cr3, brk, next_mmap, saved, call,
                 astray>>

----------------------------------------------------------------------------
(* do_fork: the parent is saved, then clone_user_address_space copies its  *)
(* tables and pages.  The loops over four levels of tables are one loop    *)
(* over pages, which meets every table on the way.                         *)
Suspended(how) == [how |-> how, cr3 |-> cr3, brk |-> brk, next |-> next_mmap]

Fork ==
  /\ Running
  /\ saved.how = "none"
  /\ \/ /\ \E root \in Frames :
             /\ Allocate(root)
             /\ roots' = roots \union {root}
             /\ space' = [space EXCEPT ![root] = EmptySpace]
             /\ call' = Loop("clone", 0, Limit, FALSE, root, <<>>)
        /\ saved' = Suspended("fork")
     \/ /\ NoFrame
        /\ UNCHANGED <<roots, space, call, saved>>
  /\ NewCall
  /\ UNCHANGED <<ram, cr3, brk, next_mmap, astray>>

Cloning == call.op = "clone" /\ ~halted
ToCopy(t) == /\ Missing(call.want, call.page, t)
             /\ space[cr3].table[t] # 0
Copied == \A t \in Tables : ~ToCopy(t)

CloneTable ==
  /\ Cloning /\ call.page # call.end
  /\ \E f \in Frames, t \in Tables :
       /\ ToCopy(t)
       /\ Allocate(f)
       /\ space' = [space EXCEPT ![call.want].table[t] = f]
  /\ UNCHANGED <<ram, roots, cr3, brk, next_mmap, saved, call, halted,
                 astray, calls>>

(* A page is copied to a frame of its own.  Faulty variant: the child gets *)
(* the frame of the parent.                                                *)
SharePage(f) ==
  /\ space' = [space EXCEPT ![call.want].leaf[call.page] = Leaf(call.page)]
  /\ ram' = [ram EXCEPT ![f] = ram[Leaf(call.page)]]
CopyPage(f) ==
  /\ space' = [space EXCEPT ![call.want].leaf[call.page] = f]
  /\ ram' = [ram EXCEPT ![f] = ram[Leaf(call.page)]]

ClonePage ==
  /\ Cloning /\ call.page # call.end /\ Copied
  /\ \/ /\ Mapped(call.page)
        /\ \E f \in Frames : Allocate(f) /\ CopyPage(f)
     \/ /\ ~Mapped(call.page)
        /\ UNCHANGED <<alloc, space, ram>>
  /\ call' = [call EXCEPT !.page = @ + 1]
  /\ UNCHANGED <<roots, cr3, brk, next_mmap, saved, halted, astray, calls>>

(* The copy is complete: the child runs in it.                             *)
CloneDone ==
  /\ Cloning /\ call.page = call.end
  /\ cr3' = call.want
  /\ space' = [space EXCEPT ![call.want].write = space[cr3].write]
  /\ astray' = IF cr3 \in astray THEN astray \union {call.want} ELSE astray
  /\ call' = Idle
  /\ UNCHANGED <<alloc, ram, roots, brk, next_mmap, saved, halted, calls>>

(* The copy runs out of frames: fork answers ENOMEM, the parent goes on.   *)
CloneFails ==
  /\ Cloning /\ call.page # call.end
  /\ ~Copied \/ Mapped(call.page)
  /\ NoFrame
  /\ call' = Idle
  /\ saved' = NoParent
  /\ UNCHANGED <<ram, roots, space, cr3, brk, next_mmap, halted, astray,
                 calls>>

(* do_vfork: the child runs in the parent's page tables.                   *)
Vfork ==
  /\ Running
  /\ saved.how = "none"
  /\ saved' = Suspended("vfork")
  /\ NewCall
  /\ UNCHANGED <<alloc, ram, roots, space, cr3, brk, next_mmap, call, astray>>

(* reset_process_for_exec unmaps, in the page tables the CPU is using,     *)
(* what the program and its loader may have mapped.                        *)
OldPages(image) ==
  {image[i] : i \in 1..Len(image)}
  \union (StackBottom..(Limit - 1))
  \union {p \in MmapBase..(HeapBase - 1) : p < next_mmap}
  \union {p \in HeapArea : p < PageUp(brk)}
Reset(root, image) ==
  [space EXCEPT ![root].leaf =
     [p \in Pages |-> IF p \in OldPages(image) THEN 0 ELSE @[p]]]

(* execve, in a child: an empty address space, the switch to it, the       *)
(* reset, the loading.  Faulty variant: the switch comes after the reset.  *)
ResetOldSpace(root, image) == Reset(cr3, image)
ResetNewSpace(root, image) == Reset(root, image)

Execve(image) ==
  /\ Running
  /\ saved.how # "none"
  /\ \E root \in Frames :
       /\ Allocate(root)
       /\ roots' = roots \union {root}
       /\ space' = ResetNewSpace(root, image)
       /\ cr3' = root
  /\ brk' = HeapBase * PageSize
  /\ next_mmap' = MmapBase
  /\ call' = Load(image)
  /\ NewCall
  /\ UNCHANGED <<ram, saved, astray>>

(* No frame for the root, or no such program: the child ends.              *)
ExecveFails ==
  /\ Running
  /\ NoFrame \/ \E f \in Frames : Allocate(f)
  /\ EndChild
  /\ NewCall

----------------------------------------------------------------------------
SystemCall ==
  \/ \E b \in Requests : Brk(b) \/ BrkPanics(b)
  \/ \E hint \in Hints, len \in Lengths, fixed, write, valid \in BOOLEAN :
       Mmap(hint, len, fixed, write, valid)
  \/ \E p \in Hints, len \in Lengths : Munmap(p, len)
  \/ \E p \in Hints, len \in Lengths, write \in BOOLEAN :
       Mprotect(p, len, write)
  \/ \E p \in Pages : copy_user_out(p)
  \/ Fork
  \/ Vfork
  \/ \E image \in Images : Execve(image)
  \/ ExecveFails
  \/ Exit

LoopTurn ==
  \/ TakeLeaf \/ LeafFails \/ LinkTable \/ MapPage \/ MapFails \/ MapDone
  \/ SearchRoom
  \/ CloneTable \/ ClonePage \/ CloneDone \/ CloneFails

Next == SystemCall \/ LoopTurn \/ \E p \in Pages : UserWrite(p)

Spec == Init /\ [][Next]_vars

----------------------------------------------------------------------------
SpaceType == [table : [Tables -> Frames], leaf : [Pages -> Frames],
              write : SUBSET Pages]
CallType == [op : {"none", "search", "clone"} \union MapLoops,
             page : Nat, end : Nat, leaf : Frames, write : BOOLEAN,
             want : Nat, image : Images \union {<<>>}]

TypeOK ==
  /\ alloc \in [region : 1..(Len(Regions) + 1), next : Nat]
  /\ ram \in [Frames -> Contents]
  /\ roots \subseteq Frames /\ cr3 \in roots
  /\ space \in [Frames -> SpaceType]
  /\ brk \in 0..(WordSize - 1) /\ next_mmap \in Nat
  /\ saved \in [how : {"none", "fork", "vfork"}, cr3 : roots \union {0},
                brk : 0..(WordSize - 1), next : Nat]
  /\ call \in CallType
  /\ halted \in BOOLEAN
  /\ astray \subseteq roots
  /\ calls \in 0..MaxCalls

(* What frames are used for: page tables and pages of every address space, *)
(* those of programs that ended too, and the page a loop is mapping.       *)
Uses == {<<"root", r, 0>> : r \in roots}
        \union {<<"table", r, t>> : r \in roots, t \in Tables}
        \union {<<"page", r, p>> : r \in roots, p \in Pages}
        \union {<<"held", 0, 0>>}
FrameOf(u) == CASE u[1] = "root" -> u[2]
                [] u[1] = "table" -> space[u[2]].table[u[3]]
                [] u[1] = "page" -> space[u[2]].leaf[u[3]]
                [] u[1] = "held" -> call.leaf

Usable(f) ==
  \E i \in 1..Len(Regions) :
    /\ Regions[i].usable
    /\ Regions[i].start <= f /\ f + PageSize <= Regions[i].end

(* The allocator, map_4k, the copy of fork and the failures half-way       *)
(* together never let a frame serve two purposes, and never use one that   *)
(* is not whole in usable memory.                                          *)
FramesOwned ==
  LET used == {u \in Uses : FrameOf(u) # 0} IN
  \A u \in used :
    LET f == FrameOf(u) IN
    /\ f # BootRoot => Usable(f)
    /\ \A v \in used : FrameOf(v) = f => u = v

(* The heap of the running program, and of a suspended parent, is mapped   *)
(* exactly below its break, through fork, vfork, execve and exit: unless   *)
(* the program lowered its break by a page, a growth failed half-way, a    *)
(* vforked child moved the break, its file or the program itself mapped or *)
(* unmapped pages there, or the break wrapped.                             *)
HeapIs(root, b) ==
  \A p \in HeapArea : space[root].leaf[p] # 0 <=> p < PageUp(b)
HeapExact ==
  call.op # "brk" /\ ~halted =>
    /\ cr3 \notin astray => HeapIs(cr3, brk)
    /\ saved.how # "none" /\ saved.cr3 \notin astray =>
         HeapIs(saved.cr3, saved.brk)

(* While a program runs in page tables of its own, its suspended parent's  *)
(* pages stay what they were; execve in a vforked child must get there     *)
(* before it unmaps anything.                                              *)
SuspendedUntouched ==
  [][saved.how # "none" /\ cr3' # saved.cr3 =>
       /\ space'[saved.cr3] = space[saved.cr3]
       /\ \A p \in Pages :
            LET f == space[saved.cr3].leaf[p]
            IN f # 0 => ram'[f] = ram[f]]_vars

(* Growing the break, mapping without MAP_FIXED, loading and forking never *)
(* take a page away or put another in its place.                           *)
KeepsMapped ==
  [][call.op \in {"search", "mmap", "brk", "load", "clone"} =>
       \A r \in roots, p \in Pages :
         space[r].leaf[p] # 0 => space'[r].leaf[p] = space[r].leaf[p]]_vars
----------------------------------------------------------------------------
(* The inductive invariant behind the properties above.                    *)

(* Frames the allocator has passed: whole, and before the cursor.          *)
Whole(f, i) ==
  /\ Regions[i].usable
  /\ Regions[i].start <= f /\ f + PageSize <= Regions[i].end
Passed(f) ==
  \E i \in 1..Len(Regions) :
    /\ Whole(f, i)
    /\ \/ i < alloc.region
       \/ i = alloc.region /\ f + PageSize <= alloc.next

(* Whatever is in use was handed out, once; what is no root yet is empty.  *)
FramesPassed ==
  \A u \in Uses :
    FrameOf(u) # 0 /\ FrameOf(u) # BootRoot => Passed(FrameOf(u))
FramesOnce ==
  \A u, v \in Uses : FrameOf(u) # 0 /\ FrameOf(u) = FrameOf(v) => u = v
UnusedEmpty == \A f \in Frames \ roots : space[f] = EmptySpace

(* Where the loops are.                                                    *)
SavedRoot ==
  /\ saved.how = "none" => saved = NoParent
  /\ saved.how # "none" => saved.cr3 \in roots
SearchPlace == call.op = "search" => call.page <= call.end
LoadPlace ==
  call.op = "load" =>
    /\ call.image \in Images
    /\ call.end = Len(call.image) + 1 /\ call.page \in 1..call.end
BreakPlace ==
  call.op = "brk" =>
    /\ call.want \in Requests /\ call.end = PageUp(call.want)
    /\ PageUp(brk) <= call.page /\ call.page <= call.end
ClonePlace ==
  call.op = "clone" =>
    /\ saved.how = "fork" /\ saved.cr3 = cr3 /\ saved.brk = brk
    /\ call.want \in roots /\ call.want # cr3
    /\ call.end = Limit /\ call.page \in 0..Limit
    /\ \A p \in Pages :
         IF p < call.page
         THEN space[call.want].leaf[p] # 0 <=> space[cr3].leaf[p] # 0
         ELSE space[call.want].leaf[p] = 0

(* The heap of the running program; while its break moves up, the pages so *)
(* far, and with them those of a parent whose page tables it uses.         *)
HeapOfRunning ==
  ~halted /\ cr3 \notin astray =>
    IF call.op = "brk"
    THEN \A p \in HeapArea : space[cr3].leaf[p] # 0 <=> p < call.page
    ELSE HeapIs(cr3, brk)
HeapOfParent ==
  ~halted /\ saved.how # "none" /\ saved.cr3 \notin astray =>
    IF call.op = "brk" /\ saved.cr3 = cr3
    THEN \A p \in HeapArea : p < PageUp(brk) <=> p < PageUp(saved.brk)
    ELSE HeapIs(saved.cr3, saved.brk)

MemoryInv ==
  /\ TypeOK
  /\ FramesPassed /\ FramesOnce /\ UnusedEmpty
  /\ SavedRoot /\ SearchPlace /\ LoadPlace /\ BreakPlace /\ ClonePlace
  /\ HeapOfRunning /\ HeapOfParent
=============================================================================
