--------------------------- MODULE MemoryProofs ---------------------------
(***************************************************************************)
(* Proofs about Memory, for every memory map, every layout of the address  *)
(* space and every program: types, the ownership of frames, the heap, and  *)
(* what the steps never do to pages that are mapped or of a suspended      *)
(* parent.                                                                 *)
(***************************************************************************)
EXTENDS Memory, TLAPS

(***************************************************************************)
(* Arithmetic.                                                             *)
(***************************************************************************)

(* Quotient and remainder.                                                 *)
LEMMA DivMod ==
  ASSUME NEW x \in Nat, NEW d \in Nat \ {0}
  PROVE  /\ x \div d \in Nat /\ x % d \in 0..(d - 1)
         /\ x = d * (x \div d) + (x % d)
OBVIOUS

LEMMA Product ==
  ASSUME NEW a \in Nat, NEW b \in Nat
  PROVE  a * b \in Nat
OBVIOUS

(* A quotient is what it is multiplied back from.                          *)
LEMMA DivOf ==
  ASSUME NEW d \in Nat \ {0}, NEW q \in Nat, NEW r \in 0..(d - 1)
  PROVE  (q * d + r) \div d = q
OBVIOUS

(* align_up does not go down.                                              *)
LEMMA AlignUpGrows ==
  ASSUME NEW a \in Nat
  PROVE  AlignUp(a) \in Nat /\ AlignUp(a) >= a
<1>1. PageSize \in Nat \ {0}
  BY MemoryAssumption
<1> DEFINE x == a + PageSize - 1
<1>2. x \in Nat /\ x >= a
  BY <1>1
<1> HIDE DEF x
<1>3. /\ x \div PageSize \in Nat /\ x % PageSize \in 0..(PageSize - 1)
      /\ x = PageSize * (x \div PageSize) + (x % PageSize)
  BY <1>1, <1>2, DivMod
<1>4. PageSize * (x \div PageSize) = (x \div PageSize) * PageSize
  BY <1>1, <1>3
<1>5. (x \div PageSize) * PageSize \in Nat
  BY <1>1, <1>3, Product
<1>6. AlignUp(a) = (x \div PageSize) * PageSize
  BY DEF AlignUp, x
<1> DEFINE m == (x \div PageSize) * PageSize
<1> HIDE DEF m
<1>7. m \in Nat /\ x = m + (x % PageSize) /\ AlignUp(a) = m
  BY <1>3, <1>4, <1>5, <1>6 DEF m
<1>8. x = a + PageSize - 1
  BY DEF x
<1>9. QED
  BY <1>1, <1>3, <1>7, <1>8

LEMMA PageUpType ==
  ASSUME NEW b \in Nat
  PROVE  PageUp(b) \in Nat
<1>1. PageSize \in Nat \ {0} /\ WordSize \in Nat
  BY MemoryAssumption
<1>2. WordSize # 0
  <2>1. Limit * PageSize <= WordSize /\ Limit \in Nat /\ Limit > 0
    BY MemoryAssumption
  <2>2. Limit * PageSize > 0
    BY <1>1, <2>1
  <2>3. Limit * PageSize \in Nat
    BY <1>1, <2>1, Product
  <2>4. QED
    BY <1>1, <2>1, <2>2, <2>3
<1>3. (b + PageSize - 1) % WordSize \in Nat
  BY <1>1, <1>2
<1>4. QED
  BY <1>1, <1>3, DivMod DEF PageUp

(* The first break is where the heap starts.                               *)
LEMMA FirstBreak ==
  /\ HeapBase * PageSize \in 0..(WordSize - 1)
  /\ PageUp(HeapBase * PageSize) = HeapBase
<1>1. /\ PageSize \in Nat \ {0} /\ WordSize \in Nat /\ HeapBase \in Nat
      /\ Limit \in Nat /\ HeapBase + 1 <= Limit /\ Limit * PageSize <= WordSize
  BY MemoryAssumption
<1> DEFINE m == HeapBase * PageSize
<1>2. m \in Nat /\ Limit * PageSize \in Nat
  BY <1>1, Product
<1>3. (HeapBase + 1) * PageSize = m + PageSize
  BY <1>1
<1>4. (HeapBase + 1) * PageSize <= Limit * PageSize
  BY <1>1
<1>5. m + PageSize <= WordSize
  <2> HIDE DEF m
  <2>1. QED
    BY <1>1, <1>2, <1>3, <1>4
<1>6. (m + PageSize - 1) % WordSize = m + PageSize - 1
  <2> HIDE DEF m
  <2>1. QED
    BY <1>1, <1>2, <1>5
<1>7. (m + (PageSize - 1)) \div PageSize = HeapBase
  BY <1>1, DivOf
<1>8. m + PageSize - 1 = m + (PageSize - 1)
  <2> HIDE DEF m
  <2>1. QED
    BY <1>1, <1>2
<1>9. m \in 0..(WordSize - 1)
  <2> HIDE DEF m
  <2>1. QED
    BY <1>1, <1>2, <1>5
<1>10. QED
  BY <1>6, <1>7, <1>8, <1>9 DEF PageUp

(***************************************************************************)
(* The allocator.                                                          *)
(***************************************************************************)

LEMMA Element ==
  ASSUME NEW S, NEW s \in Seq(S), NEW i \in 1..Len(s)
  PROVE  s[i] \in S
OBVIOUS

LEMMA RegionFacts ==
  /\ Len(Regions) \in Nat
  /\ \A i \in 1..Len(Regions) :
       /\ Regions[i].start \in Nat /\ Regions[i].end \in Nat
       /\ Regions[i].usable \in BOOLEAN
       /\ RegionStart(i) \in Nat /\ RegionStart(i) >= Regions[i].start
       /\ RegionStart(i) >= 1
<1>1. Len(Regions) \in Nat
  BY MemoryAssumption
<1>2. ASSUME NEW i \in 1..Len(Regions)
      PROVE  /\ Regions[i].start \in Nat /\ Regions[i].end \in Nat
             /\ Regions[i].usable \in BOOLEAN
  <2>1. Regions \in Seq([usable : BOOLEAN, start : Nat, end : 0..MemoryTop])
        /\ MemoryTop \in Nat
    BY MemoryAssumption
  <2>2. Regions[i] \in [usable : BOOLEAN, start : Nat, end : 0..MemoryTop]
    BY <2>1, Element
  <2>3. 0..MemoryTop \subseteq Nat
    BY <2>1
  <2>4. QED
    BY <2>2, <2>3
<1>3. ASSUME NEW i \in 1..Len(Regions)
      PROVE  /\ RegionStart(i) \in Nat /\ RegionStart(i) >= Regions[i].start
             /\ RegionStart(i) >= 1
  <2> DEFINE a == IF Regions[i].start > Reserved THEN Regions[i].start
                                                 ELSE Reserved
  <2>1. a \in Nat /\ a >= 1 /\ a >= Regions[i].start /\ Regions[i].start \in Nat
    BY <1>2, MemoryAssumption
  <2> HIDE DEF a
  <2>2. AlignUp(a) \in Nat /\ AlignUp(a) >= a
    BY <2>1, AlignUpGrows
  <2>3. RegionStart(i) = AlignUp(a)
    BY DEF RegionStart, a
  <2>4. QED
    BY <2>1, <2>2, <2>3
<1>4. QED
  BY <1>1, <1>2, <1>3

(* What allocate answers was handed out to nobody before.                  *)
LEMMA Allocated ==
  ASSUME TypeOK, NEW f, Allocate(f)
  PROVE  /\ f \in Nat /\ f # 0 /\ f # BootRoot
         /\ ~Passed(f) /\ Passed(f)'
         /\ \A g \in Nat : Passed(g) => Passed(g)'
         /\ alloc' \in [region : 1..(Len(Regions) + 1), next : Nat]
<1>1. PICK i \in 1..Len(Regions) :
        /\ Source(alloc, i)
        /\ f = NextIn(alloc, i)
        /\ alloc' = [region |-> i, next |-> f + PageSize]
  BY DEF Allocate
<1>2. /\ alloc.region \in Nat /\ alloc.next \in Nat /\ alloc.region <= i
      /\ PageSize \in Nat /\ PageSize > 0 /\ BootRoot \in Nat
      /\ Regions[i].usable /\ f + PageSize <= Regions[i].end
  <2>1. alloc.region \in 1..(Len(Regions) + 1) /\ alloc.next \in Nat
    BY DEF TypeOK
  <2>2. PageSize \in Nat \ {0} /\ BootRoot \in Frames /\ MemoryTop \in Nat
    BY MemoryAssumption
  <2>3. BootRoot \in Nat
    BY <2>2 DEF Frames
  <2>4. /\ alloc.region <= i /\ Regions[i].usable
        /\ f + PageSize <= Regions[i].end
    BY <1>1 DEF Source, Fits
  <2>5. QED
    BY <2>1, <2>2, <2>3, <2>4, RegionFacts
<1>3. /\ Regions[i].start \in Nat /\ Regions[i].end \in Nat
      /\ RegionStart(i) \in Nat /\ RegionStart(i) >= Regions[i].start
      /\ RegionStart(i) >= 1
  BY RegionFacts
<1>4. /\ f \in Nat /\ f >= RegionStart(i)
      /\ i = alloc.region => f >= alloc.next
  BY <1>1, <1>2, <1>3 DEF NextIn
<1>5. f # BootRoot
  <2>1. BootRoot < Regions[i].start \/ Regions[i].end <= BootRoot
    BY <1>2, MemoryAssumption
  <2>2. QED
    BY <1>2, <1>3, <1>4, <2>1
<1>6. ~Passed(f)
  <2> SUFFICES ASSUME NEW j \in 1..Len(Regions), Whole(f, j),
                      \/ j < alloc.region
                      \/ j = alloc.region /\ f + PageSize <= alloc.next
               PROVE  FALSE
    BY DEF Passed
  <2>1. /\ Regions[j].start \in Nat /\ Regions[j].end \in Nat /\ j \in Nat
        /\ i \in Nat /\ Len(Regions) \in Nat
    BY RegionFacts
  <2>2. CASE i = j
    BY <1>2, <1>4, <2>1, <2>2
  <2>3. CASE i # j
    <3>1. \/ Regions[i].end <= Regions[j].start
          \/ Regions[j].end <= Regions[i].start
      BY <2>3, MemoryAssumption
    <3>2. Regions[j].start <= f /\ f + PageSize <= Regions[j].end
      BY DEF Whole
    <3>3. QED
      BY <1>2, <1>3, <1>4, <2>1, <3>1, <3>2
  <2>4. QED
    BY <2>2, <2>3
<1>7. Passed(f)'
  BY <1>1, <1>2, <1>3, <1>4 DEF Passed, Whole
<1>8. ASSUME NEW g \in Nat, Passed(g) PROVE Passed(g)'
  <2>1. PICK j \in 1..Len(Regions) :
          /\ Whole(g, j)
          /\ \/ j < alloc.region
             \/ j = alloc.region /\ g + PageSize <= alloc.next
    BY <1>8 DEF Passed
  <2>2. \/ j < alloc'.region
        \/ j = alloc'.region /\ g + PageSize <= alloc'.next
    <3>1. CASE j < i
      BY <1>1, <3>1
    <3>2. CASE j >= i
      <4>1. j = i /\ j = alloc.region /\ g + PageSize <= alloc.next
        BY <1>2, <2>1, <3>2, RegionFacts
      <4>2. g + PageSize <= f + PageSize
        BY <1>2, <1>4, <4>1
      <4>3. QED
        BY <1>1, <1>2, <4>1, <4>2
    <3>3. QED
      BY <3>1, <3>2, RegionFacts
  <2>3. QED
    BY <2>1, <2>2 DEF Passed, Whole
<1>9. alloc' \in [region : 1..(Len(Regions) + 1), next : Nat]
  BY <1>1, <1>2, <1>4, RegionFacts
<1>10. QED
  BY <1>3, <1>4, <1>5, <1>6, <1>7, <1>8, <1>9

LEMMA NoneLeft ==
  ASSUME TypeOK, NoFrame
  PROVE  /\ alloc' \in [region : 1..(Len(Regions) + 1), next : Nat]
         /\ \A g \in Nat : Passed(g) => Passed(g)'
<1>1. /\ alloc' = [region |-> Len(Regions) + 1, next |-> 0]
      /\ Len(Regions) \in Nat
  BY RegionFacts DEF NoFrame, AtEnd
<1>2. \A j \in 1..Len(Regions) : j < alloc'.region
  BY <1>1
<1>3. QED
  BY <1>1, <1>2 DEF Passed, Whole

(* Every step leaves the allocator, asks it once, or finds it empty.       *)
AllocStep == alloc' = alloc \/ NoFrame \/ \E f \in Frames : Allocate(f)

LEMMA AllocKept ==
  ASSUME TypeOK, AllocStep
  PROVE  /\ alloc' \in [region : 1..(Len(Regions) + 1), next : Nat]
         /\ \A g \in Nat : Passed(g) => Passed(g)'
<1>1. CASE alloc' = alloc
  BY <1>1 DEF TypeOK, Passed, Whole
<1>2. CASE NoFrame
  BY <1>2, NoneLeft
<1>3. CASE \E f \in Frames : Allocate(f)
  BY <1>3, Allocated
<1>4. QED
  BY <1>1, <1>2, <1>3 DEF AllocStep

(***************************************************************************)
(* Types.                                                                  *)
(***************************************************************************)

LEMMA FrameFacts ==
  /\ Frames \subseteq Nat /\ 0 \in Frames /\ BootRoot \in Frames
  /\ EmptySpace \in SpaceType
<1>1. PageSize \in Nat \ {0} /\ MemoryTop \in Nat /\ BootRoot \in Frames
  BY MemoryAssumption
<1>2. 0 % PageSize = 0
  BY <1>1
<1>3. Frames \subseteq Nat /\ 0 \in Frames
  BY <1>1, <1>2 DEF Frames
<1>4. QED
  BY <1>1, <1>3 DEF EmptySpace, SpaceType

LEMMA ConstantFacts ==
  /\ PageSize \in Nat \ {0} /\ WordSize \in Nat
  /\ Limit \in Nat /\ MmapBase \in Nat /\ HeapBase \in Nat
  /\ StackBottom \in Nat
  /\ Requests \subseteq 1..(WordSize - 1) /\ Images \subseteq Seq(Pages)
  /\ Hints \subseteq Nat /\ Lengths \subseteq Nat /\ MaxCalls \in Nat
  /\ Pages \subseteq Nat
BY MemoryAssumption DEF Pages

(* Entries that are written one at a time.                                 *)
LEMMA LeafType ==
  ASSUME NEW S \in [Frames -> SpaceType], NEW r \in Frames,
         NEW p, NEW f \in Frames, NEW w \in SUBSET Pages
  PROVE  /\ [S EXCEPT ![r].leaf[p] = f] \in [Frames -> SpaceType]
         /\ [S EXCEPT ![r].leaf[p] = f, ![r].write = w] \in [Frames -> SpaceType]
         /\ [S EXCEPT ![r].write = w] \in [Frames -> SpaceType]
BY DEF SpaceType

LEMMA TableType ==
  ASSUME NEW S \in [Frames -> SpaceType], NEW r \in Frames,
         NEW t, NEW f \in Frames
  PROVE  [S EXCEPT ![r].table[t] = f] \in [Frames -> SpaceType]
BY DEF SpaceType

LEMMA UnmapType ==
  ASSUME NEW S \in [Frames -> SpaceType], NEW r \in Frames,
         NEW L \in [Pages -> Frames]
  PROVE  [S EXCEPT ![r].leaf = L] \in [Frames -> SpaceType]
BY DEF SpaceType

LEMMA LoopType ==
  ASSUME NEW op \in {"none", "search", "clone"} \union MapLoops,
         NEW m \in Nat, NEW n \in Nat, NEW b \in BOOLEAN, NEW w \in Nat,
         NEW image \in Images \union {<<>>}
  PROVE  Loop(op, m, n, b, w, image) \in CallType
BY FrameFacts DEF Loop, CallType

LEMMA CallTypes ==
  /\ Idle \in CallType
  /\ \A image \in Images : Load(image) \in CallType /\ Len(image) \in Nat
<1>1. Idle \in CallType
  BY LoopType DEF Idle
<1>2. ASSUME NEW image \in Images
      PROVE  Load(image) \in CallType /\ Len(image) \in Nat
  <2>1. Len(image) \in Nat
    BY ConstantFacts
  <2>2. QED
    <3>1. /\ "load" \in {"none", "search", "clone"} \union MapLoops
          /\ Len(image) + 1 \in Nat /\ image \in Images \union {<<>>}
      BY <2>1 DEF MapLoops
    <3>2. Loop("load", 1, Len(image) + 1, TRUE, 0, image) \in CallType
      BY <3>1, LoopType
    <3>3. QED
      BY <2>1, <3>2 DEF Load
<1>3. QED
  BY <1>1, <1>2

LEMMA PageType ==
  ASSUME NEW c \in CallType, NEW n \in Nat
  PROVE  [c EXCEPT !.page = n] \in CallType
BY DEF CallType

LEMMA HeldType ==
  ASSUME NEW c \in CallType, NEW f \in Frames
  PROVE  [c EXCEPT !.leaf = f] \in CallType
BY DEF CallType

(* The running program and the parent change places.                       *)
LEMMA ResumeType ==
  ASSUME TypeOK, SavedRoot, saved.how # "none", ResumeParent
  PROVE  /\ cr3' \in roots /\ brk' \in 0..(WordSize - 1) /\ next_mmap' \in Nat
         /\ saved' = NoParent /\ call' = Idle
BY DEF TypeOK, SavedRoot, ResumeParent

LEMMA NoParentType ==
  \A R : NoParent \in [how : {"none", "fork", "vfork"}, cr3 : R \union {0},
                       brk : 0..(WordSize - 1), next : Nat]
<1>1. 0 \in 0..(WordSize - 1)
  BY FirstBreak, ConstantFacts
<1>2. QED
  BY <1>1 DEF NoParent

(* What a step leaves alone keeps its type.                                *)
RestType ==
  /\ ram' \in [Frames -> Contents]
  /\ roots' \subseteq Frames /\ cr3' \in roots' /\ astray' \subseteq roots'
  /\ space' \in [Frames -> SpaceType]
  /\ brk' \in 0..(WordSize - 1) /\ next_mmap' \in Nat
  /\ saved' \in [how : {"none", "fork", "vfork"}, cr3 : roots' \union {0},
                 brk : 0..(WordSize - 1), next : Nat]
  /\ call' \in CallType
  /\ halted' \in BOOLEAN
  /\ calls' \in 0..MaxCalls

LEMMA TypeFrom ==
  ASSUME TypeOK, AllocStep, RestType
  PROVE  TypeOK'
BY AllocKept DEF TypeOK, RestType

LEMMA NewCallType ==
  ASSUME TypeOK, calls < MaxCalls, calls' = calls + 1
  PROVE  calls' \in 0..MaxCalls
BY ConstantFacts DEF TypeOK

LEMMA LoopTypes ==
  ASSUME MemoryInv, AtPage,
         TakeLeaf \/ LeafFails \/ LinkTable \/ MapPage \/ MapFails
  PROVE  TypeOK'
<1> TypeOK /\ SavedRoot /\ LoadPlace
  BY DEF MemoryInv
<1>1. /\ Frames \subseteq Nat /\ 0 \in Frames /\ cr3 \in Frames
  BY FrameFacts DEF TypeOK
<1>2. Dropped \in [Frames -> SpaceType] /\ DropStrays \subseteq roots
      /\ Strays(Target) \subseteq roots
  <2>1. [space EXCEPT ![cr3].leaf[Target] = 0] \in [Frames -> SpaceType]
    BY <1>1, LeafType DEF TypeOK
  <2>2. QED
    BY <2>1 DEF Dropped, DropStrays, Strays, TypeOK
<1>3. ASSUME GiveUp
      PROVE  /\ cr3' \in roots /\ brk' \in 0..(WordSize - 1)
             /\ next_mmap' \in Nat /\ call' \in CallType
             /\ saved' = saved \/ saved' = NoParent
             /\ halted' \in BOOLEAN /\ calls' = calls
  <2>1. CASE call.op = "load" /\ saved.how # "none" /\ ResumeParent
    BY <1>3, <2>1, ResumeType, CallTypes DEF GiveUp, TypeOK
  <2>2. QED
    BY <1>3, <2>1, CallTypes DEF GiveUp, TypeOK
<1>4. CASE TakeLeaf
  <2>1. PICK f \in Frames : Allocate(f) /\ call' = [call EXCEPT !.leaf = f]
    BY <1>4 DEF TakeLeaf
  <2>2. call' \in CallType
    BY <2>1 DEF TypeOK, CallType
  <2>3. RestType
    BY <1>2, <1>4, <2>2 DEF TakeLeaf, RestType, TypeOK
  <2>4. QED
    BY <2>1, <2>3, TypeFrom DEF AllocStep
<1>5. CASE LeafFails
  <2>1. AllocStep
    BY <1>5 DEF LeafFails, AllocStep
  <2>2. space' \in [Frames -> SpaceType] /\ astray' \subseteq roots
    BY <1>2, <1>5 DEF LeafFails, TypeOK
  <2>3. RestType
    BY <1>3, <1>5, <2>2, NoParentType DEF LeafFails, RestType, TypeOK
  <2>4. QED
    BY <2>1, <2>3, TypeFrom
<1>6. CASE LinkTable
  <2>1. PICK f \in Frames, t \in Tables :
          Allocate(f) /\ space' = [space EXCEPT ![cr3].table[t] = f]
    BY <1>6 DEF LinkTable
  <2>2. space' \in [Frames -> SpaceType]
    BY <1>1, <2>1, TableType DEF TypeOK
  <2>3. RestType
    BY <1>6, <2>2 DEF LinkTable, RestType, TypeOK
  <2>4. QED
    BY <2>1, <2>3, TypeFrom DEF AllocStep
<1>7. CASE MapPage
  <2>1. AllocStep
    BY <1>7 DEF MapPage, AllocStep
  <2>2. space[cr3].write \subseteq Pages /\ Target \in Pages
        /\ call.leaf \in Frames /\ call.page \in Nat
    BY <1>1, <1>7 DEF TypeOK, SpaceType, MapPage, CallType
  <2> DEFINE w == IF call.write /\ ~(call.op = "load" /\ Target \in ReadOnly)
                  THEN space[cr3].write \union {Target}
                  ELSE space[cr3].write \ {Target}
  <2>3. w \in SUBSET Pages
    BY <2>2
  <2>4. space' = [space EXCEPT ![cr3].leaf[Target] = call.leaf, ![cr3].write = w]
    BY <1>1, <1>7 DEF MapPage, TypeOK, SpaceType
  <2> HIDE DEF w
  <2>5. space' \in [Frames -> SpaceType]
    BY <1>1, <2>2, <2>3, <2>4, LeafType DEF TypeOK
  <2>6. call' \in CallType
    <3>1. call \in CallType
      BY DEF TypeOK
    <3>2. call' = [call EXCEPT !.page = call.page + 1, !.leaf = 0]
      BY <1>7, <3>1 DEF MapPage, CallType
    <3>3. QED
      <4> DEFINE n == call.page + 1
      <4>1. n \in Nat /\ 0 \in Frames
        BY <1>1, <2>2
      <4> DEFINE c == [call EXCEPT !.page = n]
      <4>2. call' = [c EXCEPT !.leaf = 0]
        BY <3>2
      <4> HIDE DEF n
      <4>3. c \in CallType
        BY <3>1, <4>1, PageType
      <4> HIDE DEF c
      <4>4. QED
        BY <4>1, <4>2, <4>3, HeldType
  <2>7. ram' \in [Frames -> Contents]
    BY <1>7 DEF MapPage, TypeOK, Contents
  <2>8. RestType
    BY <1>2, <1>7, <2>5, <2>6, <2>7 DEF MapPage, RestType, TypeOK
  <2>9. QED
    BY <2>1, <2>8, TypeFrom
<1>8. CASE MapFails
  <2>1. AllocStep
    BY <1>8 DEF MapFails, AllocStep
  <2>2. RestType
    BY <1>3, <1>8, NoParentType DEF MapFails, RestType, TypeOK
  <2>3. QED
    BY <2>1, <2>2, TypeFrom
<1>9. QED
  BY <1>4, <1>5, <1>6, <1>7, <1>8

LEMMA CloneTypes ==
  ASSUME MemoryInv, CloneTable \/ ClonePage \/ CloneDone \/ CloneFails
  PROVE  TypeOK'
<1> TypeOK /\ ClonePlace
  BY DEF MemoryInv
<1>1. /\ call.want \in roots /\ call.want \in Frames /\ cr3 \in Frames
      /\ call.page \in Nat /\ call \in CallType
  BY DEF TypeOK, ClonePlace, CloneTable, ClonePage, CloneDone, CloneFails,
         Cloning, CallType
<1>2. CASE CloneTable
  <2>1. PICK f \in Frames, t \in Tables :
          Allocate(f) /\ space' = [space EXCEPT ![call.want].table[t] = f]
    BY <1>2 DEF CloneTable
  <2>2. space' \in [Frames -> SpaceType]
    BY <1>1, <2>1, TableType DEF TypeOK
  <2>3. RestType
    BY <1>2, <2>2 DEF CloneTable, RestType, TypeOK
  <2>4. QED
    BY <2>1, <2>3, TypeFrom DEF AllocStep
<1>3. CASE ClonePage
  <2>1. /\ AllocStep
        /\ space' \in [Frames -> SpaceType] /\ ram' \in [Frames -> Contents]
    <3>1. CASE Mapped(call.page)
      <4>1. PICK f \in Frames : Allocate(f) /\ CopyPage(f)
        BY <1>3, <3>1 DEF ClonePage
      <4>2. space' \in [Frames -> SpaceType]
        BY <1>1, <4>1, LeafType DEF TypeOK, CopyPage
      <4>3. Leaf(call.page) \in Frames
        BY <1>1, FrameFacts DEF Leaf, TypeOK, SpaceType
      <4>4. ram' \in [Frames -> Contents]
        BY <4>1, <4>3 DEF TypeOK, CopyPage
      <4>5. QED
        BY <4>1, <4>2, <4>4 DEF AllocStep
    <3>2. CASE ~Mapped(call.page)
      BY <1>3, <3>2 DEF ClonePage, AllocStep, TypeOK
    <3>3. QED
      BY <3>1, <3>2
  <2>2. call' \in CallType
    <3>1. call' = [call EXCEPT !.page = call.page + 1] /\ call.page + 1 \in Nat
      BY <1>1, <1>3 DEF ClonePage, CallType
    <3>2. QED
      BY <1>1, <3>1, PageType
  <2>3. RestType
    BY <1>3, <2>1, <2>2 DEF ClonePage, RestType, TypeOK
  <2>4. QED
    BY <2>1, <2>3, TypeFrom
<1>4. CASE CloneDone
  <2>1. space[cr3].write \in SUBSET Pages
    BY <1>1 DEF TypeOK, SpaceType
  <2>2. space' \in [Frames -> SpaceType]
    BY <1>1, <1>4, <2>1, LeafType, FrameFacts DEF CloneDone, TypeOK
  <2>3. RestType
    BY <1>1, <1>4, <2>2, CallTypes DEF CloneDone, RestType, TypeOK
  <2>4. AllocStep
    BY <1>4 DEF CloneDone, AllocStep
  <2>5. QED
    BY <2>3, <2>4, TypeFrom
<1>5. CASE CloneFails
  <2>1. RestType
    BY <1>5, CallTypes, NoParentType DEF CloneFails, RestType, TypeOK
  <2>2. QED
    BY <1>5, <2>1, TypeFrom DEF CloneFails, AllocStep
<1>6. QED
  BY <1>2, <1>3, <1>4, <1>5

LEMMA OtherLoopTypes ==
  ASSUME MemoryInv, MapDone \/ SearchRoom
  PROVE  TypeOK'
<1> TypeOK /\ BreakPlace /\ SearchPlace
  BY DEF MemoryInv
<1>1. CASE MapDone
  <2>1. call.op = "brk" => call.want \in 0..(WordSize - 1)
    <3>1. ASSUME call.op = "brk" PROVE call.want \in 1..(WordSize - 1)
      BY <3>1, ConstantFacts DEF BreakPlace
    <3>2. 1..(WordSize - 1) \subseteq 0..(WordSize - 1)
      BY ConstantFacts
    <3>3. QED
      BY <3>1, <3>2
  <2>2. RestType
    BY <1>1, <2>1, CallTypes DEF MapDone, RestType, TypeOK
  <2>3. QED
    BY <1>1, <2>2, TypeFrom DEF MapDone, AllocStep
<1>2. CASE SearchRoom
  <2>1. call \in CallType /\ next_mmap \in Nat
    BY DEF TypeOK
  <2>2. call.page \in Nat /\ call.end \in Nat
    BY <2>1 DEF CallType
  <2>3. call' \in CallType /\ next_mmap' \in Nat
    <3>1. CASE RoomFree(call.page, call.end)
      <4>1. call' = [call EXCEPT !.op = "mmap"] /\ next_mmap' = next_mmap
        BY <1>2, <3>1 DEF SearchRoom
      <4>2. QED
        BY <2>1, <4>1 DEF CallType, MapLoops
    <3>2. CASE ~RoomFree(call.page, call.end) /\ next_mmap < Limit
      <4> DEFINE n == next_mmap + (call.end - call.page)
      <4>1. n \in Nat
        BY <1>2, <2>1, <2>2 DEF SearchRoom, SearchPlace
      <4>2. call' = [call EXCEPT !.page = next_mmap, !.end = n]
            /\ next_mmap' = n
        BY <1>2, <2>1, <3>2, ConstantFacts DEF SearchRoom
      <4> HIDE DEF n
      <4>3. QED
        BY <2>1, <4>1, <4>2 DEF CallType
    <3>3. CASE ~RoomFree(call.page, call.end) /\ ~(next_mmap < Limit)
      BY <1>2, <2>1, <3>3, CallTypes DEF SearchRoom
    <3>4. QED
      BY <3>1, <3>2, <3>3
  <2>4. RestType
    BY <1>2, <2>3 DEF SearchRoom, RestType, TypeOK
  <2>5. QED
    BY <1>2, <2>4, TypeFrom DEF SearchRoom, AllocStep
<1>3. QED
  BY <1>1, <1>2

LEMMA BreakTypes ==
  ASSUME MemoryInv, NEW b \in Requests, Brk(b) \/ BrkPanics(b)
  PROVE  TypeOK'
<1> TypeOK
  BY DEF MemoryInv
<1>1. /\ b \in 0..(WordSize - 1) /\ b \in Nat /\ brk \in Nat
      /\ PageUp(b) \in Nat /\ PageUp(brk) \in Nat
  <2>1. b \in 0..(WordSize - 1) /\ b \in Nat /\ brk \in Nat
    BY ConstantFacts DEF TypeOK
  <2>2. QED
    BY <2>1, PageUpType
<1>2. calls' \in 0..MaxCalls
  BY NewCallType DEF Brk, BrkPanics, Running, NewCall
<1>3. CASE Brk(b)
  <2>1. Loop("brk", PageUp(brk), PageUp(b), TRUE, b, <<>>) \in CallType
    <3>1. "brk" \in {"none", "search", "clone"} \union MapLoops
      BY DEF MapLoops
    <3>2. QED
      BY <1>1, <3>1, LoopType
  <2>2. RestType
    BY <1>1, <1>2, <1>3, <2>1 DEF Brk, NewCall, RestType, TypeOK
  <2>3. AllocStep
    BY <1>3 DEF Brk, AllocStep
  <2>4. QED
    BY <2>2, <2>3, TypeFrom
<1>4. CASE BrkPanics(b)
  <2>1. RestType
    BY <1>2, <1>4 DEF BrkPanics, RestType, TypeOK
  <2>2. QED
    BY <1>4, <2>1, TypeFrom DEF BrkPanics, AllocStep
<1>5. QED
  BY <1>3, <1>4

LEMMA MappingTypes ==
  ASSUME MemoryInv,
         \/ \E hint \in Hints, len \in Lengths, fixed, write, valid \in BOOLEAN :
              Mmap(hint, len, fixed, write, valid)
         \/ \E p \in Hints, len \in Lengths : Munmap(p, len)
         \/ \E p \in Hints, len \in Lengths, write \in BOOLEAN :
              Mprotect(p, len, write)
  PROVE  TypeOK'
<1> TypeOK
  BY DEF MemoryInv
<1>1. cr3 \in Frames
  BY DEF TypeOK
<1>2. ASSUME NEW hint \in Hints, NEW len \in Lengths, NEW fixed \in BOOLEAN,
             NEW write \in BOOLEAN, NEW valid \in BOOLEAN,
             Mmap(hint, len, fixed, write, valid)
      PROVE  TypeOK'
  <2> DEFINE target == IF ~fixed /\ hint = 0 THEN next_mmap ELSE hint
             op == IF fixed THEN "fixed" ELSE "search"
  <2>1. hint \in Nat /\ len \in Nat /\ next_mmap \in Nat
    BY ConstantFacts DEF TypeOK
  <2>2. /\ target \in Nat /\ target + len \in Nat
        /\ op \in {"none", "search", "clone"} \union MapLoops
    BY <2>1 DEF MapLoops
  <2>3. /\ next_mmap' = next_mmap + len \/ next_mmap' = next_mmap
        /\ \/ call' = Loop(op, target, target + len, write, 0, <<>>)
           \/ call' = Idle
    BY <1>2 DEF Mmap
  <2> HIDE DEF target, op
  <2>4. call' \in CallType
    BY <2>2, <2>3, LoopType, CallTypes
  <2>5. calls' \in 0..MaxCalls
    BY <1>2, NewCallType DEF Mmap, Running, NewCall
  <2>6. RestType
    BY <1>2, <2>1, <2>3, <2>4, <2>5 DEF Mmap, NewCall, RestType, TypeOK
  <2>7. QED
    BY <1>2, <2>6, TypeFrom DEF Mmap, AllocStep
<1>3. ASSUME NEW p \in Hints, NEW len \in Lengths, Munmap(p, len)
      PROVE  TypeOK'
  <2> DEFINE L == [q \in Pages |-> IF q \in Prefix(p, len) THEN 0
                                                        ELSE space[cr3].leaf[q]]
  <2>1. space' = [space EXCEPT ![cr3].leaf = L]
    BY <1>1, <1>3 DEF Munmap, TypeOK
  <2>2. space' \in [Frames -> SpaceType]
    <3>1. L \in [Pages -> Frames]
      BY <1>1, FrameFacts DEF TypeOK, SpaceType
    <3> HIDE DEF L
    <3>2. QED
      BY <1>1, <2>1, <3>1, UnmapType DEF TypeOK
  <2>3. calls' \in 0..MaxCalls
    BY <1>3, NewCallType DEF Munmap, Running, NewCall
  <2>4. astray' \subseteq roots
    BY <1>3 DEF Munmap, TypeOK
  <2>5. RestType
    BY <1>3, <2>2, <2>3, <2>4 DEF Munmap, NewCall, RestType, TypeOK
  <2>6. QED
    BY <1>3, <2>5, TypeFrom DEF Munmap, AllocStep
<1>4. ASSUME NEW p \in Hints, NEW len \in Lengths, NEW write \in BOOLEAN,
             Mprotect(p, len, write)
      PROVE  TypeOK'
  <2> DEFINE w == IF write THEN space[cr3].write \union Prefix(p, len)
                           ELSE space[cr3].write \ Prefix(p, len)
  <2>1. w \in SUBSET Pages
    BY <1>1 DEF Prefix, TypeOK, SpaceType
  <2>2. space' = [space EXCEPT ![cr3].write = w]
    BY <1>1, <1>4 DEF Mprotect, TypeOK, SpaceType
  <2> HIDE DEF w
  <2>3. space' \in [Frames -> SpaceType]
    BY <1>1, <2>1, <2>2, LeafType, FrameFacts DEF TypeOK
  <2>4. calls' \in 0..MaxCalls
    BY <1>4, NewCallType DEF Mprotect, Running, NewCall
  <2>5. RestType
    BY <1>4, <2>3, <2>4 DEF Mprotect, NewCall, RestType, TypeOK
  <2>6. QED
    BY <1>4, <2>5, TypeFrom DEF Mprotect, AllocStep
<1>5. QED
  BY <1>2, <1>3, <1>4

LEMMA ForkTypes ==
  ASSUME MemoryInv, Fork \/ Vfork \/ Exit \/ ExecveFails
  PROVE  TypeOK'
<1> TypeOK /\ SavedRoot
  BY DEF MemoryInv
<1>1. calls' \in 0..MaxCalls
  BY NewCallType DEF Fork, Vfork, Exit, ExecveFails, Running, NewCall
<1>2. \A how \in {"fork", "vfork"}, R \in SUBSET Frames :
        roots \subseteq R =>
          Suspended(how) \in [how : {"none", "fork", "vfork"}, cr3 : R \union {0},
                              brk : 0..(WordSize - 1), next : Nat]
  BY DEF Suspended, TypeOK
<1>3. CASE Fork
  <2>1. CASE NoFrame /\ UNCHANGED <<roots, space, call, saved>>
    <3>1. RestType
      BY <1>1, <1>3, <2>1 DEF Fork, NewCall, Running, RestType, TypeOK
    <3>2. QED
      BY <2>1, <3>1, TypeFrom DEF AllocStep
  <2>2. ASSUME NEW root \in Frames, Allocate(root),
               roots' = roots \union {root},
               space' = [space EXCEPT ![root] = EmptySpace],
               call' = Loop("clone", 0, Limit, FALSE, root, <<>>),
               saved' = Suspended("fork")
        PROVE  TypeOK'
    <3>1. call' \in CallType
      BY <2>2, LoopType, ConstantFacts, FrameFacts
    <3>2. space' \in [Frames -> SpaceType]
      BY <2>2, FrameFacts DEF TypeOK
    <3>3. roots' \subseteq Frames /\ roots \subseteq roots'
      BY <2>2 DEF TypeOK
    <3>4. RestType
      BY <1>1, <1>2, <1>3, <2>2, <3>1, <3>2, <3>3
         DEF Fork, NewCall, Running, RestType, TypeOK
    <3>5. QED
      BY <2>2, <3>4, TypeFrom DEF AllocStep
  <2>3. QED
    BY <1>3, <2>1, <2>2 DEF Fork
<1>4. CASE Vfork
  <2>1. RestType
    BY <1>1, <1>2, <1>4 DEF Vfork, NewCall, Running, RestType, TypeOK
  <2>2. QED
    BY <1>4, <2>1, TypeFrom DEF Vfork, AllocStep
<1>5. ASSUME Running, EndChild, NewCall, AllocStep
      PROVE  TypeOK'
  <2>1. /\ cr3' \in roots /\ brk' \in 0..(WordSize - 1) /\ next_mmap' \in Nat
        /\ saved' = NoParent /\ call' = Idle
    BY <1>5, ResumeType DEF EndChild
  <2>2. RestType
    BY <1>1, <1>5, <2>1, CallTypes, NoParentType
       DEF EndChild, NewCall, RestType, TypeOK
  <2>3. QED
    BY <1>5, <2>2, TypeFrom
<1>6. CASE Exit
  BY <1>5, <1>6 DEF Exit, AllocStep
<1>7. CASE ExecveFails
  BY <1>5, <1>7 DEF ExecveFails, AllocStep
<1>8. QED
  BY <1>3, <1>4, <1>6, <1>7

LEMMA ExecTypes ==
  ASSUME MemoryInv, NEW image \in Images, Execve(image)
  PROVE  TypeOK'
<1> TypeOK
  BY DEF MemoryInv
<1>1. PICK root \in Frames :
        /\ Allocate(root)
        /\ roots' = roots \union {root}
        /\ space' = ResetNewSpace(root, image)
        /\ cr3' = root
  BY DEF Execve
<1>2. calls' \in 0..MaxCalls
  BY NewCallType DEF Execve, Running, NewCall
<1>3. space' \in [Frames -> SpaceType]
  <2> DEFINE L == [p \in Pages |-> IF p \in OldPages(image) THEN 0
                                   ELSE space[root].leaf[p]]
  <2>1. space' = [space EXCEPT ![root].leaf = L]
    BY <1>1 DEF ResetNewSpace, Reset, TypeOK
  <2>2. L \in [Pages -> Frames]
    BY <1>1, FrameFacts DEF TypeOK, SpaceType
  <2> HIDE DEF L
  <2>3. QED
    BY <1>1, <2>1, <2>2, UnmapType DEF TypeOK
<1>4. roots' \subseteq Frames /\ roots \subseteq roots' /\ cr3' \in roots'
  BY <1>1 DEF TypeOK
<1>5. call' \in CallType /\ brk' \in 0..(WordSize - 1) /\ next_mmap' \in Nat
  BY CallTypes, FirstBreak, ConstantFacts DEF Execve
<1>6. RestType
  BY <1>2, <1>3, <1>4, <1>5 DEF Execve, Running, NewCall, RestType, TypeOK
<1>7. QED
  BY <1>1, <1>6, TypeFrom DEF AllocStep

LEMMA WriteTypes ==
  ASSUME MemoryInv, NEW p \in Pages, UserWrite(p) \/ copy_user_out(p)
  PROVE  TypeOK'
<1> TypeOK
  BY DEF MemoryInv
<1>1. calls' \in 0..MaxCalls
  BY NewCallType DEF UserWrite, copy_user_out, Running, NewCall
<1>2. ram' \in [Frames -> Contents]
  BY DEF UserWrite, copy_user_out, TypeOK, Who, Contents
<1>3. RestType
  BY <1>1, <1>2 DEF UserWrite, copy_user_out, Running, NewCall, RestType, TypeOK
<1>4. QED
  BY <1>3, TypeFrom DEF UserWrite, copy_user_out, AllocStep

LEMMA TypeNext == MemoryInv /\ [Next]_vars => TypeOK'
<1> SUFFICES ASSUME MemoryInv, [Next]_vars PROVE TypeOK'
  OBVIOUS
<1>1. CASE SystemCall
  BY <1>1, BreakTypes, MappingTypes, WriteTypes, ForkTypes, ExecTypes
     DEF SystemCall
<1>2. CASE LoopTurn
  BY <1>2, LoopTypes, OtherLoopTypes, CloneTypes
     DEF LoopTurn, TakeLeaf, LeafFails, LinkTable, MapPage, MapFails
<1>3. ASSUME NEW p \in Pages, UserWrite(p) PROVE TypeOK'
  BY <1>3, WriteTypes
<1>4. CASE UNCHANGED vars
  BY <1>4 DEF vars, MemoryInv, TypeOK
<1>5. QED
  BY <1>1, <1>2, <1>3, <1>4 DEF Next

(***************************************************************************)
(* Where the loops are.                                                    *)
(***************************************************************************)

LEMMA RootUse ==
  ASSUME NEW r \in roots
  PROVE  <<"root", r, 0>> \in Uses /\ FrameOf(<<"root", r, 0>>) = r
BY DEF Uses, FrameOf

(* A frame that is handed out is no root yet, and maps nothing.            *)
LEMMA FreshRoot ==
  ASSUME MemoryInv, NEW f \in Frames, Allocate(f)
  PROVE  f \notin roots /\ space[f] = EmptySpace
<1>1. f # 0 /\ f # BootRoot /\ ~Passed(f)
  BY Allocated DEF MemoryInv
<1>2. f \notin roots
  <2> SUFFICES ASSUME f \in roots PROVE FALSE
    OBVIOUS
  <2>1. Passed(f)
    BY <1>1, RootUse DEF MemoryInv, FramesPassed
  <2>2. QED
    BY <1>1, <2>1
<1>3. QED
  BY <1>2 DEF MemoryInv, UnusedEmpty

Places == SearchPlace /\ LoadPlace /\ BreakPlace /\ ClonePlace

LEMMA QuietPlaces ==
  ASSUME call'.op = "none"
  PROVE  Places'
BY DEF Places, SearchPlace, LoadPlace, BreakPlace, ClonePlace

LEMMA SavedNext == MemoryInv /\ [Next]_vars => SavedRoot'
<1> SUFFICES ASSUME MemoryInv, [Next]_vars PROVE SavedRoot'
  OBVIOUS
<1> TypeOK /\ SavedRoot
  BY DEF MemoryInv
<1>1. roots \subseteq roots'
  BY DEF Next, SystemCall, LoopTurn, vars, Brk, BrkPanics, Mmap, Munmap, Mprotect,
         copy_user_out, Fork, Vfork, Execve, ExecveFails, Exit, EndChild, TakeLeaf,
         LeafFails, LinkTable, MapPage, MapFails, MapDone, SearchRoom, CloneTable,
         ClonePage, CloneDone, CloneFails, UserWrite
<1>2. \/ saved' = saved \/ saved' = NoParent
      \/ \E how \in {"fork", "vfork"} : saved' = Suspended(how)
  BY DEF Next, SystemCall, LoopTurn, vars, Brk, BrkPanics, Mmap, Munmap, Mprotect,
         copy_user_out, Fork, Vfork, Execve, ExecveFails, Exit, EndChild, TakeLeaf,
         LeafFails, LinkTable, MapPage, MapFails, MapDone, SearchRoom, CloneTable,
         ClonePage, CloneDone, CloneFails, UserWrite, GiveUp, ResumeParent
<1>3. QED
  BY <1>1, <1>2 DEF SavedRoot, NoParent, Suspended, TypeOK

LEMMA CallPlaces ==
  ASSUME MemoryInv, SystemCall
  PROVE  Places'
<1> TypeOK
  BY DEF MemoryInv
<1>1. call.op = "none"
  BY DEF SystemCall, Brk, BrkPanics, Mmap, Munmap, Mprotect, copy_user_out, Fork,
         Vfork, Execve, ExecveFails, Exit, Running
<1>2. ASSUME NEW b \in Requests, Brk(b) PROVE Places'
  <2>1. CASE call' = call
    BY <1>1, <2>1, QuietPlaces
  <2>2. CASE call' # call
    <3>1. /\ PageUp(brk) < PageUp(b)
          /\ call' = Loop("brk", PageUp(brk), PageUp(b), TRUE, b, <<>>)
          /\ brk' = brk
      BY <1>2, <2>2 DEF Brk
    <3>2. b \in Nat /\ brk \in Nat
      BY ConstantFacts DEF TypeOK
    <3>3. PageUp(brk) \in Nat /\ PageUp(b) \in Nat
      BY <3>2, PageUpType
    <3>4. /\ call'.op = "brk" /\ call'.want = b /\ call'.page = PageUp(brk)
          /\ call'.end = PageUp(b)
      BY <3>1 DEF Loop
    <3>5. PageUp(brk)' = PageUp(brk) /\ PageUp(call.want)' = PageUp(b)
      BY <3>1, <3>4 DEF PageUp
    <3>6. BreakPlace'
      <4>1. call'.want \in Requests /\ call'.end = PageUp(call.want)'
        BY <1>2, <3>4, <3>5
      <4>2. PageUp(brk) < PageUp(b)
        BY <3>1
      <4>3. PageUp(brk) <= call'.page /\ call'.page <= call'.end
        BY <3>3, <3>4, <4>2
      <4>4. PageUp(brk)' <= call'.page
        BY <3>5, <4>3
      <4>5. QED
        BY <4>1, <4>3, <4>4 DEF BreakPlace
    <3>7. QED
      BY <3>4, <3>6 DEF Places, SearchPlace, LoadPlace, ClonePlace
  <2>3. QED
    BY <2>1, <2>2
<1>3. ASSUME NEW hint \in Hints, NEW len \in Lengths, NEW fixed \in BOOLEAN,
             NEW write \in BOOLEAN, NEW valid \in BOOLEAN,
             Mmap(hint, len, fixed, write, valid)
      PROVE  Places'
  <2> DEFINE target == IF ~fixed /\ hint = 0 THEN next_mmap ELSE hint
             op == IF fixed THEN "fixed" ELSE "search"
  <2>1. hint \in Nat /\ len \in Nat /\ next_mmap \in Nat
    BY ConstantFacts DEF TypeOK
  <2>2. target \in Nat /\ target <= target + len
    BY <2>1
  <2>3. \/ call' = Loop(op, target, target + len, write, 0, <<>>)
        \/ call' = Idle
    BY <1>3 DEF Mmap
  <2> HIDE DEF target
  <2>4. CASE call' = Loop(op, target, target + len, write, 0, <<>>)
    <3>1. /\ call'.op \in {"fixed", "search"}
          /\ call'.page <= call'.end
      BY <2>2, <2>4 DEF Loop
    <3>2. QED
      BY <3>1 DEF Places, SearchPlace, LoadPlace, BreakPlace, ClonePlace
  <2>5. CASE call' = Idle
    BY <2>5, QuietPlaces DEF Idle, Loop
  <2>6. QED
    BY <2>3, <2>4, <2>5
<1>4. CASE Fork
  <2>1. CASE UNCHANGED call
    BY <1>1, <2>1, QuietPlaces
  <2>2. ASSUME NEW root \in Frames, Allocate(root),
               roots' = roots \union {root},
               space' = [space EXCEPT ![root] = EmptySpace],
               call' = Loop("clone", 0, Limit, FALSE, root, <<>>),
               saved' = Suspended("fork")
        PROVE  Places'
    <3>1. /\ call'.op = "clone" /\ call'.want = root /\ call'.end = Limit
          /\ call'.page = 0
      BY <2>2 DEF Loop
    <3>2. /\ cr3' = cr3 /\ brk' = brk /\ cr3 \in roots /\ root \notin roots
      BY <1>4, <2>2, FreshRoot DEF Fork, TypeOK
    <3>3. /\ saved'.how = "fork" /\ saved'.cr3 = cr3 /\ saved'.brk = brk
      BY <2>2 DEF Suspended
    <3>4. \A p \in Pages : space'[root].leaf[p] = 0 /\ ~(p < 0)
      BY <2>2, ConstantFacts DEF TypeOK, EmptySpace
    <3>5. 0 \in 0..Limit
      BY ConstantFacts
    <3>6. ClonePlace'
      BY <2>2, <3>1, <3>2, <3>3, <3>4, <3>5 DEF ClonePlace
    <3>7. QED
      BY <3>1, <3>6 DEF Places, SearchPlace, LoadPlace, BreakPlace
  <2>3. QED
    BY <1>4, <2>1, <2>2 DEF Fork
<1>5. ASSUME NEW image \in Images, Execve(image) PROVE Places'
  <2>1. call' = Load(image) /\ Len(image) \in Nat
    BY <1>5, CallTypes DEF Execve
  <2>2. /\ call'.op = "load" /\ call'.image = image
        /\ call'.end = Len(image) + 1 /\ call'.page = 1
    BY <2>1 DEF Load, Loop
  <2>3. 1 \in 1..(Len(image) + 1)
    BY <2>1
  <2>4. QED
    BY <2>2, <2>3 DEF Places, SearchPlace, LoadPlace, BreakPlace, ClonePlace
<1>6. CASE call' = call \/ call' = Idle
  BY <1>1, <1>6, QuietPlaces DEF Idle, Loop
<1>7. QED
  BY <1>2, <1>3, <1>4, <1>5, <1>6
     DEF SystemCall, BrkPanics, Munmap, Mprotect, copy_user_out, Vfork,
         ExecveFails, Exit, EndChild, ResumeParent


(* One entry is written.                                                   *)
PutLeaf(S, r, p, f) == [S EXCEPT ![r].leaf[p] = f]
PutEntry(S, r, p, f, w) == [S EXCEPT ![r].leaf[p] = f, ![r].write = w]
PutTable(S, r, t, f) == [S EXCEPT ![r].table[t] = f]

LEMMA OneLeaf ==
  ASSUME NEW S \in [Frames -> SpaceType], NEW r \in Frames, NEW p \in Pages,
         NEW f
  PROVE  /\ \A q \in Frames, o \in Pages :
              PutLeaf(S, r, p, f)[q].leaf[o]
                = IF q = r /\ o = p THEN f ELSE S[q].leaf[o]
         /\ \A q \in Frames : PutLeaf(S, r, p, f)[q].table = S[q].table
         /\ \A q \in Frames : q # r => PutLeaf(S, r, p, f)[q] = S[q]
BY DEF PutLeaf, SpaceType

LEMMA OneEntry ==
  ASSUME NEW S \in [Frames -> SpaceType], NEW r \in Frames, NEW p \in Pages,
         NEW f, NEW w
  PROVE  /\ \A q \in Frames, o \in Pages :
              PutEntry(S, r, p, f, w)[q].leaf[o]
                = IF q = r /\ o = p THEN f ELSE S[q].leaf[o]
         /\ \A q \in Frames : PutEntry(S, r, p, f, w)[q].table = S[q].table
         /\ \A q \in Frames : q # r => PutEntry(S, r, p, f, w)[q] = S[q]
BY DEF PutEntry, SpaceType

LEMMA OneTable ==
  ASSUME NEW S \in [Frames -> SpaceType], NEW r \in Frames, NEW t \in Tables,
         NEW f
  PROVE  /\ \A q \in Frames : PutTable(S, r, t, f)[q].leaf = S[q].leaf
         /\ \A q \in Frames, u \in Tables :
              PutTable(S, r, t, f)[q].table[u]
                = IF q = r /\ u = t THEN f ELSE S[q].table[u]
         /\ \A q \in Frames : q # r => PutTable(S, r, t, f)[q] = S[q]
BY DEF PutTable, SpaceType

LEMMA MapPlaces ==
  ASSUME MemoryInv,
         TakeLeaf \/ LeafFails \/ LinkTable \/ MapPage \/ MapFails \/ MapDone
  PROVE  Places'
<1> TypeOK /\ LoadPlace /\ BreakPlace
  BY DEF MemoryInv
<1>1. call.op \in MapLoops
  BY DEF TakeLeaf, LeafFails, LinkTable, MapPage, MapFails, MapDone, AtPage
<1>2. /\ call.op \notin {"search", "clone"} /\ call.page \in Nat /\ call.end \in Nat
      /\ PageUp(brk) \in Nat
  <2>1. brk \in Nat
    BY ConstantFacts DEF TypeOK
  <2>2. PageUp(brk) \in Nat
    BY <2>1, PageUpType
  <2>3. QED
    BY <1>1, <2>2 DEF MapLoops, TypeOK, CallType
<1>3. ASSUME brk' = brk, call'.op = call.op, call'.end = call.end,
             call'.want = call.want, call'.image = call.image,
             \/ call'.page = call.page
             \/ call.page # call.end /\ call'.page = call.page + 1
      PROVE  Places'
  <2>1. PageUp(brk)' = PageUp(brk) /\ PageUp(call.want)' = PageUp(call.want)
    BY <1>3 DEF PageUp
  <2>2. BreakPlace'
    BY <1>2, <1>3, <2>1 DEF BreakPlace
  <2>3. LoadPlace'
    BY <1>2, <1>3 DEF LoadPlace
  <2>4. QED
    BY <1>2, <1>3, <2>2, <2>3 DEF Places, SearchPlace, ClonePlace
<1>4. CASE TakeLeaf
  <2>1. PICK f \in Frames : call' = [call EXCEPT !.leaf = f]
    BY <1>4 DEF TakeLeaf
  <2>2. brk' = brk
    BY <1>4 DEF TakeLeaf
  <2>3. QED
    BY <1>3, <2>1, <2>2 DEF TypeOK, CallType
<1>5. CASE LinkTable
  BY <1>3, <1>5 DEF LinkTable
<1>6. CASE MapPage
  <2>1. call' = [call EXCEPT !.page = @ + 1, !.leaf = 0] /\ brk' = brk
        /\ call.page # call.end
    BY <1>6 DEF MapPage, AtPage
  <2>2. QED
    BY <1>3, <2>1 DEF TypeOK, CallType
<1>7. CASE LeafFails \/ MapFails \/ MapDone
  <2>1. call' = Idle
    BY <1>7 DEF LeafFails, MapFails, MapDone, GiveUp, ResumeParent
  <2>2. QED
    BY <2>1, QuietPlaces DEF Idle, Loop
<1>8. QED
  BY <1>4, <1>5, <1>6, <1>7

LEMMA SearchPlaces ==
  ASSUME MemoryInv, SearchRoom
  PROVE  Places'
<1> TypeOK /\ SearchPlace
  BY DEF MemoryInv
<1>1. /\ call.op = "search" /\ call.page \in Nat /\ call.end \in Nat
      /\ call.page <= call.end /\ next_mmap \in Nat
  BY DEF SearchRoom, SearchPlace, TypeOK, CallType
<1>2. CASE call' = [call EXCEPT !.op = "mmap"]
  <2>1. call'.op = "mmap"
    BY <1>2 DEF TypeOK, CallType
  <2>2. QED
    BY <2>1 DEF Places, SearchPlace, LoadPlace, BreakPlace, ClonePlace
<1>3. CASE call' = [call EXCEPT !.page = next_mmap,
                               !.end = next_mmap + (call.end - call.page)]
  <2>1. /\ call'.op = "search" /\ call'.page = next_mmap
        /\ call'.end = next_mmap + (call.end - call.page)
    BY <1>1, <1>3 DEF TypeOK, CallType
  <2>2. QED
    BY <1>1, <2>1 DEF Places, SearchPlace, LoadPlace, BreakPlace, ClonePlace
<1>4. CASE call' = Idle
  BY <1>4, QuietPlaces DEF Idle, Loop
<1>5. QED
  BY <1>2, <1>3, <1>4 DEF SearchRoom


LEMMA ClonePlaces ==
  ASSUME MemoryInv, CloneTable \/ ClonePage \/ CloneDone \/ CloneFails
  PROVE  Places'
<1> TypeOK /\ ClonePlace
  BY DEF MemoryInv
<1>1. /\ call.op = "clone" /\ call.page \in Nat /\ call.end \in Nat
      /\ call.want \in roots /\ call.want # cr3 /\ call.end = Limit
      /\ cr3 \in roots /\ roots \subseteq Frames /\ Limit \in Nat
      /\ call.page \in 0..Limit
      /\ saved.how = "fork" /\ saved.cr3 = cr3 /\ saved.brk = brk
  BY ConstantFacts
     DEF CloneTable, ClonePage, CloneDone, CloneFails, Cloning, ClonePlace, TypeOK,
         CallType
<1>2. \A p \in Pages :
         IF p < call.page
         THEN space[call.want].leaf[p] # 0 <=> space[cr3].leaf[p] # 0
         ELSE space[call.want].leaf[p] = 0
  BY <1>1 DEF ClonePlace
<1>3. CASE CloneTable
  <2>1. PICK f \in Frames, t \in Tables :
          space' = PutTable(space, call.want, t, f)
    BY <1>3 DEF CloneTable, PutTable
  <2>2. \A r \in Frames : space'[r].leaf = space[r].leaf
    BY <1>1, <2>1, OneTable DEF TypeOK
  <2>3. call' = call /\ cr3' = cr3 /\ brk' = brk /\ saved' = saved /\ roots' = roots
    BY <1>3 DEF CloneTable
  <2>4. ClonePlace'
    BY <1>1, <1>2, <2>2, <2>3 DEF ClonePlace
  <2>5. QED
    BY <1>1, <2>3, <2>4 DEF Places, SearchPlace, LoadPlace, BreakPlace
<1>4. CASE ClonePage
  <2>1. /\ call' = [call EXCEPT !.page = @ + 1] /\ call.page # call.end
        /\ cr3' = cr3 /\ brk' = brk /\ saved' = saved /\ roots' = roots
    BY <1>4 DEF ClonePage
  <2>2. /\ call'.op = call.op /\ call'.want = call.want /\ call'.end = call.end
        /\ call'.page = call.page + 1
    BY <1>1, <2>1 DEF TypeOK, CallType
  <2>3. call.page \in Pages /\ call'.page \in 0..Limit
    BY <1>1, <2>1, <2>2 DEF Pages
  <2>4. \A p \in Pages : p < call'.page <=> p < call.page \/ p = call.page
    <3> SUFFICES ASSUME NEW p \in Pages, NEW n \in Nat
                 PROVE  p < n + 1 <=> p < n \/ p = n
      BY <1>1, <2>2
    <3>1. p \in Nat
      BY ConstantFacts
    <3>2. QED
      BY <3>1
  <2>5. \A p \in Pages :
          IF p < call'.page
          THEN space'[call.want].leaf[p] # 0 <=> space'[cr3].leaf[p] # 0
          ELSE space'[call.want].leaf[p] = 0
    <3>1. CASE Mapped(call.page)
      <4>1. PICK f \in Frames : Allocate(f) /\ CopyPage(f)
        BY <1>4, <3>1 DEF ClonePage
      <4>2. f # 0
        BY <4>1, Allocated
      <4>3. \A q \in Frames, o \in Pages :
              space'[q].leaf[o] = IF q = call.want /\ o = call.page THEN f
                                  ELSE space[q].leaf[o]
        <5>1. space' = PutLeaf(space, call.want, call.page, f)
          BY <4>1 DEF CopyPage, PutLeaf
        <5>2. call.want \in Frames /\ space \in [Frames -> SpaceType]
          BY <1>1 DEF TypeOK
        <5>3. QED
          BY <2>3, <5>1, <5>2, OneLeaf
      <4>4. space[cr3].leaf[call.page] # 0
        BY <2>3, <3>1 DEF Mapped, Leaf
      <4>5. QED
        BY <1>1, <1>2, <2>3, <2>4, <4>2, <4>3, <4>4
    <3>2. CASE ~Mapped(call.page)
      <4>1. space' = space
        BY <1>4, <3>2 DEF ClonePage
      <4>2. space[cr3].leaf[call.page] = 0
        BY <2>3, <3>2 DEF Mapped, Leaf
      <4>3. space[call.want].leaf[call.page] = 0
        BY <1>1, <1>2, <2>3
      <4>4. QED
        BY <1>2, <2>4, <4>1, <4>2, <4>3
    <3>3. QED
      BY <3>1, <3>2
  <2>6. ClonePlace'
    BY <1>1, <2>1, <2>2, <2>3, <2>5 DEF ClonePlace
  <2>7. QED
    BY <1>1, <2>2, <2>6 DEF Places, SearchPlace, LoadPlace, BreakPlace
<1>5. CASE CloneDone \/ CloneFails
  BY <1>5, QuietPlaces DEF CloneDone, CloneFails, Idle, Loop
<1>6. QED
  BY <1>3, <1>4, <1>5

LEMMA WritePlaces ==
  ASSUME MemoryInv, (\E p \in Pages : UserWrite(p)) \/ UNCHANGED vars
  PROVE  Places'
<1>1. CASE UNCHANGED vars
  BY <1>1 DEF MemoryInv, Places, vars, SearchPlace, LoadPlace, BreakPlace,
              ClonePlace, PageUp
<1>2. CASE \E p \in Pages : UserWrite(p)
  BY <1>2, QuietPlaces DEF UserWrite, Running
<1>3. QED
  BY <1>1, <1>2

LEMMA PlacesNext == MemoryInv /\ [Next]_vars => Places'
BY CallPlaces, MapPlaces, SearchPlaces, ClonePlaces, WritePlaces
   DEF Next, LoopTurn


(***************************************************************************)
(* Frames.                                                                 *)
(***************************************************************************)

FramesInv == FramesPassed /\ FramesOnce /\ UnusedEmpty

(* The four kinds of uses.                                                 *)
LEMMA UseKinds ==
  ASSUME NEW u \in Uses
  PROVE  \/ \E r \in roots : u = <<"root", r, 0>> /\ FrameOf(u) = r
         \/ \E r \in roots, t \in Tables :
              u = <<"table", r, t>> /\ FrameOf(u) = space[r].table[t]
         \/ \E r \in roots, p \in Pages :
              u = <<"page", r, p>> /\ FrameOf(u) = space[r].leaf[p]
         \/ u = <<"held", 0, 0>> /\ FrameOf(u) = call.leaf
BY DEF Uses, FrameOf

LEMMA UseKindsNext ==
  ASSUME NEW u \in Uses'
  PROVE  \/ \E r \in roots' : u = <<"root", r, 0>> /\ FrameOf(u)' = r
         \/ \E r \in roots', t \in Tables :
              u = <<"table", r, t>> /\ FrameOf(u)' = space'[r].table[t]
         \/ \E r \in roots', p \in Pages :
              u = <<"page", r, p>> /\ FrameOf(u)' = space'[r].leaf[p]
         \/ u = <<"held", 0, 0>> /\ FrameOf(u)' = call'.leaf
BY DEF Uses, FrameOf

LEMMA UsesOf ==
  /\ \A r \in roots : <<"root", r, 0>> \in Uses /\ FrameOf(<<"root", r, 0>>) = r
  /\ \A r \in roots, t \in Tables :
       /\ <<"table", r, t>> \in Uses
       /\ FrameOf(<<"table", r, t>>) = space[r].table[t]
  /\ \A r \in roots, p \in Pages :
       /\ <<"page", r, p>> \in Uses
       /\ FrameOf(<<"page", r, p>>) = space[r].leaf[p]
  /\ <<"held", 0, 0>> \in Uses /\ FrameOf(<<"held", 0, 0>>) = call.leaf
BY DEF Uses, FrameOf

LEMMA FrameType ==
  ASSUME TypeOK, NEW u \in Uses
  PROVE  FrameOf(u) \in Nat
<1>1. /\ roots \subseteq Nat /\ call.leaf \in Nat
      /\ \A r \in roots, t \in Tables : space[r].table[t] \in Nat
      /\ \A r \in roots, p \in Pages : space[r].leaf[p] \in Nat
  <2>1. /\ Frames \subseteq Nat /\ roots \subseteq Frames
        /\ space \in [Frames -> SpaceType] /\ call \in CallType
    BY FrameFacts DEF TypeOK
  <2>2. call.leaf \in Frames
    BY <2>1 DEF CallType
  <2>3. ASSUME NEW r \in roots
        PROVE  /\ \A t \in Tables : space[r].table[t] \in Frames
               /\ \A p \in Pages : space[r].leaf[p] \in Frames
    BY <2>1 DEF SpaceType
  <2>4. QED
    BY <2>1, <2>2, <2>3
<1>2. QED
  BY <1>1, UseKinds

(* Every frame in use stays where it is or goes out of use, but for one    *)
(* use that gets the frame just handed out.                                *)
LEMMA NewUse ==
  ASSUME MemoryInv, NEW w, NEW f, Allocate(f),
         \A u \in Uses' : \/ FrameOf(u)' = 0
                          \/ u = w /\ FrameOf(u)' = f
                          \/ u \in Uses /\ FrameOf(u)' = FrameOf(u)
  PROVE  FramesPassed' /\ FramesOnce'
<1> TypeOK /\ FramesPassed /\ FramesOnce
  BY DEF MemoryInv
<1>1. /\ f # 0 /\ f # BootRoot /\ ~Passed(f) /\ Passed(f)'
      /\ \A g \in Nat : Passed(g) => Passed(g)'
  BY Allocated
<1>2. FramesPassed'
  <2> SUFFICES ASSUME NEW u \in Uses', FrameOf(u)' # 0, FrameOf(u)' # BootRoot
               PROVE  Passed(FrameOf(u))'
    BY DEF FramesPassed
  <2>1. CASE FrameOf(u)' = f
    BY <1>1, <2>1 DEF Passed, Whole
  <2>2. CASE u \in Uses /\ FrameOf(u)' = FrameOf(u)
    <3>1. FrameOf(u) \in Nat /\ Passed(FrameOf(u))
      BY <2>2, FrameType DEF FramesPassed
    <3>2. PICK g \in Nat : g = FrameOf(u) /\ Passed(g)
      BY <3>1
    <3>3. Passed(g)'
      BY <1>1, <3>2
    <3>4. FrameOf(u)' = g
      BY <2>2, <3>2
    <3>5. QED
      BY <3>3, <3>4 DEF Passed, Whole
  <2>3. QED
    BY <2>1, <2>2
<1>3. FramesOnce'
  <2> SUFFICES ASSUME NEW u \in Uses', NEW v \in Uses', FrameOf(u)' # 0,
                      FrameOf(u)' = FrameOf(v)'
               PROVE  u = v
    BY DEF FramesOnce
  <2>1. \A x \in Uses : FrameOf(x) # f
    BY <1>1 DEF FramesPassed
  <2>2. QED
    BY <2>1 DEF FramesOnce
<1>4. QED
  BY <1>2, <1>3

(* The step hands out no frame that it uses, and none changes its use.     *)
LEMMA OldUses ==
  ASSUME MemoryInv, AllocStep,
         \A u \in Uses' : \/ FrameOf(u)' = 0
                          \/ u \in Uses /\ FrameOf(u)' = FrameOf(u)
  PROVE  FramesPassed' /\ FramesOnce'
<1> TypeOK /\ FramesPassed /\ FramesOnce
  BY DEF MemoryInv
<1>1. \A g \in Nat : Passed(g) => Passed(g)'
  BY AllocKept
<1>2. FramesPassed'
  <2> SUFFICES ASSUME NEW u \in Uses', FrameOf(u)' # 0, FrameOf(u)' # BootRoot
               PROVE  Passed(FrameOf(u))'
    BY DEF FramesPassed
  <2>1. FrameOf(u) \in Nat /\ Passed(FrameOf(u)) /\ FrameOf(u)' = FrameOf(u)
    BY FrameType DEF FramesPassed
  <2>2. PICK g \in Nat : g = FrameOf(u) /\ Passed(g)
    BY <2>1
  <2>3. Passed(g)'
    BY <1>1, <2>2
  <2>4. FrameOf(u)' = g
    BY <2>1, <2>2
  <2>5. QED
    BY <2>3, <2>4 DEF Passed, Whole
<1>3. FramesOnce'
  BY DEF FramesOnce
<1>4. QED
  BY <1>2, <1>3

(* The same, of the entries: none is new, though some may be cleared.      *)
EntriesKept ==
  /\ \A r \in roots, t \in Tables :
       space'[r].table[t] = 0 \/ space'[r].table[t] = space[r].table[t]
  /\ \A r \in roots, p \in Pages :
       space'[r].leaf[p] = 0 \/ space'[r].leaf[p] = space[r].leaf[p]
  /\ \A r \in Frames \ roots : space'[r] = space[r]

LEMMA KeptFrames ==
  ASSUME MemoryInv, AllocStep, roots' = roots, EntriesKept,
         call'.leaf = 0 \/ call'.leaf = call.leaf
  PROVE  FramesInv'
<1>1. \A u \in Uses' : \/ FrameOf(u)' = 0
                       \/ u \in Uses /\ FrameOf(u)' = FrameOf(u)
  BY UseKindsNext, UsesOf DEF EntriesKept
<1>2. UnusedEmpty'
  BY DEF MemoryInv, UnusedEmpty, EntriesKept
<1>3. QED
  BY <1>1, <1>2, OldUses DEF FramesInv


LEMMA CallFrames ==
  ASSUME MemoryInv,
         \/ \E b \in Requests : Brk(b) \/ BrkPanics(b)
         \/ \E hint \in Hints, len \in Lengths, fixed, write, valid \in BOOLEAN :
              Mmap(hint, len, fixed, write, valid)
         \/ \E p \in Pages : copy_user_out(p) \/ UserWrite(p)
         \/ Vfork \/ ExecveFails \/ Exit \/ UNCHANGED vars
  PROVE  FramesInv'
<1>1. roots' = roots /\ space' = space /\ AllocStep
  BY DEF Brk, BrkPanics, Mmap, copy_user_out, UserWrite, Vfork, ExecveFails, Exit,
         EndChild, vars, AllocStep
<1>2. call'.leaf = 0 \/ call' = call
  BY DEF Brk, BrkPanics, Mmap, copy_user_out, UserWrite, Vfork, ExecveFails, Exit,
         EndChild, ResumeParent, vars, Loop, Idle
<1>3. EntriesKept
  BY <1>1 DEF EntriesKept
<1>4. QED
  BY <1>1, <1>2, <1>3, KeptFrames

(* Entries are cleared, or change their protection.                        *)
PutLeaves(S, r, L) == [S EXCEPT ![r].leaf = L]
PutWrite(S, r, w) == [S EXCEPT ![r].write = w]

LEMMA AllLeaves ==
  ASSUME NEW S \in [Frames -> SpaceType], NEW r \in Frames, NEW L
  PROVE  /\ \A q \in Frames :
              PutLeaves(S, r, L)[q].leaf = IF q = r THEN L ELSE S[q].leaf
         /\ \A q \in Frames : PutLeaves(S, r, L)[q].table = S[q].table
         /\ \A q \in Frames : q # r => PutLeaves(S, r, L)[q] = S[q]
BY DEF PutLeaves, SpaceType

LEMMA OnlyWrite ==
  ASSUME NEW S \in [Frames -> SpaceType], NEW r \in Frames, NEW w
  PROVE  /\ \A q \in Frames : PutWrite(S, r, w)[q].leaf = S[q].leaf
         /\ \A q \in Frames : PutWrite(S, r, w)[q].table = S[q].table
         /\ \A q \in Frames : q # r => PutWrite(S, r, w)[q] = S[q]
BY DEF PutWrite, SpaceType

LEMMA MunmapLeaves ==
  ASSUME TypeOK, NEW p \in Hints, NEW len \in Lengths, Munmap(p, len)
  PROVE  /\ \A r \in Frames, q \in Pages :
              space'[r].leaf[q] = IF r = cr3 /\ q \in Prefix(p, len) THEN 0
                                  ELSE space[r].leaf[q]
         /\ \A r \in Frames : space'[r].table = space[r].table
         /\ \A r \in Frames : r # cr3 => space'[r] = space[r]
<1> DEFINE L == [q \in Pages |-> IF q \in Prefix(p, len) THEN 0
                                 ELSE space[cr3].leaf[q]]
<1>1. cr3 \in Frames /\ space \in [Frames -> SpaceType]
  BY DEF TypeOK
<1>2. space' = PutLeaves(space, cr3, L)
  BY <1>1 DEF Munmap, PutLeaves
<1>3. \A q \in Pages : L[q] = IF q \in Prefix(p, len) THEN 0
                              ELSE space[cr3].leaf[q]
  OBVIOUS
<1> HIDE DEF L
<1>4. QED
  BY <1>1, <1>2, <1>3, AllLeaves

LEMMA MprotectWrite ==
  ASSUME TypeOK, NEW p \in Hints, NEW len \in Lengths, NEW write \in BOOLEAN,
         Mprotect(p, len, write)
  PROVE  /\ \A r \in Frames : space'[r].leaf = space[r].leaf
         /\ \A r \in Frames : space'[r].table = space[r].table
         /\ \A r \in Frames : r # cr3 => space'[r] = space[r]
<1> DEFINE w == IF write THEN space[cr3].write \union Prefix(p, len)
                         ELSE space[cr3].write \ Prefix(p, len)
<1>1. cr3 \in Frames /\ space \in [Frames -> SpaceType]
  BY DEF TypeOK
<1>2. space' = PutWrite(space, cr3, w)
  BY <1>1 DEF Mprotect, PutWrite, SpaceType
<1> HIDE DEF w
<1>3. QED
  BY <1>1, <1>2, OnlyWrite

LEMMA UnmapFrames ==
  ASSUME MemoryInv,
         \/ \E p \in Hints, len \in Lengths : Munmap(p, len)
         \/ \E p \in Hints, len \in Lengths, write \in BOOLEAN :
              Mprotect(p, len, write)
  PROVE  FramesInv'
<1> TypeOK
  BY DEF MemoryInv
<1>1. cr3 \in roots /\ roots \subseteq Frames
  BY DEF TypeOK
<1>2. EntriesKept
  BY <1>1, MunmapLeaves, MprotectWrite DEF EntriesKept
<1>3. roots' = roots /\ alloc' = alloc /\ call' = call
  BY DEF Munmap, Mprotect
<1>4. QED
  BY <1>2, <1>3, KeptFrames DEF AllocStep


(* The old page of a fixed mapping is gone, and nothing else.              *)
LEMMA DroppedLeaves ==
  ASSUME TypeOK
  PROVE  /\ \A r \in Frames, p \in Pages :
              Dropped[r].leaf[p] = IF call.op = "fixed" /\ r = cr3 /\ p = Target
                                   THEN 0 ELSE space[r].leaf[p]
         /\ \A r \in Frames : Dropped[r].table = space[r].table
         /\ \A r \in Frames : r # cr3 => Dropped[r] = space[r]
<1>1. cr3 \in Frames /\ space \in [Frames -> SpaceType]
  BY DEF TypeOK
<1>2. CASE call.op = "fixed" /\ Mapped(Target)
  <2>1. Target \in Pages
    BY <1>2 DEF Mapped, Leaf
  <2>2. Dropped = PutLeaf(space, cr3, Target, 0)
    BY <1>2 DEF Dropped, PutLeaf
  <2>3. QED
    BY <1>1, <1>2, <2>1, <2>2, OneLeaf
<1>3. CASE ~(call.op = "fixed" /\ Mapped(Target))
  <2>1. Dropped = space
    BY <1>3 DEF Dropped
  <2>2. ASSUME NEW p \in Pages, call.op = "fixed", p = Target
        PROVE  space[cr3].leaf[p] = 0
    BY <1>3, <2>2 DEF Mapped, Leaf
  <2>3. QED
    BY <2>1, <2>2
<1>4. QED
  BY <1>2, <1>3

LEMMA QuietLoopFrames ==
  ASSUME MemoryInv,
         LeafFails \/ MapFails \/ MapDone \/ SearchRoom \/ CloneFails \/ CloneDone
  PROVE  FramesInv'
<1> TypeOK /\ ClonePlace
  BY DEF MemoryInv
<1>1. roots' = roots /\ AllocStep /\ cr3 \in roots /\ roots \subseteq Frames
  BY DEF LeafFails, MapFails, MapDone, SearchRoom, CloneFails, CloneDone,
         AllocStep, TypeOK
<1>2. call'.leaf = 0 \/ call'.leaf = call.leaf
  <2>1. CASE call' = Idle
    BY <2>1 DEF Idle, Loop
  <2>2. CASE SearchRoom
    <3>1. CASE call' = [call EXCEPT !.op = "mmap"]
      BY <3>1 DEF TypeOK, CallType
    <3>2. CASE call' = [call EXCEPT
                          !.page = next_mmap,
                          !.end = next_mmap + (call.end - call.page)]
      BY <3>2 DEF TypeOK, CallType
    <3>3. QED
      BY <2>1, <2>2, <3>1, <3>2 DEF SearchRoom
  <2>3. QED
    BY <2>1, <2>2 DEF LeafFails, MapFails, MapDone, CloneFails, CloneDone, GiveUp,
                      ResumeParent
<1>3. EntriesKept
  <2>1. CASE space' = space
    BY <2>1 DEF EntriesKept
  <2>2. CASE space' = Dropped
    BY <1>1, <2>2, DroppedLeaves DEF EntriesKept
  <2>3. CASE CloneDone
    <3>1. space' = PutWrite(space, call.want, space[cr3].write)
      BY <2>3 DEF CloneDone, PutWrite
    <3>2. call.want \in roots /\ space \in [Frames -> SpaceType]
      BY <2>3 DEF CloneDone, Cloning, ClonePlace, TypeOK
    <3>3. QED
      BY <1>1, <3>1, <3>2, OnlyWrite DEF EntriesKept
  <2>4. QED
    BY <2>1, <2>2, <2>3
       DEF LeafFails, MapFails, MapDone, SearchRoom, CloneFails
<1>4. QED
  BY <1>1, <1>2, <1>3, KeptFrames

LEMMA TakeFrames ==
  ASSUME MemoryInv, TakeLeaf
  PROVE  FramesInv'
<1> TypeOK /\ UnusedEmpty
  BY DEF MemoryInv
<1>1. PICK f \in Frames : Allocate(f) /\ call' = [call EXCEPT !.leaf = f]
  BY DEF TakeLeaf
<1>2. /\ call'.leaf = f /\ roots' = roots /\ space' = Dropped /\ cr3 \in roots
      /\ roots \subseteq Frames
  BY <1>1 DEF TakeLeaf, TypeOK, CallType
<1>3. \A u \in Uses' : \/ FrameOf(u)' = 0
                       \/ u = <<"held", 0, 0>> /\ FrameOf(u)' = f
                       \/ u \in Uses /\ FrameOf(u)' = FrameOf(u)
  BY <1>2, UseKindsNext, UsesOf, DroppedLeaves
<1>4. UnusedEmpty'
  BY <1>2, DroppedLeaves DEF UnusedEmpty
<1>5. QED
  BY <1>1, <1>3, <1>4, NewUse DEF FramesInv

(* A table is linked below one root.                                       *)
LEMMA TableFrames ==
  ASSUME MemoryInv, NEW r \in roots, NEW f \in Frames, NEW t \in Tables,
         Allocate(f), space' = PutTable(space, r, t, f),
         roots' = roots, call' = call
  PROVE  FramesInv'
<1> TypeOK /\ UnusedEmpty
  BY DEF MemoryInv
<1>1. r \in Frames /\ roots \subseteq Frames /\ space \in [Frames -> SpaceType]
  BY DEF TypeOK
<1>2. /\ \A q \in Frames : space'[q].leaf = space[q].leaf
      /\ \A q \in Frames, u \in Tables :
           space'[q].table[u] = IF q = r /\ u = t THEN f ELSE space[q].table[u]
      /\ \A q \in Frames : q # r => space'[q] = space[q]
  BY <1>1, OneTable
<1>3. \A u \in Uses' : \/ FrameOf(u)' = 0
                       \/ u = <<"table", r, t>> /\ FrameOf(u)' = f
                       \/ u \in Uses /\ FrameOf(u)' = FrameOf(u)
  BY <1>1, <1>2, UseKindsNext, UsesOf
<1>4. UnusedEmpty'
  BY <1>2 DEF UnusedEmpty
<1>5. QED
  BY <1>3, <1>4, NewUse DEF FramesInv

LEMMA LinkFrames ==
  ASSUME MemoryInv, LinkTable \/ CloneTable
  PROVE  FramesInv'
<1> TypeOK /\ ClonePlace
  BY DEF MemoryInv
<1>1. CASE LinkTable
  <2>1. PICK f \in Frames, t \in Tables :
          Allocate(f) /\ space' = PutTable(space, cr3, t, f)
    BY <1>1 DEF LinkTable, PutTable
  <2>2. cr3 \in roots /\ roots' = roots /\ call' = call
    BY <1>1 DEF LinkTable, TypeOK
  <2>3. QED
    BY <2>1, <2>2, TableFrames
<1>2. CASE CloneTable
  <2>1. PICK f \in Frames, t \in Tables :
          Allocate(f) /\ space' = PutTable(space, call.want, t, f)
    BY <1>2 DEF CloneTable, PutTable
  <2>2. call.want \in roots /\ roots' = roots /\ call' = call
    BY <1>2 DEF CloneTable, Cloning, ClonePlace
  <2>3. QED
    BY <2>1, <2>2, TableFrames
<1>3. QED
  BY <1>1, <1>2

LEMMA CopyFrames ==
  ASSUME MemoryInv, ClonePage
  PROVE  FramesInv'
<1> TypeOK /\ ClonePlace /\ UnusedEmpty
  BY DEF MemoryInv
<1>1. /\ call.want \in roots /\ roots' = roots /\ call'.leaf = call.leaf
      /\ roots \subseteq Frames /\ space \in [Frames -> SpaceType]
      /\ call.page \in 0..Limit /\ call.page # Limit
  BY DEF ClonePage, Cloning, ClonePlace, TypeOK, CallType
<1>2. CASE ~Mapped(call.page)
  <2>1. space' = space /\ alloc' = alloc
    BY <1>2 DEF ClonePage
  <2>2. QED
    BY <1>1, <2>1, KeptFrames DEF EntriesKept, AllocStep
<1>3. CASE Mapped(call.page)
  <2>1. PICK f \in Frames :
          Allocate(f) /\ space' = PutLeaf(space, call.want, call.page, f)
    BY <1>3 DEF ClonePage, CopyPage, PutLeaf
  <2>2. call.page \in Pages
    BY <1>1, ConstantFacts DEF Pages
  <2>3. /\ \A q \in Frames, o \in Pages :
             space'[q].leaf[o] = IF q = call.want /\ o = call.page THEN f
                                 ELSE space[q].leaf[o]
        /\ \A q \in Frames : space'[q].table = space[q].table
        /\ \A q \in Frames : q # call.want => space'[q] = space[q]
    BY <1>1, <2>1, <2>2, OneLeaf
  <2>4. \A u \in Uses' :
          \/ FrameOf(u)' = 0
          \/ u = <<"page", call.want, call.page>> /\ FrameOf(u)' = f
          \/ u \in Uses /\ FrameOf(u)' = FrameOf(u)
    BY <1>1, <2>3, UseKindsNext, UsesOf
  <2>5. UnusedEmpty'
    BY <1>1, <2>3 DEF UnusedEmpty
  <2>6. QED
    BY <2>1, <2>4, <2>5, NewUse DEF FramesInv
<1>4. QED
  BY <1>2, <1>3


(* The page a loop mapped has the frame it held.                           *)
MappedEntry(w) == PutEntry(space, cr3, Target, call.leaf, w)

LEMMA MapPageEntry ==
  ASSUME TypeOK, MapPage
  PROVE  /\ Target \in Pages /\ call.leaf # 0 /\ call'.leaf = 0
         /\ space[cr3].leaf[Target] = 0
         /\ \A q \in Frames, o \in Pages :
              space'[q].leaf[o] = IF q = cr3 /\ o = Target THEN call.leaf
                                  ELSE space[q].leaf[o]
         /\ \A q \in Frames : space'[q].table = space[q].table
         /\ \A q \in Frames : q # cr3 => space'[q] = space[q]
<1>1. /\ cr3 \in Frames /\ space \in [Frames -> SpaceType] /\ Target \in Pages
      /\ call.leaf # 0 /\ space[cr3].leaf[Target] = 0
  BY DEF MapPage, EntryFree, Mapped, Leaf, TypeOK
<1>2. call'.leaf = 0
  BY DEF MapPage, TypeOK, CallType
<1>3. PICK w : space' = PutEntry(space, cr3, Target, call.leaf, w)
  BY DEF MapPage, PutEntry
<1>4. QED
  BY <1>1, <1>2, <1>3, OneEntry

LEMMA MappedFrames ==
  ASSUME MemoryInv, MapPage
  PROVE  FramesInv'
<1> TypeOK /\ UnusedEmpty /\ FramesPassed /\ FramesOnce
  BY DEF MemoryInv
<1> DEFINE held == <<"held", 0, 0>>
           Was(u) == IF u = <<"page", cr3, Target>> THEN held ELSE u
<1>1. /\ alloc' = alloc /\ roots' = roots /\ cr3 \in roots /\ roots \subseteq Frames
  BY DEF MapPage, TypeOK
<1>2. ASSUME NEW u \in Uses', FrameOf(u)' # 0
      PROVE  u # held /\ Was(u) \in Uses /\ FrameOf(u)' = FrameOf(Was(u))
  BY <1>1, <1>2, MapPageEntry, UseKindsNext, UsesOf
<1>3. FramesPassed'
  <2> SUFFICES ASSUME NEW u \in Uses', FrameOf(u)' # 0, FrameOf(u)' # BootRoot
               PROVE  Passed(FrameOf(u))'
    BY DEF FramesPassed
  <2>1. FrameOf(u)' = FrameOf(Was(u)) /\ Passed(FrameOf(Was(u)))
    BY <1>2 DEF FramesPassed
  <2> HIDE DEF Was
  <2>2. QED
    BY <1>1, <2>1 DEF Passed, Whole
<1>4. FramesOnce'
  <2> SUFFICES ASSUME NEW u \in Uses', NEW v \in Uses', FrameOf(u)' # 0,
                      FrameOf(u)' = FrameOf(v)'
               PROVE  u = v
    BY DEF FramesOnce
  <2>1. Was(u) = Was(v)
    <3> HIDE DEF Was
    <3>1. QED
      BY <1>2 DEF FramesOnce
  <2>2. QED
    BY <1>2, <2>1
<1>5. UnusedEmpty'
  BY <1>1, MapPageEntry DEF UnusedEmpty
<1>6. QED
  BY <1>3, <1>4, <1>5 DEF FramesInv

(* A new root, under which nothing is mapped yet.                          *)
LEMMA RootFrames ==
  ASSUME MemoryInv, NEW root \in Frames, Allocate(root),
         roots' = roots \union {root}, call'.leaf = 0,
         \A q \in Frames : q # root => space'[q] = space[q],
         \A t \in Tables : space'[root].table[t] = 0,
         \A p \in Pages : space'[root].leaf[p] = 0
  PROVE  FramesInv'
<1> TypeOK /\ UnusedEmpty
  BY DEF MemoryInv
<1>1. roots \subseteq Frames
  BY DEF TypeOK
<1>2. \A u \in Uses' : \/ FrameOf(u)' = 0
                       \/ u = <<"root", root, 0>> /\ FrameOf(u)' = root
                       \/ u \in Uses /\ FrameOf(u)' = FrameOf(u)
  BY <1>1, UseKindsNext, UsesOf
<1>3. UnusedEmpty'
  BY DEF UnusedEmpty
<1>4. QED
  BY <1>2, <1>3, NewUse DEF FramesInv

LEMMA ForkSpace ==
  ASSUME TypeOK, NEW root \in Frames, space' = [space EXCEPT ![root] = EmptySpace]
  PROVE  /\ \A q \in Frames : q # root => space'[q] = space[q]
         /\ \A t \in Tables : space'[root].table[t] = 0
         /\ \A p \in Pages : space'[root].leaf[p] = 0
BY DEF TypeOK, EmptySpace

(* The reset of an empty address space changes nothing.                    *)
LEMMA ExecSpace ==
  ASSUME TypeOK, NEW root \in Frames, NEW image \in Images,
         space[root] = EmptySpace, space' = ResetNewSpace(root, image)
  PROVE  /\ \A q \in Frames : q # root => space'[q] = space[q]
         /\ \A t \in Tables : space'[root].table[t] = 0
         /\ \A p \in Pages : space'[root].leaf[p] = 0
<1> DEFINE L == [p \in Pages |-> IF p \in OldPages(image) THEN 0
                                 ELSE space[root].leaf[p]]
<1>1. space \in [Frames -> SpaceType]
  BY DEF TypeOK
<1>2. space' = PutLeaves(space, root, L)
  BY <1>1 DEF ResetNewSpace, Reset, PutLeaves
<1>3. \A p \in Pages : L[p] = 0
  BY DEF EmptySpace
<1> HIDE DEF L
<1>4. \A t \in Tables : space[root].table[t] = 0
  BY DEF EmptySpace
<1>5. QED
  BY <1>1, <1>2, <1>3, <1>4, AllLeaves

LEMMA SpawnFrames ==
  ASSUME MemoryInv, Fork \/ \E image \in Images : Execve(image)
  PROVE  FramesInv'
<1> TypeOK
  BY DEF MemoryInv
<1>1. CASE Fork
  <2>1. CASE NoFrame /\ UNCHANGED <<roots, space, call, saved>>
    BY <2>1, KeptFrames DEF EntriesKept, AllocStep
  <2>2. ASSUME NEW root \in Frames, Allocate(root), roots' = roots \union {root},
               space' = [space EXCEPT ![root] = EmptySpace],
               call' = Loop("clone", 0, Limit, FALSE, root, <<>>)
        PROVE  FramesInv'
    <3>1. call'.leaf = 0
      BY <2>2 DEF Loop
    <3>2. QED
      BY <2>2, <3>1, ForkSpace, RootFrames
  <2>3. QED
    BY <1>1, <2>1, <2>2 DEF Fork
<1>2. ASSUME NEW image \in Images, Execve(image) PROVE FramesInv'
  <2>1. PICK root \in Frames :
          /\ Allocate(root) /\ roots' = roots \union {root}
          /\ space' = ResetNewSpace(root, image)
    BY <1>2 DEF Execve
  <2>2. call'.leaf = 0
    BY <1>2 DEF Execve, Load, Loop
  <2>3. space[root] = EmptySpace
    BY <2>1, FreshRoot
  <2>4. /\ \A q \in Frames : q # root => space'[q] = space[q]
        /\ \A t \in Tables : space'[root].table[t] = 0
        /\ \A p \in Pages : space'[root].leaf[p] = 0
    BY <2>1, <2>3, ExecSpace
  <2>5. QED
    BY <2>1, <2>2, <2>4, RootFrames
<1>3. QED
  BY <1>1, <1>2

LEMMA FramesNext == MemoryInv /\ [Next]_vars => FramesInv'
BY CallFrames, UnmapFrames, QuietLoopFrames, TakeFrames, LinkFrames, CopyFrames,
   MappedFrames, SpawnFrames
   DEF Next, SystemCall, LoopTurn


(***************************************************************************)
(* The heap.                                                               *)
(***************************************************************************)

Heaps == HeapOfRunning /\ HeapOfParent
HeapKept(r) ==
  \A p \in HeapArea : space'[r].leaf[p] # 0 <=> space[r].leaf[p] # 0

LEMMA HeapPages == HeapArea \subseteq Pages /\ HeapArea \subseteq Nat
BY MemoryAssumption DEF HeapArea, Pages

LEMMA HeapsNext ==
  ASSUME ~halted' /\ cr3' \notin astray' =>
           IF call'.op = "brk"
           THEN \A p \in HeapArea : space'[cr3'].leaf[p] # 0 <=> p < call'.page
           ELSE \A p \in HeapArea : space'[cr3'].leaf[p] # 0 <=> p < PageUp(brk'),
         ~halted' /\ saved'.how # "none" /\ saved'.cr3 \notin astray' =>
           IF call'.op = "brk" /\ saved'.cr3 = cr3'
           THEN \A p \in HeapArea : p < PageUp(brk') <=> p < PageUp(saved'.brk)
           ELSE \A p \in HeapArea :
                  space'[saved'.cr3].leaf[p] # 0 <=> p < PageUp(saved'.brk)
  PROVE  Heaps'
BY DEF Heaps, HeapOfRunning, HeapOfParent, HeapIs, PageUp

(* A step that moves no break and leaves the heap's pages alone, unless it *)
(* says so in astray.                                                      *)
LEMMA QuietHeaps ==
  ASSUME MemoryInv, cr3' = cr3, brk' = brk, saved' = saved,
         halted' = halted \/ halted', astray \subseteq astray',
         \/ call.op # "brk" /\ call'.op # "brk"
         \/ call'.op = call.op /\ call'.page = call.page,
         cr3 \notin astray' => HeapKept(cr3),
         saved.how # "none" /\ saved.cr3 \notin astray' => HeapKept(saved.cr3)
  PROVE  Heaps'
<1> HeapOfRunning /\ HeapOfParent
  BY DEF MemoryInv
<1>1. ~halted' => ~halted
  OBVIOUS
<1>2. QED
  BY <1>1, HeapsNext DEF HeapKept, HeapOfRunning, HeapOfParent, HeapIs

LEMMA QuietCallHeaps ==
  ASSUME MemoryInv,
         \/ \E b \in Requests : BrkPanics(b)
         \/ \E hint \in Hints, len \in Lengths, fixed, write, valid \in BOOLEAN :
              Mmap(hint, len, fixed, write, valid)
         \/ \E p \in Hints, len \in Lengths : Munmap(p, len)
         \/ \E p \in Hints, len \in Lengths, write \in BOOLEAN :
              Mprotect(p, len, write)
         \/ \E p \in Pages : copy_user_out(p) \/ UserWrite(p)
  PROVE  Heaps'
<1> TypeOK /\ SavedRoot
  BY DEF MemoryInv
<1>1. call.op # "brk" /\ call'.op # "brk"
  BY DEF BrkPanics, Mmap, Munmap, Mprotect, copy_user_out, UserWrite, Running,
         Loop, Idle
<1>2. /\ cr3' = cr3 /\ brk' = brk /\ saved' = saved
      /\ (halted' = halted \/ halted') /\ astray \subseteq astray'
  BY DEF BrkPanics, Mmap, Munmap, Mprotect, copy_user_out, UserWrite, NewCall
<1>3. cr3 \in Frames /\ (saved.how # "none" => saved.cr3 \in Frames)
  BY DEF TypeOK, SavedRoot
<1>4. ASSUME NEW r \in Frames, r \notin astray', r = cr3 \/ r = saved.cr3
      PROVE  HeapKept(r)
  <2>1. CASE space' = space
    BY <2>1 DEF HeapKept
  <2>2. ASSUME NEW p \in Hints, NEW len \in Lengths, Munmap(p, len)
        PROVE  HeapKept(r)
    <3>1. r = cr3 => Prefix(p, len) \intersect HeapArea = {}
      BY <1>4, <2>2 DEF Munmap
    <3>2. \A q \in Pages :
            space'[r].leaf[q] = IF r = cr3 /\ q \in Prefix(p, len) THEN 0
                                ELSE space[r].leaf[q]
      BY <2>2, MunmapLeaves
    <3>3. QED
      BY <3>1, <3>2, HeapPages DEF HeapKept
  <2>3. ASSUME NEW p \in Hints, NEW len \in Lengths, NEW write \in BOOLEAN,
               Mprotect(p, len, write)
        PROVE  HeapKept(r)
    BY <2>3, MprotectWrite DEF HeapKept
  <2>4. QED
    BY <2>1, <2>2, <2>3 DEF BrkPanics, Mmap, copy_user_out, UserWrite
<1>5. QED
  BY <1>1, <1>2, <1>3, <1>4, QuietHeaps

(* A break that starts to move, or moves at once.                          *)
LEMMA BrkHeaps ==
  ASSUME MemoryInv, NEW b \in Requests, Brk(b)
  PROVE  Heaps'
<1> HeapOfRunning /\ HeapOfParent
  BY DEF MemoryInv
<1>1. /\ call.op = "none" /\ ~halted /\ cr3' = cr3 /\ saved' = saved
      /\ space' = space
  BY DEF Brk, Running
<1>2. CASE call' # call
  <2>1. /\ call' = Loop("brk", PageUp(brk), PageUp(b), TRUE, b, <<>>)
        /\ brk' = brk /\ astray' = astray
    BY <1>2 DEF Brk
  <2>2. call'.op = "brk" /\ call'.page = PageUp(brk)
    BY <2>1 DEF Loop
  <2>3. QED
    BY <1>1, <2>1, <2>2, HeapsNext DEF HeapOfRunning, HeapOfParent, HeapIs
<1>3. CASE call' = call
  <2>1. /\ brk' = b /\ astray \subseteq astray'
        /\ PageUp(b) = PageUp(brk) \/ cr3 \in astray'
    <3>1. CASE /\ call' = Loop("brk", PageUp(brk), PageUp(b), TRUE, b, <<>>)
      BY <1>1, <1>3, <3>1 DEF Loop
    <3>2. QED
      BY <1>1, <1>3, <3>1 DEF Brk
  <2>2. QED
    BY <1>1, <1>3, <2>1, HeapsNext DEF HeapOfRunning, HeapOfParent, HeapIs
<1>4. QED
  BY <1>2, <1>3

(* The parent goes on: its heap is what it was.                            *)
LEMMA ResumeHeaps ==
  ASSUME MemoryInv, saved.how # "none", ResumeParent, call.op # "brk",
         ~halted' => ~halted, astray \subseteq astray', space' = space
  PROVE  Heaps'
<1> HeapOfParent
  BY DEF MemoryInv
<1>1. /\ cr3' = saved.cr3 /\ brk' = saved.brk /\ saved'.how = "none"
      /\ call'.op = "none"
  BY DEF ResumeParent, NoParent, Idle, Loop
<1>2. QED
  BY <1>1, HeapsNext DEF HeapOfParent, HeapIs

LEMMA SpawnHeaps ==
  ASSUME MemoryInv, Fork \/ Vfork \/ Exit \/ ExecveFails
  PROVE  Heaps'
<1> TypeOK /\ HeapOfRunning /\ HeapOfParent
  BY DEF MemoryInv
<1>1. call.op = "none" /\ ~halted /\ halted' = halted /\ astray' = astray
  BY DEF Fork, Vfork, Exit, ExecveFails, EndChild, Running, NewCall
<1>2. CASE Exit \/ ExecveFails
  BY <1>1, <1>2, ResumeHeaps DEF Exit, ExecveFails, EndChild
<1>3. ASSUME cr3' = cr3, brk' = brk, saved'.cr3 = cr3, saved'.brk = brk,
             call'.op # "brk", HeapKept(cr3)
      PROVE  Heaps'
  BY <1>1, <1>3, HeapsNext DEF HeapOfRunning, HeapIs, HeapKept
<1>4. CASE Vfork
  BY <1>1, <1>3, <1>4 DEF Vfork, Suspended, HeapKept
<1>5. CASE Fork
  <2>1. CASE NoFrame /\ UNCHANGED <<roots, space, call, saved>>
    BY <1>1, <1>5, <2>1, QuietHeaps DEF Fork, HeapKept
  <2>2. ASSUME NEW root \in Frames, Allocate(root), saved' = Suspended("fork"),
               space' = [space EXCEPT ![root] = EmptySpace],
               call' = Loop("clone", 0, Limit, FALSE, root, <<>>)
        PROVE  Heaps'
    <3>1. root # cr3 /\ cr3 \in Frames
      BY <2>2, FreshRoot DEF TypeOK
    <3>2. HeapKept(cr3)
      BY <2>2, <3>1, ForkSpace DEF HeapKept
    <3>3. QED
      BY <1>3, <1>5, <2>2, <3>2 DEF Fork, Suspended, Loop
  <2>3. QED
    BY <1>5, <2>1, <2>2 DEF Fork
<1>6. QED
  BY <1>2, <1>4, <1>5

(* A new program starts with an empty heap.                                *)
LEMMA ExecHeaps ==
  ASSUME MemoryInv, NEW image \in Images, Execve(image)
  PROVE  Heaps'
<1> TypeOK /\ HeapOfParent /\ SavedRoot
  BY DEF MemoryInv
<1>1. PICK root \in Frames :
        /\ Allocate(root) /\ space' = ResetNewSpace(root, image) /\ cr3' = root
  BY DEF Execve
<1>2. root \notin roots /\ space[root] = EmptySpace
  BY <1>1, FreshRoot
<1>3. /\ \A q \in Frames : q # root => space'[q] = space[q]
      /\ \A p \in Pages : space'[root].leaf[p] = 0
  BY <1>1, <1>2, ExecSpace
<1>4. /\ call.op = "none" /\ ~halted /\ saved' = saved /\ astray' = astray
      /\ saved.cr3 \in roots /\ roots \subseteq Frames
      /\ PageUp(brk') = HeapBase /\ call'.op = "load"
  BY FirstBreak DEF Execve, Running, SavedRoot, TypeOK, Load, Loop
<1>5. \A p \in HeapArea : p \in Pages /\ ~(p < HeapBase)
  BY HeapPages, ConstantFacts DEF HeapArea
<1>6. \A p \in HeapArea : space'[cr3'].leaf[p] # 0 <=> p < PageUp(brk')
  BY <1>1, <1>3, <1>4, <1>5
<1>7. space'[saved.cr3] = space[saved.cr3]
  BY <1>2, <1>3, <1>4
<1>8. QED
  BY <1>4, <1>6, <1>7, HeapsNext DEF HeapOfParent, HeapIs


(* A frame is taken, a table linked: no page of a heap, but what a fixed   *)
(* mapping takes away there.                                               *)
LEMMA StrayPage ==
  ASSUME TypeOK, NEW r \in Frames, call.op # "brk", Target \in Pages,
         Strays(Target) \subseteq astray',
         r = cr3 => r \notin astray',
         \A p \in Pages : (r = cr3 /\ p = Target)
                          \/ space'[r].leaf[p] = space[r].leaf[p]
  PROVE  HeapKept(r)
<1>1. r = cr3 => Target \notin HeapArea
  BY DEF Strays
<1>2. QED
  BY <1>1, HeapPages DEF HeapKept

LEMMA TakeHeaps ==
  ASSUME MemoryInv, TakeLeaf
  PROVE  Heaps'
<1> TypeOK /\ SavedRoot
  BY DEF MemoryInv
<1>1. /\ cr3' = cr3 /\ brk' = brk /\ saved' = saved /\ halted' = halted
      /\ space' = Dropped /\ astray' = DropStrays /\ cr3 \in Frames
      /\ saved.how # "none" => saved.cr3 \in Frames
  BY DEF TakeLeaf, TypeOK, SavedRoot
<1>2. call'.op = call.op /\ call'.page = call.page
  <2>1. PICK f \in Frames : call' = [call EXCEPT !.leaf = f]
    BY DEF TakeLeaf
  <2>2. QED
    BY <2>1 DEF TypeOK, CallType
<1>3. astray \subseteq astray'
  BY <1>1 DEF DropStrays, Strays
<1>4. ASSUME NEW r \in Frames, r \notin astray' PROVE HeapKept(r)
  <2>1. CASE call.op = "fixed" /\ Mapped(Target)
    <3>1. Target \in Pages /\ Strays(Target) \subseteq astray'
      BY <1>1, <2>1 DEF DropStrays, Mapped, Leaf
    <3>2. \A p \in Pages : (r = cr3 /\ p = Target)
                           \/ space'[r].leaf[p] = space[r].leaf[p]
      BY <1>1, DroppedLeaves
    <3>3. QED
      BY <1>4, <2>1, <3>1, <3>2, StrayPage
  <2>2. CASE ~(call.op = "fixed" /\ Mapped(Target))
    BY <1>1, <2>2 DEF Dropped, HeapKept
  <2>3. QED
    BY <2>1, <2>2
<1>5. QED
  BY <1>1, <1>2, <1>3, <1>4, QuietHeaps

(* Entries change that are not pages.                                      *)
LEMMA TableHeaps ==
  ASSUME MemoryInv, LinkTable \/ CloneTable
  PROVE  Heaps'
<1> TypeOK /\ SavedRoot /\ ClonePlace
  BY DEF MemoryInv
<1>1. /\ cr3' = cr3 /\ brk' = brk /\ saved' = saved /\ halted' = halted
      /\ call' = call /\ astray' = astray /\ cr3 \in Frames
      /\ saved.how # "none" => saved.cr3 \in Frames
  BY DEF LinkTable, CloneTable, TypeOK, SavedRoot
<1>2. PICK r \in Frames, t \in Tables, f \in Frames :
        space' = PutTable(space, r, t, f)
  <2>1. CASE LinkTable
    <3>1. \E t \in Tables, f \in Frames : space' = PutTable(space, cr3, t, f)
      BY <2>1 DEF LinkTable, PutTable
    <3>2. QED
      BY <1>1, <3>1
  <2>2. CASE CloneTable
    <3>1. \E t \in Tables, f \in Frames : space' = PutTable(space, call.want, t, f)
      BY <2>2 DEF CloneTable, PutTable
    <3>2. call.want \in Frames
      BY <2>2 DEF CloneTable, Cloning, ClonePlace, TypeOK
    <3>3. QED
      BY <3>1, <3>2
  <2>3. QED
    BY <2>1, <2>2
<1>3. \A q \in Frames : space'[q].leaf = space[q].leaf
  BY <1>2, OneTable DEF TypeOK
<1>4. \A q \in Frames : HeapKept(q)
  BY <1>3 DEF HeapKept
<1>5. QED
  BY <1>1, <1>4, QuietHeaps

LEMMA MapHeaps ==
  ASSUME MemoryInv, MapPage
  PROVE  Heaps'
<1> TypeOK /\ SavedRoot /\ HeapOfRunning /\ HeapOfParent
  BY DEF MemoryInv
<1>1. /\ cr3' = cr3 /\ brk' = brk /\ saved' = saved /\ halted' = halted
      /\ astray' = Strays(Target) /\ cr3 \in Frames
      /\ saved.how # "none" => saved.cr3 \in Frames
      /\ call.page \in Nat
  BY DEF MapPage, TypeOK, SavedRoot, CallType
<1>2. call'.op = call.op /\ call'.page = call.page + 1
  <2>1. call' = [call EXCEPT !.page = @ + 1, !.leaf = 0]
    BY DEF MapPage
  <2>2. QED
    BY <2>1 DEF TypeOK, CallType
<1>3. /\ Target \in Pages /\ call.leaf # 0
      /\ \A q \in Frames, o \in Pages :
           space'[q].leaf[o] = IF q = cr3 /\ o = Target THEN call.leaf
                               ELSE space[q].leaf[o]
  BY MapPageEntry
<1>4. CASE call.op # "brk"
  <2>1. astray \subseteq astray'
    BY <1>1 DEF Strays
  <2>2. ASSUME NEW r \in Frames, r \notin astray' PROVE HeapKept(r)
    <3>1. \A p \in Pages : (r = cr3 /\ p = Target)
                           \/ space'[r].leaf[p] = space[r].leaf[p]
      BY <1>3
    <3>2. QED
      BY <1>1, <1>3, <1>4, <2>2, <3>1, StrayPage
  <2>3. QED
    BY <1>1, <1>2, <1>4, <2>1, <2>2, QuietHeaps
<1>5. CASE call.op = "brk"
  <2>1. Target = call.page /\ astray' = astray
    BY <1>1, <1>5 DEF Target, Strays
  <2>2. \A p \in HeapArea : p \in Pages
                            /\ (p < call.page + 1 <=> p < call.page \/ p = call.page)
    <3> SUFFICES ASSUME NEW p \in HeapArea, NEW k \in Nat
                 PROVE  p \in Pages /\ (p < k + 1 <=> p < k \/ p = k)
      BY <1>1
    <3>1. p \in Nat /\ p \in Pages
      BY HeapPages
    <3>2. QED
      BY <3>1
  <2>3. ASSUME ~halted, cr3 \notin astray
        PROVE  \A p \in HeapArea : space'[cr3].leaf[p] # 0 <=> p < call'.page
    <3>1. \A p \in HeapArea : space[cr3].leaf[p] # 0 <=> p < call.page
      BY <1>5, <2>3 DEF HeapOfRunning
    <3>2. QED
      BY <1>1, <1>2, <1>3, <2>1, <2>2, <3>1
  <2>4. ASSUME ~halted, saved.how # "none", saved.cr3 \notin astray
        PROVE  IF saved.cr3 = cr3
               THEN \A p \in HeapArea : p < PageUp(brk) <=> p < PageUp(saved.brk)
               ELSE \A p \in HeapArea :
                      space'[saved.cr3].leaf[p] # 0 <=> p < PageUp(saved.brk)
    <3>1. CASE saved.cr3 = cr3
      BY <1>5, <2>4, <3>1 DEF HeapOfParent
    <3>2. CASE saved.cr3 # cr3
      <4>1. \A p \in HeapArea :
              space[saved.cr3].leaf[p] # 0 <=> p < PageUp(saved.brk)
        BY <1>5, <2>4, <3>2 DEF HeapOfParent, HeapIs
      <4>2. \A p \in HeapArea :
              space'[saved.cr3].leaf[p] = space[saved.cr3].leaf[p]
        BY <1>1, <1>3, <2>4, <3>2, HeapPages
      <4>3. QED
        BY <3>2, <4>1, <4>2
    <3>3. QED
      BY <3>1, <3>2
  <2>5. QED
    BY <1>1, <1>2, <1>5, <2>1, <2>3, <2>4, HeapsNext
<1>6. QED
  BY <1>4, <1>5

(* A loop that gives up.  A break that has not moved any page yet is where *)
(* it was.                                                                 *)
LEMMA FailHeaps ==
  ASSUME MemoryInv, LeafFails \/ MapFails
  PROVE  Heaps'
<1> TypeOK /\ SavedRoot /\ HeapOfRunning /\ HeapOfParent
  BY DEF MemoryInv
<1>1. /\ GiveUp /\ cr3 \in Frames
      /\ saved.how # "none" => saved.cr3 \in Frames
      /\ space' = space \/ space' = Dropped
      /\ LeavesPages => cr3 \in astray'
  BY DEF LeafFails, MapFails, LeavesPages, TypeOK, SavedRoot
<1>2. astray \subseteq astray'
  BY DEF LeafFails, MapFails, DropStrays, Strays
<1>3. CASE call.op = "load"
  <2>1. space' = space
    BY <1>1, <1>3 DEF Dropped
  <2>2. CASE saved.how # "none"
    BY <1>1, <1>2, <1>3, <2>1, <2>2, ResumeHeaps DEF GiveUp
  <2>3. CASE saved.how = "none"
    <3>1. halted'
      BY <1>1, <1>3, <2>3 DEF GiveUp
    <3>2. QED
      BY <3>1, HeapsNext
  <2>4. QED
    BY <2>2, <2>3
<1>4. CASE call.op = "brk"
  <2>1. /\ space' = space /\ cr3' = cr3 /\ brk' = brk /\ saved' = saved
        /\ halted' = halted /\ call'.op = "none"
    BY <1>1, <1>4 DEF Dropped, GiveUp, Idle, Loop
  <2>2. cr3 \notin astray' => call.page = PageUp(brk)
    BY <1>1, <1>4 DEF LeavesPages
  <2>3. QED
    BY <1>2, <1>4, <2>1, <2>2, HeapsNext DEF HeapOfRunning, HeapOfParent, HeapIs
<1>5. CASE call.op \notin {"load", "brk"}
  <2>1. /\ cr3' = cr3 /\ brk' = brk /\ saved' = saved /\ halted' = halted
        /\ call'.op = "none"
    BY <1>1, <1>5 DEF GiveUp, Idle, Loop
  <2>2. ASSUME NEW r \in Frames, r \notin astray' PROVE HeapKept(r)
    <3>1. CASE space' = space
      BY <3>1 DEF HeapKept
    <3>2. CASE space' # space
      <4>1. /\ space' = Dropped /\ call.op = "fixed" /\ Mapped(Target)
            /\ astray' = DropStrays
        BY <1>5, <3>2 DEF LeafFails, MapFails, Dropped, LeavesPages
      <4>2. Target \in Pages /\ Strays(Target) \subseteq astray'
        BY <4>1 DEF DropStrays, Mapped, Leaf
      <4>3. \A p \in Pages : (r = cr3 /\ p = Target)
                             \/ space'[r].leaf[p] = space[r].leaf[p]
        BY <4>1, DroppedLeaves
      <4>4. QED
        BY <1>5, <2>2, <4>2, <4>3, StrayPage
    <3>3. QED
      BY <3>1, <3>2
  <2>3. QED
    BY <1>1, <1>2, <1>5, <2>1, <2>2, QuietHeaps
<1>6. QED
  BY <1>3, <1>4, <1>5

(* The break has arrived.                                                  *)
LEMMA DoneHeaps ==
  ASSUME MemoryInv, MapDone
  PROVE  Heaps'
<1> TypeOK /\ SavedRoot /\ BreakPlace /\ HeapOfRunning /\ HeapOfParent
  BY DEF MemoryInv
<1>1. /\ cr3' = cr3 /\ saved' = saved /\ halted' = halted /\ space' = space
      /\ call'.op = "none" /\ astray \subseteq astray'
  BY DEF MapDone, Idle, Loop
<1>2. CASE call.op # "brk"
  <2>1. brk' = brk
    BY <1>2 DEF MapDone
  <2>2. QED
    BY <1>1, <1>2, <2>1, QuietHeaps DEF HeapKept
<1>3. CASE call.op = "brk"
  <2>1. /\ brk' = call.want /\ call.page = PageUp(brk')
        /\ saved.how # "none" /\ saved.cr3 = cr3 => cr3 \in astray'
    BY <1>3 DEF MapDone, BreakPlace
  <2>2. QED
    BY <1>1, <1>3, <2>1, HeapsNext DEF HeapOfRunning, HeapOfParent, HeapIs
<1>4. QED
  BY <1>2, <1>3

LEMMA SearchHeaps ==
  ASSUME MemoryInv, SearchRoom
  PROVE  Heaps'
<1> TypeOK
  BY DEF MemoryInv
<1>1. call'.op # "brk"
  <2>1. CASE call' = [call EXCEPT !.op = "mmap"]
    BY <2>1 DEF TypeOK, CallType
  <2>2. CASE call' = [call EXCEPT !.page = next_mmap,
                                 !.end = next_mmap + (call.end - call.page)]
    BY <2>2 DEF SearchRoom, TypeOK, CallType
  <2>3. QED
    BY <2>1, <2>2 DEF SearchRoom, Idle, Loop
<1>2. QED
  BY <1>1, QuietHeaps DEF SearchRoom, HeapKept


(* The copy of an address space: not one that runs or is suspended.        *)
LEMMA CloneHeaps ==
  ASSUME MemoryInv, ClonePage \/ CloneDone \/ CloneFails
  PROVE  Heaps'
<1> TypeOK /\ ClonePlace /\ HeapOfRunning /\ HeapOfParent
  BY DEF MemoryInv
<1>1. /\ call.op = "clone" /\ ~halted /\ halted' = halted /\ brk' = brk
      /\ saved.how = "fork" /\ saved.cr3 = cr3 /\ saved.brk = brk
      /\ call.want \in Frames /\ cr3 \in Frames /\ call.want # cr3
      /\ call.end = Limit /\ call.page \in 0..Limit
      /\ space \in [Frames -> SpaceType]
  BY DEF ClonePage, CloneDone, CloneFails, Cloning, ClonePlace, TypeOK
<1>2. CASE ClonePage
  <2>1. /\ cr3' = cr3 /\ saved' = saved /\ astray' = astray
        /\ call' = [call EXCEPT !.page = @ + 1] /\ call.page # call.end
    BY <1>2 DEF ClonePage
  <2>2. call'.op = "clone"
    BY <1>1, <2>1 DEF TypeOK, CallType
  <2>3. HeapKept(cr3)
    <3>1. CASE space' = space
      BY <3>1 DEF HeapKept
    <3>2. CASE \E f \in Frames : CopyPage(f)
      <4>1. PICK f \in Frames : space' = PutLeaf(space, call.want, call.page, f)
        BY <3>2 DEF CopyPage, PutLeaf
      <4>2. call.page \in Pages
        BY <1>1, <2>1, ConstantFacts DEF Pages
      <4>3. space'[cr3] = space[cr3]
        BY <1>1, <4>1, <4>2, OneLeaf
      <4>4. QED
        BY <4>3 DEF HeapKept
    <3>3. QED
      BY <1>2, <3>1, <3>2 DEF ClonePage
  <2>4. QED
    BY <1>1, <2>1, <2>2, <2>3, QuietHeaps
<1>3. CASE CloneDone
  <2>1. /\ cr3' = call.want /\ saved' = saved /\ call'.op = "none"
        /\ call.page = Limit /\ astray \subseteq astray'
        /\ call.want \notin astray' => cr3 \notin astray
        /\ space' = PutWrite(space, call.want, space[cr3].write)
    BY <1>1, <1>3 DEF CloneDone, Idle, Loop, PutWrite
  <2>2. \A r \in Frames : space'[r].leaf = space[r].leaf
    BY <1>1, <2>1, OnlyWrite
  <2>3. \A p \in HeapArea :
          space[call.want].leaf[p] # 0 <=> space[cr3].leaf[p] # 0
    <3>1. \A p \in HeapArea : p \in Pages /\ p < Limit
      BY HeapPages, ConstantFacts DEF Pages
    <3>2. QED
      BY <1>1, <2>1, <3>1 DEF ClonePlace
  <2>4. QED
    BY <1>1, <2>1, <2>2, <2>3, HeapsNext DEF HeapOfRunning, HeapOfParent, HeapIs
<1>4. CASE CloneFails
  <2>1. /\ cr3' = cr3 /\ saved'.how = "none" /\ call'.op = "none"
        /\ astray' = astray /\ space' = space
    BY <1>4 DEF CloneFails, NoParent, Idle, Loop
  <2>2. QED
    BY <1>1, <2>1, HeapsNext DEF HeapOfRunning, HeapIs
<1>5. QED
  BY <1>2, <1>3, <1>4

LEMMA HeapsUnchanged == MemoryInv /\ UNCHANGED vars => Heaps'
BY QuietHeaps DEF vars, HeapKept

LEMMA HeapsOfNext == MemoryInv /\ [Next]_vars => Heaps'
BY QuietCallHeaps, BrkHeaps, SpawnHeaps, ExecHeaps, TakeHeaps, TableHeaps, MapHeaps,
   FailHeaps, DoneHeaps, SearchHeaps, CloneHeaps, HeapsUnchanged
   DEF Next, SystemCall, LoopTurn

(***************************************************************************)
(* The invariant.                                                          *)
(***************************************************************************)

LEMMA InitInv == Init => MemoryInv
<1> SUFFICES ASSUME Init PROVE MemoryInv
  OBVIOUS
<1>1. PICK image \in Images : call = Load(image)
  BY DEF Init
<1>2. /\ call \in CallType /\ call.op = "load" /\ call.leaf = 0
      /\ call.image = image /\ call.end = Len(image) + 1 /\ call.page = 1
      /\ Len(image) \in Nat
  BY <1>1, CallTypes DEF Load, Loop
<1>3. /\ \A r \in roots, t \in Tables : space[r].table[t] = 0
      /\ \A r \in Frames, p \in Pages : space[r].leaf[p] = 0
  BY FrameFacts DEF Init, EmptySpace
<1>4. TypeOK
  <2>1. alloc \in [region : 1..(Len(Regions) + 1), next : Nat]
    BY RegionFacts DEF Init
  <2>2. ram \in [Frames -> Contents] /\ roots \subseteq Frames /\ cr3 \in roots
    BY FrameFacts DEF Init, Contents
  <2>3. space \in [Frames -> SpaceType]
    BY FrameFacts DEF Init
  <2>4. brk \in 0..(WordSize - 1) /\ next_mmap \in Nat
    BY FirstBreak, ConstantFacts DEF Init
  <2>5. saved \in [how : {"none", "fork", "vfork"}, cr3 : roots \union {0},
                   brk : 0..(WordSize - 1), next : Nat]
    BY NoParentType DEF Init
  <2>6. halted \in BOOLEAN /\ astray \subseteq roots
    BY DEF Init
  <2>7. calls \in 0..MaxCalls
    BY ConstantFacts DEF Init
  <2>8. QED
    BY <1>2, <2>1, <2>2, <2>3, <2>4, <2>5, <2>6, <2>7 DEF TypeOK
<1>5. \A u \in Uses : FrameOf(u) = 0 \/ FrameOf(u) = BootRoot
  BY <1>2, <1>3, <1>4, UseKinds DEF Init, TypeOK
<1>6. FramesPassed
  BY <1>5 DEF FramesPassed
<1>7. FramesOnce
  <2>1. \A u \in Uses : FrameOf(u) = 0 \/ u = <<"root", BootRoot, 0>>
    BY <1>2, <1>3, <1>4, UseKinds DEF Init, TypeOK
  <2>2. QED
    BY <2>1 DEF FramesOnce
<1>8. UnusedEmpty
  BY DEF Init, UnusedEmpty
<1>9. SavedRoot
  BY DEF Init, SavedRoot, NoParent
<1>10. SearchPlace /\ LoadPlace /\ BreakPlace /\ ClonePlace
  BY <1>2 DEF SearchPlace, LoadPlace, BreakPlace, ClonePlace
<1>11. HeapOfRunning
  <2>1. PageUp(brk) = HeapBase /\ cr3 \in Frames
    BY FirstBreak, FrameFacts DEF Init
  <2>2. \A p \in HeapArea : p \in Pages /\ ~(p < HeapBase)
    BY HeapPages, ConstantFacts DEF HeapArea
  <2>3. QED
    BY <1>2, <1>3, <2>1, <2>2 DEF HeapOfRunning, HeapIs
<1>12. HeapOfParent
  BY DEF Init, HeapOfParent, NoParent
<1>13. QED
  BY <1>4, <1>6, <1>7, <1>8, <1>9, <1>10, <1>11, <1>12 DEF MemoryInv

LEMMA NextInv == MemoryInv /\ [Next]_vars => MemoryInv'
BY TypeNext, FramesNext, SavedNext, PlacesNext, HeapsOfNext
   DEF MemoryInv, FramesInv, Places, Heaps

LEMMA Invariance == Spec => []MemoryInv
BY InitInv, NextInv, PTL DEF Spec

(* Every variable keeps to its values: the frames handed out are frames,   *)
(* breaks do not leave the address space, a parent that waits has page     *)
(* tables.                                                                 *)
THEOREM TypeCorrect == Spec => []TypeOK
<1>1. MemoryInv => TypeOK
  BY DEF MemoryInv
<1>2. QED
  BY <1>1, Invariance, PTL

(* FrameAllocator::allocate, map_4k and clone_user_address_space: no frame *)
(* serves two purposes in any address space, and each is whole in usable   *)
(* memory, whatever the memory map and wherever a call runs out.           *)
THEOREM FramesAreOwned == Spec => []FramesOwned
<1>1. MemoryInv => FramesOwned
  <2> SUFFICES ASSUME MemoryInv, NEW u \in Uses, FrameOf(u) # 0
               PROVE  /\ FrameOf(u) # BootRoot => Usable(FrameOf(u))
                      /\ \A v \in Uses : FrameOf(u) = FrameOf(v) => u = v
    BY DEF FramesOwned
  <2>1. FrameOf(u) # BootRoot => Usable(FrameOf(u))
    BY DEF MemoryInv, FramesPassed, Passed, Whole, Usable
  <2>2. \A v \in Uses : FrameOf(u) = FrameOf(v) => u = v
    BY DEF MemoryInv, FramesOnce
  <2>3. QED
    BY <2>1, <2>2
<1>2. QED
  BY <1>1, Invariance, PTL

(* brk, fork, vfork, execve and exit: the heap of a program is mapped      *)
(* exactly below its break, and that of its parent when it is resumed.     *)
THEOREM HeapIsExact == Spec => []HeapExact
<1>1. MemoryInv => HeapExact
  BY DEF MemoryInv, HeapOfRunning, HeapOfParent, HeapExact
<1>2. QED
  BY <1>1, Invariance, PTL


(***************************************************************************)
(* What steps never do.                                                    *)
(***************************************************************************)

(* Two pages, or a page and a frame held, are not the same frame.          *)
LEMMA PagesApart ==
  ASSUME MemoryInv, NEW r \in roots, NEW p \in Pages, space[r].leaf[p] # 0
  PROVE  /\ space[r].leaf[p] # call.leaf
         /\ \A q \in roots, o \in Pages :
              q # r => space[q].leaf[o] # space[r].leaf[p]
<1>1. FramesOnce
  BY DEF MemoryInv
<1> DEFINE u == <<"page", r, p>>
<1>2. u \in Uses /\ FrameOf(u) = space[r].leaf[p]
  BY UsesOf
<1>3. \A v \in Uses : v # u => FrameOf(v) # FrameOf(u)
  BY <1>1, <1>2 DEF FramesOnce
<1>4. <<"held", 0, 0>> # u /\ \A q, o : q # r => <<"page", q, o>> # u
  OBVIOUS
<1> HIDE DEF u
<1>5. space[r].leaf[p] # call.leaf
  BY <1>2, <1>3, <1>4, UsesOf
<1>6. ASSUME NEW q \in roots, NEW o \in Pages, q # r
      PROVE  space[q].leaf[o] # space[r].leaf[p]
  <2> DEFINE v == <<"page", q, o>>
  <2>1. v \in Uses /\ FrameOf(v) = space[q].leaf[o]
    BY UsesOf
  <2>2. v # u
    BY <1>4, <1>6
  <2> HIDE DEF v
  <2>3. QED
    BY <1>2, <1>3, <2>1, <2>2
<1>7. QED
  BY <1>5, <1>6

(* Only the address spaces of the program that runs and of the copy that   *)
(* fork makes change, besides one that is new.                             *)
LEMMA OtherSpaces ==
  ASSUME MemoryInv, [Next]_vars, NEW r \in roots, r # cr3,
         call.op = "clone" => r # call.want
  PROVE  space'[r] = space[r]
<1> TypeOK /\ ClonePlace
  BY DEF MemoryInv
<1>1. cr3 \in Frames /\ r \in Frames /\ space \in [Frames -> SpaceType]
  BY DEF TypeOK
<1>2. CASE space' = space
  BY <1>2
<1>3. CASE space' = Dropped
  BY <1>1, <1>3, DroppedLeaves
<1>4. ASSUME NEW p \in Hints, NEW len \in Lengths, Munmap(p, len)
      PROVE  space'[r] = space[r]
  BY <1>1, <1>4, MunmapLeaves
<1>5. ASSUME NEW p \in Hints, NEW len \in Lengths, NEW write \in BOOLEAN,
             Mprotect(p, len, write)
      PROVE  space'[r] = space[r]
  BY <1>1, <1>5, MprotectWrite
<1>6. CASE Fork
  <2>1. PICK root \in Frames :
          \/ Allocate(root) /\ space' = [space EXCEPT ![root] = EmptySpace]
          \/ space' = space
    BY <1>6, FrameFacts DEF Fork
  <2>2. QED
    BY <1>1, <2>1, FreshRoot, ForkSpace
<1>7. ASSUME NEW image \in Images, Execve(image)
      PROVE  space'[r] = space[r]
  BY <1>1, <1>7, FreshRoot, ExecSpace DEF Execve
<1>8. CASE LinkTable
  <2>1. PICK t \in Tables, f \in Frames : space' = PutTable(space, cr3, t, f)
    BY <1>8 DEF LinkTable, PutTable
  <2>2. QED
    BY <1>1, <2>1, OneTable
<1>9. CASE MapPage
  BY <1>1, <1>9, MapPageEntry
<1>10. CASE CloneTable
  <2>1. PICK t \in Tables, f \in Frames :
          space' = PutTable(space, call.want, t, f)
    BY <1>10 DEF CloneTable, PutTable
  <2>2. call.want \in Frames /\ call.want # r
    BY <1>10 DEF CloneTable, Cloning, ClonePlace, TypeOK
  <2>3. QED
    BY <1>1, <2>1, <2>2, OneTable
<1>11. CASE ClonePage
  <2>1. /\ call.want \in Frames /\ call.want # r /\ call.page \in 0..Limit
        /\ call.page # Limit
    BY <1>11 DEF ClonePage, Cloning, ClonePlace, TypeOK
  <2>2. call.page \in Pages
    BY <2>1, ConstantFacts DEF Pages
  <2>3. CASE \E f \in Frames : CopyPage(f)
    <3>1. PICK f \in Frames : space' = PutLeaf(space, call.want, call.page, f)
      BY <2>3 DEF CopyPage, PutLeaf
    <3>2. QED
      BY <1>1, <2>1, <2>2, <3>1, OneLeaf
  <2>4. QED
    BY <1>2, <1>11, <2>3 DEF ClonePage
<1>12. CASE CloneDone
  <2>1. space' = PutWrite(space, call.want, space[cr3].write)
    BY <1>12 DEF CloneDone, PutWrite
  <2>2. call.want \in Frames /\ call.want # r
    BY <1>12 DEF CloneDone, Cloning, ClonePlace, TypeOK
  <2>3. QED
    BY <1>1, <2>1, <2>2, OnlyWrite
<1>13. QED
  BY <1>2, <1>3, <1>4, <1>5, <1>6, <1>7, <1>8, <1>9, <1>10, <1>11, <1>12
     DEF Next, SystemCall, LoopTurn, vars, Brk, BrkPanics, Mmap, copy_user_out,
         Vfork, ExecveFails, Exit, EndChild, TakeLeaf, LeafFails, MapFails, MapDone,
         SearchRoom, CloneFails, UserWrite

(* What a page contains changes in the program that runs, or where a frame *)
(* is cleared or copied to that no page has yet.                           *)
LEMMA OtherContents ==
  ASSUME MemoryInv, [Next]_vars, NEW r \in roots, r # cr3, call.op # "clone",
         NEW p \in Pages, space[r].leaf[p] # 0
  PROVE  ram'[space[r].leaf[p]] = ram[space[r].leaf[p]]
<1> TypeOK
  BY DEF MemoryInv
<1>1. /\ space[r].leaf[p] \in Frames /\ ram \in [Frames -> Contents]
      /\ cr3 \in roots
  BY DEF TypeOK, SpaceType
<1> PICK f \in Frames : f = space[r].leaf[p]
  BY <1>1
<1>2. f # call.leaf /\ \A o \in Pages : space[cr3].leaf[o] # f
  BY <1>1, PagesApart
<1>3. ASSUME MapPage PROVE ram'[f] = ram[f]
  BY <1>1, <1>2, <1>3 DEF MapPage
<1>4. ASSUME NEW o \in Pages, UserWrite(o) PROVE ram'[f] = ram[f]
  BY <1>1, <1>2, <1>4 DEF UserWrite, Leaf
<1>5. ram' = ram => ram'[f] = ram[f]
  OBVIOUS
<1>6. ram'[f] = ram[f]
  BY <1>3, <1>4, <1>5
     DEF Next, SystemCall, LoopTurn, vars, Brk, BrkPanics, Mmap, Munmap, Mprotect,
         copy_user_out, Fork, Vfork, Execve, ExecveFails, Exit, EndChild, TakeLeaf,
         LeafFails, LinkTable, MapFails, MapDone, SearchRoom, CloneTable, ClonePage,
         CloneDone, CloneFails, Cloning
<1>7. QED
  BY <1>6

LEMMA Untouched ==
  ASSUME MemoryInv, [Next]_vars, saved.how # "none", cr3' # saved.cr3
  PROVE  /\ space'[saved.cr3] = space[saved.cr3]
         /\ \A p \in Pages :
              LET f == space[saved.cr3].leaf[p]
              IN f # 0 => ram'[f] = ram[f]
<1> TypeOK /\ SavedRoot /\ ClonePlace
  BY DEF MemoryInv
<1>1. saved.cr3 \in roots /\ roots \subseteq Frames
  BY DEF SavedRoot, TypeOK
<1>2. CASE CloneDone
  <2>1. /\ call.want \in Frames /\ call.want # saved.cr3 /\ ram' = ram
        /\ space' = PutWrite(space, call.want, space[cr3].write)
    BY <1>2 DEF CloneDone, Cloning, ClonePlace, TypeOK, PutWrite
  <2>2. QED
    BY <1>1, <2>1, OnlyWrite DEF TypeOK
<1>3. CASE \E image \in Images : Execve(image)
  BY <1>1, <1>3, FreshRoot, ExecSpace DEF Execve
<1>4. CASE cr3' = cr3
  <2>1. saved.cr3 # cr3 /\ call.op # "clone"
    BY <1>4 DEF ClonePlace
  <2>2. QED
    BY <1>1, <2>1, OtherSpaces, OtherContents
<1>5. cr3' = cr3 \/ CloneDone \/ \E image \in Images : Execve(image)
  BY DEF Next, SystemCall, LoopTurn, vars, Brk, BrkPanics, Mmap, Munmap, Mprotect,
         copy_user_out, Fork, Vfork, ExecveFails, Exit, EndChild, TakeLeaf, LeafFails,
         LinkTable, MapPage, MapFails, MapDone, SearchRoom, CloneTable, ClonePage,
         CloneFails, UserWrite, GiveUp, ResumeParent
<1>6. QED
  BY <1>2, <1>3, <1>4, <1>5

(* do_fork, execve: while its child runs in other page tables, a suspended *)
(* parent's entries and the contents of its pages stay what they were.     *)
THEOREM ParentStaysUntouched == Spec => SuspendedUntouched
<1>1. MemoryInv /\ [Next]_vars =>
        [saved.how # "none" /\ cr3' # saved.cr3 =>
           /\ space'[saved.cr3] = space[saved.cr3]
           /\ \A p \in Pages :
                LET f == space[saved.cr3].leaf[p]
                IN f # 0 => ram'[f] = ram[f]]_vars
  BY Untouched
<1>2. QED
  BY <1>1, Invariance, PTL DEF Spec, SuspendedUntouched

LEMMA Kept ==
  ASSUME MemoryInv, [Next]_vars,
         call.op \in {"search", "mmap", "brk", "load", "clone"},
         NEW r \in roots, NEW p \in Pages, space[r].leaf[p] # 0
  PROVE  space'[r].leaf[p] = space[r].leaf[p]
<1> TypeOK /\ ClonePlace
  BY DEF MemoryInv
<1>1. cr3 \in Frames /\ r \in Frames /\ space \in [Frames -> SpaceType]
  BY DEF TypeOK
<1>2. CASE space' = space \/ space' = Dropped
  BY <1>1, <1>2, DroppedLeaves
<1>3. CASE MapPage
  BY <1>1, <1>3, MapPageEntry
<1>4. CASE LinkTable \/ CloneTable
  <2>1. PICK q \in Frames, t \in Tables, f \in Frames :
          space' = PutTable(space, q, t, f)
    <3>1. CASE LinkTable
      <4>1. \E t \in Tables, f \in Frames : space' = PutTable(space, cr3, t, f)
        BY <3>1 DEF LinkTable, PutTable
      <4>2. QED
        BY <1>1, <4>1
    <3>2. CASE CloneTable
      <4>1. \E t \in Tables, f \in Frames :
              space' = PutTable(space, call.want, t, f)
        BY <3>2 DEF CloneTable, PutTable
      <4>2. call.want \in Frames
        BY <3>2 DEF CloneTable, Cloning, ClonePlace, TypeOK
      <4>3. QED
        BY <4>1, <4>2
    <3>3. QED
      BY <1>4, <3>1, <3>2
  <2>2. QED
    BY <1>1, <2>1, OneTable
<1>5. CASE ClonePage
  <2>1. /\ call.want \in Frames /\ call.page \in 0..Limit /\ call.page # Limit
    BY <1>5 DEF ClonePage, Cloning, ClonePlace, TypeOK
  <2>2. call.page \in Pages /\ ~(call.page < call.page)
    BY <2>1, ConstantFacts DEF Pages
  <2>3. space[call.want].leaf[call.page] = 0
    BY <1>5, <2>2 DEF ClonePage, Cloning, ClonePlace
  <2>4. CASE \E f \in Frames : CopyPage(f)
    <3>1. PICK f \in Frames : space' = PutLeaf(space, call.want, call.page, f)
      BY <2>4 DEF CopyPage, PutLeaf
    <3>2. QED
      BY <1>1, <2>1, <2>2, <2>3, <3>1, OneLeaf
  <2>5. QED
    BY <1>2, <1>5, <2>4 DEF ClonePage
<1>6. CASE CloneDone
  <2>1. /\ call.want \in Frames
        /\ space' = PutWrite(space, call.want, space[cr3].write)
    BY <1>6 DEF CloneDone, Cloning, ClonePlace, TypeOK, PutWrite
  <2>2. QED
    BY <1>1, <2>1, OnlyWrite
<1>7. QED
  BY <1>2, <1>3, <1>4, <1>5, <1>6
     DEF Next, SystemCall, LoopTurn, vars, Brk, BrkPanics, Mmap, Munmap, Mprotect,
         copy_user_out, Fork, Vfork, Execve, ExecveFails, Exit, Running, TakeLeaf,
         LeafFails, MapFails, MapDone, SearchRoom, CloneFails, UserWrite

(* map_with_runtime_allocator, the growth of the break, load_at and the    *)
(* copy of fork never take a mapped page away nor put another in its       *)
(* place.                                                                  *)
THEOREM MappedPagesStay == Spec => KeepsMapped
<1>1. MemoryInv /\ [Next]_vars =>
        [call.op \in {"search", "mmap", "brk", "load", "clone"} =>
           \A r \in roots, p \in Pages :
             space[r].leaf[p] # 0 => space'[r].leaf[p] = space[r].leaf[p]]_vars
  BY Kept
<1>2. QED
  BY <1>1, Invariance, PTL DEF Spec, KeepsMapped
=============================================================================
