------------------------- MODULE DescriptorsProofs -------------------------
(***************************************************************************)
(* Proofs about Descriptors, for tables, buffers and socket pairs of any   *)
(* size: the invariants of the runs are inductive together, and bytes are  *)
(* never discarded under a program's hands except where the ghost variable *)
(* stolen records that a pipe() call took the buffer.                      *)
(***************************************************************************)
EXTENDS Descriptors, TLAPS

IInv ==
  /\ TypeOK
  /\ PipesOwnBuffers
  /\ PairsDisjoint
  /\ SocketsConnected

IsPipeEnd(d) == d.kind \in {"read", "write"}

(* What a descriptor of each kind is made of.                              *)
LEMMA DescriptorParts ==
  ASSUME NEW d \in Descriptors
  PROVE  /\ IsPipeEnd(d) => d.buffer \in Buffers
         /\ d.kind = "socket" => d.pair \in Pairs /\ d.side \in {0, 1}
BY DEF Descriptors, IsPipeEnd

LEMMA PairParts ==
  ASSUME NEW q \in PairStates, q.used
  PROVE  q.a_to_b \in Buffers /\ q.b_to_a \in Buffers
<1>1. NoPair.used = FALSE
  BY DEF NoPair
<1>2. q # NoPair
  BY <1>1
<1>3. QED
  BY <1>2 DEF PairStates

(* Setting the close-on-exec bit changes nothing else.                     *)
LEMMA SetCloexec ==
  ASSUME NEW d \in Descriptors, d.kind # "free", NEW c \in BOOLEAN
  PROVE  LET e == [d EXCEPT !.cloexec = c]
         IN /\ e \in Descriptors
            /\ e.kind = d.kind
            /\ IsPipeEnd(d) => e.buffer = d.buffer
            /\ d.kind = "socket" => e.pair = d.pair /\ e.side = d.side
BY DEF Descriptors, IsPipeEnd

(* The table of a program that never opened anything.                      *)
LEMMA InitInv == Init => IInv
<1> SUFFICES ASSUME Init PROVE IInv
  OBVIOUS
<1> USE DescriptorConstants DEF Init
<1>1. \A fd \in Fds : fds[fd] \in Descriptors /\ fds[fd].kind \in {"free", "other"}
  <2>1. Empty \in Descriptors /\ Other(FALSE) \in Descriptors
    BY DEF Descriptors, Empty, Other
  <2>2. Empty.kind = "free" /\ Other(FALSE).kind = "other"
    BY DEF Empty, Other
  <2>3. QED
    BY <2>1, <2>2
<1>2. TypeOK
  <2>1. fds \in [Fds -> Descriptors]
    BY <1>1
  <2>2. level \in [Buffers -> 0..Cap] /\ pairs \in [Pairs -> PairStates]
    BY DEF PairStates
  <2>3. QED
    BY <2>1, <2>2 DEF TypeOK
<1>3. PipesOwnBuffers /\ SocketsConnected
  BY <1>1 DEF PipesOwnBuffers, SocketsConnected, pipe_slot_referenced,
              NamedBySuspended, Ends
<1>4. PairsDisjoint
  BY DEF PairsDisjoint, HeldByPair, NoPair
<1>5. QED
  BY <1>2, <1>3, <1>4 DEF IInv

----------------------------------------------------------------------------
(* A table that names no more than another one.                            *)
Within(table, other) ==
  \A fd \in Fds :
    /\ table[fd] \in Descriptors
    /\ IsPipeEnd(table[fd]) =>
         \E g \in Fds : IsPipeEnd(other[g]) /\ other[g].buffer = table[fd].buffer
    /\ table[fd].kind = "socket" =>
         \E g \in Fds : other[g].kind = "socket" /\ other[g].pair = table[fd].pair

(* Changing the running program's table for one that names no more.        *)
LEMMA TableInv ==
  ASSUME IInv, NEW table, table \in [Fds -> Descriptors], Within(table, fds),
         SetFds(table)
  PROVE  IInv'
<1> USE DEF IInv
<1>1. /\ fds' = table
      /\ UNCHANGED <<suspended, used, level, pairs, stolen>>
  BY DEF SetFds
<1>2. TypeOK'
  BY <1>1 DEF TypeOK
<1>3. \A b \in Buffers : pipe_slot_referenced(b)' => pipe_slot_referenced(b)
  BY <1>1 DEF pipe_slot_referenced, Ends, Within, IsPipeEnd
<1>4. \A b \in Buffers : NamedBySuspended(b)' <=> NamedBySuspended(b)
  BY <1>1 DEF NamedBySuspended, Ends
<1>5. \A p \in Pairs, b \in Buffers : HeldByPair(p, b)' <=> HeldByPair(p, b)
  BY <1>1 DEF HeldByPair
<1>6. PipesOwnBuffers'
  BY <1>1, <1>3, <1>4, <1>5 DEF PipesOwnBuffers
<1>7. PairsDisjoint'
  BY <1>1, <1>5 DEF PairsDisjoint
<1>8. SocketsConnected'
  BY <1>1 DEF SocketsConnected, Within
<1>9. QED
  BY <1>2, <1>6, <1>7, <1>8

(* Replacing one descriptor by one that names nothing, or by a copy of an  *)
(* open one.                                                               *)
LEMMA PlainWithin ==
  ASSUME IInv, NEW fd \in Fds, NEW d \in Descriptors, d.kind \in {"free", "other"}
  PROVE  /\ [fds EXCEPT ![fd] = d] \in [Fds -> Descriptors]
         /\ Within([fds EXCEPT ![fd] = d], fds)
BY DEF IInv, TypeOK, Within, IsPipeEnd

LEMMA CopyWithin ==
  ASSUME IInv, NEW fd \in Fds, NEW old \in Fds, Open(old), NEW c \in BOOLEAN
  PROVE  LET table == [fds EXCEPT ![fd] = [fds[old] EXCEPT !.cloexec = c]]
         IN table \in [Fds -> Descriptors] /\ Within(table, fds)
<1> DEFINE d == [fds[old] EXCEPT !.cloexec = c]
<1>1. /\ fds \in [Fds -> Descriptors] /\ fds[old] \in Descriptors
      /\ fds[old].kind # "free"
  BY DEF IInv, TypeOK, Open
<1>2. /\ d \in Descriptors
      /\ d.kind = fds[old].kind
      /\ IsPipeEnd(fds[old]) => d.buffer = fds[old].buffer
      /\ d.kind = "socket" => d.pair = fds[old].pair
  BY <1>1, SetCloexec
<1> HIDE DEF d
<1>3. [fds EXCEPT ![fd] = d] \in [Fds -> Descriptors]
  BY <1>1, <1>2
<1>4. Within([fds EXCEPT ![fd] = d], fds)
  BY <1>1, <1>2 DEF Within, IsPipeEnd
<1>5. QED
  BY <1>3, <1>4 DEF d

(* Closing some descriptors.                                               *)
LEMMA ClosedWithin ==
  ASSUME IInv, NEW S
  PROVE  LET table == [fd \in Fds |-> IF fd \in S THEN Empty ELSE fds[fd]]
         IN table \in [Fds -> Descriptors] /\ Within(table, fds)
<1>1. fds \in [Fds -> Descriptors] /\ Empty \in Descriptors /\ Empty.kind = "free"
  BY DEF IInv, TypeOK, Empty, Descriptors
<1>2. QED
  BY <1>1 DEF Within, IsPipeEnd

(* The calls that only change the table.                                   *)
LEMMA PlainCallsInv ==
  ASSUME IInv,
         \/ \E cloexec \in Cloexec : open_path(cloexec)
         \/ \E fd \in Fds : close(fd)
         \/ \E first, last \in Fds : close_range(first, last)
         \/ execve
  PROVE  IInv'
<1>1. ASSUME NEW cloexec \in Cloexec, open_path(cloexec)
      PROVE  IInv'
  <2>1. PICK fd \in Fds : SetFds([fds EXCEPT ![fd] = Other(cloexec)])
    BY <1>1 DEF open_path
  <2>2. Other(cloexec) \in Descriptors /\ Other(cloexec).kind = "other"
    BY DescriptorConstants DEF Other, Descriptors
  <2>3. QED
    BY <2>1, <2>2, PlainWithin, TableInv
<1>2. ASSUME NEW fd \in Fds, close(fd)
      PROVE  IInv'
  <2>1. SetFds([fds EXCEPT ![fd] = Empty])
    BY <1>2 DEF close
  <2>2. Empty \in Descriptors /\ Empty.kind = "free"
    BY DEF Empty, Descriptors
  <2>3. QED
    BY <2>1, <2>2, PlainWithin, TableInv
<1>3. ASSUME NEW first \in Fds, NEW last \in Fds, close_range(first, last)
      PROVE  IInv'
  <2> DEFINE S == {fd \in Fds : fd >= Reserved /\ fd \in first..last}
  <2>1. SetFds([fd \in Fds |-> IF fd \in S THEN Empty ELSE fds[fd]])
    BY <1>3 DEF close_range
  <2> HIDE DEF S
  <2>2. QED
    BY <2>1, ClosedWithin, TableInv
<1>4. CASE execve
  <2> DEFINE S == {fd \in Fds : fd >= Reserved /\ Open(fd) /\ fds[fd].cloexec}
  <2>1. SetFds([fd \in Fds |-> IF fd \in S THEN Empty ELSE fds[fd]])
    BY <1>4 DEF execve
  <2> HIDE DEF S
  <2>2. QED
    BY <2>1, ClosedWithin, TableInv
<1>5. QED
  BY <1>1, <1>2, <1>3, <1>4

LEMMA CopyCallsInv ==
  ASSUME IInv,
         \/ \E old, min_fd \in Fds, cloexec \in Cloexec :
              fd_duplicate(old, min_fd, cloexec)
         \/ \E old, new \in Fds, cloexec \in Cloexec :
              fd_duplicate_exact(old, new, cloexec)
         \/ \E fd \in Fds, cloexec \in Cloexec : set_flags(fd, cloexec)
  PROVE  IInv'
<1>1. PICK old \in Fds, fd \in Fds, c \in BOOLEAN :
        Open(old) /\ SetFds([fds EXCEPT ![fd] = [fds[old] EXCEPT !.cloexec = c]])
  BY DescriptorConstants DEF fd_duplicate, fd_duplicate_exact, set_flags
<1>2. QED
  BY <1>1, CopyWithin, TableInv

----------------------------------------------------------------------------
(* Moving bytes changes no table.                                          *)
LEMMA FillInv ==
  ASSUME IInv, NEW b \in Buffers, NEW n \in 0..Cap, Fill(b, n)
  PROVE  IInv'
<1> USE DEF IInv
<1>1. /\ level' = [level EXCEPT ![b] = n]
      /\ UNCHANGED <<fds, suspended, used, pairs, stolen>>
  BY DEF Fill
<1>2. TypeOK'
  BY <1>1 DEF TypeOK
<1>3. QED
  BY <1>1, <1>2 DEF PipesOwnBuffers, PairsDisjoint, SocketsConnected, HeldByPair,
                    pipe_slot_referenced, NamedBySuspended, Ends

(* The buffer a transfer works on exists.                                  *)
LEMMA TransfersInv ==
  ASSUME IInv, Transfers
  PROVE  IInv'
<1>1. PICK fd \in Fds, n \in 0..Cap :
        \/ pipe_read_fd(fd, n) \/ pipe_write_fd(fd, n)
        \/ socket_read_fd(fd, n) \/ socket_write_fd(fd, n)
  BY DEF Transfers
<1>2. fds[fd] \in Descriptors /\ pairs \in [Pairs -> PairStates]
  BY DEF IInv, TypeOK
<1>3. CASE pipe_read_fd(fd, n) \/ pipe_write_fd(fd, n)
  BY <1>2, <1>3, DescriptorParts, FillInv
     DEF pipe_read_fd, pipe_write_fd, IsPipeEnd
<1>4. CASE socket_read_fd(fd, n) \/ socket_write_fd(fd, n)
  <2> DEFINE p == fds[fd].pair
             side == fds[fd].side
  <2>1. p \in Pairs /\ pairs[p].used /\ fds[fd].kind = "socket"
    BY <1>2, <1>4, DescriptorParts DEF socket_read_fd, socket_write_fd
  <2>2. pairs[p].a_to_b \in Buffers /\ pairs[p].b_to_a \in Buffers
    BY <1>2, <2>1, PairParts
  <2>3. Incoming(p, side) \in Buffers /\ Outgoing(p, side) \in Buffers
    BY <2>2 DEF Incoming, Outgoing
  <2>4. QED
    BY <1>4, <2>3, FillInv DEF socket_read_fd, socket_write_fd
<1>5. QED
  BY <1>1, <1>3, <1>4

(* Suspending copies a good table, resuming brings it back.                *)
LEMMA ForkInv ==
  ASSUME IInv, fork
  PROVE  IInv'
<1> USE DEF IInv
<1>1. /\ suspended' = <<fds>>
      /\ UNCHANGED <<fds, used, level, pairs, stolen>>
  BY DEF fork
<1>2. suspended'[1] = fds /\ Len(suspended') = 1
  BY <1>1
<1>3. TypeOK'
  BY <1>1, <1>2 DEF TypeOK
<1>4. PipesOwnBuffers'
  BY <1>1, <1>2 DEF PipesOwnBuffers, pipe_slot_referenced, NamedBySuspended,
                    Ends, HeldByPair
<1>5. PairsDisjoint' /\ SocketsConnected'
  BY <1>1, <1>2 DEF PairsDisjoint, SocketsConnected, HeldByPair
<1>6. QED
  BY <1>3, <1>4, <1>5

LEMMA ChildExitInv ==
  ASSUME IInv, child_exit
  PROVE  IInv'
<1> USE DEF IInv
<1>1. /\ suspended # <<>> /\ suspended' = <<>> /\ fds' = suspended[1]
      /\ UNCHANGED <<used, level, pairs, stolen>>
  BY DEF child_exit
<1>2. TypeOK'
  BY <1>1 DEF TypeOK
<1>3. PipesOwnBuffers'
  BY <1>1 DEF PipesOwnBuffers, pipe_slot_referenced, NamedBySuspended,
              Ends, HeldByPair
<1>4. PairsDisjoint' /\ SocketsConnected'
  BY <1>1 DEF PairsDisjoint, SocketsConnected, HeldByPair
<1>5. QED
  BY <1>2, <1>3, <1>4

----------------------------------------------------------------------------
(* Two new descriptors name what they were made for, and nothing else      *)
(* changes.                                                                *)
LEMMA TwoFdsTable ==
  ASSUME IInv, NEW failed, NEW first \in Descriptors, NEW second \in Descriptors,
         TwoFds(failed, first, second)
  PROVE  /\ fds' \in [Fds -> Descriptors]
         /\ \A fd \in Fds : \/ fds'[fd] = fds[fd]
                            \/ ~failed /\ fds'[fd] \in {first, second}
<1>1. fds \in [Fds -> Descriptors]
  BY DEF IInv, TypeOK
<1>2. CASE failed
  BY <1>1, <1>2 DEF TwoFds
<1>3. CASE ~failed
  <2>1. PICK one \in Fds, two \in Fds :
          fds' = [fds EXCEPT ![one] = first, ![two] = second]
    BY <1>3 DEF TwoFds
  <2>2. QED
    BY <1>1, <1>3, <2>1
<1>4. QED
  BY <1>2, <1>3

(* create_pipe: the buffer it takes is either nobody's or stolen.          *)
LEMMA CreatePipeInv ==
  ASSUME IInv, NEW cloexec \in BOOLEAN, NEW badAddress \in BOOLEAN,
         create_pipe(cloexec, badAddress)
  PROVE  IInv'
<1> USE DEF IInv
<1> DEFINE failed == badAddress \/ ~TwoFree
<1>1. PICK id \in Buffers :
        /\ ~pipe_slot_referenced(id)
        /\ level' = [level EXCEPT ![id] = 0]
        /\ used' = [used EXCEPT ![id] = ~failed]
        /\ TwoFds(failed, PipeEnd("read", id, cloexec),
                          PipeEnd("write", id, cloexec))
        /\ stolen' = IF Named(id) THEN stolen \union {id} ELSE stolen
        /\ UNCHANGED <<suspended, pairs>>
  BY DEF create_pipe, IsLeast
<1> DEFINE reader == PipeEnd("read", id, cloexec)
           writer == PipeEnd("write", id, cloexec)
<1>2. /\ reader \in Descriptors /\ writer \in Descriptors
      /\ reader.kind = "read" /\ reader.buffer = id
      /\ writer.kind = "write" /\ writer.buffer = id
  BY DEF PipeEnd, Descriptors
<1> HIDE DEF failed, reader, writer
<1>3. /\ fds' \in [Fds -> Descriptors]
      /\ \A fd \in Fds : \/ fds'[fd] = fds[fd]
                         \/ ~failed /\ fds'[fd] \in {reader, writer}
  BY <1>1, <1>2, TwoFdsTable DEF reader, writer
<1>4. TypeOK'
  <2>1. level' \in [Buffers -> 0..Cap] /\ used' \in [Buffers -> BOOLEAN]
    BY <1>1, DescriptorConstants DEF TypeOK, failed
  <2>2. QED
    BY <1>1, <1>3, <2>1 DEF TypeOK
<1>5. \A b \in Buffers : pipe_slot_referenced(b)' =>
        pipe_slot_referenced(b) \/ (b = id /\ ~failed)
  BY <1>2, <1>3 DEF pipe_slot_referenced, Ends
<1>6. /\ \A b \in Buffers : NamedBySuspended(b)' <=> NamedBySuspended(b)
      /\ \A p \in Pairs, b \in Buffers : HeldByPair(p, b)' <=> HeldByPair(p, b)
  BY <1>1 DEF NamedBySuspended, HeldByPair, Ends
<1>7. id \notin stolen' => ~Named(id) /\ stolen' = stolen
  BY <1>1
<1>8. \A b \in Buffers \ stolen' :
        b \notin stolen /\ (b # id => used'[b] = used[b]) /\ (b = id => ~Named(b))
  BY <1>1, <1>7 DEF TypeOK
<1>9. PipesOwnBuffers'
  <2> SUFFICES ASSUME NEW b \in Buffers \ stolen',
                      pipe_slot_referenced(b)' \/ NamedBySuspended(b)'
               PROVE  used'[b] /\ \A p \in Pairs : ~HeldByPair(p, b)'
    BY DEF PipesOwnBuffers
  <2>1. CASE b # id
    BY <1>5, <1>6, <1>8, <2>1 DEF PipesOwnBuffers
  <2>2. CASE b = id
    <3>1. ~Named(id)
      BY <1>8, <2>2
    <3>2. ~failed
      BY <1>5, <1>6, <2>2, <3>1 DEF Named
    <3>3. used'[id]
      BY <1>1, <3>2 DEF TypeOK
    <3>4. QED
      BY <1>6, <2>2, <3>1, <3>3 DEF Named
  <2>3. QED
    BY <2>1, <2>2
<1>10. PairsDisjoint'
  <2> SUFFICES ASSUME NEW p \in Pairs, NEW q \in Pairs,
                      NEW b \in Buffers \ stolen'
               PROVE  /\ HeldByPair(p, b)' /\ HeldByPair(q, b)' => p = q
                      /\ HeldByPair(p, b)' =>
                           used'[b] /\ pairs'[p].a_to_b # pairs'[p].b_to_a
    BY DEF PairsDisjoint
  <2>1. b = id => ~HeldByPair(p, b)
    BY <1>8 DEF Named
  <2>2. b \notin stolen /\ (b # id => used'[b] = used[b])
    BY <1>8
  <2>3. QED
    BY <1>1, <1>6, <2>1, <2>2 DEF PairsDisjoint
<1>11. SocketsConnected'
  BY <1>1, <1>2, <1>3 DEF SocketsConnected
<1>12. QED
  BY <1>4, <1>9, <1>10, <1>11

(* An unused buffer that was not stolen is nobody's.                       *)
LEMMA UnusedIsFree ==
  ASSUME IInv, NEW b \in Buffers, ~used[b], b \notin stolen
  PROVE  ~Named(b)
BY DEF IInv, PipesOwnBuffers, PairsDisjoint, Named

(* socket_pair_from_user: both buffers were nobody's.                      *)
LEMMA SocketPairInv ==
  ASSUME IInv, NEW cloexec \in BOOLEAN, NEW badAddress \in BOOLEAN,
         socket_pair_from_user(cloexec, badAddress)
  PROVE  IInv'
<1> USE DEF IInv
<1> DEFINE failed == badAddress \/ ~TwoFree
<1>1. PICK p \in Pairs, a \in Buffers :
        /\ ~pairs[p].used
        /\ ~used[a]
        /\ UNCHANGED <<suspended, stolen>>
        /\ \/ /\ level' = [level EXCEPT ![a] = 0]
              /\ UNCHANGED <<fds, used, pairs>>
           \/ \E b \in Buffers :
                /\ ~used[b] /\ b # a
                /\ level' = [level EXCEPT ![a] = 0, ![b] = 0]
                /\ used' = [used EXCEPT ![a] = TRUE, ![b] = TRUE]
                /\ pairs' = IF failed THEN pairs
                                      ELSE [pairs EXCEPT ![p] = Pair(a, b)]
                /\ TwoFds(failed, Socket(p, 0, cloexec), Socket(p, 1, cloexec))
  BY DEF socket_pair_from_user, UnusedBuffers, IsLeast
<1>2. CASE level' = [level EXCEPT ![a] = 0] /\ UNCHANGED <<fds, used, pairs>>
  <2>1. Fill(a, 0) /\ 0 \in 0..Cap
    BY <1>1, <1>2, DescriptorConstants DEF Fill
  <2>2. QED
    BY <2>1, FillInv
<1>3. ASSUME NEW b \in Buffers, ~used[b], b # a,
             level' = [level EXCEPT ![a] = 0, ![b] = 0],
             used' = [used EXCEPT ![a] = TRUE, ![b] = TRUE],
             pairs' = IF failed THEN pairs ELSE [pairs EXCEPT ![p] = Pair(a, b)],
             TwoFds(failed, Socket(p, 0, cloexec), Socket(p, 1, cloexec))
      PROVE  IInv'
  <2> DEFINE one == Socket(p, 0, cloexec)
             two == Socket(p, 1, cloexec)
  <2>1. /\ one \in Descriptors /\ two \in Descriptors
        /\ one.kind = "socket" /\ one.pair = p
        /\ two.kind = "socket" /\ two.pair = p
    BY DEF Socket, Descriptors
  <2> HIDE DEF one, two, failed
  <2>2. /\ fds' \in [Fds -> Descriptors]
        /\ \A fd \in Fds : \/ fds'[fd] = fds[fd]
                           \/ ~failed /\ fds'[fd] \in {one, two}
    BY <1>3, <2>1, TwoFdsTable DEF one, two
  <2>3. /\ Pair(a, b) \in PairStates /\ Pair(a, b).used
        /\ Pair(a, b).a_to_b = a /\ Pair(a, b).b_to_a = b
    BY DEF Pair, PairStates
  <2>4. /\ pairs' \in [Pairs -> PairStates]
        /\ \A q \in Pairs : pairs'[q] = pairs[q] \/ (q = p /\ pairs'[q] = Pair(a, b))
    BY <1>3, <2>3 DEF TypeOK
  <2>5. ~failed => pairs'[p] = Pair(a, b)
    BY <1>3, <2>3 DEF TypeOK
  <2>6. TypeOK'
    <3>1. 0 \in 0..Cap
      BY DescriptorConstants
    <3>2. level' \in [Buffers -> 0..Cap]
      BY <1>3, <3>1 DEF TypeOK
    <3>3. used' \in [Buffers -> BOOLEAN]
      BY <1>3 DEF TypeOK
    <3>4. QED
      BY <1>1, <2>2, <2>4, <3>2, <3>3 DEF TypeOK
  <2>7. /\ \A c \in Buffers : pipe_slot_referenced(c)' => pipe_slot_referenced(c)
        /\ \A c \in Buffers : NamedBySuspended(c)' <=> NamedBySuspended(c)
    BY <1>1, <2>1, <2>2 DEF pipe_slot_referenced, NamedBySuspended, Ends
  <2>8. \A q \in Pairs, c \in Buffers :
          HeldByPair(q, c)' => HeldByPair(q, c) \/ (q = p /\ c \in {a, b})
    BY <2>3, <2>4 DEF HeldByPair
  <2>9. /\ stolen' = stolen
        /\ \A c \in Buffers : used[c] => used'[c]
        /\ used'[a] /\ used'[b]
        /\ \A c \in Buffers \ stolen : ~used[c] => ~Named(c)
    BY <1>1, <1>3, UnusedIsFree DEF TypeOK
  <2>10. \A c \in Buffers \ stolen : c \in {a, b} => ~Named(c)
    BY <1>1, <1>3, <2>9
  <2>11. PipesOwnBuffers'
    BY <2>7, <2>8, <2>9, <2>10 DEF PipesOwnBuffers, Named
  <2>12. PairsDisjoint'
    <3> SUFFICES ASSUME NEW q \in Pairs, NEW r \in Pairs,
                        NEW c \in Buffers \ stolen
                 PROVE  /\ HeldByPair(q, c)' /\ HeldByPair(r, c)' => q = r
                        /\ HeldByPair(q, c)' =>
                             used'[c] /\ pairs'[q].a_to_b # pairs'[q].b_to_a
      BY <2>9 DEF PairsDisjoint
    <3>1. CASE c \in {a, b}
      <4>1. ~HeldByPair(q, c) /\ ~HeldByPair(r, c)
        BY <2>10, <3>1 DEF Named
      <4>2. HeldByPair(q, c)' => q = p /\ pairs'[q] = Pair(a, b)
        BY <2>4, <4>1 DEF HeldByPair
      <4>3. HeldByPair(r, c)' => r = p
        BY <2>8, <4>1
      <4>4. QED
        BY <1>3, <2>3, <2>9, <3>1, <4>2, <4>3
    <3>2. CASE c \notin {a, b}
      <4>1. HeldByPair(q, c)' => HeldByPair(q, c) /\ pairs'[q] = pairs[q]
        BY <2>3, <2>4, <3>2 DEF HeldByPair
      <4>2. HeldByPair(r, c)' => HeldByPair(r, c)
        BY <2>8, <3>2
      <4>3. QED
        BY <2>9, <4>1, <4>2 DEF PairsDisjoint
    <3>3. QED
      BY <3>1, <3>2
  <2>13. \A q \in Pairs : pairs[q].used => pairs'[q].used
    BY <1>1, <2>3, <2>4
  <2>14. SocketsConnected'
    BY <1>1, <2>1, <2>2, <2>3, <2>5, <2>13, DescriptorParts
       DEF SocketsConnected, TypeOK
  <2>15. QED
    BY <2>6, <2>11, <2>12, <2>14
<1>4. QED
  BY <1>1, <1>2, <1>3

LEMMA NextInv == IInv /\ [Next]_vars => IInv'
<1> SUFFICES ASSUME IInv, [Next]_vars PROVE IInv'
  OBVIOUS
<1>1. Cloexec \subseteq BOOLEAN
  BY DescriptorConstants
<1>2. CASE TableCalls
  BY <1>1, <1>2, CreatePipeInv, SocketPairInv, PlainCallsInv, CopyCallsInv
     DEF TableCalls
<1>3. CASE Transfers
  BY <1>3, TransfersInv
<1>4. CASE fork
  BY <1>4, ForkInv
<1>5. CASE child_exit
  BY <1>5, ChildExitInv
<1>6. CASE execve
  BY <1>6, PlainCallsInv
<1>7. CASE UNCHANGED vars
  BY <1>7 DEF vars, IInv, TypeOK, PipesOwnBuffers, PairsDisjoint,
              SocketsConnected, HeldByPair, pipe_slot_referenced,
              NamedBySuspended, Ends
<1>8. QED
  BY <1>2, <1>3, <1>4, <1>5, <1>6, <1>7 DEF Next

LEMMA Invariant == Spec => []IInv
<1>1. QED
  BY InitInv, NextInv, PTL DEF Spec

(* Every variable keeps its range.                                         *)
THEOREM DescriptorsTypeOK == Spec => []TypeOK
<1>1. QED
  BY Invariant, PTL DEF IInv

(* A pipe owns its buffer unless pipe() stole it from somebody.            *)
THEOREM PipesOwnTheirBuffers == Spec => []PipesOwnBuffers
<1>1. QED
  BY Invariant, PTL DEF IInv

(* Socket pairs share no buffer unless pipe() stole it from one.           *)
THEOREM SocketPairsDisjoint == Spec => []PairsDisjoint
<1>1. QED
  BY Invariant, PTL DEF IInv

(* A socket always finds its pair.                                         *)
THEOREM SocketsStayConnected == Spec => []SocketsConnected
<1>1. QED
  BY Invariant, PTL DEF IInv

----------------------------------------------------------------------------
(* Which steps take bytes out of a buffer somebody names.                  *)
Drains(b) == Named(b) /\ level'[b] < level[b]

LEMMA PipeKeepsBytes ==
  ASSUME IInv, NEW cloexec, NEW badAddress, create_pipe(cloexec, badAddress),
         NEW b \in Buffers \ stolen'
  PROVE  ~Drains(b)
<1>1. PICK id \in Buffers :
        /\ level' = [level EXCEPT ![id] = 0]
        /\ stolen' = IF Named(id) THEN stolen \union {id} ELSE stolen
  BY DEF create_pipe
<1>2. level \in [Buffers -> 0..Cap]
  BY DEF IInv, TypeOK
<1>3. CASE b = id
  BY <1>1, <1>3 DEF Drains
<1>4. CASE b # id
  <2>1. level'[b] = level[b] /\ level[b] \in Int
    BY <1>1, <1>2, <1>4
  <2>2. QED
    BY <2>1 DEF Drains
<1>5. QED
  BY <1>3, <1>4

LEMMA SocketPairKeepsBytes ==
  ASSUME IInv, NEW cloexec, NEW badAddress,
         socket_pair_from_user(cloexec, badAddress),
         NEW b \in Buffers \ stolen'
  PROVE  ~Drains(b)
<1>1. PICK a \in Buffers, c \in Buffers :
        /\ ~used[a] /\ ~used[c] /\ stolen' = stolen
        /\ \/ level' = [level EXCEPT ![a] = 0]
           \/ level' = [level EXCEPT ![a] = 0, ![c] = 0]
  BY DEF socket_pair_from_user, UnusedBuffers, IsLeast
<1>2. level \in [Buffers -> 0..Cap]
  BY DEF IInv, TypeOK
<1>3. CASE b \in {a, c}
  BY <1>1, <1>3, UnusedIsFree DEF Drains
<1>4. CASE b \notin {a, c}
  <2>1. level'[b] = level[b] /\ level[b] \in Int
    BY <1>1, <1>2, <1>4
  <2>2. QED
    BY <2>1 DEF Drains
<1>5. QED
  BY <1>3, <1>4

LEMMA FillOther ==
  ASSUME IInv, NEW b \in Buffers, NEW c \in Buffers, NEW n \in 0..Cap,
         Fill(c, n), Drains(b)
  PROVE  b = c /\ n < level[b] /\ UNCHANGED <<fds, suspended, used, pairs>>
<1>1. /\ level' = [level EXCEPT ![c] = n] /\ level \in [Buffers -> 0..Cap]
      /\ UNCHANGED <<fds, suspended, used, pairs>>
  BY DEF Fill, IInv, TypeOK
<1>2. level[b] \in Int
  BY <1>1
<1>3. b = c
  <2>1. b # c => level'[b] = level[b]
    BY <1>1
  <2>2. QED
    BY <1>2, <2>1 DEF Drains
<1>4. level'[b] = n
  BY <1>1, <1>3
<1>5. QED
  BY <1>1, <1>3, <1>4 DEF Drains

LEMMA TransfersDrain ==
  ASSUME IInv, Transfers, NEW b \in Buffers, Drains(b)
  PROVE  /\ \E fd \in Fds : ReadsFrom(fd, b)
         /\ UNCHANGED <<fds, suspended, used, pairs>>
<1>1. PICK fd \in Fds, n \in 0..Cap :
        \/ pipe_read_fd(fd, n) \/ pipe_write_fd(fd, n)
        \/ socket_read_fd(fd, n) \/ socket_write_fd(fd, n)
  BY DEF Transfers
<1>2. /\ fds[fd] \in Descriptors /\ pairs \in [Pairs -> PairStates]
      /\ level \in [Buffers -> 0..Cap] /\ n \in Int
  BY DEF IInv, TypeOK
<1>3. CASE pipe_read_fd(fd, n)
  <2>1. fds[fd].buffer \in Buffers
    BY <1>2, <1>3, DescriptorParts DEF pipe_read_fd, IsPipeEnd
  <2>2. fds[fd].kind = "read" /\ Fill(fds[fd].buffer, n)
    BY <1>3 DEF pipe_read_fd
  <2>3. QED
    BY <2>1, <2>2, FillOther DEF ReadsFrom
<1>4. CASE pipe_write_fd(fd, n)
  <2>1. fds[fd].buffer \in Buffers
    BY <1>2, <1>4, DescriptorParts DEF pipe_write_fd, IsPipeEnd
  <2>2. Fill(fds[fd].buffer, n) /\ n > level[fds[fd].buffer]
    BY <1>4 DEF pipe_write_fd
  <2>3. b = fds[fd].buffer /\ n < level[b] /\ level[b] \in Int
    BY <1>2, <2>1, <2>2, FillOther
  <2>4. QED
    BY <1>2, <2>2, <2>3
<1> DEFINE p == fds[fd].pair
           side == fds[fd].side
<1>5. ASSUME fds[fd].kind = "socket", pairs[p].used
      PROVE  Incoming(p, side) \in Buffers /\ Outgoing(p, side) \in Buffers
  <2>1. pairs[p].a_to_b \in Buffers /\ pairs[p].b_to_a \in Buffers
    BY <1>2, <1>5, DescriptorParts, PairParts
  <2>2. QED
    BY <2>1 DEF Incoming, Outgoing
<1>6. CASE socket_read_fd(fd, n)
  <2>1. /\ fds[fd].kind = "socket" /\ pairs[p].used
        /\ Fill(Incoming(p, side), n)
    BY <1>6 DEF socket_read_fd
  <2>2. QED
    BY <1>5, <2>1, FillOther DEF ReadsFrom
<1>7. CASE socket_write_fd(fd, n)
  <2>1. /\ fds[fd].kind = "socket" /\ pairs[p].used
        /\ n > level[Outgoing(p, side)] /\ Fill(Outgoing(p, side), n)
    BY <1>7 DEF socket_write_fd
  <2>2. b = Outgoing(p, side) /\ n < level[b] /\ level[b] \in Int
    BY <1>2, <1>5, <2>1, FillOther
  <2>3. QED
    BY <1>2, <2>1, <2>2
<1>8. QED
  BY <1>1, <1>3, <1>4, <1>6, <1>7

(* Nothing else touches a buffer.                                          *)
LEMMA OthersKeepBytes ==
  ASSUME IInv, level' = level, NEW b \in Buffers
  PROVE  ~Drains(b)
<1>1. level[b] \in Int
  BY DEF IInv, TypeOK
<1>2. QED
  BY <1>1 DEF Drains

(* Bytes leave a buffer only by a read, unless pipe() steals it.           *)
THEOREM BytesNeverDiscarded == Spec => BytesKept
<1>1. IInv /\ [Next]_vars =>
        [\A b \in Buffers \ stolen' : Named(b) /\ level'[b] < level[b] =>
           /\ \E fd \in Fds : ReadsFrom(fd, b)
           /\ UNCHANGED <<fds, suspended, used, pairs>>]_vars
  <2> SUFFICES ASSUME IInv, Next, NEW b \in Buffers \ stolen', Drains(b)
               PROVE  /\ \E fd \in Fds : ReadsFrom(fd, b)
                      /\ UNCHANGED <<fds, suspended, used, pairs>>
    BY DEF Drains
  <2>1. CASE TableCalls
    <3>1. CASE level' = level
      BY <3>1, OthersKeepBytes
    <3>2. CASE \/ \E cloexec \in Cloexec, badAddress \in BOOLEAN :
                    create_pipe(cloexec, badAddress)
               \/ \E cloexec \in Cloexec, badAddress \in BOOLEAN :
                    socket_pair_from_user(cloexec, badAddress)
      BY <3>2, PipeKeepsBytes, SocketPairKeepsBytes
    <3>3. QED
      BY <2>1, <3>1, <3>2
         DEF TableCalls, open_path, close, close_range, fd_duplicate,
             fd_duplicate_exact, set_flags, SetFds
  <2>2. CASE Transfers
    BY <2>2, TransfersDrain
  <2>3. CASE fork \/ child_exit \/ execve
    BY <2>3, OthersKeepBytes DEF fork, child_exit, execve, SetFds
  <2>4. QED
    BY <2>1, <2>2, <2>3 DEF Next
<1>2. QED
  BY <1>1, Invariant, PTL DEF Spec, BytesKept
=============================================================================
