----------------------------- MODULE QueueProofs -----------------------------
(***************************************************************************)
(* Proofs about the queues of vibuxOS: the ring of pipes and sockets       *)
(* (PipeRing) and the scancode queue of the keyboard interrupt             *)
(* (ScancodeQueue) are bounded queues; the line and the ring of the        *)
(* terminal (Tty) keep to their bounds, and the keys on their way to the   *)
(* reader are neither lost nor doubled nor overtaken.                      *)
(***************************************************************************)
EXTENDS PipeRing, ScancodeQueue, Tty, TLAPS, SequenceTheorems, FiniteSetTheorems

(***************************************************************************)
(* The ring of pipes and sockets.                                          *)
(***************************************************************************)

(* Wrapping a cursor that is at most one turn too far.                     *)
LEMMA WrapLow ==
  ASSUME NEW c \in Nat \ {0}, NEW x \in 0..(c - 1)
  PROVE  x % c = x
OBVIOUS

LEMMA WrapHigh ==
  ASSUME NEW c \in Nat \ {0}, NEW x \in c..(2 * c - 1)
  PROVE  x % c = x - c
OBVIOUS

LEMMA Wrap ==
  ASSUME NEW c \in Nat \ {0}, NEW x \in 0..(2 * c - 1)
  PROVE  x % c = IF x < c THEN x ELSE x - c
<1>1. CASE x < c
  BY <1>1, WrapLow
<1>2. CASE x >= c
  BY <1>2, WrapHigh
<1>3. QED
  BY <1>1, <1>2

(* Wrapping in two moves is wrapping once.                                 *)
LEMMA WrapTwice ==
  ASSUME NEW c \in Nat \ {0}, NEW r \in 0..(c - 1), NEW a \in 0..c,
         NEW b \in 0..c, r + a + b < 2 * c
  PROVE  (((r + a) % c) + b) % c = (r + a + b) % c
<1>1. CASE r + a < c
  <2>1. (r + a) % c = r + a
    BY <1>1, WrapLow
  <2>2. QED
    BY <2>1
<1>2. CASE r + a >= c
  <2>1. (r + a) % c = r + a - c
    BY <1>2, WrapHigh
  <2>2. r + a + b \in c..(2 * c - 1) /\ r + a - c + b \in 0..(c - 1)
    BY <1>2
  <2>3. (r + a + b) % c = r + a + b - c
    BY <2>2, WrapHigh
  <2>4. (r + a - c + b) % c = r + a - c + b
    BY <2>2, WrapLow
  <2>5. QED
    BY <2>1, <2>3, <2>4
<1>3. QED
  BY <1>1, <1>2

----------------------------------------------------------------------------
PipeInv == PipeTypeOK /\ CursorsAgree

LEMMA PipeInitInv == PipeInit => PipeInv
<1> SUFFICES ASSUME PipeInit PROVE PipeInv
  OBVIOUS
<1> USE RingConstants DEF PipeInit
<1>1. (0 + 0) % Cap = 0
  BY WrapLow
<1>2. QED
  BY <1>1 DEF PipeInv, PipeTypeOK, CursorsAgree

(* Reading moves read_pos and len together.                                *)
LEMMA TakeInv ==
  ASSUME PipeInv, NEW call, NEW count, NEW n \in 1..len,
         Take(call, count, n), UNCHANGED ends
  PROVE  PipeInv'
<1> USE RingConstants DEF PipeInv, PipeTypeOK, CursorsAgree, ends
<1>1. /\ read_pos' = (read_pos + n) % Cap /\ len' = len - n
      /\ data' = data /\ write_pos' = write_pos
      /\ readers' = readers /\ writers' = writers
  BY DEF Take, Advance
<1>2. (read_pos + n) % Cap \in 0..(Cap - 1)
  OBVIOUS
<1>3. (((read_pos + n) % Cap) + (len - n)) % Cap = (read_pos + n + (len - n)) % Cap
  BY WrapTwice
<1>4. read_pos + n + (len - n) = read_pos + len
  OBVIOUS
<1>5. QED
  BY <1>1, <1>2, <1>3, <1>4

(* Writing moves write_pos and len together.                               *)
LEMMA FillInv ==
  ASSUME PipeInv, NEW call, NEW buffer \in Buffers,
         NEW n \in 1..Len(buffer), n <= Cap - len,
         Fill(call, buffer, n), UNCHANGED ends
  PROVE  PipeInv'
<1> USE RingConstants DEF PipeInv, PipeTypeOK, CursorsAgree, ends
<1>1. /\ write_pos' = (write_pos + n) % Cap /\ len' = len + n
      /\ data' = CopyIn(buffer, n) /\ read_pos' = read_pos
      /\ readers' = readers /\ writers' = writers
  BY DEF Fill, Advance
<1>2. /\ (write_pos + n) % Cap \in 0..(Cap - 1) /\ n \in Nat
      /\ len + n \in 0..Cap /\ n \in 0..Cap /\ read_pos + len + n < 2 * Cap
  <2>1. n \in Nat /\ n >= 1
    OBVIOUS
  <2>2. (write_pos + n) % Cap \in 0..(Cap - 1)
    BY <2>1
  <2>3. len + n \in 0..Cap /\ n \in 0..Cap /\ read_pos + len + n < 2 * Cap
    BY <2>1
  <2>4. QED
    BY <2>1, <2>2, <2>3
<1>3. (((read_pos + len) % Cap) + n) % Cap = (read_pos + len + n) % Cap
  BY <1>2, WrapTwice
<1>4. CopyIn(buffer, n) \in [0..(Cap - 1) -> Byte]
  <2>1. PICK m \in Requests : buffer \in [1..m -> Byte]
    BY DEF Buffers
  <2>2. Len(buffer) = m /\ m \in Nat
    BY <2>1 DEF Requests
  <2>3. n \in 1..m
    BY <2>2
  <2> DEFINE first == Smaller(n, Cap - write_pos)
  <2>4. first \in 1..n
    BY <1>2 DEF Smaller
  <2>5. ASSUME NEW j \in 0..(Cap - 1), j \in write_pos..(write_pos + first - 1)
        PROVE  buffer[j - write_pos + 1] \in Byte
    <3>1. j - write_pos + 1 \in 1..m
      BY <2>2, <2>3, <2>4, <2>5
    <3>2. QED
      BY <2>1, <3>1
  <2>6. ASSUME NEW j \in 0..(Cap - 1), j < n - first
        PROVE  buffer[first + j + 1] \in Byte
    <3>1. first + j + 1 \in 1..m
      BY <2>2, <2>3, <2>4, <2>6
    <3>2. QED
      BY <2>1, <3>1
  <2> HIDE DEF first
  <2>7. QED
    BY <2>5, <2>6 DEF CopyIn, first
<1>5. QED
  BY <1>1, <1>2, <1>3, <1>4

(* What one call can do to the ring.                                       *)
LEMMA ReadCases ==
  ASSUME PipeInv, NEW call, NEW deferred \in BOOLEAN, NEW count \in Requests,
         NEW badAddress \in BOOLEAN, Read(call, deferred, count, badAddress)
  PROVE  /\ UNCHANGED ends
         /\ \/ len = 0 /\ deferred /\ Fail(call, "EAGAIN")
            \/ len = 0 /\ ~deferred /\ End(call, count)
            \/ Fail(call, "EFAULT")
            \/ /\ Take(call, count, Smaller(count, len))
               /\ Smaller(count, len) \in 1..len
<1>1. len > 0 => Smaller(count, len) \in 1..len
  BY DEF PipeInv, PipeTypeOK, Requests, Smaller
<1>2. QED
  BY <1>1 DEF Read

LEMMA WriteCases ==
  ASSUME PipeInv, NEW call, NEW buffer \in Buffers, NEW badAddress \in BOOLEAN,
         Write(call, buffer, badAddress)
  PROVE  /\ UNCHANGED ends
         /\ \/ len = Cap /\ Fail(call, "EAGAIN")
            \/ Fail(call, "EFAULT")
            \/ LET n == Smaller(Len(buffer), Cap - len)
               IN n \in 1..Len(buffer) /\ n <= Cap - len /\ Fill(call, buffer, n)
<1>1. Len(buffer) \in Nat \ {0}
  BY DEF Buffers, Requests
<1>2. len < Cap => LET n == Smaller(Len(buffer), Cap - len)
                   IN n \in 1..Len(buffer) /\ n <= Cap - len
  BY <1>1, RingConstants DEF PipeInv, PipeTypeOK, Smaller
<1>3. QED
  BY <1>2 DEF Write

LEMMA StillInv ==
  ASSUME PipeInv, UNCHANGED ring, readers' \in BOOLEAN, writers' \in BOOLEAN
  PROVE  PipeInv'
BY DEF PipeInv, PipeTypeOK, CursorsAgree, ring

LEMMA ReadInv ==
  ASSUME PipeInv, NEW call, NEW deferred \in BOOLEAN, NEW count \in Requests,
         NEW badAddress \in BOOLEAN, Read(call, deferred, count, badAddress)
  PROVE  PipeInv'
<1>1. CASE UNCHANGED <<ring, ends>>
  BY <1>1, StillInv DEF PipeInv, PipeTypeOK, ends
<1>2. CASE Take(call, count, Smaller(count, len)) /\ Smaller(count, len) \in 1..len
  BY <1>2, ReadCases, TakeInv
<1>3. QED
  BY <1>1, <1>2, ReadCases DEF Fail, End

LEMMA WriteInv ==
  ASSUME PipeInv, NEW call, NEW buffer \in Buffers, NEW badAddress \in BOOLEAN,
         Write(call, buffer, badAddress)
  PROVE  PipeInv'
<1>1. CASE UNCHANGED <<ring, ends>>
  BY <1>1, StillInv DEF PipeInv, PipeTypeOK, ends
<1>2. CASE LET n == Smaller(Len(buffer), Cap - len)
           IN n \in 1..Len(buffer) /\ n <= Cap - len /\ Fill(call, buffer, n)
  BY <1>2, WriteCases, FillInv
<1>3. QED
  BY <1>1, <1>2, WriteCases DEF Fail

LEMMA PipeNextInv == PipeInv /\ [PipeNext]_pipeVars => PipeInv'
<1> SUFFICES ASSUME PipeInv, [PipeNext]_pipeVars PROVE PipeInv'
  OBVIOUS
<1>1. ASSUME NEW count \in Requests, NEW badAddress \in BOOLEAN,
             pipe_read_fd(count, badAddress)
      PROVE  PipeInv'
  BY <1>1, ReadInv DEF pipe_read_fd, PipeInv, PipeTypeOK
<1>2. ASSUME NEW count \in Requests, NEW nonblocking \in BOOLEAN,
             NEW badAddress \in BOOLEAN,
             socket_read_fd(count, nonblocking, badAddress)
      PROVE  PipeInv'
  BY <1>2, ReadInv DEF socket_read_fd
<1>3. ASSUME NEW buffer \in Buffers, NEW badAddress \in BOOLEAN,
             \/ pipe_write_fd(buffer, badAddress)
             \/ socket_write_fd(buffer, badAddress)
      PROVE  PipeInv'
  <2>1. CASE UNCHANGED <<ring, ends>>
    BY <2>1, StillInv DEF PipeInv, PipeTypeOK, ends
  <2>2. CASE \E call \in Calls : Write(call, buffer, badAddress)
    BY <2>2, WriteInv
  <2>3. QED
    BY <1>3, <2>1, <2>2 DEF pipe_write_fd, socket_write_fd, Calls, Fail
<1>4. CASE ChangeEnds
  BY <1>4, StillInv DEF ChangeEnds
<1>5. CASE UNCHANGED pipeVars
  BY <1>5, StillInv DEF pipeVars, PipeInv, PipeTypeOK, ends
<1>6. QED
  BY <1>1, <1>2, <1>3, <1>4, <1>5 DEF PipeNext

(* The cursors agree in every state of every run.                          *)
THEOREM CursorsAlwaysAgree == PipeSpec => [](PipeTypeOK /\ CursorsAgree)
<1>1. PipeSpec => []PipeInv
  BY PipeInitInv, PipeNextInv, PTL DEF PipeSpec
<1>2. QED
  BY <1>1, PTL DEF PipeInv

----------------------------------------------------------------------------
(* The bytes in transit, as a sequence.                                    *)
LEMMA ContentsSeq ==
  ASSUME PipeInv
  PROVE  /\ Contents \in Seq(Byte)
         /\ Len(Contents) = len
         /\ DOMAIN Contents = 1..len
         /\ \A i \in 1..len : Contents[i] = data[(read_pos + i - 1) % Cap]
<1>1. \A i \in 1..len : (read_pos + i - 1) % Cap \in 0..(Cap - 1)
  BY RingConstants DEF PipeInv, PipeTypeOK
<1>2. \A i \in 1..len : data[(read_pos + i - 1) % Cap] \in Byte
  BY <1>1 DEF PipeInv, PipeTypeOK
<1>3. Contents \in [1..len -> Byte]
  BY <1>2 DEF Contents
<1>4. len \in Nat
  BY RingConstants DEF PipeInv, PipeTypeOK
<1>5. QED
  BY <1>3, <1>4 DEF Contents

(* Two chunks out of the ring are the oldest bytes.                        *)
LEMMA CopyOutIsPrefix ==
  ASSUME PipeInv, NEW n \in 1..len
  PROVE  CopyOut(n) = SubSeq(Contents, 1, n)
<1> USE RingConstants DEF PipeInv, PipeTypeOK
<1> DEFINE first == Smaller(n, Cap - read_pos)
<1>1. first \in 1..n /\ (first = n \/ first = Cap - read_pos)
  BY DEF Smaller
<1>2. ASSUME NEW i \in 1..n
      PROVE  CopyOut(n)[i] = Contents[i]
  <2>1. Contents[i] = data[(read_pos + i - 1) % Cap]
    BY ContentsSeq
  <2>2. CASE i <= first
    <3>1. (read_pos + i - 1) \in 0..(Cap - 1)
      BY <2>2 DEF Smaller
    <3>2. (read_pos + i - 1) % Cap = read_pos + i - 1
      BY <3>1, WrapLow
    <3>3. QED
      BY <2>1, <2>2, <3>2 DEF CopyOut
  <2>3. CASE i > first
    <3>1. first = Cap - read_pos
      BY <1>1, <2>3
    <3> DEFINE x == read_pos + i - 1
    <3>2. x \in Cap..(2 * Cap - 1) /\ x - Cap = i - first - 1
      BY <2>3, <3>1
    <3>3. x % Cap = x - Cap
      <4> HIDE DEF x
      <4>1. QED
        BY <3>2, WrapHigh
    <3>4. x % Cap = i - first - 1
      BY <3>2, <3>3
    <3>5. CopyOut(n)[i] = data[i - first - 1]
      <4>1. ~(i <= first)
        BY <1>1, <2>3
      <4>2. QED
        BY <4>1 DEF CopyOut
    <3>6. QED
      BY <2>1, <3>4, <3>5
  <2>4. QED
    BY <1>1, <2>2, <2>3
<1>3. /\ SubSeq(Contents, 1, n) = [i \in 1..n |-> Contents[i]]
  BY ContentsSeq
<1>4. CopyOut(n) = [i \in 1..n |-> CopyOut(n)[i]]
  BY DEF CopyOut
<1>5. QED
  BY <1>2, <1>3, <1>4

(* What Take leaves is the rest.                                           *)
LEMMA TakeLeavesRest ==
  ASSUME PipeInv, NEW call, NEW count, NEW n \in 1..len,
         Take(call, count, n), UNCHANGED ends
  PROVE  Contents' = SubSeq(Contents, n + 1, Len(Contents))
<1> USE RingConstants
<1>1. /\ read_pos' = (read_pos + n) % Cap /\ len' = len - n /\ data' = data
  BY DEF Take, Advance
<1>2. PipeInv'
  BY TakeInv
<1>3. len \in 0..Cap /\ len - n \in 0..Cap /\ read_pos \in 0..(Cap - 1)
  BY DEF PipeInv, PipeTypeOK
<1>4. ASSUME NEW i \in 1..(len - n)
      PROVE  data'[(read_pos' + i - 1) % Cap] = Contents[i + n]
  <2>1. Contents[i + n] = data[(read_pos + (i + n) - 1) % Cap]
    BY <1>3, ContentsSeq
  <2>2. (((read_pos + n) % Cap) + (i - 1)) % Cap = (read_pos + n + (i - 1)) % Cap
    BY <1>3, WrapTwice
  <2>3. /\ read_pos + n + (i - 1) = read_pos + (i + n) - 1
        /\ (read_pos + n) % Cap \in Int
    BY <1>3
  <2>4. (read_pos' + i - 1) % Cap = (read_pos + (i + n) - 1) % Cap
    BY <1>1, <2>2, <2>3
  <2>5. QED
    BY <1>1, <2>1, <2>4
<1>5. Contents' = [i \in 1..(len - n) |-> Contents[i + n]]
  BY <1>1, <1>4 DEF Contents
<1>6. SubSeq(Contents, n + 1, Len(Contents))
        = [i \in 1..(len - n) |-> Contents[i + n]]
  <2>1. Len(Contents) - (n + 1) + 1 = len - n
    BY <1>3, ContentsSeq
  <2>2. SubSeq(Contents, n + 1, Len(Contents))
          = [i \in 1..(Len(Contents) - (n + 1) + 1) |-> Contents[i + (n + 1) - 1]]
    BY <1>3, ContentsSeq
  <2>3. \A i \in 1..(len - n) : i + (n + 1) - 1 = i + n
    BY <1>3
  <2>4. QED
    BY <2>1, <2>2, <2>3
<1>7. QED
  BY <1>5, <1>6

(* Two chunks in leave the bytes in transit where they are.                *)
LEMMA CopyInKeeps ==
  ASSUME PipeInv, NEW buffer, NEW n \in 1..Cap, n <= Cap - len, NEW i \in 1..len
  PROVE  CopyIn(buffer, n)[(read_pos + i - 1) % Cap] = Contents[i]
<1> DEFINE first == Smaller(n, Cap - write_pos)
           x == read_pos + i - 1
           j == x % Cap
<1>1. /\ Cap \in Nat \ {0} /\ read_pos \in 0..(Cap - 1) /\ len \in 0..Cap
      /\ write_pos \in 0..(Cap - 1) /\ write_pos = (read_pos + len) % Cap
  BY RingConstants DEF PipeInv, PipeTypeOK, CursorsAgree
<1>2. x \in 0..(2 * Cap - 1)
  BY <1>1
<1>3. /\ j \in 0..(Cap - 1)
      /\ j = IF x < Cap THEN x ELSE x - Cap
  <2> HIDE DEF x
  <2>1. x % Cap = IF x < Cap THEN x ELSE x - Cap
    BY <1>1, <1>2, Wrap
  <2>2. QED
    BY <1>1, <1>2, <2>1
<1>4. write_pos = IF read_pos + len < Cap THEN read_pos + len
                                          ELSE read_pos + len - Cap
  <2> DEFINE y == read_pos + len
  <2>1. y \in 0..(2 * Cap - 1)
    BY <1>1
  <2>2. y % Cap = IF y < Cap THEN y ELSE y - Cap
    <3> HIDE DEF y
    <3>1. QED
      BY <1>1, <2>1, Wrap
  <2>3. QED
    BY <1>1, <2>2
<1>5. /\ first \in 1..n
      /\ first = IF n <= Cap - write_pos THEN n ELSE Cap - write_pos
  BY <1>1 DEF Smaller
<1> HIDE DEF first, j
<1>6. j \notin write_pos..(write_pos + first - 1) /\ ~(j < n - first)
  <2>1. CASE read_pos + len < Cap
    <3>1. write_pos = read_pos + len /\ j = read_pos + i - 1
      BY <1>1, <1>3, <1>4, <2>1
    <3>2. j < write_pos
      BY <1>1, <3>1
    <3>3. n - first <= read_pos
      BY <1>1, <1>5, <3>1
    <3>4. QED
      BY <1>1, <1>3, <1>5, <3>1, <3>2, <3>3
  <2>2. CASE read_pos + len >= Cap
    <3>1. write_pos = read_pos + len - Cap
      BY <1>1, <1>4, <2>2
    <3>2. first = n /\ write_pos + n <= read_pos
      BY <1>1, <1>5, <3>1
    <3>3. j >= read_pos \/ j < write_pos
      BY <1>1, <1>3, <3>1
    <3>4. QED
      BY <1>1, <1>3, <3>1, <3>2, <3>3
  <2>3. QED
    BY <1>1, <2>1, <2>2
<1>7. CopyIn(buffer, n)[j] = data[j]
  BY <1>3, <1>6 DEF CopyIn, first
<1>8. Contents[i] = data[j]
  BY ContentsSeq DEF j
<1>9. QED
  BY <1>7, <1>8 DEF j

(* And put the new ones behind them.                                       *)
LEMMA CopyInStores ==
  ASSUME PipeInv, NEW buffer, NEW n \in 1..Cap, n <= Cap - len, NEW k \in 1..n
  PROVE  CopyIn(buffer, n)[(read_pos + (len + k) - 1) % Cap] = buffer[k]
<1> DEFINE first == Smaller(n, Cap - write_pos)
           x == write_pos + (k - 1)
           j == x % Cap
<1>1. /\ Cap \in Nat \ {0} /\ read_pos \in 0..(Cap - 1) /\ len \in 0..Cap
      /\ write_pos \in 0..(Cap - 1) /\ write_pos = (read_pos + len) % Cap
  BY RingConstants DEF PipeInv, PipeTypeOK, CursorsAgree
<1>2. (read_pos + (len + k) - 1) % Cap = j
  <2>1. (((read_pos + len) % Cap) + (k - 1)) % Cap = (read_pos + len + (k - 1)) % Cap
    BY <1>1, WrapTwice
  <2>2. read_pos + len + (k - 1) = read_pos + (len + k) - 1
    BY <1>1
  <2>3. QED
    BY <1>1, <2>1, <2>2
<1>3. x \in 0..(2 * Cap - 1)
  BY <1>1
<1>4. /\ j \in 0..(Cap - 1)
      /\ j = IF x < Cap THEN x ELSE x - Cap
  <2> HIDE DEF x
  <2>1. x % Cap = IF x < Cap THEN x ELSE x - Cap
    BY <1>1, <1>3, Wrap
  <2>2. QED
    BY <1>1, <1>3, <2>1
<1>5. /\ first \in 1..n
      /\ first = IF n <= Cap - write_pos THEN n ELSE Cap - write_pos
  BY <1>1 DEF Smaller
<1>6. CopyIn(buffer, n)[j] =
        IF j \in write_pos..(write_pos + first - 1)
        THEN buffer[j - write_pos + 1]
        ELSE IF j < n - first THEN buffer[first + j + 1] ELSE data[j]
  BY <1>4 DEF CopyIn
<1> HIDE DEF first, j
<1>7. CASE k <= first
  <2>1. j = write_pos + (k - 1)
    BY <1>1, <1>4, <1>5, <1>7
  <2>2. /\ j \in write_pos..(write_pos + first - 1)
        /\ j - write_pos + 1 = k
    BY <1>1, <1>5, <1>7, <2>1
  <2>3. QED
    BY <1>2, <1>6, <2>2
<1>8. CASE k > first
  <2>1. first = Cap - write_pos
    BY <1>1, <1>5, <1>8
  <2>2. j = k - first - 1
    BY <1>1, <1>4, <1>5, <1>8, <2>1
  <2>3. /\ j \notin write_pos..(write_pos + first - 1)
        /\ j < n - first /\ first + j + 1 = k
    BY <1>1, <1>5, <1>8, <2>1, <2>2
  <2>4. QED
    BY <1>2, <1>6, <2>3
<1>9. QED
  BY <1>5, <1>7, <1>8

(* So a write appends to the bytes in transit.                             *)
LEMMA FillAppends ==
  ASSUME PipeInv, NEW call, NEW buffer \in Buffers,
         NEW n \in 1..Len(buffer), n <= Cap - len, Fill(call, buffer, n)
  PROVE  Contents' = Contents \o SubSeq(buffer, 1, n)
<1>1. /\ len' = len + n /\ read_pos' = read_pos /\ data' = CopyIn(buffer, n)
  BY DEF Fill, Advance
<1>2. /\ buffer \in Seq(Byte) /\ Len(buffer) \in Nat
      /\ len \in 0..Cap /\ Cap \in Nat \ {0} /\ n \in 1..Cap
  BY RingConstants DEF Buffers, Requests, PipeInv, PipeTypeOK
<1> DEFINE joined == [i \in 1..(len + n) |->
                        IF i <= len THEN Contents[i] ELSE buffer[i - len]]
<1>3. Contents' = joined
  <2>1. ASSUME NEW i \in 1..(len + n)
        PROVE  data'[(read_pos' + i - 1) % Cap]
                 = IF i <= len THEN Contents[i] ELSE buffer[i - len]
    <3>1. CASE i <= len
      <4>1. i \in 1..len
        BY <1>2, <3>1
      <4>2. QED
        BY <1>1, <1>2, <3>1, <4>1, CopyInKeeps
    <3>2. CASE i > len
      <4> DEFINE k == i - len
      <4>1. k \in 1..n /\ i = len + k /\ ~(i <= len)
        BY <1>2, <3>2
      <4>2. CopyIn(buffer, n)[(read_pos + (len + k) - 1) % Cap] = buffer[k]
        BY <1>2, <4>1, CopyInStores
      <4>3. QED
        BY <1>1, <4>1, <4>2
    <3>3. QED
      BY <1>2, <3>1, <3>2
  <2>2. QED
    BY <1>1, <2>1 DEF Contents
<1>4. Contents \o SubSeq(buffer, 1, n) = joined
  <2>1. /\ SubSeq(buffer, 1, n) \in Seq(Byte)
        /\ Len(SubSeq(buffer, 1, n)) = n
        /\ \A i \in 1..n : SubSeq(buffer, 1, n)[i] = buffer[i]
    BY <1>2
  <2>2. Contents \in Seq(Byte) /\ Len(Contents) = len
    BY ContentsSeq
  <2>3. \A i \in 1..n : SubSeq(buffer, 1, n)[i] = buffer[i]
    BY <2>1
  <2>4. QED
    BY <1>2, <2>1, <2>2, <2>3
<1>5. QED
  BY <1>3, <1>4

----------------------------------------------------------------------------
(* A step that leaves the ring alone leaves the bytes alone.               *)
LEMMA StillContents ==
  ASSUME UNCHANGED ring
  PROVE  Contents' = Contents
BY DEF ring, Contents

LEMMA PipeInitRefines == PipeInit => Fifo!Init
<1> SUFFICES ASSUME PipeInit PROVE Fifo!Init
  OBVIOUS
<1>1. Contents = <<>>
  BY DEF PipeInit, Contents
<1>2. QED
  BY <1>1 DEF PipeInit, Fifo!Init, Idle, Fifo!Idle

(* A read hands over the oldest bytes, or says why not.                    *)
LEMMA ReadRefines ==
  ASSUME PipeInv, NEW call \in Calls, NEW deferred \in BOOLEAN,
         NEW count \in Requests, NEW badAddress \in BOOLEAN,
         Read(call, deferred, count, badAddress),
         call = "pipe" => deferred = writers
  PROVE  Fifo!Transfer(call)
<1>1. UNCHANGED <<readers, writers>>
  BY ReadCases DEF ends
<1>2. Len(Contents) = len /\ len \in Nat /\ (len = 0 => Contents = <<>>)
  BY ContentsSeq, RingConstants DEF PipeInv, PipeTypeOK
<1>3. CASE len = 0 /\ deferred /\ Fail(call, "EAGAIN")
  BY <1>1, <1>2, <1>3, StillContents
     DEF Fail, Failed, Fifo!Failed, Fifo!Refuse, Fifo!Transfer
<1>4. CASE len = 0 /\ ~deferred /\ End(call, count)
  <2>1. Fifo!AtEnd(call, count)
    BY <1>2, <1>4, StillContents DEF End, Got, Fifo!Got, Fifo!AtEnd
  <2>2. QED
    BY <1>1, <2>1 DEF Fifo!Transfer, Requests, Fifo!Requests
<1>5. CASE Fail(call, "EFAULT")
  BY <1>1, <1>5, StillContents
     DEF Fail, Failed, Fifo!Failed, Fifo!Refuse, Fifo!Transfer
<1>6. CASE Take(call, count, Smaller(count, len)) /\ Smaller(count, len) \in 1..len
  <2> DEFINE n == Smaller(count, len)
  <2>1. Contents' = SubSeq(Contents, n + 1, Len(Contents))
    BY <1>6, ReadCases, TakeLeavesRest
  <2>2. reply' = Got(call, count, SubSeq(Contents, 1, n))
    BY <1>6, CopyOutIsPrefix DEF Take, Advance
  <2>3. n = Fifo!Smaller(count, Len(Contents)) /\ n > 0
    BY <1>2, <1>6 DEF Smaller, Fifo!Smaller
  <2>4. Fifo!Get(call, count)
    BY <2>1, <2>2, <2>3 DEF Fifo!Get, Got, Fifo!Got
  <2>5. QED
    BY <1>1, <2>4 DEF Fifo!Transfer, Requests, Fifo!Requests
<1>7. QED
  BY <1>3, <1>4, <1>5, <1>6, ReadCases

(* A write appends what fits, or says why not.                             *)
LEMMA WriteRefines ==
  ASSUME PipeInv, NEW call \in Calls, NEW buffer \in Buffers,
         NEW badAddress \in BOOLEAN, Write(call, buffer, badAddress),
         call = "pipe" => readers
  PROVE  Fifo!Transfer(call)
<1>1. UNCHANGED <<readers, writers>>
  BY WriteCases DEF ends
<1>2. Len(Contents) = len
  BY ContentsSeq
<1>3. CASE len = Cap /\ Fail(call, "EAGAIN")
  BY <1>1, <1>2, <1>3, StillContents
     DEF Fail, Failed, Fifo!Failed, Fifo!Refuse, Fifo!Transfer
<1>4. CASE Fail(call, "EFAULT")
  BY <1>1, <1>4, StillContents
     DEF Fail, Failed, Fifo!Failed, Fifo!Refuse, Fifo!Transfer
<1> DEFINE n == Smaller(Len(buffer), Cap - len)
<1>5. CASE n \in 1..Len(buffer) /\ n <= Cap - len /\ Fill(call, buffer, n)
  <2>1. Contents' = Contents \o SubSeq(buffer, 1, n)
    BY <1>5, FillAppends
  <2>2. n = Fifo!Smaller(Len(buffer), Cap - Len(Contents)) /\ n > 0
    BY <1>2, <1>5 DEF Smaller, Fifo!Smaller
  <2>3. Fifo!Put(call, buffer)
    BY <1>5, <2>1, <2>2 DEF Fifo!Put, Fill, Advance, Wrote, Fifo!Wrote
  <2>4. QED
    BY <1>1, <2>3
       DEF Fifo!Transfer, Buffers, Fifo!Buffers, Requests, Fifo!Requests
<1>6. QED
  BY <1>3, <1>4, <1>5, WriteCases

(* Every step of the ring is a step of the queue, or changes nothing the   *)
(* queue shows.                                                            *)
LEMMA PipeNextRefines == PipeInv /\ [PipeNext]_pipeVars => [Fifo!Next]_(Fifo!vars)
<1> SUFFICES ASSUME PipeInv, [PipeNext]_pipeVars
             PROVE  Fifo!Next \/ UNCHANGED <<Contents, readers, writers, reply>>
  BY DEF Fifo!vars
<1>1. ASSUME NEW count \in Requests, NEW badAddress \in BOOLEAN,
             pipe_read_fd(count, badAddress)
      PROVE  Fifo!Next
  BY <1>1, ReadRefines
     DEF pipe_read_fd, PipeInv, PipeTypeOK, Fifo!Next, Calls, Fifo!Calls
<1>2. ASSUME NEW count \in Requests, NEW nonblocking \in BOOLEAN,
             NEW badAddress \in BOOLEAN,
             socket_read_fd(count, nonblocking, badAddress)
      PROVE  Fifo!Next
  BY <1>2, ReadRefines DEF socket_read_fd, Fifo!Next, Calls, Fifo!Calls
<1>3. ASSUME NEW buffer \in Buffers, NEW badAddress \in BOOLEAN,
             pipe_write_fd(buffer, badAddress)
      PROVE  Fifo!Next
  <2>1. CASE ~readers /\ Fail("pipe", "EPIPE") /\ UNCHANGED ends
    BY <2>1, StillContents
       DEF ends, Fail, Failed, Fifo!Failed, Fifo!Refuse, Fifo!Transfer,
           Fifo!Next, Fifo!Calls
  <2>2. CASE readers /\ Write("pipe", buffer, badAddress)
    BY <2>2, WriteRefines DEF Fifo!Next, Calls, Fifo!Calls
  <2>3. QED
    BY <1>3, <2>1, <2>2 DEF pipe_write_fd
<1>4. ASSUME NEW buffer \in Buffers, NEW badAddress \in BOOLEAN,
             socket_write_fd(buffer, badAddress)
      PROVE  Fifo!Next
  BY <1>4, WriteRefines DEF socket_write_fd, Fifo!Next, Calls, Fifo!Calls
<1>5. CASE ChangeEnds
  BY <1>5, StillContents DEF ChangeEnds, Fifo!Descriptors, Fifo!Next
<1>6. CASE UNCHANGED pipeVars
  BY <1>6, StillContents DEF pipeVars, ends
<1>7. QED
  BY <1>1, <1>2, <1>3, <1>4, <1>5, <1>6 DEF PipeNext

(* The kernel's ring of bytes is a bounded queue.                          *)
THEOREM RingIsQueue == PipeSpec => ImplementsFifo
<1>1. PipeSpec => []PipeInv
  BY PipeInitInv, PipeNextInv, PTL DEF PipeSpec
<1>2. QED
  BY <1>1, PipeInitRefines, PipeNextRefines, PTL DEF PipeSpec, Fifo!Spec, ImplementsFifo

(***************************************************************************)
(* The ring of the keyboard interrupt.                                     *)
(***************************************************************************)

(* A cursor wraps.                                                         *)
LEMMA AfterIs ==
  ASSUME NEW c \in Slots
  PROVE  After(c) = (IF c + 1 = Size THEN 0 ELSE c + 1) /\ After(c) \in Slots
<1>1. Size \in Nat /\ Size >= 2 /\ c \in Nat /\ c <= Size - 1
  BY QueueConstants DEF Slots
<1>2. CASE c + 1 = Size
  BY <1>1, <1>2 DEF After, Slots
<1>3. CASE c + 1 < Size
  BY <1>1, <1>3 DEF After, Slots
<1>4. QED
  BY <1>1, <1>2, <1>3

(* What pop has loaded still holds when an interrupt has come since.       *)
PopHolds ==
  /\ at \in {"loaded", "read", "store"} => loaded = tail
  /\ at \in {"read", "store"} => head # tail
  /\ at = "store" => value = slots[loaded]

QueueInv == QueueTypeOK /\ PopHolds

LEMMA QueueInitInv == QueueInit => QueueInv
<1> SUFFICES ASSUME QueueInit PROVE QueueInv
  OBVIOUS
<1>1. 0 \in Slots
  BY QueueConstants DEF Slots
<1>2. QED
  BY <1>1 DEF QueueInit, QueueInv, QueueTypeOK, PopHolds

LEMMA QueueNextInv == QueueInv /\ [QueueNext]_queueVars => QueueInv'
<1> SUFFICES ASSUME QueueInv, [QueueNext]_queueVars PROVE QueueInv'
  OBVIOUS
<1> USE DEF QueueInv, QueueTypeOK, PopHolds
<1>1. ASSUME NEW code \in Code, Push(code) PROVE QueueInv'
  <2>1. CASE After(head) = tail
    BY <1>1, <2>1 DEF Push, popVars
  <2>2. CASE After(head) # tail
    <3>1. slots' \in [Slots -> Code] /\ head' \in Slots /\ head' # tail
      BY <1>1, <2>2, AfterIs DEF Push
    <3>2. at = "store" => slots'[loaded] = slots[loaded]
      BY <1>1, <2>2 DEF Push
    <3>3. QED
      BY <1>1, <3>1, <3>2 DEF Push, popVars
  <2>3. QED
    BY <2>1, <2>2
<1>2. CASE LoadTail
  BY <1>2 DEF LoadTail
<1>3. CASE LoadHead
  BY <1>3 DEF LoadHead
<1>4. CASE ReadSlot
  BY <1>4 DEF ReadSlot
<1>5. CASE StoreTail
  BY <1>5, AfterIs DEF StoreTail
<1>6. CASE UNCHANGED queueVars
  BY <1>6 DEF queueVars, popVars
<1>7. QED
  BY <1>1, <1>2, <1>3, <1>4, <1>5, <1>6 DEF QueueNext

(* Cursors stay in the ring, and a pop holds a code of the ring.           *)
THEOREM QueueTypeCorrect == QueueSpec => []QueueTypeOK
<1>1. QueueInv => QueueTypeOK
  BY DEF QueueInv
<1>2. QED
  BY <1>1, QueueInitInv, QueueNextInv, PTL DEF QueueSpec

(***************************************************************************)
(* Refinement.                                                             *)
(***************************************************************************)

LEMMA SlotTypes ==
  ASSUME QueueTypeOK
  PROVE  /\ Count \in 0 .. Size - 1 /\ Count \in Nat
         /\ Count = 0 <=> head = tail
         /\ \A i \in 1 .. Count : Slot(i) \in Slots
BY QueueConstants DEF QueueTypeOK, Slots, Count, Slot

LEMMA WaitingType ==
  ASSUME QueueTypeOK
  PROVE  Waiting \in Seq(Code) /\ Len(Waiting) = Count
<1>1. \A i \in 1 .. Count : slots[Slot(i)] \in Code
  BY SlotTypes DEF QueueTypeOK
<1>2. Waiting \in [1 .. Count -> Code]
  BY <1>1 DEF Waiting
<1>3. QED
  BY <1>2, SlotTypes

(* A lemma holds in the next state as well.                                *)
LEMMA WaitingTypePrimed ==
  ASSUME QueueTypeOK'
  PROVE  (Waiting \in Seq(Code) /\ Len(Waiting) = Count)'
BY WaitingType, PTL

(* Sequences, element by element.                                          *)
LEMMA IsAppend ==
  ASSUME NEW S, NEW s \in Seq(S), NEW t \in Seq(S), NEW e \in S,
         Len(t) = Len(s) + 1, t[Len(s) + 1] = e,
         \A i \in 1 .. Len(s) : t[i] = s[i]
  PROVE  t = Append(s, e)
<1> DEFINE u == Append(s, e)
<1>1. /\ u \in Seq(S) /\ Len(u) = Len(s) + 1 /\ u[Len(s) + 1] = e
      /\ \A i \in 1 .. Len(s) : u[i] = s[i]
  BY AppendProperties
<1> HIDE DEF u
<1>2. Len(s) \in Nat
  BY LenProperties
<1>3. \A i \in 1 .. Len(t) : t[i] = u[i]
  BY <1>1, <1>2
<1>4. t = u
  BY <1>1, <1>3, SeqEqual
<1>5. QED
  BY <1>4 DEF u

LEMMA IsTail ==
  ASSUME NEW S, NEW s \in Seq(S), NEW t \in Seq(S), s # <<>>,
         Len(t) = Len(s) - 1, \A i \in 1 .. Len(t) : t[i] = s[i + 1]
  PROVE  t = Tail(s)
<1> DEFINE u == Tail(s)
<1>1. /\ u \in Seq(S) /\ Len(u) = Len(s) - 1
      /\ \A i \in 1 .. Len(u) : u[i] = s[i + 1]
  BY HeadTailProperties
<1> HIDE DEF u
<1>2. t = u
  BY <1>1, SeqEqual
<1>3. QED
  BY <1>2 DEF u

LEMMA PushAppends ==
  ASSUME QueueInv, NEW code \in Code, Push(code), After(head) # tail
  PROVE  Len(Waiting) < Size - 1 /\ Waiting' = Append(Waiting, code)
<1> QueueTypeOK
  BY DEF QueueInv
<1>1. /\ head \in 0 .. Size - 1 /\ tail \in 0 .. Size - 1
      /\ Size \in Nat /\ Size >= 2
  BY QueueConstants DEF QueueTypeOK, Slots
<1>2. /\ head' = (IF head + 1 = Size THEN 0 ELSE head + 1) /\ head' # tail
      /\ tail' = tail /\ slots' = [slots EXCEPT ![head] = code]
  BY AfterIs DEF Push, QueueTypeOK
<1>3. Count' = Count + 1 /\ Count < Size - 1
  <2>1. CASE head + 1 = Size
    BY <1>1, <1>2, <2>1 DEF Count
  <2>2. CASE head + 1 # Size
    BY <1>1, <1>2, <2>2 DEF Count
  <2>3. QED
    BY <2>1, <2>2
<1>4. \A i \in 1 .. Count : Slot(i) \in Slots /\ Slot(i) # head
  BY <1>1 DEF Slot, Count, Slots
<1>5. Slot(Count + 1) = head
  BY <1>1, <1>3 DEF Slot, Count
<1>6. \A i \in 1 .. Count + 1 : Slot(i)' = Slot(i)
  BY <1>2 DEF Slot
<1>7. \A i \in 1 .. Count : slots'[Slot(i)] = slots[Slot(i)]
  BY <1>2, <1>4 DEF QueueTypeOK
<1>8. slots'[head] = code
  BY <1>2 DEF QueueTypeOK
<1>9. Waiting' = [i \in 1 .. Count + 1 |-> slots'[Slot(i)]]
  BY <1>3, <1>6 DEF Waiting
<1>10. Waiting' \in Seq(Code) /\ Len(Waiting') = Count + 1
  <2>1. QueueTypeOK'
    BY QueueNextInv DEF QueueNext, QueueInv
  <2>2. (Waiting \in Seq(Code) /\ Len(Waiting) = Count)'
    BY <2>1, WaitingTypePrimed
  <2>3. QED
    BY <1>3, <2>2
<1>11. /\ Waiting'[Count + 1] = code
       /\ \A i \in 1 .. Count : Waiting'[i] = Waiting[i]
  <2>1. Count + 1 \in 1 .. Count + 1 /\ 1 .. Count \subseteq 1 .. Count + 1
    BY SlotTypes
  <2>2. Waiting'[Count + 1] = code
    BY <1>5, <1>8, <1>9, <2>1
  <2>3. \A i \in 1 .. Count : Waiting'[i] = slots'[Slot(i)]
    BY <1>9, <2>1
  <2>4. QED
    BY <1>7, <2>2, <2>3 DEF Waiting
<1>12. QED
  BY <1>3, <1>10, <1>11, WaitingType, IsAppend

LEMMA StoreRemoves ==
  ASSUME QueueInv, StoreTail
  PROVE  /\ Waiting # <<>> /\ answer' = Head(Waiting)
         /\ Waiting' = Tail(Waiting)
<1> QueueTypeOK /\ at = "store"
  BY DEF QueueInv, StoreTail
<1>1. /\ head \in 0 .. Size - 1 /\ tail \in 0 .. Size - 1
      /\ Size \in Nat /\ Size >= 2 /\ head # tail
  BY QueueConstants DEF QueueTypeOK, Slots, QueueInv, PopHolds
<1>2. /\ tail' = (IF tail + 1 = Size THEN 0 ELSE tail + 1)
      /\ head' = head /\ slots' = slots /\ answer' = slots[tail]
  BY AfterIs DEF StoreTail, QueueTypeOK, QueueInv, PopHolds
<1>3. Count' = Count - 1 /\ Count > 0
  <2>1. CASE tail + 1 = Size
    BY <1>1, <1>2, <2>1 DEF Count
  <2>2. CASE tail + 1 # Size
    BY <1>1, <1>2, <2>2 DEF Count
  <2>3. QED
    BY <2>1, <2>2
<1>4. \A i \in 1 .. Count - 1 : Slot(i)' = Slot(i + 1)
  <2>1. CASE tail + 1 = Size
    BY <1>1, <1>2, <1>3, <2>1 DEF Slot, Count
  <2>2. CASE tail + 1 # Size
    BY <1>1, <1>2, <1>3, <2>2 DEF Slot, Count
  <2>3. QED
    BY <2>1, <2>2
<1>5. Waiting' = [i \in 1 .. Count - 1 |-> slots[Slot(i + 1)]]
  BY <1>2, <1>3, <1>4 DEF Waiting
<1>6. Waiting # <<>> /\ Head(Waiting) = Waiting[1]
  BY <1>3, WaitingType
<1>7. Waiting' \in Seq(Code) /\ Len(Waiting') = Count - 1
  <2>1. QueueTypeOK'
    BY QueueNextInv DEF QueueNext, QueueInv
  <2>2. (Waiting \in Seq(Code) /\ Len(Waiting) = Count)'
    BY <2>1, WaitingTypePrimed
  <2>3. QED
    BY <1>3, <2>2
<1>8. \A i \in 1 .. Count - 1 : Waiting'[i] = Waiting[i + 1]
  <2>1. \A i \in 1 .. Count - 1 : i + 1 \in 1 .. Count
    BY SlotTypes
  <2>2. QED
    BY <1>5, <2>1 DEF Waiting
<1>9. Waiting[1] = slots[tail]
  <2>1. Slot(1) = tail /\ 1 \in 1 .. Count
    BY <1>1, <1>3, SlotTypes DEF Slot
  <2>2. QED
    BY <2>1 DEF Waiting
<1>10. Waiting' = Tail(Waiting)
  BY <1>6, <1>7, <1>8, WaitingType, IsTail
<1>11. QED
  BY <1>2, <1>6, <1>9, <1>10

LEMMA WaitingStays == UNCHANGED <<slots, head, tail>> => Waiting' = Waiting
BY DEF Waiting, Count, Slot

LEMMA CodeInitRefines == QueueInit => CodeFifo!Init
<1> SUFFICES ASSUME QueueInit PROVE CodeFifo!Init
  OBVIOUS
<1>1. QueueTypeOK /\ head = tail /\ answer = None
  BY QueueInitInv DEF QueueInv, QueueInit
<1>2. Waiting = <<>>
  BY <1>1, WaitingType, SlotTypes, EmptySeq
<1>3. QED
  BY <1>1, <1>2 DEF CodeFifo!Init

LEMMA CodeNextRefines ==
  QueueInv /\ [QueueNext]_queueVars => [CodeFifo!Next]_<<Waiting, answer>>
<1> SUFFICES ASSUME QueueInv, [QueueNext]_queueVars
             PROVE  [CodeFifo!Next]_<<Waiting, answer>>
  OBVIOUS
<1>1. ASSUME NEW code \in Code, Push(code)
      PROVE  [CodeFifo!Next]_<<Waiting, answer>>
  <2>1. CASE After(head) = tail
    BY <1>1, <2>1, WaitingStays DEF Push, popVars
  <2>2. CASE After(head) # tail
    <3>1. Len(Waiting) < Size - 1 /\ Waiting' = Append(Waiting, code)
      BY <1>1, <2>2, PushAppends
    <3>2. answer' = answer
      BY <1>1 DEF Push, popVars
    <3>3. QED
      BY <3>1, <3>2 DEF CodeFifo!Next, CodeFifo!Push
  <2>3. QED
    BY <2>1, <2>2
<1>2. CASE LoadTail
  BY <1>2, WaitingStays DEF LoadTail
<1>3. CASE LoadHead
  <2>1. Waiting' = Waiting
    BY <1>3, WaitingStays DEF LoadHead
  <2>2. CASE loaded = head
    <3>1. head = tail /\ QueueTypeOK /\ answer' = None
      BY <1>3, <2>2 DEF QueueInv, PopHolds, LoadHead
    <3>2. Waiting = <<>>
      BY <3>1, WaitingType, SlotTypes, EmptySeq
    <3>3. QED
      BY <2>1, <3>1, <3>2 DEF CodeFifo!Next, CodeFifo!PopNone
  <2>3. CASE loaded # head
    BY <1>3, <2>1, <2>3 DEF LoadHead
  <2>4. QED
    BY <2>2, <2>3
<1>4. CASE ReadSlot
  BY <1>4, WaitingStays DEF ReadSlot
<1>5. CASE StoreTail
  BY <1>5, StoreRemoves DEF CodeFifo!Next, CodeFifo!Pop
<1>6. CASE UNCHANGED queueVars
  BY <1>6, WaitingStays DEF queueVars, popVars
<1>7. QED
  BY <1>1, <1>2, <1>3, <1>4, <1>5, <1>6 DEF QueueNext

(* For every size of the ring, the wrapping cursors of the keyboard and of *)
(* the terminal make a bounded queue, wherever the interrupt comes.        *)
THEOREM RefinesFifo == QueueSpec => ImplementsCodeFifo
<1>1. QueueInv /\ [QueueNext]_queueVars => [CodeFifo!Next]_<<Waiting, answer>>
  BY CodeNextRefines
<1>2. QED
  BY <1>1, QueueInitInv, QueueNextInv, CodeInitRefines, PTL
     DEF QueueSpec, ImplementsCodeFifo, CodeFifo!Spec

(***************************************************************************)
(* The terminal: types and bounds.                                         *)
(***************************************************************************)

LEMMA Elements ==
  ASSUME NEW S, NEW s \in Seq(S)
  PROVE  /\ Len(s) \in Nat /\ DOMAIN s = 1..Len(s)
         /\ \A i \in 1..Len(s) : s[i] \in S
         /\ s # <<>> => 1 \in 1..Len(s)
BY EmptySeq

LEMMA RingRoom ==
  ASSUME TypeOK
  PROVE  /\ RingSize \in Nat \ {0} /\ LineSize \in Nat \ {0}
         /\ InputCount \in 0..(RingSize - 1)
         /\ Room \in 0..(RingSize - 1)
         /\ Room = RingSize - 1 - InputCount
         /\ \A c \in Nat : c % RingSize \in InputSlots /\ c % RingSize \in Nat
         /\ input_head \in Nat /\ input_tail \in Nat
         /\ input_head < RingSize /\ input_tail < RingSize
<1>1. RingSize \in Nat \ {0} /\ LineSize \in Nat \ {0}
  BY TtyConstants
<1>2. \A c \in Nat : c % RingSize \in 0..(RingSize - 1)
  BY <1>1
<1>0. /\ input_head \in Nat /\ input_tail \in Nat
      /\ input_head < RingSize /\ input_tail < RingSize
  BY <1>1 DEF TypeOK, InputSlots
<1>3. input_tail + RingSize - input_head \in Nat
  BY <1>0, <1>1
<1>4. InputCount \in 0..(RingSize - 1)
  BY <1>2, <1>3 DEF InputCount
<1>5. QED
  BY <1>0, <1>1, <1>2, <1>4 DEF Room, InputSlots

LEMMA FitsIn ==
  ASSUME TypeOK, NEW bytes \in Seq(ByteType)
  PROVE  /\ Fits(bytes) \in Nat
         /\ Fits(bytes) <= Len(bytes) /\ Fits(bytes) <= Room
         /\ Fits(bytes) = Len(bytes) \/ Fits(bytes) = Room
<1>1. Len(bytes) \in Nat /\ Room \in Nat
  BY LenProperties, RingRoom
<1>2. QED
  BY <1>1 DEF Fits

LEMMA PushAllType ==
  ASSUME TypeOK, NEW bytes \in Seq(ByteType), PushAll(bytes)
  PROVE  /\ input' \in [InputSlots -> ByteType]
         /\ input_head' = input_head /\ input_tail' \in InputSlots
<1>1. ASSUME NEW i \in InputSlots
      PROVE  input'[i] \in ByteType
  <2> DEFINE d == (i + RingSize - input_tail) % RingSize
  <2>0. i + RingSize - input_tail \in Nat
    <3>1. RingSize \in Nat /\ input_tail \in Nat /\ input_tail < RingSize
      BY RingRoom
    <3>2. i \in Nat
      BY <3>1 DEF InputSlots
    <3>3. QED
      BY <3>1, <3>2
  <2>1. d \in Nat
    BY <2>0, RingRoom
  <2>2. input'[i] = IF d < Fits(bytes) THEN bytes[d + 1] ELSE input[i]
    BY DEF PushAll
  <2>3. d < Fits(bytes) => bytes[d + 1] \in ByteType
    <3> HIDE DEF d
    <3>1. SUFFICES ASSUME d < Fits(bytes) PROVE d + 1 \in 1..Len(bytes)
      BY ElementOfSeq
    <3>2. Len(bytes) \in Nat
      BY LenProperties
    <3>3. QED
      BY <2>1, <3>1, <3>2, FitsIn
  <2>4. QED
    BY <2>2, <2>3 DEF TypeOK
<1>2. input' \in [InputSlots -> ByteType]
  BY <1>1 DEF PushAll
<1>3. input_tail \in Nat /\ Fits(bytes) \in Nat
  BY RingRoom, FitsIn
<1>4. input_tail' \in InputSlots
  BY <1>3, RingRoom DEF PushAll
<1>5. QED
  BY <1>2, <1>4 DEF PushAll

LEMMA KeysOfType ==
  ASSUME NEW bytes \in Seq(ByteType)
  PROVE  KeysOf(bytes) \subseteq 0..MaxKeys
<1>1. \A i \in 1..Len(bytes) : bytes[i] \in ByteType
  BY ElementOfSeq
<1>2. QED
  BY <1>1 DEF KeysOf, ByteType

LEMMA NotFittingType ==
  ASSUME TypeOK, NEW bytes \in Seq(ByteType)
  PROVE  NotFitting(bytes) \subseteq 0..MaxKeys
<1> DEFINE tailing == SubSeq(bytes, Fits(bytes) + 1, Len(bytes))
<1>1. Len(bytes) \in Int /\ Fits(bytes) + 1 \in Int /\ Fits(bytes) + 1 >= 1
  BY FitsIn, LenProperties
<1>2. \A i \in (Fits(bytes) + 1)..Len(bytes) : bytes[i] \in ByteType
  BY <1>1, ElementOfSeq
<1>3. tailing \in Seq(ByteType)
  BY <1>1, <1>2, SubSeqProperties
<1>4. QED
  BY <1>3, KeysOfType DEF NotFitting

LEMMA LineType ==
  ASSUME TypeOK, NEW from \in 0..line_len
  PROVE  /\ Line(from) \in Seq(ByteType)
         /\ Len(Line(from)) = line_len - from
         /\ \A i \in 1..(line_len - from) : Line(from)[i] = line[from + i - 1]
<1>1. LineSize \in Nat \ {0}
  BY TtyConstants
<1>2. \A i \in 1..(line_len - from) : from + i - 1 \in 0..(LineSize - 1)
  BY <1>1 DEF TypeOK
<1>3. line_len - from \in Nat
  BY <1>1 DEF TypeOK
<1>4. Line(from) \in [1..(line_len - from) -> ByteType]
  BY <1>2 DEF TypeOK, Line
<1>5. Len(Line(from)) = line_len - from
  BY <1>3 DEF Line
<1>6. \A i \in 1..(line_len - from) : Line(from)[i] = line[from + i - 1]
  BY DEF Line
<1>7. QED
  BY <1>3, <1>4, <1>5, <1>6, SeqDef

LEMMA TtyInitInv == Init => TtyInv
<1> SUFFICES ASSUME Init PROVE TtyInv
  OBVIOUS
<1>1. /\ 0 \in InputSlots /\ 0 \in 0..(LineSize - 1) /\ 0 \in 0..LineSize
      /\ 0 \in 0..MaxKeys /\ 0 <= QueueMax
  BY TtyConstants DEF InputSlots
<1>2. NoByte \in ByteType
  BY <1>1 DEF NoByte, ByteType, ByteNames
<1>3. /\ queue = <<>> /\ out = <<>>
  BY DEF Init
<1>4. /\ queue \in Seq([code : Codes, key : Keys]) /\ out \in Seq(ByteType)
      /\ Len(queue) = 0 /\ DOMAIN queue = {} /\ DOMAIN out = {}
  BY <1>3
<1>5. TypeOK
  BY <1>1, <1>2, <1>4 DEF Init, TypeOK, Mode
<1>6. raw.key = 0
  BY DEF Init, NoByte
<1>7. LinePlace
  BY <1>4, <1>6 DEF Init, LinePlace
<1>8. QED
  BY <1>5, <1>7 DEF TtyInv

(* Bytes go in and out of sequences.                                       *)
LEMMA OutGrows ==
  ASSUME TtyInv, NEW b \in ByteNames, NEW k \in 0..MaxKeys
  PROVE  /\ Append(out, KeyByte(b, k)) \in Seq(ByteType)
         /\ \A i \in DOMAIN Append(out, KeyByte(b, k)) :
              Append(out, KeyByte(b, k))[i] \in ByteType
<1>1. KeyByte(b, k) \in ByteType
  BY DEF KeyByte, ByteType
<1>2. out \in Seq(ByteType)
  BY DEF TtyInv, LinePlace
<1>3. Append(out, KeyByte(b, k)) \in Seq(ByteType)
  BY <1>1, <1>2
<1>4. QED
  BY <1>3, LenProperties, ElementOfSeq

LEMMA DeliverInv ==
  ASSUME TtyInv, NEW b \in ByteNames, NEW k \in 0..MaxKeys, Deliver(b, k)
  PROVE  /\ out' \in Seq(ByteType)
         /\ \A i \in DOMAIN out' : out'[i] \in ByteType
         /\ dropped' \subseteq 0..MaxKeys
         /\ pc' = "user" /\ enabled' = FALSE /\ pending' = FALSE
         /\ raw' = NoByte /\ seen' = 0 /\ index' = 0 /\ next' = 0
         /\ halted' = halted /\ direct' = direct
<1>1. CASE Consumed(b, k)
  BY <1>1, OutGrows DEF Deliver, Consumed, ToUser, TtyInv, TypeOK
<1>2. CASE GivenUp(k)
  BY <1>2 DEF Deliver, GivenUp, ToUser, TtyInv, TypeOK, LinePlace
<1>3. QED
  BY <1>1, <1>2 DEF Deliver

LEMMA Zeros ==
  /\ NoByte \in ByteType /\ NoByte.key = 0
  /\ LineSize \in Nat \ {0} /\ MaxKeys \in Nat
  /\ 0 \in InputSlots /\ 0 \in 0..(LineSize - 1) /\ 0 \in 0..LineSize
BY TtyConstants DEF NoByte, ByteType, ByteNames, InputSlots

(* Interrupts.                                                             *)
LEMMA InterruptPlace ==
  ASSUME TtyInv, Interrupt
  PROVE  /\ halted' \in BOOLEAN /\ mode' \in Mode /\ enabled' \in BOOLEAN
         /\ line' = line /\ seen' = seen /\ index' = index /\ raw' = raw
         /\ next' = next /\ out' = out /\ pc' = IF pc = "halt" THEN "check" ELSE pc
BY DEF Interrupt, TtyInv, TypeOK, locals

(* What an interrupt may do to the rest.                                   *)
LEMMA InterruptInv ==
  ASSUME TtyInv, Interrupt,
         ctrl' \in BOOLEAN, pending' \in BOOLEAN, raced' \in BOOLEAN,
         queue' \in Seq([code : Codes, key : Keys]), Len(queue') <= QueueMax,
         input' \in [InputSlots -> ByteType], input_head' = input_head,
         input_tail' \in InputSlots, line_len' \in {0, line_len},
         typed' \in 0..MaxKeys, direct' \subseteq Keys,
         dropped' \subseteq 0..MaxKeys
  PROVE  TtyInv'
<1> USE DEF TtyInv
<1>1. \A i \in DOMAIN queue' : queue'[i] \in [code : Codes, key : Keys]
  BY LenProperties, ElementOfSeq
<1>2. line_len' \in 0..(LineSize - 1)
  BY Zeros DEF TypeOK
<1>3. TypeOK'
  BY <1>1, <1>2, InterruptPlace DEF TypeOK
<1>4. pc' \in {"store", "count"} => line_len' <= seen' /\ seen' < LineSize - 1
  BY InterruptPlace, Zeros DEF TypeOK, LinePlace
<1>5. LinePlace'
  BY <1>4, InterruptPlace DEF LinePlace
<1>6. QED
  BY <1>3, <1>5

LEMMA KeyTyped ==
  ASSUME TtyInv, typed < MaxKeys, typed' = typed + 1, NEW b \in ByteNames
  PROVE  /\ typed' \in Keys /\ typed' \in 0..MaxKeys
         /\ KeyByte(b, typed') \in ByteType
         /\ <<KeyByte(b, typed')>> \in Seq(ByteType)
<1>1. typed' \in Keys /\ typed' \in 0..MaxKeys
  BY TtyConstants DEF TtyInv, TypeOK, Keys
<1>2. KeyByte(b, typed') \in ByteType
  BY <1>1 DEF KeyByte, ByteType
<1>3. QED
  BY <1>1, <1>2

LEMMA PushKeyInv ==
  ASSUME TtyInv, Interrupt, typed < MaxKeys, typed' = typed + 1, ctrl' = ctrl,
         NEW b \in ByteNames, PushKey(b)
  PROVE  TtyInv'
<1> DEFINE bytes == <<KeyByte(b, typed')>>
<1>1. bytes \in Seq(ByteType) /\ typed' \in Keys /\ typed' \in 0..MaxKeys
  BY KeyTyped
<1> HIDE DEF bytes
<1>2. /\ PushAll(bytes) /\ dropped' = dropped \union NotFitting(bytes)
      /\ direct' = direct \union {typed'} /\ raced' = (raced \/ Pushes)
      /\ queue' = queue /\ pending' = pending /\ line_len' = line_len
  BY DEF PushKey, bytes
<1>3. NotFitting(bytes) \subseteq 0..MaxKeys
  BY <1>1, NotFittingType DEF TtyInv
<1>4. /\ input' \in [InputSlots -> ByteType]
      /\ input_head' = input_head /\ input_tail' \in InputSlots
  BY <1>1, <1>2, PushAllType DEF TtyInv
<1>5. raced' \in BOOLEAN
  BY <1>2
<1>6. QED
  BY <1>1, <1>2, <1>3, <1>4, <1>5, InterruptInv DEF TtyInv, TypeOK, LinePlace

LEMMA KillInv ==
  ASSUME TtyInv, Interrupt, typed < MaxKeys, typed' = typed + 1, ctrl' = ctrl,
         Kill
  PROVE  TtyInv'
<1>1. /\ <<KeyByte("etx", typed')>> \in Seq(ByteType)
      /\ typed' \in Keys /\ typed' \in 0..MaxKeys
  BY KeyTyped DEF ByteNames
<1>2. KeysOf(Line(0)) \subseteq 0..MaxKeys
  BY LineType, KeysOfType, Zeros DEF TtyInv, TypeOK
<1>3. /\ line_len' = 0 /\ queue' = queue /\ direct' = direct \union {typed'}
      /\ raced' = (raced \/ EditsLine)
  BY DEF Kill
<1>4. /\ pending' \in BOOLEAN /\ dropped' \subseteq 0..MaxKeys
      /\ input' \in [InputSlots -> ByteType]
      /\ input_head' = input_head /\ input_tail' \in InputSlots
  <2>1. CASE mode.isig
    BY <1>1, <1>2, <2>1 DEF Kill, inputVars, TtyInv, TypeOK
  <2>2. CASE ~mode.isig
    BY <1>1, <1>2, <2>2, NotFittingType, PushAllType DEF Kill, TtyInv, TypeOK
  <2>3. QED
    BY <2>1, <2>2
<1>5. raced' \in BOOLEAN
  BY <1>3
<1>6. QED
  BY <1>1, <1>3, <1>4, <1>5, InterruptInv DEF TtyInv, TypeOK, LinePlace

LEMMA EndOfFileInv ==
  ASSUME TtyInv, Interrupt, typed < MaxKeys, typed' = typed + 1, ctrl' = ctrl,
         EndOfFile
  PROVE  TtyInv'
<1>1. CASE ~mode.canon \/ line_len = 0
  BY <1>1, PushKeyInv DEF EndOfFile, ByteNames
<1>2. CASE mode.canon /\ line_len # 0
  <2> DEFINE bytes == Append(Line(0), KeyByte("nl", typed'))
  <2>1. KeyByte("nl", typed') \in ByteType /\ typed' \in Keys /\ typed' \in 0..MaxKeys
    BY KeyTyped DEF ByteNames
  <2>2. Line(0) \in Seq(ByteType)
    BY LineType, Zeros DEF TtyInv, TypeOK
  <2>3. bytes \in Seq(ByteType)
    BY <2>1, <2>2
  <2> HIDE DEF bytes
  <2>4. /\ PushAll(bytes) /\ dropped' = dropped \union NotFitting(bytes)
        /\ line_len' = 0 /\ direct' = direct \union {typed'}
        /\ raced' = (raced \/ EditsLine) /\ queue' = queue /\ pending' = pending
    BY <1>2 DEF EndOfFile, bytes
  <2>5. NotFitting(bytes) \subseteq 0..MaxKeys
    BY <2>3, NotFittingType DEF TtyInv
  <2>6. /\ input' \in [InputSlots -> ByteType]
        /\ input_head' = input_head /\ input_tail' \in InputSlots
    BY <2>3, <2>4, PushAllType DEF TtyInv
  <2>7. raced' \in BOOLEAN
    BY <2>4
  <2>8. QED
    BY <2>1, <2>4, <2>5, <2>6, <2>7, InterruptInv DEF TtyInv, TypeOK, LinePlace
<1>3. QED
  BY <1>1, <1>2

LEMMA KeyPressInv ==
  ASSUME TtyInv, NEW code \in Codes, KeyPress(code)
  PROVE  TtyInv'
<1>1. Interrupt /\ typed < MaxKeys /\ typed' = typed + 1 /\ ctrl' = ctrl
  BY DEF KeyPress
<1>2. CASE Kill
  BY <1>1, <1>2, KillInv
<1>3. CASE EndOfFile
  BY <1>1, <1>3, EndOfFileInv
<1>4. CASE PushKey("ff")
  BY <1>1, <1>4, PushKeyInv DEF ByteNames
<1>5. CASE QueueKey(code)
  <2> DEFINE new == [code |-> code, key |-> typed']
  <2>1. typed' \in Keys /\ typed' \in 0..MaxKeys
    BY <1>1, KeyTyped DEF ByteNames
  <2>2. new \in [code : Codes, key : Keys]
    BY <2>1
  <2>3. queue \in Seq([code : Codes, key : Keys]) /\ Len(queue) <= QueueMax
    BY DEF TtyInv, TypeOK, LinePlace
  <2> HIDE DEF new
  <2>4. /\ Append(queue, new) \in Seq([code : Codes, key : Keys])
        /\ Len(Append(queue, new)) = Len(queue) + 1 /\ Len(queue) \in Nat
    BY <2>2, <2>3
  <2>5. /\ queue' = IF Len(queue) < QueueMax THEN Append(queue, new) ELSE queue
        /\ dropped' = IF Len(queue) < QueueMax THEN dropped
                                               ELSE dropped \union {typed'}
        /\ UNCHANGED <<pending, inputVars, line_len, direct, raced>>
    BY <1>5 DEF QueueKey, new
  <2>6. queue' \in Seq([code : Codes, key : Keys]) /\ Len(queue') <= QueueMax
    <3>1. CASE Len(queue) < QueueMax
      BY <2>4, <2>5, <3>1, TtyConstants
    <3>2. CASE ~(Len(queue) < QueueMax)
      BY <2>3, <2>5, <3>2
    <3>3. QED
      BY <3>1, <3>2
  <2>7. QED
    BY <1>1, <2>1, <2>5, <2>6, InterruptInv DEF TtyInv, TypeOK, inputVars
<1>6. QED
  BY <1>2, <1>3, <1>4, <1>5 DEF KeyPress

LEMMA TickInv ==
  ASSUME TtyInv, TimerTick \/ Control
  PROVE  TtyInv'
<1>1. /\ Interrupt
      /\ UNCHANGED <<queue, pending, inputVars, line_len, typed, direct,
                     dropped, raced>>
      /\ ctrl' \in BOOLEAN
  BY DEF TimerTick, Control, TtyInv, TypeOK
<1>2. QED
  BY <1>1, InterruptInv DEF TtyInv, TypeOK, inputVars, LinePlace

----------------------------------------------------------------------------
(* The reader.                                                             *)
LEMMA StartInv ==
  ASSUME TtyInv, set_lflag \/ StartRead
  PROVE  TtyInv'
<1>1. CASE set_lflag
  BY <1>1, TtyConstants DEF set_lflag, KeepShared, KeepLocals, TtyInv, TypeOK,
     LinePlace, inputVars, lineVars, locals, ghosts
<1>2. CASE StartRead
  BY <1>2 DEF StartRead, Reader, KeepShared, KeepLocals, TtyInv, TypeOK,
     LinePlace, inputVars, lineVars, locals
<1>3. QED
  BY <1>1, <1>2

LEMMA GotoInv ==
  ASSUME TtyInv, NEW from, NEW to \in {"check", "pop", "poll", "recheck", "sleep"},
         from \in {"check", "pop", "poll", "take", "recheck"},
         Reader(from), Goto(to)
  PROVE  TtyInv'
BY DEF Goto, Reader, KeepShared, KeepLocals, TtyInv, TypeOK, LinePlace,
   inputVars, lineVars, locals

LEMMA CheckSignalInv ==
  ASSUME TtyInv, CheckSignal("check", "pop") \/ CheckSignal("recheck", "sleep")
  PROVE  TtyInv'
<1>1. CASE \E from \in {"check", "recheck"} : Reader(from) /\ pending /\ ToUser
             /\ UNCHANGED <<queue, inputVars, lineVars, out, dropped>>
  BY <1>1, Zeros DEF Reader, ToUser, TtyInv, TypeOK, LinePlace, inputVars, lineVars
<1>2. QED
  BY <1>1, GotoInv DEF CheckSignal

LEMMA PopInv ==
  ASSUME TtyInv, Pop("pop", "poll") \/ Pop("take", "check")
  PROVE  TtyInv'
<1>1. ASSUME NEW from, Reader(from), pop_input
      PROVE  TtyInv'
  <2> DEFINE b == input[input_head].byte
             k == input[input_head].key
  <2>1. b \in ByteNames /\ k \in 0..MaxKeys
    BY DEF TtyInv, TypeOK, ByteType
  <2> HIDE DEF b, k
  <2>2. Deliver(b, k)
    BY <1>1 DEF pop_input, b, k
  <2>3. input_head' \in InputSlots
    BY <1>1, RingRoom DEF pop_input, TtyInv
  <2>4. UNCHANGED <<input, input_tail, queue, lineVars, ctrl, mode, typed, raced>>
    BY <1>1 DEF pop_input, Reader
  <2>5. QED
    BY <2>1, <2>2, <2>3, <2>4, DeliverInv, Zeros
       DEF TtyInv, TypeOK, LinePlace, lineVars
<1>2. QED
  BY <1>1, GotoInv DEF Pop

LEMMA PollInv ==
  ASSUME TtyInv, PollSerial \/ PollKeyboard \/ PollNothing
  PROVE  TtyInv'
<1>1. CASE PollSerial
  <2>1. PICK b \in SerialBytes : raw' = KeyByte(b, typed')
    BY <1>1 DEF PollSerial
  <2>2. b \in ByteNames
    BY <2>1, TtyConstants
  <2>3. raw' \in ByteType /\ raw'.key # 0 /\ typed' \in Keys /\ typed' \in 0..MaxKeys
    BY <1>1, <2>1, <2>2, KeyTyped DEF PollSerial, KeyByte, Keys
  <2>4. QED
    BY <1>1, <2>3 DEF PollSerial, KeepShared, TtyInv, TypeOK, LinePlace,
       inputVars, lineVars
<1>2. CASE PollKeyboard
  <2>1. queue \in Seq([code : Codes, key : Keys]) /\ queue # <<>>
    BY <1>2 DEF PollKeyboard, TtyInv, LinePlace
  <2>2. /\ queue' = Tail(queue) /\ queue' \in Seq([code : Codes, key : Keys])
        /\ Len(queue') = Len(queue) - 1 /\ Len(queue) \in Nat
        /\ queue[1] \in [code : Codes, key : Keys]
    <3>1. queue' = Tail(queue)
      BY <1>2 DEF PollKeyboard
    <3>2. Len(queue) \in Nat /\ queue[1] \in [code : Codes, key : Keys]
      BY <2>1, Elements
    <3>3. QED
      BY <2>1, <3>1, <3>2, HeadTailProperties
  <2>3. Len(queue') <= QueueMax
    BY <2>2, TtyConstants DEF TtyInv, TypeOK
  <2>4. \A i \in DOMAIN queue' : queue'[i] \in [code : Codes, key : Keys]
    <3> DEFINE T == [code : Codes, key : Keys]
    <3>1. queue' \in Seq(T)
      BY <2>2
    <3> HIDE DEF T
    <3>2. \A i \in DOMAIN queue' : queue'[i] \in T
      BY <3>1, Elements
    <3>3. QED
      BY <3>2 DEF T
  <2>5. queue[1].key \in Keys /\ queue[1].key # 0 /\ queue[1].key \in 0..MaxKeys
    BY <2>2, TtyConstants DEF Keys
  <2>6. CASE pc' = "recheck" /\ GivenUp(queue[1].key) /\ raw' = raw
    BY <1>2, <2>2, <2>3, <2>4, <2>5, <2>6 DEF PollKeyboard, GivenUp, Reader, TtyInv,
       TypeOK, LinePlace, inputVars, lineVars
  <2>7. ASSUME pc' = "process", UNCHANGED <<out, dropped>>,
               NEW b \in ByteNames, raw' = KeyByte(b, queue[1].key)
        PROVE  TtyInv'
    <3>1. raw' \in ByteType /\ raw'.key # 0
      BY <2>5, <2>7 DEF KeyByte, ByteType
    <3>2. QED
      BY <1>2, <2>2, <2>3, <2>4, <2>7, <3>1 DEF PollKeyboard, Reader, TtyInv,
         TypeOK, LinePlace, inputVars, lineVars
  <2>8. keyboard_ascii(queue[1].code) \subseteq ByteNames
    BY DEF keyboard_ascii, ByteNames
  <2>9. QED
    BY <1>2, <2>6, <2>7, <2>8 DEF PollKeyboard
<1>3. CASE PollNothing
  BY <1>3, GotoInv DEF PollNothing
<1>4. QED
  BY <1>1, <1>2, <1>3

(* The line editor.                                                        *)
LEMMA ProcessInv ==
  ASSUME TtyInv, ProcessSignal \/ ProcessUncooked \/ ProcessDelete \/ ProcessEof
                 \/ ProcessOther
  PROVE  TtyInv'
<1> USE Zeros DEF TtyInv
<1>1. /\ raw \in ByteType /\ raw.byte \in ByteNames /\ raw.key \in 0..MaxKeys
      /\ "nul" \in ByteNames
  BY DEF TypeOK, ByteType, ByteNames
<1>2. CASE ProcessSignal
  <2>1. KeysOf(Line(0)) \subseteq 0..MaxKeys
    BY LineType, KeysOfType DEF TypeOK
  <2>2. QED
    BY <1>1, <1>2, <2>1 DEF ProcessSignal, Process, Reader, Done, TypeOK, LinePlace,
       inputVars
<1>3. CASE ProcessUncooked
  <2>1. Deliver(raw.byte, raw.key) /\ line_len' = line_len /\ Process
    BY <1>3 DEF ProcessUncooked
  <2>2. QED
    BY <1>1, <2>1, DeliverInv DEF Process, Reader, TypeOK, LinePlace, inputVars
<1>4. CASE ProcessDelete
  BY <1>1, <1>4 DEF ProcessDelete, Edits, Process, Reader, Done, GivenUp, TypeOK,
     LinePlace, inputVars
<1>5. CASE ProcessEof
  <2>1. CASE line_len = 0 /\ Deliver("nul", raw.key)
    BY <1>1, <1>5, <2>1, DeliverInv DEF ProcessEof, Edits, Process, Reader, TypeOK,
       LinePlace, inputVars
  <2>2. CASE ~Deliver("nul", raw.key) \/ line_len # 0
    BY <1>1, <1>5, <2>2 DEF ProcessEof, Edits, Process, Reader, TypeOK, LinePlace,
       inputVars, locals
  <2>3. QED
    BY <2>1, <2>2
<1>6. CASE ProcessOther
  <2>1. /\ pc = "process"
        /\ UNCHANGED <<queue, inputVars, line, direct, ctrl, mode, typed, raced,
                       pending, line_len>>
    BY <1>6 DEF ProcessOther, Edits, Process, Reader
  <2>2. CASE Done({})
    BY <1>1, <2>1, <2>2 DEF Done, TypeOK, LinePlace, inputVars
  <2>3. CASE /\ ~LineFull /\ pc' = "store" /\ seen' = line_len
             /\ UNCHANGED <<halted, enabled, raw, index, next, out, dropped>>
    <3>1. line_len \in Nat /\ line_len < LineSize - 1
      BY <2>3 DEF LineFull, TypeOK
    <3>2. QED
      BY <2>1, <2>3, <3>1 DEF TypeOK, LinePlace, inputVars
  <2>4. QED
    BY <1>6, <2>2, <2>3 DEF ProcessOther
<1>7. QED
  BY <1>2, <1>3, <1>4, <1>5, <1>6

LEMMA EditInv ==
  ASSUME TtyInv, BeginFlush \/ Erase \/ Store \/ CountUp \/ Clear
  PROVE  TtyInv'
<1> USE Zeros DEF TtyInv
<1>1. CASE BeginFlush
  <2>1. /\ pc \in {"process", "flush"}
        /\ UNCHANGED <<queue, inputVars, line, direct, ctrl, mode, typed, raced>>
    BY <1>1 DEF BeginFlush, Edits, Process, Reader
  <2>2. QED
    BY <1>1, <2>1 DEF BeginFlush, TypeOK, LinePlace, inputVars
<1>2. CASE Erase
  <2>1. PICK n \in Rereads :
          IF n = 0
          THEN halted' = TRUE /\ UNCHANGED <<line_len, dropped>>
          ELSE /\ line_len' = n - 1
               /\ dropped' = dropped \union {line[n - 1].key}
               /\ halted' = halted
    BY <1>2 DEF Erase
  <2>2. n \in 0..(LineSize - 1)
    BY DEF Rereads, TypeOK
  <2>3. n # 0 => n - 1 \in 0..(LineSize - 1) /\ line[n - 1].key \in 0..MaxKeys
    BY <2>2 DEF TypeOK, ByteType
  <2>4. /\ line_len' \in 0..(LineSize - 1) /\ dropped' \subseteq 0..MaxKeys
        /\ halted' \in BOOLEAN
    BY <2>1, <2>3 DEF TypeOK
  <2>5. QED
    BY <1>2, <2>4 DEF Erase, Reader, TypeOK, LinePlace, inputVars
<1>3. CASE Store
  <2>1. PICK n \in Rereads : line' = [line EXCEPT ![n] = raw]
    BY <1>3 DEF Store
  <2>2. line' \in [0..(LineSize - 1) -> ByteType]
    BY <2>1 DEF Rereads, TypeOK
  <2>3. QED
    BY <1>3, <2>2 DEF Store, Reader, KeepRing, TypeOK, LinePlace, inputVars, locals
<1>4. CASE CountUp
  <2>1. PICK n \in Rereads : line_len' = n + 1
    BY <1>4 DEF CountUp
  <2>2. n \in 0..(LineSize - 2)
    BY <1>4 DEF CountUp, Reader, Rereads, TypeOK, LinePlace
  <2>3. line_len' \in 0..(LineSize - 1)
    BY <2>1, <2>2
  <2>4. QED
    BY <1>4, <2>3 DEF CountUp, Reader, KeepRing, TypeOK, LinePlace, inputVars
<1>5. CASE Clear
  BY <1>5 DEF Clear, Reader, KeepRing, TypeOK, LinePlace, inputVars
<1>6. QED
  BY <1>1, <1>2, <1>3, <1>4, <1>5

LEMMA FlushInv ==
  ASSUME TtyInv, Load \/ StoreByte
  PROVE  TtyInv'
<1> USE Zeros DEF TtyInv
<1>1. pc \in {"load", "push"} /\ index <= seen
  BY DEF Load, StoreByte, Reader, LinePlace
<1>2. Sent \in ByteType /\ Sent.key \in 0..MaxKeys
  <2>1. index < seen => index \in 0..(LineSize - 1)
    BY DEF TypeOK
  <2>2. index < seen => line[index] \in ByteType
    BY <2>1 DEF TypeOK
  <2>3. KeyByte("nl", raw.key) \in ByteType
    BY DEF KeyByte, ByteType, ByteNames, TypeOK
  <2>4. Sent \in ByteType
    BY <2>2, <2>3 DEF Sent
  <2>5. QED
    BY <2>4 DEF ByteType
<1>3. ASSUME NextByte
      PROVE  /\ index' \in 0..LineSize /\ pc' \in {"clear", "load"}
             /\ pc' = "load" => index' <= seen
             /\ raw' \in ByteType /\ (raw'.key # 0 <=> pc' = "load")
  BY <1>1, <1>3 DEF NextByte, TypeOK, LinePlace
<1>4. CASE Load
  <2> DEFINE after == (input_tail + 1) % RingSize
  <2>1. after \in InputSlots
    BY RingRoom
  <2> HIDE DEF after
  <2>2. UNCHANGED <<halted, queue, pending, inputVars, enabled, direct, lineVars,
                    seen, ctrl, mode, typed, raced>>
    BY <1>4 DEF Load, Reader, KeepRing
  <2>3. CASE NextByte /\ GivenUp(Sent.key) /\ next' = next
    BY <1>2, <1>3, <2>2, <2>3 DEF GivenUp, TypeOK, LinePlace, inputVars, lineVars
  <2>4. CASE pc' = "push" /\ next' = after /\ UNCHANGED <<raw, index, out, dropped>>
    BY <1>1, <2>1, <2>2, <2>4 DEF TypeOK, LinePlace, inputVars, lineVars
  <2>5. QED
    BY <1>4, <2>3, <2>4 DEF Load, after
<1>5. CASE StoreByte
  <2>1. input' \in [InputSlots -> ByteType]
    BY <1>2, <1>5 DEF StoreByte, TypeOK
  <2>2. /\ input_tail' = next /\ next' = 0 /\ NextByte
        /\ UNCHANGED <<halted, queue, pending, input_head, lineVars, enabled, direct,
                       seen, out, dropped, ctrl, mode, typed, raced>>
    BY <1>5 DEF StoreByte, Reader
  <2>3. QED
    BY <1>3, <2>1, <2>2 DEF TypeOK, LinePlace, lineVars
<1>6. QED
  BY <1>4, <1>5

LEMMA HaltInv ==
  ASSUME TtyInv, Halt
  PROVE  TtyInv'
BY DEF Halt, Reader, KeepShared, TtyInv, TypeOK, LinePlace, inputVars, lineVars,
   locals

LEMMA TtyNextInv == TtyInv /\ [Next]_vars => TtyInv'
<1> SUFFICES ASSUME TtyInv, [Next]_vars PROVE TtyInv'
  OBVIOUS
<1>1. CASE ReaderStep
  BY <1>1, CheckSignalInv, PopInv, PollInv, ProcessInv, EditInv, FlushInv, HaltInv
     DEF ReaderStep
<1>2. CASE UNCHANGED vars
  BY <1>2 DEF vars, inputVars, lineVars, locals, ghosts, TtyInv, TypeOK, LinePlace
<1>3. QED
  BY <1>1, <1>2, StartInv, TickInv, KeyPressInv DEF Next

(* However interrupts and the reader interleave, the line and the ring     *)
(* keep to their bounds, for every size of them.                           *)
THEOREM TtyTypeCorrect == Spec => []TypeOK
<1>1. TtyInv => TypeOK
  BY DEF TtyInv
<1>2. QED
  BY <1>1, TtyInitInv, TtyNextInv, PTL DEF Spec

(***************************************************************************)
(* The terminal: where the keys are.  A step takes a stretch of keys out   *)
(* of those held, puts a new one in, or moves one forward.                 *)
(***************************************************************************)

Elems(s) == {s[i] : i \in 1..Len(s)}

LEMMA Cats ==
  ASSUME NEW S, NEW a \in Seq(S), NEW b \in Seq(S)
  PROVE  /\ a \o b \in Seq(S)
         /\ Len(a) \in Nat /\ Len(b) \in Nat /\ Len(a \o b) = Len(a) + Len(b)
         /\ \A i \in 1..Len(a) : (a \o b)[i] = a[i]
         /\ \A i \in 1..Len(b) : (a \o b)[Len(a) + i] = b[i]
         /\ \A i \in (Len(a) + 1)..(Len(a) + Len(b)) : (a \o b)[i] = b[i - Len(a)]
<1>1. Len(a) \in Nat /\ Len(b) \in Nat
  OBVIOUS
<1>2. \A i \in 1..(Len(a) + Len(b)) :
        (a \o b)[i] = IF i <= Len(a) THEN a[i] ELSE b[i - Len(a)]
  BY ConcatProperties
<1>3. a \o b \in Seq(S) /\ Len(a \o b) = Len(a) + Len(b)
  BY ConcatProperties
<1>4. ASSUME NEW i \in 1..Len(a) PROVE (a \o b)[i] = a[i]
  BY <1>1, <1>2
<1>5. ASSUME NEW i \in 1..Len(b) PROVE (a \o b)[Len(a) + i] = b[i]
  <2>1. /\ Len(a) + i \in 1..(Len(a) + Len(b)) /\ ~(Len(a) + i <= Len(a))
        /\ Len(a) + i - Len(a) = i
    BY <1>1
  <2>2. QED
    BY <1>2, <2>1
<1>6. ASSUME NEW i \in (Len(a) + 1)..(Len(a) + Len(b))
      PROVE  (a \o b)[i] = b[i - Len(a)]
  <2>1. i \in 1..(Len(a) + Len(b)) /\ ~(i <= Len(a))
    BY <1>1
  <2>2. QED
    BY <1>2, <2>1
<1>7. QED
  BY <1>1, <1>3, <1>4, <1>5, <1>6

(* Three in a row.                                                         *)
LEMMA Cats3 ==
  ASSUME NEW S, NEW a \in Seq(S), NEW b \in Seq(S), NEW c \in Seq(S)
  PROVE  /\ a \o b \o c \in Seq(S)
         /\ Len(a) \in Nat /\ Len(b) \in Nat /\ Len(c) \in Nat
         /\ Len(a \o b \o c) = Len(a) + Len(b) + Len(c)
         /\ \A i \in 1..Len(a) : (a \o b \o c)[i] = a[i]
         /\ \A i \in (Len(a) + 1)..(Len(a) + Len(b)) :
              (a \o b \o c)[i] = b[i - Len(a)]
         /\ \A i \in (Len(a) + Len(b) + 1)..(Len(a) + Len(b) + Len(c)) :
              (a \o b \o c)[i] = c[i - (Len(a) + Len(b))]
<1>1. a \o b \in Seq(S) /\ Len(a \o b) = Len(a) + Len(b)
  BY Cats
<1>2. /\ Len(a) \in Nat /\ Len(b) \in Nat /\ Len(c) \in Nat
      /\ a \o b \o c \in Seq(S) /\ Len(a \o b \o c) = Len(a) + Len(b) + Len(c)
  BY <1>1, Cats
<1> DEFINE ab == a \o b
<1>3. /\ \A i \in 1..Len(ab) : (ab \o c)[i] = ab[i]
      /\ \A i \in (Len(ab) + 1)..(Len(ab) + Len(c)) : (ab \o c)[i] = c[i - Len(ab)]
  <2>1. ab \in Seq(S)
    BY <1>1
  <2> HIDE DEF ab
  <2>2. QED
    BY <2>1, Cats
<1>4. /\ \A i \in 1..Len(a) : ab[i] = a[i]
      /\ \A i \in (Len(a) + 1)..(Len(a) + Len(b)) : ab[i] = b[i - Len(a)]
  BY Cats
<1>5. Len(ab) = Len(a) + Len(b)
  BY <1>1
<1> HIDE DEF ab
<1>6. /\ \A i \in 1..Len(a) : (ab \o c)[i] = a[i]
      /\ \A i \in (Len(a) + 1)..(Len(a) + Len(b)) : (ab \o c)[i] = b[i - Len(a)]
      /\ \A i \in (Len(a) + Len(b) + 1)..(Len(a) + Len(b) + Len(c)) :
              (ab \o c)[i] = c[i - (Len(a) + Len(b))]
  BY <1>2, <1>3, <1>4, <1>5
<1>7. QED
  BY <1>2, <1>6 DEF ab

LEMMA CatElems ==
  ASSUME NEW S, NEW a \in Seq(S), NEW b \in Seq(S)
  PROVE  Elems(a \o b) = Elems(a) \union Elems(b)
<1> DEFINE h == a \o b
<1>1. /\ Len(a) \in Nat /\ Len(b) \in Nat /\ Len(h) = Len(a) + Len(b)
      /\ \A i \in 1..Len(a) : h[i] = a[i]
      /\ \A i \in 1..Len(b) : h[Len(a) + i] = b[i]
      /\ \A i \in (Len(a) + 1)..(Len(a) + Len(b)) : h[i] = b[i - Len(a)]
  BY Cats
<1> HIDE DEF h
<1>2. ASSUME NEW i \in 1..Len(h) PROVE h[i] \in Elems(a) \union Elems(b)
  <2>1. CASE i <= Len(a)
    BY <1>1, <2>1 DEF Elems
  <2>2. CASE i > Len(a)
    <3>1. i - Len(a) \in 1..Len(b) /\ h[i] = b[i - Len(a)]
      BY <1>1, <2>2
    <3>2. QED
      BY <3>1 DEF Elems
  <2>3. QED
    BY <1>1, <2>1, <2>2
<1>3. ASSUME NEW i \in 1..Len(a) PROVE a[i] \in Elems(h)
  <2>1. i \in 1..Len(h) /\ h[i] = a[i]
    BY <1>1
  <2>2. QED
    BY <2>1 DEF Elems
<1>4. ASSUME NEW i \in 1..Len(b) PROVE b[i] \in Elems(h)
  <2>1. Len(a) + i \in 1..Len(h) /\ h[Len(a) + i] = b[i]
    BY <1>1
  <2>2. QED
    BY <2>1 DEF Elems
<1>5. Elems(h) = Elems(a) \union Elems(b)
  BY <1>2, <1>3, <1>4 DEF Elems
<1>6. QED
  BY <1>5 DEF h

(* The same for sequences of numbers, which the rest is about.             *)
LEMMA NatAssoc ==
  ASSUME NEW a \in Seq(Nat), NEW b \in Seq(Nat), NEW c \in Seq(Nat)
  PROVE  (a \o b) \o c = a \o (b \o c)
BY ConcatAssociative

LEMMA NatElems ==
  ASSUME NEW a \in Seq(Nat), NEW b \in Seq(Nat)
  PROVE  Elems(a \o b) = Elems(a) \union Elems(b)
BY CatElems

(* A stretch of l is taken out behind the first m: index by index.         *)
Distinct(h, n) == \A i, j \in 1..n : h[i] = h[j] => i = j
Between(h, x, y) == {h[i] : i \in x..y}
TakenOut(h, g, m, l, r) ==
  /\ \A i \in 1..m : g[i] = h[i]
  /\ \A i \in (m + 1)..(m + r) : g[i] = h[i + l]
  /\ Distinct(h, m + l + r)

LEMMA DropIndexed ==
  ASSUME NEW m \in Nat, NEW l \in Nat, NEW r \in Nat, NEW h, NEW g,
         TakenOut(h, g, m, l, r)
  PROVE  /\ Distinct(g, m + r)
         /\ Between(g, 1, m + r) =
              Between(h, 1, m + l + r) \ Between(h, m + 1, m + l)
<1> USE DEF TakenOut, Distinct
<1> DEFINE to(i) == IF i <= m THEN i ELSE i + l
<1>1. ASSUME NEW i \in 1..(m + r)
      PROVE  /\ to(i) \in 1..(m + l + r) /\ g[i] = h[to(i)]
             /\ to(i) <= m \/ to(i) > m + l
  OBVIOUS
<1>2. ASSUME NEW i \in 1..(m + r), NEW j \in 1..(m + r), to(i) = to(j)
      PROVE  i = j
  BY <1>2
<1>3. ASSUME NEW i \in 1..(m + r), NEW j \in 1..(m + r), g[i] = g[j]
      PROVE  i = j
  <2>1. /\ to(i) \in 1..(m + l + r) /\ to(j) \in 1..(m + l + r)
        /\ h[to(i)] = h[to(j)]
    BY <1>1, <1>3
  <2> HIDE DEF to
  <2>2. to(i) = to(j)
    BY <2>1
  <2>3. QED
    BY <1>2, <2>2
<1>4. ASSUME NEW i \in 1..(m + r), NEW k \in (m + 1)..(m + l) PROVE g[i] # h[k]
  <2>1. k \in 1..(m + l + r) /\ k > m /\ k <= m + l
    OBVIOUS
  <2>2. /\ to(i) \in 1..(m + l + r) /\ g[i] = h[to(i)]
        /\ to(i) <= m \/ to(i) > m + l
    BY <1>1
  <2> HIDE DEF to
  <2>3. to(i) # k
    BY <2>1, <2>2
  <2>4. QED
    BY <2>1, <2>2, <2>3
<1>5. ASSUME NEW i \in 1..(m + l + r),
             \A k \in (m + 1)..(m + l) : h[i] # h[k]
      PROVE  \E j \in 1..(m + r) : g[j] = h[i]
  <2>1. CASE i <= m
    BY <2>1
  <2>2. CASE i > m /\ i <= m + l
    <3>1. i \in (m + 1)..(m + l)
      BY <2>2
    <3>2. QED
      BY <1>5, <3>1
  <2>3. CASE i > m + l
    <3>1. i - l \in (m + 1)..(m + r) /\ i - l + l = i /\ i - l \in 1..(m + r)
      BY <2>3
    <3>2. g[i - l] = h[i]
      BY <3>1
    <3>3. QED
      BY <3>1, <3>2
  <2>4. QED
    BY <2>1, <2>2, <2>3
<1>6. Between(g, 1, m + r) \subseteq
        Between(h, 1, m + l + r) \ Between(h, m + 1, m + l)
  <2>1. ASSUME NEW i \in 1..(m + r)
        PROVE  g[i] \in Between(h, 1, m + l + r)
    <3>1. to(i) \in 1..(m + l + r) /\ g[i] = h[to(i)]
      BY <1>1
    <3> HIDE DEF to
    <3>2. QED
      BY <3>1 DEF Between
  <2>2. ASSUME NEW i \in 1..(m + r)
        PROVE  g[i] \notin Between(h, m + 1, m + l)
    BY <1>4 DEF Between
  <2>3. QED
    BY <2>1, <2>2 DEF Between
<1>7. Between(h, 1, m + l + r) \ Between(h, m + 1, m + l)
        \subseteq Between(g, 1, m + r)
  BY <1>5 DEF Between
<1>8. QED
  BY <1>3, <1>6, <1>7

LEMMA SeqOf ==
  ASSUME NEW S, NEW T, NEW s \in Seq(S), \A i \in 1..Len(s) : s[i] \in T
  PROVE  s \in Seq(T)
<1>1. Len(s) \in Nat /\ s \in [1..Len(s) -> S]
  BY LenProperties
<1>2. s \in [1..Len(s) -> T]
  BY <1>1
<1>3. QED
  BY <1>1, <1>2, SeqDef

(* A stretch is lost, and nothing else.                                    *)
LEMMA AccountDrop ==
  ASSUME NEW a \in Seq(Nat), NEW b \in Seq(Nat), NEW c \in Seq(Nat),
         NEW n \in Nat, NEW lost, Account(a \o b \o c, n, lost)
  PROVE  Account(a \o c, n, lost \union Elems(b))
<1> DEFINE h == a \o b \o c
           g == a \o c
<1>1. /\ h \in Seq(Nat) /\ Len(a) \in Nat /\ Len(b) \in Nat /\ Len(c) \in Nat
      /\ Len(h) = Len(a) + Len(b) + Len(c)
      /\ \A i \in 1..Len(a) : h[i] = a[i]
      /\ \A i \in (Len(a) + 1)..(Len(a) + Len(b)) : h[i] = b[i - Len(a)]
      /\ \A i \in (Len(a) + Len(b) + 1)..(Len(a) + Len(b) + Len(c)) :
           h[i] = c[i - (Len(a) + Len(b))]
  BY Cats3
<1>2. /\ g \in Seq(Nat) /\ Len(g) = Len(a) + Len(c)
      /\ \A i \in 1..Len(a) : g[i] = a[i]
      /\ \A i \in (Len(a) + 1)..(Len(a) + Len(c)) : g[i] = c[i - Len(a)]
  BY Cats
<1>3. /\ h \in Seq(1..n)
      /\ \A i, j \in 1..Len(h) : h[i] = h[j] => i = j
      /\ {h[i] : i \in 1..Len(h)} = (1..n) \ lost /\ lost \subseteq 0..n
  BY DEF Account
<1> HIDE DEF h, g
<1> PICK m \in Nat, l \in Nat, r \in Nat : m = Len(a) /\ l = Len(b) /\ r = Len(c)
  BY <1>1
<1>4. /\ \A i \in 1..m : g[i] = h[i]
      /\ \A i \in (m + 1)..(m + r) : g[i] = h[i + l]
  <2>1. ASSUME NEW i \in (m + 1)..(m + r) PROVE g[i] = h[i + l]
    <3>1. i + l \in (m + l + 1)..(m + l + r) /\ i + l - (m + l) = i - m
      OBVIOUS
    <3>2. \A x \in (m + l + 1)..(m + l + r) : h[x] = c[x - (m + l)]
      BY <1>1
    <3>3. h[i + l] = c[i - m]
      BY <3>1, <3>2
    <3>4. QED
      BY <1>2, <3>3
  <2>2. QED
    BY <1>1, <1>2, <2>1
<1>5. Elems(b) = Between(h, m + 1, m + l)
  <2>1. \A x \in (m + 1)..(m + l) : h[x] = b[x - m]
    BY <1>1
  <2>2. ASSUME NEW i \in 1..l PROVE b[i] \in Between(h, m + 1, m + l)
    <3> PICK x \in Nat : x = m + i
      OBVIOUS
    <3>1. x \in (m + 1)..(m + l) /\ x - m = i
      OBVIOUS
    <3>2. h[x] = b[i]
      BY ONLY <2>1, <3>1
    <3>3. \E y \in (m + 1)..(m + l) : b[i] = h[y]
      BY ONLY <3>1, <3>2
    <3>4. QED
      BY ONLY <3>3 DEF Between
  <2>3. ASSUME NEW x \in (m + 1)..(m + l) PROVE \E i \in 1..l : h[x] = b[i]
    <3>1. x - m \in 1..l
      OBVIOUS
    <3>2. QED
      BY <2>1, <3>1
  <2>4. Elems(b) = {b[i] : i \in 1..l}
    BY DEF Elems
  <2>5. Elems(b) \subseteq Between(h, m + 1, m + l)
    BY <2>2, <2>4
  <2>6. Between(h, m + 1, m + l) \subseteq Elems(b)
    BY <2>3, <2>4 DEF Between
  <2>7. QED
    BY <2>5, <2>6
<1>6. Len(h) = m + l + r /\ Len(g) = m + r
  BY <1>1, <1>2
<1>7. Distinct(h, m + l + r)
  BY <1>3, <1>6 DEF Distinct
<1>8. /\ Distinct(g, m + r)
      /\ Between(g, 1, m + r) =
           Between(h, 1, m + l + r) \ Between(h, m + 1, m + l)
  <2>1. TakenOut(h, g, m, l, r)
    BY <1>4, <1>7 DEF TakenOut
  <2>2. m \in Nat /\ l \in Nat /\ r \in Nat
    OBVIOUS
  <2>3. QED
    BY ONLY <2>1, <2>2, DropIndexed
<1>9. {g[i] : i \in 1..Len(g)} = (1..n) \ (lost \union Elems(b))
  <2>1. Between(h, 1, m + l + r) = (1..n) \ lost
    BY <1>3, <1>6 DEF Between
  <2>2. Between(g, 1, m + r) = (1..n) \ (lost \union Elems(b))
    BY <1>5, <1>8, <2>1
  <2>3. QED
    BY <1>6, <2>2 DEF Between
<1>10. \A i \in 1..Len(g) : g[i] \in 1..n
  BY <1>9
<1>11. g \in Seq(1..n)
  BY <1>2, <1>10, SeqOf
<1>12. Elems(b) \subseteq 0..n
  <2>1. \A i \in (m + 1)..(m + l) : i \in 1..(m + l + r)
    OBVIOUS
  <2>2. \A i \in 1..(m + l + r) : h[i] \in 1..n
    BY <1>3, <1>6
  <2>3. 1..n \subseteq 0..n
    OBVIOUS
  <2>4. QED
    BY <1>5, <2>1, <2>2, <2>3 DEF Between
<1>13. Account(g, n, lost \union Elems(b))
  BY <1>3, <1>6, <1>8, <1>9, <1>11, <1>12 DEF Account, Distinct
<1>14. QED
  BY <1>13 DEF g

(* A key is put in.                                                        *)
PutIn(g, h, m, r, k) ==
  /\ \A i \in 1..m : h[i] = g[i]
  /\ h[m + 1] = k
  /\ \A i \in (m + 2)..(m + 1 + r) : h[i] = g[i - 1]
  /\ Distinct(g, m + r)
  /\ k \notin Between(g, 1, m + r)

LEMMA PutIndexed ==
  ASSUME NEW m \in Nat, NEW r \in Nat, NEW g, NEW h, NEW k,
         PutIn(g, h, m, r, k)
  PROVE  /\ Distinct(h, m + 1 + r)
         /\ Between(h, 1, m + 1 + r) = Between(g, 1, m + r) \union {k}
<1> USE DEF PutIn
<1> DEFINE to(i) == IF i <= m THEN i ELSE i - 1
<1>1. ASSUME NEW i \in 1..(m + 1 + r), i # m + 1
      PROVE  to(i) \in 1..(m + r) /\ h[i] = g[to(i)]
  <2>1. CASE i <= m
    BY <2>1
  <2>2. CASE i > m
    <3>1. i \in (m + 2)..(m + 1 + r)
      BY <1>1, <2>2
    <3>2. QED
      BY <2>2, <3>1
  <2>3. QED
    BY <2>1, <2>2
<1>2. ASSUME NEW i \in 1..(m + 1 + r), i # m + 1 PROVE h[i] # k
  <2>1. to(i) \in 1..(m + r) /\ h[i] = g[to(i)]
    BY <1>1, <1>2
  <2> HIDE DEF to
  <2>2. QED
    BY <2>1 DEF Between
<1>3. ASSUME NEW i \in 1..(m + 1 + r), NEW j \in 1..(m + 1 + r),
             i # m + 1, j # m + 1, h[i] = h[j]
      PROVE  i = j
  <2>1. to(i) \in 1..(m + r) /\ to(j) \in 1..(m + r) /\ g[to(i)] = g[to(j)]
    BY <1>1, <1>3
  <2>2. to(i) = to(j)
    <3> HIDE DEF to
    <3>1. QED
      BY <2>1 DEF Distinct
  <2>3. QED
    BY <1>3, <2>2
<1>4. Distinct(h, m + 1 + r)
  BY <1>2, <1>3 DEF Distinct
<1>5. Between(h, 1, m + 1 + r) \subseteq Between(g, 1, m + r) \union {k}
  <2>1. ASSUME NEW i \in 1..(m + 1 + r)
        PROVE  h[i] \in Between(g, 1, m + r) \union {k}
    <3>1. CASE i = m + 1
      BY <3>1
    <3>2. CASE i # m + 1
      <4>1. to(i) \in 1..(m + r) /\ h[i] = g[to(i)]
        BY <1>1, <3>2
      <4> HIDE DEF to
      <4>2. QED
        BY <4>1 DEF Between
    <3>3. QED
      BY <3>1, <3>2
  <2>2. QED
    BY <2>1 DEF Between
<1>6. ASSUME NEW i \in 1..(m + r) PROVE g[i] \in Between(h, 1, m + 1 + r)
  <2>1. CASE i <= m
    <3>1. i \in 1..(m + 1 + r) /\ h[i] = g[i]
      BY <2>1
    <3>2. QED
      BY <3>1 DEF Between
  <2>2. CASE i > m
    <3>1. i + 1 \in (m + 2)..(m + 1 + r) /\ i + 1 - 1 = i /\ i + 1 \in 1..(m + 1 + r)
      BY <2>2
    <3>2. h[i + 1] = g[i]
      BY <3>1
    <3>3. QED
      BY <3>1, <3>2 DEF Between
  <2>3. QED
    BY <2>1, <2>2
<1>7. k \in Between(h, 1, m + 1 + r)
  <2>1. m + 1 \in 1..(m + 1 + r)
    OBVIOUS
  <2>2. QED
    BY <2>1 DEF Between
<1>8. Between(g, 1, m + r) \subseteq Between(h, 1, m + 1 + r)
  BY <1>6 DEF Between
<1>9. QED
  BY <1>4, <1>5, <1>7, <1>8

(* A key that is not held is put in.                                       *)
LEMMA AccountPut ==
  ASSUME NEW a \in Seq(Nat), NEW c \in Seq(Nat), NEW n \in Nat, NEW lost,
         NEW k \in 1..n, k \in lost, Account(a \o c, n, lost)
  PROVE  Account(a \o <<k>> \o c, n, lost \ {k})
<1> DEFINE h == a \o <<k>> \o c
           g == a \o c
<1>0. <<k>> \in Seq(Nat) /\ Len(<<k>>) = 1 /\ <<k>>[1] = k
  OBVIOUS
<1>1. /\ h \in Seq(Nat) /\ Len(a) \in Nat /\ Len(c) \in Nat
      /\ Len(h) = Len(a) + 1 + Len(c)
      /\ \A i \in 1..Len(a) : h[i] = a[i]
      /\ \A i \in (Len(a) + 1)..(Len(a) + 1) : h[i] = <<k>>[i - Len(a)]
      /\ \A i \in (Len(a) + 1 + 1)..(Len(a) + 1 + Len(c)) :
           h[i] = c[i - (Len(a) + 1)]
  BY <1>0, Cats3
<1>2. /\ g \in Seq(Nat) /\ Len(g) = Len(a) + Len(c)
      /\ \A i \in 1..Len(a) : g[i] = a[i]
      /\ \A i \in (Len(a) + 1)..(Len(a) + Len(c)) : g[i] = c[i - Len(a)]
  BY Cats
<1>3. /\ g \in Seq(1..n)
      /\ \A i, j \in 1..Len(g) : g[i] = g[j] => i = j
      /\ {g[i] : i \in 1..Len(g)} = (1..n) \ lost /\ lost \subseteq 0..n
  BY DEF Account
<1> HIDE DEF h, g
<1> PICK m \in Nat, r \in Nat : m = Len(a) /\ r = Len(c)
  BY <1>1
<1>4. Len(h) = m + 1 + r /\ Len(g) = m + r
  BY <1>1, <1>2
<1>5. /\ \A i \in 1..m : h[i] = g[i]
      /\ h[m + 1] = k
  <2>1. m + 1 \in (m + 1)..(m + 1) /\ m + 1 - m = 1
    OBVIOUS
  <2>2. h[m + 1] = <<k>>[1]
    BY <1>1, <2>1
  <2>3. QED
    BY <1>0, <1>1, <1>2, <2>2
<1>6. ASSUME NEW i \in (m + 2)..(m + 1 + r) PROVE h[i] = g[i - 1]
  <2>1. /\ i \in (m + 1 + 1)..(m + 1 + r) /\ i - 1 \in (m + 1)..(m + r)
        /\ i - 1 - m = i - (m + 1)
    OBVIOUS
  <2>2. \A x \in (m + 1 + 1)..(m + 1 + r) : h[x] = c[x - (m + 1)]
    BY <1>1
  <2>3. \A x \in (m + 1)..(m + r) : g[x] = c[x - m]
    BY <1>2
  <2>4. QED
    BY <2>1, <2>2, <2>3
<1>7. Distinct(g, m + r) /\ Between(g, 1, m + r) = (1..n) \ lost
  BY <1>3, <1>4 DEF Distinct, Between
<1>8. PutIn(g, h, m, r, k)
  BY <1>5, <1>6, <1>7 DEF PutIn
<1>9. /\ Distinct(h, m + 1 + r)
      /\ Between(h, 1, m + 1 + r) = Between(g, 1, m + r) \union {k}
  <2>1. m \in Nat /\ r \in Nat
    OBVIOUS
  <2>2. QED
    BY ONLY <1>8, <2>1, PutIndexed
<1>10. Between(h, 1, m + 1 + r) = (1..n) \ (lost \ {k})
  BY <1>7, <1>9
<1>11. {h[i] : i \in 1..Len(h)} = (1..n) \ (lost \ {k})
  BY <1>4, <1>10 DEF Between
<1>12. \A i \in 1..Len(h) : h[i] \in 1..n
  BY <1>11
<1>13. h \in Seq(1..n)
  BY <1>1, <1>12, SeqOf
<1>14. Account(h, n, lost \ {k})
  BY <1>3, <1>4, <1>9, <1>11, <1>13 DEF Account, Distinct
<1>15. QED
  BY <1>14 DEF h

(* A new key is lost at once, or put in.                                   *)
LEMMA AccountLose ==
  ASSUME NEW h, NEW n \in Nat, NEW lost, Account(h, n, lost)
  PROVE  Account(h, n + 1, lost \union {n + 1})
<1>1. h \in Seq(1..n) /\ 1..n \subseteq 1..(n + 1) /\ 0..n \subseteq 0..(n + 1)
  BY DEF Account
<1>2. h \in Seq(1..(n + 1))
  BY <1>1
<1>3. (1..n) \ lost = (1..(n + 1)) \ (lost \union {n + 1})
  OBVIOUS
<1>4. n + 1 \in 0..(n + 1)
  OBVIOUS
<1>5. QED
  BY <1>1, <1>2, <1>3, <1>4 DEF Account

LEMMA AccountNew ==
  ASSUME NEW a \in Seq(Nat), NEW c \in Seq(Nat), NEW n \in Nat, NEW lost,
         Account(a \o c, n, lost)
  PROVE  Account(a \o <<n + 1>> \o c, n + 1, lost)
<1>1. Account(a \o c, n + 1, lost \union {n + 1})
  BY AccountLose
<1>2. n + 1 \in Nat /\ n + 1 \in 1..(n + 1)
  OBVIOUS
<1>3. Account(a \o <<n + 1>> \o c, n + 1, (lost \union {n + 1}) \ {n + 1})
  BY <1>1, <1>2, AccountPut
<1>4. n + 1 \notin lost
  BY DEF Account
<1>5. (lost \union {n + 1}) \ {n + 1} = lost
  BY <1>4
<1>6. QED
  BY <1>3, <1>5

(* A key overtakes others.                                                 *)
LEMMA AccountMove ==
  ASSUME NEW a \in Seq(Nat), NEW b \in Seq(Nat), NEW c \in Seq(Nat),
         NEW n \in Nat, NEW lost, NEW k \in Nat,
         Account((a \o b) \o <<k>> \o c, n, lost)
  PROVE  Account(a \o <<k>> \o (b \o c), n, lost)
<1>1. a \o b \in Seq(Nat) /\ <<k>> \in Seq(Nat) /\ b \o c \in Seq(Nat)
  OBVIOUS
<1>2. Account((a \o b) \o c, n, lost \union Elems(<<k>>))
  BY <1>1, AccountDrop
<1>3. Elems(<<k>>) = {k}
  BY DEF Elems
<1>4. (a \o b) \o c = a \o (b \o c)
  BY NatAssoc
<1>5. Account(a \o (b \o c), n, lost \union {k})
  BY <1>2, <1>3, <1>4
<1>6. k \in 1..n /\ k \notin lost
  <2> DEFINE h == (a \o b) \o <<k>> \o c
  <2>1. Elems(h) = (Elems(a \o b) \union {k}) \union Elems(c)
    <3> DEFINE x == (a \o b) \o <<k>>
    <3>1. x \in Seq(Nat)
      BY <1>1
    <3>2. Elems(x) = Elems(a \o b) \union Elems(<<k>>)
      BY <1>1, NatElems
    <3> HIDE DEF x
    <3>3. Elems(x \o c) = Elems(x) \union Elems(c)
      BY <3>1, CatElems
    <3>4. QED
      BY <1>3, <3>2, <3>3 DEF x
  <2>2. Elems(h) = (1..n) \ lost
    BY DEF Account, Elems
  <2>3. QED
    BY <2>1, <2>2
<1>7. Account(a \o <<k>> \o (b \o c), n, (lost \union {k}) \ {k})
  BY <1>1, <1>5, <1>6, AccountPut
<1>8. (lost \union {k}) \ {k} = lost
  BY <1>6
<1>9. QED
  BY <1>7, <1>8

(* The order is kept by taking keys out, by putting in one that is set     *)
(* apart, and by one that is newer than all held, at the end.              *)
LEMMA OrderedDrop ==
  ASSUME NEW a \in Seq(Nat), NEW b \in Seq(Nat), NEW c \in Seq(Nat),
         NEW apart, NEW more, apart \subseteq more, Ordered(a \o b \o c, apart)
  PROVE  Ordered(a \o c, more)
<1> DEFINE h == a \o b \o c
           g == a \o c
<1>1. /\ h \in Seq(Nat) /\ Len(a) \in Nat /\ Len(b) \in Nat /\ Len(c) \in Nat
      /\ Len(h) = Len(a) + Len(b) + Len(c)
      /\ \A i \in 1..Len(a) : h[i] = a[i]
      /\ \A i \in (Len(a) + Len(b) + 1)..(Len(a) + Len(b) + Len(c)) :
           h[i] = c[i - (Len(a) + Len(b))]
  BY Cats3
<1>2. /\ g \in Seq(Nat) /\ Len(g) = Len(a) + Len(c)
      /\ \A i \in 1..Len(a) : g[i] = a[i]
      /\ \A i \in (Len(a) + 1)..(Len(a) + Len(c)) : g[i] = c[i - Len(a)]
  BY Cats
<1>3. \A i, j \in 1..Len(h) :
        (i < j /\ h[i] \notin apart /\ h[j] \notin apart) => h[i] < h[j]
  BY DEF Ordered
<1> HIDE DEF h, g
<1> PICK m \in Nat, l \in Nat, r \in Nat : m = Len(a) /\ l = Len(b) /\ r = Len(c)
  BY <1>1
<1> DEFINE to(i) == IF i <= m THEN i ELSE i + l
<1>4. ASSUME NEW i \in 1..(m + r)
      PROVE  to(i) \in 1..(m + l + r) /\ g[i] = h[to(i)]
  <2>1. CASE i <= m
    BY <1>1, <1>2, <2>1
  <2>2. CASE i > m
    <3>1. /\ i \in (m + 1)..(m + r) /\ i + l \in (m + l + 1)..(m + l + r)
          /\ i + l - (m + l) = i - m
      BY <2>2
    <3>2. \A x \in (m + l + 1)..(m + l + r) : h[x] = c[x - (m + l)]
      BY <1>1
    <3>3. h[i + l] = c[i - m]
      <4> PICK y \in (m + l + 1)..(m + l + r) : y = i + l
        BY <3>1
      <4>1. h[y] = c[y - (m + l)]
        BY <3>2
      <4>2. y - (m + l) = i - m
        OBVIOUS
      <4>3. QED
        BY <4>1, <4>2
    <3>4. \A x \in (m + 1)..(m + r) : g[x] = c[x - m]
      BY <1>2
    <3>5. g[i] = c[i - m]
      BY <3>1, <3>4
    <3>6. i + l \in 1..(m + l + r)
      BY <3>1
    <3>7. to(i) = i + l
      BY <2>2
    <3> HIDE DEF to
    <3>8. QED
      BY <3>3, <3>5, <3>6, <3>7
  <2>3. QED
    BY <2>1, <2>2
<1>5. ASSUME NEW i \in 1..(m + r), NEW j \in 1..(m + r), i < j,
             g[i] \notin more, g[j] \notin more
      PROVE  g[i] < g[j]
  <2>1. to(i) < to(j)
    BY <1>5
  <2>2. /\ to(i) \in 1..(m + l + r) /\ g[i] = h[to(i)]
        /\ to(j) \in 1..(m + l + r) /\ g[j] = h[to(j)]
    BY <1>4
  <2> HIDE DEF to
  <2>3. Len(h) = m + l + r
    BY <1>1
  <2>4. QED
    BY <1>3, <1>5, <2>1, <2>2, <2>3
<1>6. Len(g) = m + r
  BY <1>2
<1>7. Ordered(g, more)
  BY <1>5, <1>6 DEF Ordered
<1>8. QED
  BY <1>7 DEF g

LEMMA OrderedPut ==
  ASSUME NEW a \in Seq(Nat), NEW c \in Seq(Nat), NEW k \in Nat,
         NEW apart, NEW more, apart \subseteq more, Ordered(a \o c, apart),
         k \in more
  PROVE  Ordered(a \o <<k>> \o c, more)
<1> DEFINE h == a \o <<k>> \o c
           g == a \o c
<1>0. <<k>> \in Seq(Nat) /\ Len(<<k>>) = 1 /\ <<k>>[1] = k
  OBVIOUS
<1>1. /\ h \in Seq(Nat) /\ Len(a) \in Nat /\ Len(c) \in Nat
      /\ Len(h) = Len(a) + 1 + Len(c)
      /\ \A i \in 1..Len(a) : h[i] = a[i]
      /\ \A i \in (Len(a) + 1)..(Len(a) + 1) : h[i] = <<k>>[i - Len(a)]
      /\ \A i \in (Len(a) + 1 + 1)..(Len(a) + 1 + Len(c)) :
           h[i] = c[i - (Len(a) + 1)]
  BY <1>0, Cats3
<1>2. /\ g \in Seq(Nat) /\ Len(g) = Len(a) + Len(c)
      /\ \A i \in 1..Len(a) : g[i] = a[i]
      /\ \A i \in (Len(a) + 1)..(Len(a) + Len(c)) : g[i] = c[i - Len(a)]
  BY Cats
<1>3. \A i, j \in 1..Len(g) :
        (i < j /\ g[i] \notin apart /\ g[j] \notin apart) => g[i] < g[j]
  BY DEF Ordered
<1> HIDE DEF h, g
<1> PICK m \in Nat, r \in Nat : m = Len(a) /\ r = Len(c)
  BY <1>1
<1> DEFINE to(i) == IF i <= m THEN i ELSE i - 1
<1>4. h[m + 1] = k
  <2>1. m + 1 \in (m + 1)..(m + 1) /\ m + 1 - m = 1
    OBVIOUS
  <2>2. h[m + 1] = <<k>>[1]
    BY <1>1, <2>1
  <2>3. QED
    BY <1>0, <2>2
<1>5. ASSUME NEW i \in 1..(m + 1 + r), i # m + 1
      PROVE  to(i) \in 1..(m + r) /\ h[i] = g[to(i)]
  <2>1. CASE i <= m
    BY <1>1, <1>2, <2>1
  <2>2. CASE i > m
    <3>1. /\ i \in (m + 1 + 1)..(m + 1 + r) /\ i - 1 \in (m + 1)..(m + r)
          /\ i - 1 - m = i - (m + 1)
      BY ONLY <1>5, <2>2, m \in Nat, r \in Nat
    <3>2. \A x \in (m + 1 + 1)..(m + 1 + r) : h[x] = c[x - (m + 1)]
      BY <1>1
    <3>3. \A x \in (m + 1)..(m + r) : g[x] = c[x - m]
      BY <1>2
    <3>4. h[i] = g[i - 1]
      BY <3>1, <3>2, <3>3
    <3>5. i - 1 \in 1..(m + r)
      BY <3>1
    <3>6. QED
      BY <2>2, <3>4, <3>5
  <2>3. QED
    BY <2>1, <2>2
<1>6. ASSUME NEW i \in 1..(m + 1 + r), NEW j \in 1..(m + 1 + r), i < j,
             h[i] \notin more, h[j] \notin more
      PROVE  h[i] < h[j]
  <2>1. i # m + 1 /\ j # m + 1
    BY <1>4, <1>6
  <2>2. to(i) < to(j)
    BY <1>6, <2>1
  <2>3. /\ to(i) \in 1..(m + r) /\ h[i] = g[to(i)]
        /\ to(j) \in 1..(m + r) /\ h[j] = g[to(j)]
    BY <1>5, <2>1
  <2> HIDE DEF to
  <2>4. Len(g) = m + r
    BY <1>2
  <2>5. QED
    BY <1>3, <1>6, <2>2, <2>3, <2>4
<1>7. Len(h) = m + 1 + r
  BY <1>1
<1>8. Ordered(h, more)
  BY <1>6, <1>7 DEF Ordered
<1>9. QED
  BY <1>8 DEF h

LEMMA OrderedAppend ==
  ASSUME NEW n \in Nat, NEW a \in Seq(1..n), NEW apart, NEW more,
         apart \subseteq more, Ordered(a, apart)
  PROVE  Ordered(a \o <<n + 1>>, more)
<1> DEFINE h == a \o <<n + 1>>
<1>1. <<n + 1>> \in Seq(Nat) /\ a \in Seq(Nat) /\ Len(<<n + 1>>) = 1
  OBVIOUS
<1>2. /\ Len(a) \in Nat /\ Len(h) = Len(a) + 1
      /\ \A i \in 1..Len(a) : h[i] = a[i] /\ a[i] \in 1..n
      /\ h[Len(a) + 1] = n + 1
  OBVIOUS
<1> HIDE DEF h
<1>3. ASSUME NEW i \in 1..Len(h), NEW j \in 1..Len(h), i < j,
             h[i] \notin more, h[j] \notin more
      PROVE  h[i] < h[j]
  <2>1. i \in 1..Len(a) /\ h[i] = a[i] /\ a[i] \in 1..n
    BY <1>2, <1>3
  <2>2. CASE j = Len(a) + 1
    BY <1>2, <2>1, <2>2
  <2>3. CASE j # Len(a) + 1
    <3>1. j \in 1..Len(a) /\ h[j] = a[j]
      BY <1>2, <2>3
    <3>2. QED
      BY <1>3, <2>1, <3>1 DEF Ordered
  <2>4. QED
    BY <2>2, <2>3
<1>4. Ordered(h, more)
  BY <1>3 DEF Ordered
<1>5. QED
  BY <1>4 DEF h

LEMMA OrderedMove ==
  ASSUME NEW a \in Seq(Nat), NEW b \in Seq(Nat), NEW c \in Seq(Nat), NEW k \in Nat,
         NEW apart, NEW more, apart \subseteq more, k \in more,
         Ordered((a \o b) \o <<k>> \o c, apart)
  PROVE  Ordered(a \o <<k>> \o (b \o c), more)
<1>1. a \o b \in Seq(Nat) /\ <<k>> \in Seq(Nat) /\ b \o c \in Seq(Nat)
  OBVIOUS
<1>2. Ordered((a \o b) \o c, apart)
  BY <1>1, OrderedDrop
<1>3. (a \o b) \o c = a \o (b \o c)
  BY NatAssoc
<1>4. QED
  BY <1>1, <1>2, <1>3, OrderedPut

----------------------------------------------------------------------------
(* Regrouping lists of keys is a matter of these laws alone.               *)
Lists == Seq(Nat)
Cat(a, b) == a \o b
One(k) == <<k>>
NoKeys == <<>>

LEMMA CatLaws ==
  /\ NoKeys \in Lists /\ \A k \in Nat : One(k) \in Lists
  /\ \A a, b \in Lists : Cat(a, b) \in Lists
  /\ \A a, b, c \in Lists : Cat(Cat(a, b), c) = Cat(a, Cat(b, c))
  /\ \A a \in Lists : Cat(NoKeys, a) = a /\ Cat(a, NoKeys) = a
<1>1. \A a, b, c \in Seq(Nat) : (a \o b) \o c = a \o (b \o c)
  BY NatAssoc
<1>2. \A a \in Seq(Nat) : <<>> \o a = a /\ a \o <<>> = a
  BY ConcatEmptySeq
<1>3. \A a, b \in Seq(Nat) : a \o b \in Seq(Nat)
  OBVIOUS
<1>4. <<>> \in Seq(Nat) /\ \A k \in Nat : <<k>> \in Seq(Nat)
  OBVIOUS
<1>5. QED
  BY <1>1, <1>2, <1>3, <1>4 DEF Lists, Cat, One, NoKeys

(* What a step does to the keys that are held.                             *)
Lost(h, g, gone) ==
  \E a, b, c \in Lists :
    h = Cat(a, Cat(b, c)) /\ g = Cat(a, c) /\ gone = Elems(b)
Gained(h, g, k) ==
  \E a, c \in Lists : h = Cat(a, c) /\ g = Cat(a, Cat(One(k), c))
Moved(h, g, k) ==
  \E a, b, c \in Lists :
    h = Cat(a, Cat(b, Cat(One(k), c))) /\ g = Cat(a, Cat(One(k), Cat(b, c)))

(* What was read, the ring, the line, the byte in process, the queue.      *)
Five(o, r, u, p, q) == Cat(Cat(Cat(Cat(o, r), u), p), q)

LEMMA ElemsOf ==
  /\ Elems(NoKeys) = {}
  /\ \A k \in Nat : Elems(One(k)) = {k}
BY DEF Elems, NoKeys, One

LEMMA CatIn ==
  ASSUME NEW a \in Lists, NEW b \in Lists
  PROVE  Cat(a, b) \in Lists
BY CatLaws

LEMMA CatAssoc ==
  ASSUME NEW a \in Lists, NEW b \in Lists, NEW c \in Lists
  PROVE  Cat(Cat(a, b), c) = Cat(a, Cat(b, c))
BY CatLaws

LEMMA CatNone ==
  ASSUME NEW a \in Lists
  PROVE  Cat(NoKeys, a) = a /\ Cat(a, NoKeys) = a
BY CatLaws

LEMMA OneIn ==
  /\ NoKeys \in Lists
  /\ \A k \in Nat : One(k) \in Lists
BY CatLaws

LEMMA CatsIn ==
  ASSUME NEW a \in Lists, NEW b \in Lists, NEW c \in Lists
  PROVE  Cat(a, Cat(b, c)) \in Lists /\ Cat(Cat(a, b), c) \in Lists
<1> DEFINE ab == Cat(a, b)
           bc == Cat(b, c)
<1>1. ab \in Lists /\ bc \in Lists
  BY CatIn
<1> HIDE DEF ab, bc
<1>2. Cat(a, bc) \in Lists /\ Cat(ab, c) \in Lists
  BY <1>1, CatIn
<1>3. QED
  BY <1>2 DEF ab, bc

LEMMA FiveForms ==
  ASSUME NEW o \in Lists, NEW r \in Lists, NEW u \in Lists, NEW p \in Lists,
         NEW q \in Lists
  PROVE  /\ Five(o, r, u, p, q) \in Lists
         /\ Five(o, r, u, p, q) = Cat(Cat(Cat(o, r), u), Cat(p, q))
         /\ Five(o, r, u, p, q) = Cat(Cat(o, r), Cat(u, Cat(p, q)))
         /\ Five(o, r, u, p, q) = Cat(o, Cat(r, Cat(u, Cat(p, q))))
<1> DEFINE or == Cat(o, r)
           oru == Cat(or, u)
           pq == Cat(p, q)
           upq == Cat(u, pq)
<1>1. or \in Lists /\ pq \in Lists
  BY CatIn
<1>2. oru \in Lists /\ upq \in Lists
  <2> HIDE DEF or, pq
  <2>1. QED
    BY <1>1, CatIn
<1>3. Cat(Cat(oru, p), q) = Cat(oru, pq)
  <2> HIDE DEF oru
  <2>1. QED
    BY <1>2, CatAssoc
<1>4. Cat(Cat(or, u), pq) = Cat(or, upq)
  <2> HIDE DEF or, pq
  <2>1. QED
    BY <1>1, CatAssoc
<1>5. Cat(Cat(o, r), upq) = Cat(o, Cat(r, upq))
  <2> HIDE DEF upq
  <2>1. QED
    BY <1>2, CatAssoc
<1>6. Cat(oru, pq) \in Lists /\ Cat(r, upq) \in Lists
  <2> HIDE DEF oru, pq, upq
  <2>1. QED
    BY <1>1, <1>2, CatIn
<1>7. QED
  BY <1>1, <1>2, <1>3, <1>4, <1>5, <1>6 DEF Five

LEMMA LostBy ==
  ASSUME NEW a \in Lists, NEW b \in Lists, NEW c \in Lists
  PROVE  Lost(Cat(a, Cat(b, c)), Cat(a, c), Elems(b))
BY DEF Lost

LEMMA GainedBy ==
  ASSUME NEW a \in Lists, NEW c \in Lists, NEW k
  PROVE  Gained(Cat(a, c), Cat(a, Cat(One(k), c)), k)
BY DEF Gained

LEMMA LostNothing ==
  ASSUME NEW h \in Lists
  PROVE  Lost(h, h, {})
<1>1. Cat(NoKeys, NoKeys) = NoKeys /\ Cat(h, NoKeys) = h
  BY CatNone, OneIn
<1>2. Lost(Cat(h, Cat(NoKeys, NoKeys)), Cat(h, NoKeys), Elems(NoKeys))
  BY OneIn, LostBy
<1>3. QED
  BY <1>1, <1>2, ElemsOf

(* The oldest byte of the ring is read, or fails to be.                    *)
LEMMA FiveTake ==
  ASSUME NEW o \in Lists, NEW r \in Lists, NEW u \in Lists, NEW p \in Lists,
         NEW q \in Lists, NEW k \in Nat
  PROVE  /\ Five(o, Cat(One(k), r), u, p, q) = Five(Cat(o, One(k)), r, u, p, q)
         /\ Lost(Five(o, Cat(One(k), r), u, p, q), Five(o, r, u, p, q), {k})
<1> DEFINE K == One(k)
           upq == Cat(u, Cat(p, q))
           rest == Cat(r, upq)
<1>1. K \in Lists /\ Elems(K) = {k}
  BY OneIn, ElemsOf
<1> HIDE DEF K
<1>2. Cat(K, r) \in Lists /\ Cat(o, K) \in Lists
  BY <1>1, CatIn
<1>3. Five(o, r, u, p, q) = Cat(o, rest) /\ upq \in Lists /\ rest \in Lists
  <2>1. upq \in Lists
    BY CatsIn
  <2>2. rest \in Lists
    <3> HIDE DEF upq
    <3>1. QED
      BY <2>1, CatIn
  <2>3. QED
    BY <2>1, <2>2, FiveForms
<1>4. Five(o, Cat(K, r), u, p, q) = Cat(o, Cat(Cat(K, r), upq))
  <2> DEFINE Kr == Cat(K, r)
  <2>1. Kr \in Lists
    BY <1>2
  <2> HIDE DEF Kr
  <2>2. Five(o, Kr, u, p, q) = Cat(o, Cat(Kr, upq))
    BY <2>1, FiveForms
  <2>3. QED
    BY <2>2 DEF Kr
<1>5. Five(Cat(o, K), r, u, p, q) = Cat(Cat(o, K), rest)
  <2> DEFINE oK == Cat(o, K)
  <2>1. oK \in Lists
    BY <1>2
  <2> HIDE DEF oK
  <2>2. Five(oK, r, u, p, q) = Cat(oK, rest)
    BY <2>1, FiveForms
  <2>3. QED
    BY <2>2 DEF oK
<1>6. Cat(Cat(K, r), upq) = Cat(K, rest)
  <2> HIDE DEF upq
  <2>1. QED
    BY <1>1, <1>3, CatAssoc
<1> HIDE DEF rest
<1>7. Cat(Cat(o, K), rest) = Cat(o, Cat(K, rest))
  BY <1>1, <1>3, CatAssoc
<1>8. Lost(Cat(o, Cat(K, rest)), Cat(o, rest), Elems(K))
  BY <1>1, <1>3, LostBy
<1>9. QED
  BY <1>1, <1>3, <1>4, <1>5, <1>6, <1>7, <1>8 DEF K

(* The line and the byte in process together.                              *)
LEMMA FiveMiddle ==
  ASSUME NEW o \in Lists, NEW r \in Lists, NEW u \in Lists, NEW p \in Lists,
         NEW q \in Lists
  PROVE  /\ Five(o, r, u, p, q) = Cat(Cat(o, r), Cat(Cat(u, p), q))
         /\ Five(o, r, u, p, q) = Cat(Cat(Cat(o, r), Cat(u, p)), q)
<1>1. Cat(Cat(u, p), q) = Cat(u, Cat(p, q))
  BY CatAssoc
<1>2. Five(o, r, u, p, q) = Cat(Cat(o, r), Cat(Cat(u, p), q))
  BY <1>1, FiveForms
<1>3. Cat(o, r) \in Lists /\ Cat(u, p) \in Lists
  BY CatIn
<1> DEFINE or == Cat(o, r)
           up == Cat(u, p)
<1>4. Cat(Cat(or, up), q) = Cat(or, Cat(up, q))
  <2> HIDE DEF or, up
  <2>1. or \in Lists /\ up \in Lists
    BY <1>3 DEF or, up
  <2>2. QED
    BY <2>1, CatAssoc
<1>5. QED
  BY <1>2, <1>4

(* The first bytes of the line, or of the newline behind it, go to the     *)
(* ring, or are lost.                                                      *)
LEMMA FiveSend ==
  ASSUME NEW o \in Lists, NEW r \in Lists, NEW u \in Lists, NEW p \in Lists,
         NEW q \in Lists, NEW x \in Lists, NEW v \in Lists, NEW w \in Lists,
         Cat(u, p) = Cat(x, Cat(v, w))
  PROVE  /\ Five(o, r, u, p, q) = Five(o, Cat(r, x), v, w, q)
         /\ Lost(Five(o, r, u, p, q), Five(o, r, v, w, q), Elems(x))
<1> DEFINE or == Cat(o, r)
           vw == Cat(v, w)
           vwq == Cat(vw, q)
           rx == Cat(r, x)
<1>1. or \in Lists /\ vw \in Lists /\ rx \in Lists
  BY CatIn
<1>2. vwq \in Lists
  <2> HIDE DEF vw
  <2>1. QED
    BY <1>1, CatIn
<1>3. Five(o, r, u, p, q) = Cat(or, Cat(Cat(x, vw), q))
  BY FiveMiddle
<1>4. Five(o, r, v, w, q) = Cat(or, vwq)
  BY FiveMiddle
<1>5. Five(o, rx, v, w, q) = Cat(Cat(o, rx), vwq)
  <2>1. rx \in Lists
    BY <1>1
  <2> HIDE DEF rx
  <2>2. QED
    BY ONLY o \in Lists, v \in Lists, w \in Lists, q \in Lists, <2>1, FiveMiddle
       DEF vwq, vw
<1>6. Cat(o, rx) = Cat(or, x)
  BY CatAssoc
<1>7. Cat(Cat(x, vw), q) = Cat(x, vwq)
  <2> HIDE DEF vw
  <2>1. QED
    BY <1>1, CatAssoc
<1>8. Cat(Cat(or, x), vwq) = Cat(or, Cat(x, vwq))
  <2> HIDE DEF or, vwq
  <2>1. QED
    BY <1>1, <1>2, CatAssoc
<1>9. Lost(Cat(or, Cat(x, vwq)), Cat(or, vwq), Elems(x))
  <2> HIDE DEF or, vwq
  <2>1. QED
    BY <1>1, <1>2, LostBy
<1>10. QED
  BY <1>3, <1>4, <1>5, <1>6, <1>7, <1>8, <1>9

(* The last bytes of the line, or the one in process, are lost.            *)
LEMMA FiveForget ==
  ASSUME NEW o \in Lists, NEW r \in Lists, NEW u \in Lists, NEW p \in Lists,
         NEW q \in Lists, NEW x \in Lists, NEW v \in Lists, NEW w \in Lists,
         Cat(u, p) = Cat(Cat(v, w), x)
  PROVE  Lost(Five(o, r, u, p, q), Five(o, r, v, w, q), Elems(x))
<1> DEFINE or == Cat(o, r)
           vw == Cat(v, w)
           ov == Cat(or, vw)
<1>1. or \in Lists /\ vw \in Lists
  BY CatIn
<1>2. ov \in Lists
  <2> HIDE DEF or, vw
  <2>1. QED
    BY <1>1, CatIn
<1>3. Five(o, r, u, p, q) = Cat(or, Cat(Cat(vw, x), q))
  BY FiveMiddle
<1>4. Five(o, r, v, w, q) = Cat(ov, q)
  BY FiveMiddle
<1>5. Cat(Cat(vw, x), q) = Cat(vw, Cat(x, q))
  <2> HIDE DEF vw
  <2>1. QED
    BY <1>1, CatAssoc
<1>6. Cat(or, Cat(vw, Cat(x, q))) = Cat(ov, Cat(x, q))
  <2> DEFINE xq == Cat(x, q)
  <2>1. xq \in Lists
    BY CatIn
  <2> HIDE DEF or, vw, xq
  <2>2. Cat(Cat(or, vw), xq) = Cat(or, Cat(vw, xq))
    BY <1>1, <2>1, CatAssoc
  <2>3. QED
    BY <2>2 DEF xq
<1>7. Lost(Cat(ov, Cat(x, q)), Cat(ov, q), Elems(x))
  <2> HIDE DEF ov
  <2>1. QED
    BY <1>2, LostBy
<1>8. QED
  BY <1>3, <1>4, <1>5, <1>6, <1>7

(* The interrupt puts a key behind those of the ring.                      *)
LEMMA FiveKey ==
  ASSUME NEW o \in Lists, NEW r \in Lists, NEW u \in Lists, NEW p \in Lists,
         NEW q \in Lists, NEW k \in Nat
  PROVE  Gained(Five(o, r, u, p, q), Five(o, Cat(r, One(k)), u, p, q), k)
<1> DEFINE or == Cat(o, r)
           K == One(k)
           rK == Cat(r, K)
           upq == Cat(u, Cat(p, q))
<1>1. K \in Lists
  BY OneIn
<1>2. or \in Lists /\ upq \in Lists /\ Five(o, r, u, p, q) = Cat(or, upq)
  BY FiveForms, CatIn, CatsIn
<1>3. rK \in Lists /\ Cat(o, rK) = Cat(or, K)
  <2> HIDE DEF K
  <2>1. QED
    BY <1>1, CatIn, CatAssoc
<1>4. Five(o, rK, u, p, q) = Cat(Cat(o, rK), upq)
  <2> HIDE DEF rK
  <2>1. QED
    BY <1>3, FiveForms
<1>5. Cat(Cat(or, K), upq) = Cat(or, Cat(K, upq))
  <2> HIDE DEF or, K, upq
  <2>1. QED
    BY <1>1, <1>2, CatAssoc
<1>6. Gained(Cat(or, upq), Cat(or, Cat(K, upq)), k)
  <2> HIDE DEF or, upq
  <2>1. QED
    BY <1>2, GainedBy
<1>7. QED
  BY <1>2, <1>3, <1>4, <1>5, <1>6

(* The reader takes a key: a byte of the serial line, or the oldest of the *)
(* queue, which may have no byte.                                          *)
LEMMA FivePoll ==
  ASSUME NEW o \in Lists, NEW r \in Lists, NEW u \in Lists, NEW q \in Lists,
         NEW k \in Nat
  PROVE  /\ Gained(Five(o, r, u, NoKeys, q), Five(o, r, u, One(k), q), k)
         /\ Five(o, r, u, NoKeys, Cat(One(k), q)) = Five(o, r, u, One(k), q)
         /\ Lost(Five(o, r, u, NoKeys, Cat(One(k), q)), Five(o, r, u, NoKeys, q), {k})
<1> DEFINE oru == Cat(Cat(o, r), u)
           K == One(k)
           Kq == Cat(K, q)
<1>1. K \in Lists /\ NoKeys \in Lists /\ Elems(K) = {k}
  BY OneIn, ElemsOf
<1>2. oru \in Lists /\ Five(o, r, u, NoKeys, q) = Cat(oru, q)
  <2>1. oru \in Lists
    BY CatsIn
  <2>2. Five(o, r, u, NoKeys, q) = Cat(oru, Cat(NoKeys, q))
    BY <1>1, FiveForms
  <2>3. Cat(NoKeys, q) = q
    BY CatNone
  <2>4. QED
    BY <2>1, <2>2, <2>3
<1> HIDE DEF K
<1>3. Kq \in Lists /\ Five(o, r, u, K, q) = Cat(oru, Kq)
  BY <1>1, FiveForms, CatIn
<1> HIDE DEF Kq
<1>4. Five(o, r, u, NoKeys, Kq) = Cat(oru, Kq)
  BY <1>1, <1>3, FiveForms, CatNone
<1> HIDE DEF oru
<1>5. Gained(Cat(oru, q), Cat(oru, Cat(One(k), q)), k)
  BY <1>2, GainedBy
<1>6. Lost(Cat(oru, Cat(K, q)), Cat(oru, q), Elems(K))
  BY <1>1, <1>2, LostBy
<1>7. QED
  BY <1>1, <1>2, <1>3, <1>4, <1>5, <1>6 DEF K, Kq

(* Uncooked bytes, and an end of file, overtake the ring and the line.     *)
LEMMA FiveOvertake ==
  ASSUME NEW o \in Lists, NEW r \in Lists, NEW u \in Lists, NEW q \in Lists,
         NEW k \in Nat
  PROVE  Moved(Five(o, r, u, One(k), q), Five(Cat(o, One(k)), r, u, NoKeys, q), k)
<1> DEFINE K == One(k)
           Kq == Cat(K, q)
           ru == Cat(r, u)
           ruq == Cat(ru, q)
           oK == Cat(o, K)
<1>1. K \in Lists /\ NoKeys \in Lists
  BY OneIn
<1> HIDE DEF K
<1>2. Kq \in Lists /\ ru \in Lists /\ oK \in Lists
  BY <1>1, CatIn
<1>3. ruq \in Lists
  <2> HIDE DEF ru
  <2>1. QED
    BY <1>2, CatIn
<1>4. Five(o, r, u, K, q) = Cat(o, Cat(r, Cat(u, Kq)))
  BY <1>1, FiveForms
<1>5. Cat(r, Cat(u, Kq)) = Cat(ru, Kq)
  <2> HIDE DEF Kq
  <2>1. QED
    BY <1>2, CatAssoc
<1>6. Five(oK, r, u, NoKeys, q) = Cat(oK, Cat(r, Cat(u, q)))
  <2> HIDE DEF oK
  <2>1. QED
    BY <1>1, <1>2, FiveForms, CatNone
<1>7. Cat(r, Cat(u, q)) = ruq
  BY CatAssoc
<1>8. Cat(oK, ruq) = Cat(o, Cat(K, ruq))
  <2> HIDE DEF ruq
  <2>1. QED
    BY <1>1, <1>3, CatAssoc
<1>9. Moved(Cat(o, Cat(ru, Cat(One(k), q))), Cat(o, Cat(One(k), Cat(ru, q))), k)
  <2> HIDE DEF ru
  <2>1. QED
    BY <1>2 DEF Moved
<1>10. QED
  BY <1>4, <1>5, <1>6, <1>7, <1>8, <1>9 DEF K

LEMMA FiveQueue ==
  ASSUME NEW o \in Lists, NEW r \in Lists, NEW u \in Lists, NEW p \in Lists,
         NEW q \in Lists, NEW k \in Nat
  PROVE  Five(o, r, u, p, Cat(q, One(k))) = Cat(Five(o, r, u, p, q), One(k))
<1> DEFINE K == One(k)
           oru == Cat(Cat(o, r), u)
           orup == Cat(oru, p)
<1>1. K \in Lists
  BY OneIn
<1>2. oru \in Lists
  BY CatsIn
<1>3. orup \in Lists
  <2> HIDE DEF oru
  <2>1. QED
    BY <1>2, CatIn
<1>4. Cat(Cat(orup, q), K) = Cat(orup, Cat(q, K))
  <2> HIDE DEF orup, K
  <2>1. QED
    BY <1>1, <1>3, CatAssoc
<1>5. QED
  BY <1>4 DEF Five

(* What the steps do to the first n keys and to their order.               *)
LEMMA LostKeeps ==
  ASSUME NEW h, NEW g, NEW gone, Lost(h, g, gone)
  PROVE  /\ \A n \in Nat : \A lost :
              Account(h, n, lost) => Account(g, n, lost \union gone)
         /\ \A apart, more :
              apart \subseteq more /\ Ordered(h, apart) => Ordered(g, more)
<1> PICK a \in Lists, b \in Lists, c \in Lists :
           h = Cat(a, Cat(b, c)) /\ g = Cat(a, c) /\ gone = Elems(b)
  BY DEF Lost
<1>1. a \in Seq(Nat) /\ b \in Seq(Nat) /\ c \in Seq(Nat)
  BY DEF Lists
<1>2. h = a \o b \o c /\ g = a \o c
  <2>1. a \o b \o c = a \o (b \o c)
    BY <1>1, NatAssoc
  <2>2. QED
    BY <2>1 DEF Cat
<1>3. ASSUME NEW n \in Nat, NEW lost, Account(h, n, lost)
      PROVE  Account(g, n, lost \union gone)
  <2>1. Account(a \o b \o c, n, lost)
    BY <1>2, <1>3
  <2>2. Account(a \o c, n, lost \union Elems(b))
    BY <1>1, <2>1, AccountDrop
  <2>3. QED
    BY <1>2, <2>2
<1>4. ASSUME NEW apart, NEW more, apart \subseteq more, Ordered(h, apart)
      PROVE  Ordered(g, more)
  <2>1. Ordered(a \o b \o c, apart)
    BY <1>2, <1>4
  <2>2. Ordered(a \o c, more)
    BY <1>1, <1>4, <2>1, OrderedDrop
  <2>3. QED
    BY <1>2, <2>2
<1>5. QED
  BY <1>3, <1>4

LEMMA GainedKeeps ==
  ASSUME NEW h, NEW g, NEW n \in Nat, Gained(h, g, n + 1)
  PROVE  /\ \A lost : Account(h, n, lost) => Account(g, n + 1, lost)
         /\ \A apart, more :
              (apart \subseteq more /\ n + 1 \in more /\ Ordered(h, apart))
                => Ordered(g, more)
<1> PICK a \in Lists, c \in Lists :
           h = Cat(a, c) /\ g = Cat(a, Cat(One(n + 1), c))
  BY DEF Gained
<1>1. a \in Seq(Nat) /\ c \in Seq(Nat) /\ <<n + 1>> \in Seq(Nat) /\ n + 1 \in Nat
  BY DEF Lists
<1>2. h = a \o c /\ g = a \o <<n + 1>> \o c
  BY <1>1, NatAssoc DEF Cat, One
<1>3. ASSUME NEW lost, Account(h, n, lost)
      PROVE  Account(g, n + 1, lost)
  <2>1. Account(a \o c, n, lost)
    BY <1>2, <1>3
  <2>2. Account(a \o <<n + 1>> \o c, n + 1, lost)
    BY <1>1, <2>1, AccountNew
  <2>3. QED
    BY <1>2, <2>2
<1>4. ASSUME NEW apart, NEW more, apart \subseteq more, n + 1 \in more,
             Ordered(h, apart)
      PROVE  Ordered(g, more)
  <2>1. Ordered(a \o c, apart)
    BY <1>2, <1>4
  <2>2. Ordered(a \o <<n + 1>> \o c, more)
    BY <1>1, <1>4, <2>1, OrderedPut
  <2>3. QED
    BY <1>2, <2>2
<1>5. QED
  BY <1>3, <1>4

LEMMA MovedKeeps ==
  ASSUME NEW h, NEW g, NEW k \in Nat, Moved(h, g, k)
  PROVE  /\ \A n \in Nat : \A lost :
              Account(h, n, lost) => Account(g, n, lost)
         /\ \A apart, more :
              (apart \subseteq more /\ k \in more /\ Ordered(h, apart))
                => Ordered(g, more)
<1> PICK a \in Lists, b \in Lists, c \in Lists :
           /\ h = Cat(a, Cat(b, Cat(One(k), c)))
           /\ g = Cat(a, Cat(One(k), Cat(b, c)))
  BY DEF Moved
<1>1. a \in Seq(Nat) /\ b \in Seq(Nat) /\ c \in Seq(Nat) /\ <<k>> \in Seq(Nat)
  BY DEF Lists
<1>2. h = (a \o b) \o <<k>> \o c /\ g = a \o <<k>> \o (b \o c)
  <2>1. h = a \o (b \o (<<k>> \o c)) /\ g = a \o (<<k>> \o (b \o c))
    BY DEF Cat, One
  <2>2. a \o b \in Seq(Nat) /\ b \o c \in Seq(Nat) /\ <<k>> \o c \in Seq(Nat)
    BY <1>1
  <2>3. (a \o b) \o <<k>> \o c = (a \o b) \o (<<k>> \o c)
    BY <1>1, <2>2, NatAssoc
  <2>4. (a \o b) \o (<<k>> \o c) = a \o (b \o (<<k>> \o c))
    <3> DEFINE kc == <<k>> \o c
    <3>1. a \in Seq(Nat) /\ b \in Seq(Nat) /\ kc \in Seq(Nat)
      BY <1>1, <2>2
    <3> HIDE DEF kc
    <3>2. (a \o b) \o kc = a \o (b \o kc)
      BY ONLY <3>1, NatAssoc
    <3>3. QED
      BY <3>2 DEF kc
  <2>5. a \o <<k>> \o (b \o c) = a \o (<<k>> \o (b \o c))
    <3> DEFINE bc == b \o c
               K == <<k>>
    <3>1. bc \in Seq(Nat) /\ K \in Seq(Nat)
      BY <1>1, <2>2
    <3> HIDE DEF bc, K
    <3>2. a \o K \o bc = a \o (K \o bc)
      <4>1. a \in Seq(Nat)
        BY <1>1
      <4>2. QED
        BY ONLY <4>1, <3>1, NatAssoc
    <3>3. QED
      BY <3>2 DEF bc, K
  <2>6. QED
    BY <2>1, <2>3, <2>4, <2>5
<1>3. ASSUME NEW n \in Nat, NEW lost, Account(h, n, lost)
      PROVE  Account(g, n, lost)
  <2>1. Account((a \o b) \o <<k>> \o c, n, lost)
    BY <1>2, <1>3
  <2>2. Account(a \o <<k>> \o (b \o c), n, lost)
    BY <1>1, <2>1, AccountMove
  <2>3. QED
    BY <1>2, <2>2
<1>4. ASSUME NEW apart, NEW more, apart \subseteq more, k \in more,
             Ordered(h, apart)
      PROVE  Ordered(g, more)
  <2>1. Ordered((a \o b) \o <<k>> \o c, apart)
    BY <1>2, <1>4
  <2>2. Ordered(a \o <<k>> \o (b \o c), more)
    BY <1>1, <1>4, <2>1, OrderedMove
  <2>3. QED
    BY <1>2, <2>2
<1>5. QED
  BY <1>3, <1>4

(* A step from h to g: n of the keys have been pressed before it and m     *)
(* after it, and the keys that were given up grow from lost to gone.       *)
Change(h, g, n, m, lost, gone, apart, canon) ==
  \/ m = n /\ \E x : Lost(h, g, x) /\ gone = lost \union x
  \/ m = n /\ gone = lost /\ \E k \in Nat : Moved(h, g, k) /\ (canon => k \in apart)
  \/ /\ m = n + 1 /\ m \in apart
     /\ \E x, mid : Lost(h, mid, x) /\ Gained(mid, g, m) /\ gone = lost \union x
  \/ m = n + 1 /\ gone = lost /\ g = Cat(h, One(m))
  \/ m = n + 1 /\ \E x : Lost(h, g, x) /\ gone = lost \union x \union {m}

LEMMA ChangeAccount ==
  ASSUME NEW h, NEW g, NEW n \in Nat, NEW m, NEW lost, NEW gone, NEW apart,
         NEW canon, Change(h, g, n, m, lost, gone, apart, canon),
         Account(h, n, lost)
  PROVE  Account(g, m, gone)
<1>1. CASE m = n /\ \E x : Lost(h, g, x) /\ gone = lost \union x
  BY <1>1, LostKeeps
<1>2. CASE m = n /\ gone = lost /\ \E k \in Nat : Moved(h, g, k) /\ (canon => k \in apart)
  BY <1>2, MovedKeeps
<1>3. CASE /\ m = n + 1 /\ m \in apart
           /\ \E x, mid : Lost(h, mid, x) /\ Gained(mid, g, m)
                          /\ gone = lost \union x
  <2> PICK x, mid : Lost(h, mid, x) /\ Gained(mid, g, m) /\ gone = lost \union x
    BY <1>3
  <2>1. Account(mid, n, lost \union x)
    BY LostKeeps
  <2>2. Gained(mid, g, n + 1)
    BY <1>3
  <2>3. Account(g, n + 1, lost \union x)
    BY <2>1, <2>2, GainedKeeps
  <2>4. QED
    BY <1>3, <2>3
<1>4. CASE m = n + 1 /\ gone = lost /\ g = Cat(h, One(m))
  <2>1. h \in Seq(1..n) /\ 1..n \subseteq Nat
    BY DEF Account
  <2>2. h \in Seq(Nat) /\ <<>> \in Seq(Nat) /\ <<n + 1>> \in Seq(Nat)
    BY <2>1
  <2>3. h \o <<>> = h /\ (h \o <<n + 1>>) \o <<>> = h \o <<n + 1>>
    BY <2>2, ConcatEmptySeq
  <2>4. Account(h \o <<n + 1>> \o <<>>, n + 1, lost)
    BY <2>2, <2>3, AccountNew
  <2>5. QED
    BY <1>4, <2>3, <2>4 DEF Cat, One
<1>5. CASE m = n + 1 /\ \E x : Lost(h, g, x) /\ gone = lost \union x \union {m}
  <2> PICK x : Lost(h, g, x) /\ gone = lost \union x \union {m}
    BY <1>5
  <2>1. Account(g, n, lost \union x)
    BY LostKeeps
  <2>2. Account(g, n + 1, (lost \union x) \union {n + 1})
    BY <2>1, AccountLose
  <2>3. QED
    BY <1>5, <2>2
<1>6. QED
  BY <1>1, <1>2, <1>3, <1>4, <1>5 DEF Change

LEMMA ChangeOrder ==
  ASSUME NEW h, NEW g, NEW n \in Nat, NEW m, NEW lost, NEW gone, NEW apart,
         NEW more, apart \subseteq more,
         Change(h, g, n, m, lost, gone, more, TRUE), Account(h, n, lost),
         Ordered(h, apart)
  PROVE  Ordered(g, more)
<1>1. CASE m = n /\ \E x : Lost(h, g, x) /\ gone = lost \union x
  BY <1>1, LostKeeps
<1>2. CASE m = n /\ gone = lost /\ \E k \in Nat : Moved(h, g, k) /\ (TRUE => k \in more)
  BY <1>2, MovedKeeps
<1>3. CASE /\ m = n + 1 /\ m \in more
           /\ \E x, mid : Lost(h, mid, x) /\ Gained(mid, g, m)
                          /\ gone = lost \union x
  <2> PICK x, mid : Lost(h, mid, x) /\ Gained(mid, g, m) /\ gone = lost \union x
    BY <1>3
  <2>1. Ordered(mid, apart)
    BY LostKeeps
  <2>2. Gained(mid, g, n + 1)
    BY <1>3
  <2>3. QED
    BY <1>3, <2>1, <2>2, GainedKeeps
<1>4. CASE m = n + 1 /\ gone = lost /\ g = Cat(h, One(m))
  <2>1. h \in Seq(1..n)
    BY DEF Account
  <2>2. Ordered(h \o <<n + 1>>, more)
    BY <2>1, OrderedAppend
  <2>3. QED
    BY <1>4, <2>2 DEF Cat, One
<1>5. CASE m = n + 1 /\ \E x : Lost(h, g, x) /\ gone = lost \union x \union {m}
  BY <1>5, LostKeeps
<1>6. QED
  BY <1>1, <1>2, <1>3, <1>4, <1>5 DEF Change

----------------------------------------------------------------------------
(* The keys of sequences of bytes and of scancodes.                        *)
Keyed(T) == \A x \in T : x.key \in Nat

Joins(s, a, b) ==
  /\ Len(s) = Len(a) + Len(b)
  /\ \A i \in 1..Len(a) : s[i] = a[i]
  /\ \A i \in 1..Len(b) : s[Len(a) + i] = b[i]

LEMMA IsCat ==
  ASSUME NEW S, NEW s \in Seq(S), NEW a \in Seq(S), NEW b \in Seq(S),
         Joins(s, a, b)
  PROVE  s = a \o b
<1>0. /\ Len(s) = Len(a) + Len(b)
      /\ \A i \in 1..Len(a) : s[i] = a[i]
      /\ \A i \in 1..Len(b) : s[Len(a) + i] = b[i]
  BY DEF Joins
<1> DEFINE c == a \o b
<1>1. /\ c \in Seq(S) /\ Len(a) \in Nat /\ Len(b) \in Nat
      /\ Len(c) = Len(a) + Len(b)
      /\ \A i \in 1..Len(a) : c[i] = a[i]
      /\ \A i \in 1..Len(b) : c[Len(a) + i] = b[i]
  BY Cats
<1> HIDE DEF c
<1>2. ASSUME NEW i \in 1..Len(s) PROVE s[i] = c[i]
  <2>1. CASE i <= Len(a)
    BY <1>0, <1>1, <2>1
  <2>2. CASE i > Len(a)
    <3>1. i - Len(a) \in 1..Len(b) /\ Len(a) + (i - Len(a)) = i
      BY <1>0, <1>1, <2>2
    <3>2. s[Len(a) + (i - Len(a))] = c[Len(a) + (i - Len(a))]
      BY <1>0, <1>1, <3>1
    <3>3. QED
      BY <3>1, <3>2
  <2>3. QED
    BY <1>0, <1>1, <2>1, <2>2
<1>3. s = c
  BY <1>0, <1>1, <1>2, SeqEqual
<1>4. QED
  BY <1>3 DEF c

LEMMA KeySeqIn ==
  ASSUME NEW T, Keyed(T), NEW s \in Seq(T)
  PROVE  /\ KeySeq(s) \in Lists /\ Len(KeySeq(s)) = Len(s)
         /\ \A i \in 1..Len(s) : KeySeq(s)[i] = s[i].key
         /\ Elems(KeySeq(s)) = KeysOf(s)
<1>1. Len(s) \in Nat /\ DOMAIN s = 1..Len(s) /\ \A i \in 1..Len(s) : s[i] \in T
  BY Elements
<1>2. KeySeq(s) \in [1..Len(s) -> Nat]
  BY <1>1 DEF KeySeq, Keyed
<1>3. KeySeq(s) \in Seq(Nat) /\ Len(KeySeq(s)) = Len(s)
  BY <1>1, <1>2
<1>4. \A i \in 1..Len(s) : KeySeq(s)[i] = s[i].key
  BY <1>1 DEF KeySeq
<1>5. Elems(KeySeq(s)) = KeysOf(s)
  BY <1>3, <1>4 DEF Elems, KeysOf
<1>6. QED
  BY <1>3, <1>4, <1>5 DEF Lists

LEMMA KeySeqCat ==
  ASSUME NEW T, Keyed(T), NEW s \in Seq(T), NEW t \in Seq(T)
  PROVE  KeySeq(s \o t) = Cat(KeySeq(s), KeySeq(t))
<1> DEFINE st == s \o t
           S == KeySeq(s)
           R == KeySeq(t)
           ST == KeySeq(st)
<1>1. /\ st \in Seq(T) /\ Len(s) \in Nat /\ Len(t) \in Nat
      /\ Len(st) = Len(s) + Len(t)
      /\ \A i \in 1..Len(s) : st[i] = s[i]
      /\ \A i \in 1..Len(t) : st[Len(s) + i] = t[i]
  BY Cats
<1> HIDE DEF st
<1>2. /\ S \in Seq(Nat) /\ Len(S) = Len(s)
      /\ \A i \in 1..Len(s) : S[i] = s[i].key
  BY KeySeqIn DEF Lists
<1>3. /\ R \in Seq(Nat) /\ Len(R) = Len(t)
      /\ \A i \in 1..Len(t) : R[i] = t[i].key
  BY KeySeqIn DEF Lists
<1>4. /\ ST \in Seq(Nat) /\ Len(ST) = Len(st)
      /\ \A i \in 1..Len(st) : ST[i] = st[i].key
  BY <1>1, KeySeqIn DEF Lists
<1> HIDE DEF S, R, ST
<1>5. Len(ST) = Len(S) + Len(R)
  BY <1>1, <1>2, <1>3, <1>4
<1>6. ASSUME NEW i \in 1..Len(S) PROVE ST[i] = S[i]
  <2>1. i \in 1..Len(s) /\ i \in 1..Len(st)
    BY <1>1, <1>2
  <2>2. ST[i] = st[i].key /\ S[i] = s[i].key /\ st[i] = s[i]
    BY <1>1, <1>2, <1>4, <2>1
  <2>3. QED
    BY <2>2
<1>7. ASSUME NEW i \in 1..Len(R) PROVE ST[Len(S) + i] = R[i]
  <2>1. i \in 1..Len(t) /\ Len(s) + i \in 1..Len(st)
    BY <1>1, <1>3
  <2>2. ST[Len(s) + i] = st[Len(s) + i].key
    BY <1>4, <2>1
  <2>3. st[Len(s) + i] = t[i] /\ R[i] = t[i].key
    BY <1>1, <1>3, <2>1
  <2>4. QED
    BY <1>2, <2>2, <2>3
<1>8. ST = S \o R
  <2>1. Joins(ST, S, R)
    BY <1>5, <1>6, <1>7 DEF Joins
  <2>2. QED
    BY <1>2, <1>3, <1>4, <2>1, IsCat
<1>9. QED
  BY <1>8 DEF ST, S, R, st, Cat

LEMMA KeySeqOne ==
  ASSUME NEW x
  PROVE  KeySeq(<<x>>) = One(x.key) /\ KeySeq(<<>>) = NoKeys
BY DEF KeySeq, One, NoKeys

LEMMA KeyedTypes ==
  /\ Keyed(ByteType) /\ Keyed([code : Codes, key : Keys])
  /\ \A x \in ByteType : x.key \in Nat
<1>1. \A x \in 0..MaxKeys : x \in Nat
  BY TtyConstants
<1>2. \A x \in Keys : x \in Nat
  BY TtyConstants DEF Keys
<1>3. \A x \in ByteType : x.key \in Nat
  BY <1>1 DEF ByteType
<1>4. \A x \in [code : Codes, key : Keys] : x.key \in Nat
  BY <1>2
<1>5. QED
  BY <1>3, <1>4 DEF Keyed

----------------------------------------------------------------------------
(* The ring, without wrapping.                                             *)
Gap(hd, tl) == IF tl >= hd THEN tl - hd ELSE tl + RingSize - hd
Spot(hd, i) == IF hd + i - 1 < RingSize THEN hd + i - 1 ELSE hd + i - 1 - RingSize
RingIn(inp, hd, tl) == [i \in 1..Gap(hd, tl) |-> inp[Spot(hd, i)]]

LEMMA GapIs ==
  ASSUME NEW hd \in InputSlots, NEW tl \in InputSlots
  PROVE  /\ (tl + RingSize - hd) % RingSize = Gap(hd, tl)
         /\ hd \in Nat /\ tl \in Nat /\ hd < RingSize /\ tl < RingSize
         /\ RingSize \in Nat \ {0}
         /\ Gap(hd, tl) \in 0..(RingSize - 1)
         /\ Gap(hd, tl) = 0 <=> hd = tl
<1>1. /\ RingSize \in Nat \ {0}
      /\ hd \in Nat /\ tl \in Nat /\ hd < RingSize /\ tl < RingSize
  BY TtyConstants DEF InputSlots
<1>2. tl + RingSize - hd \in 0..(2 * RingSize - 1)
  BY <1>1
<1> DEFINE x == tl + RingSize - hd
<1>3. x % RingSize = IF x < RingSize THEN x ELSE x - RingSize
  <2> HIDE DEF x
  <2>1. x \in 0..(2 * RingSize - 1)
    BY <1>2 DEF x
  <2>2. QED
    BY <1>1, <2>1, Wrap
<1>4. (IF x < RingSize THEN x ELSE x - RingSize) = Gap(hd, tl)
  BY <1>1 DEF Gap
<1>5. /\ Gap(hd, tl) \in 0..(RingSize - 1)
      /\ Gap(hd, tl) = 0 <=> hd = tl
  BY <1>1 DEF Gap
<1>6. QED
  BY <1>1, <1>3, <1>4, <1>5

LEMMA SpotIs ==
  ASSUME NEW hd \in InputSlots, NEW i \in 1..RingSize
  PROVE  /\ (hd + i - 1) % RingSize = Spot(hd, i)
         /\ Spot(hd, i) \in InputSlots
<1>1. RingSize \in Nat \ {0} /\ hd \in Nat /\ hd < RingSize
  BY TtyConstants DEF InputSlots
<1> DEFINE x == hd + i - 1
<1>2. x \in 0..(2 * RingSize - 1)
  BY <1>1
<1>3. x % RingSize = Spot(hd, i)
  <2>1. Spot(hd, i) = IF x < RingSize THEN x ELSE x - RingSize
    BY <1>1 DEF Spot
  <2> HIDE DEF x
  <2>2. x % RingSize = IF x < RingSize THEN x ELSE x - RingSize
    BY <1>1, <1>2, Wrap
  <2>3. QED
    BY <2>1, <2>2
<1>4. Spot(hd, i) \in InputSlots
  BY <1>1 DEF Spot, InputSlots
<1>5. QED
  BY <1>3, <1>4

LEMMA RingInIs ==
  ASSUME NEW inp, NEW hd \in InputSlots, NEW tl \in InputSlots
  PROVE  [i \in 1..((tl + RingSize - hd) % RingSize) |-> inp[(hd + i - 1) % RingSize]]
           = RingIn(inp, hd, tl)
<1>1. (tl + RingSize - hd) % RingSize = Gap(hd, tl)
  BY GapIs
<1>2. ASSUME NEW i \in 1..Gap(hd, tl)
      PROVE  (hd + i - 1) % RingSize = Spot(hd, i)
  <2>1. i \in 1..RingSize
    BY GapIs
  <2>2. QED
    BY <2>1, SpotIs
<1>3. QED
  BY <1>1, <1>2 DEF RingIn

LEMMA RingType ==
  ASSUME NEW inp \in [InputSlots -> ByteType], NEW hd \in InputSlots,
         NEW tl \in InputSlots
  PROVE  /\ RingIn(inp, hd, tl) \in Seq(ByteType)
         /\ Len(RingIn(inp, hd, tl)) = Gap(hd, tl)
         /\ \A i \in 1..Gap(hd, tl) : RingIn(inp, hd, tl)[i] = inp[Spot(hd, i)]
<1>1. Gap(hd, tl) \in Nat
  BY GapIs
<1>2. ASSUME NEW i \in 1..Gap(hd, tl) PROVE Spot(hd, i) \in InputSlots
  <2>1. i \in 1..RingSize
    BY GapIs
  <2>2. QED
    BY <2>1, SpotIs
<1>3. RingIn(inp, hd, tl) \in [1..Gap(hd, tl) -> ByteType]
  BY <1>2 DEF RingIn
<1>4. QED
  BY <1>1, <1>3 DEF RingIn

(* The reader takes the oldest byte.                                       *)
LEMMA RingPops ==
  ASSUME NEW inp \in [InputSlots -> ByteType], NEW hd \in InputSlots,
         NEW tl \in InputSlots, hd # tl
  PROVE  /\ (hd + 1) % RingSize \in InputSlots
         /\ RingIn(inp, hd, tl) =
              <<inp[hd]>> \o RingIn(inp, (hd + 1) % RingSize, tl)
<1>1. /\ RingSize \in Nat \ {0}
      /\ hd \in Nat /\ tl \in Nat /\ hd < RingSize /\ tl < RingSize
  BY GapIs
<1>2. /\ (hd + 1) % RingSize \in InputSlots
      /\ (hd + 1) % RingSize = IF hd + 1 < RingSize THEN hd + 1 ELSE 0
  <2> DEFINE x == hd + 1
  <2>1. x \in 0..(2 * RingSize - 1)
    BY <1>1
  <2>2. x % RingSize = IF x < RingSize THEN x ELSE x - RingSize
    <3> HIDE DEF x
    <3>1. QED
      BY <1>1, <2>1, Wrap
  <2>3. QED
    BY <1>1, <2>2 DEF InputSlots
<1> DEFINE nx == (hd + 1) % RingSize
           r == RingIn(inp, hd, tl)
           s == RingIn(inp, nx, tl)
           f == <<inp[hd]>>
<1>3. nx \in InputSlots /\ nx = IF hd + 1 < RingSize THEN hd + 1 ELSE 0
  BY <1>2
<1> HIDE DEF nx
<1>4. Gap(hd, tl) = 1 + Gap(nx, tl) /\ Gap(nx, tl) \in Nat
  BY <1>1, <1>3, GapIs DEF Gap
<1>5. Spot(hd, 1) = hd /\ \A i \in 1..Gap(nx, tl) : Spot(hd, 1 + i) = Spot(nx, i)
  <2>1. Gap(nx, tl) < RingSize
    BY <1>3, GapIs
  <2>2. QED
    BY <1>1, <1>3, <1>4, <2>1 DEF Spot
<1>6. f \in Seq(ByteType) /\ Len(f) = 1 /\ f[1] = inp[hd]
  OBVIOUS
<1>7. /\ r \in Seq(ByteType) /\ Len(r) = Gap(hd, tl)
      /\ \A i \in 1..Gap(hd, tl) : r[i] = inp[Spot(hd, i)]
  BY RingType
<1>8. /\ s \in Seq(ByteType) /\ Len(s) = Gap(nx, tl)
      /\ \A i \in 1..Gap(nx, tl) : s[i] = inp[Spot(nx, i)]
  BY <1>3, RingType
<1> HIDE DEF r, s, f
<1>9. Len(r) = Len(f) + Len(s)
  BY <1>4, <1>6, <1>7, <1>8
<1>10. \A i \in 1..Len(f) : r[i] = f[i]
  BY <1>4, <1>5, <1>6, <1>7
<1>11. \A i \in 1..Len(s) : r[Len(f) + i] = s[i]
  BY <1>4, <1>5, <1>6, <1>7, <1>8
<1>12. r = f \o s
  <2>1. Joins(r, f, s)
    BY <1>9, <1>10, <1>11 DEF Joins
  <2>2. QED
    BY <1>6, <1>7, <1>8, <2>1, IsCat
<1>13. QED
  BY <1>2, <1>12 DEF r, s, f, nx

(* Bytes are put behind those in use, as far as there is room.             *)
Grown(inp, ina, tl, more) ==
  \A s \in InputSlots :
    ina[s] = IF Gap(tl, s) < Len(more) THEN more[Gap(tl, s) + 1] ELSE inp[s]

LEMMA RingGrows ==
  ASSUME NEW inp \in [InputSlots -> ByteType], NEW ina \in [InputSlots -> ByteType],
         NEW hd \in InputSlots, NEW tl \in InputSlots, NEW more \in Seq(ByteType),
         Gap(hd, tl) + Len(more) < RingSize, Grown(inp, ina, tl, more)
  PROVE  /\ (tl + Len(more)) % RingSize \in InputSlots
         /\ RingIn(ina, hd, (tl + Len(more)) % RingSize) = RingIn(inp, hd, tl) \o more
<1> PICK f \in Nat : f = Len(more)
  BY LenProperties
<1>1. /\ RingSize \in Nat \ {0} /\ Gap(hd, tl) \in Nat
      /\ hd \in Nat /\ tl \in Nat /\ hd < RingSize /\ tl < RingSize
  BY GapIs
<1> PICK x \in Nat : x = tl + f
  BY <1>1
<1> DEFINE nx == x % RingSize
           r == RingIn(inp, hd, tl)
           s == RingIn(ina, hd, nx)
<1>2. x \in 0..(2 * RingSize - 1) /\ f < RingSize /\ Gap(hd, tl) + f < RingSize
  BY <1>1
<1> HIDE DEF nx
<1>3. nx \in InputSlots /\ nx = IF tl + f < RingSize THEN tl + f ELSE tl + f - RingSize
  <2>1. nx = IF x < RingSize THEN x ELSE x - RingSize
    BY <1>1, <1>2, Wrap DEF nx
  <2>2. QED
    BY <1>1, <1>2, <2>1 DEF InputSlots
<1>4. Gap(hd, nx) = Gap(hd, tl) + f
  <2>1. CASE tl + f < RingSize
    BY <1>1, <1>3, <2>1 DEF Gap
  <2>2. CASE tl + f >= RingSize
    <3>1. nx = tl + f - RingSize
      BY <1>1, <1>3, <2>2
    <3>2. tl >= hd /\ nx < hd
      BY <1>1, <2>2, <3>1 DEF Gap
    <3>3. QED
      BY <1>1, <3>1, <3>2 DEF Gap
  <2>3. QED
    BY <1>1, <2>1, <2>2
<1>5. /\ r \in Seq(ByteType) /\ Len(r) = Gap(hd, tl)
      /\ \A i \in 1..Gap(hd, tl) : r[i] = inp[Spot(hd, i)]
  BY RingType
<1>6. /\ s \in Seq(ByteType) /\ Len(s) = Gap(hd, nx)
      /\ \A i \in 1..Gap(hd, nx) : s[i] = ina[Spot(hd, i)]
  BY ONLY ina \in [InputSlots -> ByteType], hd \in InputSlots, <1>3, RingType
     DEF s
<1> HIDE DEF r, s
<1>7. ASSUME NEW i \in 1..Gap(hd, tl)
      PROVE  s[i] = r[i]
  <2>1. i \in 1..RingSize /\ i \in Nat /\ i >= 1 /\ i <= Gap(hd, tl)
    BY <1>1
  <2>2. Spot(hd, i) \in InputSlots
    BY <2>1, SpotIs
  <2>3. ~ (Gap(tl, Spot(hd, i)) < f)
    BY <1>1, <2>1 DEF Gap, Spot
  <2>4. ina[Spot(hd, i)] = inp[Spot(hd, i)]
    BY <2>2, <2>3 DEF Grown
  <2>5. i \in 1..Gap(hd, nx)
    BY <1>1, <1>4, <2>1
  <2>6. QED
    BY <1>5, <1>6, <2>4, <2>5
<1>8. ASSUME NEW j \in 1..f
      PROVE  s[Gap(hd, tl) + j] = more[j]
  <2> PICK i \in Nat : i = Gap(hd, tl) + j
    BY <1>1
  <2>1. /\ i \in 1..RingSize /\ i >= 1 /\ i <= Gap(hd, tl) + f
        /\ i - Gap(hd, tl) = j
    BY ONLY <1>1, <1>2, f \in Nat, i \in Nat, j \in 1..f, i = Gap(hd, tl) + j
  <2>2. Spot(hd, i) \in InputSlots
    BY <2>1, SpotIs
  <2>3. Gap(tl, Spot(hd, i)) = j - 1
    BY <1>1, <2>1 DEF Gap, Spot
  <2>4. j - 1 < Len(more) /\ j - 1 + 1 = j
    OBVIOUS
  <2>5. ina[Spot(hd, i)] = more[j]
    BY <2>2, <2>3, <2>4 DEF Grown
  <2>6. i \in 1..Gap(hd, nx)
    BY <1>1, <1>4, <2>1
  <2>7. QED
    BY <1>6, <2>5, <2>6
<1>9. Len(s) = Len(r) + Len(more)
  BY <1>4, <1>5, <1>6
<1>10. (\A i \in 1..Len(r) : s[i] = r[i])
       /\ (\A j \in 1..Len(more) : s[Len(r) + j] = more[j])
  BY <1>5, <1>7, <1>8
<1>11. s = r \o more
  <2>1. Joins(s, r, more)
    BY <1>9, <1>10 DEF Joins
  <2>2. QED
    BY <1>5, <1>6, <2>1, IsCat
<1>12. QED
  BY <1>3, <1>11 DEF r, s, nx

----------------------------------------------------------------------------
(* The keys held, in five parts.                                           *)
OutKeys == KeySeq(out)
RingKeys == KeySeq(Ring)
LineKeys == KeySeq(Unsent)
NowKeys == KeySeq(InProcess)
WaitKeys == KeySeq(queue)

LEMMA RingIs ==
  ASSUME TypeOK
  PROVE  Ring = RingIn(input, input_head, input_tail)
BY RingInIs DEF Ring, InputCount, TypeOK

LEMMA RingIsNext ==
  ASSUME input_head' \in InputSlots, input_tail' \in InputSlots
  PROVE  Ring' = RingIn(input', input_head', input_tail')
BY RingInIs DEF Ring, InputCount

LEMMA LineSeq ==
  ASSUME TypeOK, NEW from \in 0..LineSize
  PROVE  Line(from) \in Seq(ByteType)
<1>1. CASE from <= line_len
  BY <1>1, LineType, Zeros DEF TypeOK
<1>2. CASE from > line_len
  <2>1. 1..(line_len - from) = 1..0
    BY <1>2, Zeros DEF TypeOK
  <2>2. Line(from) \in [1..0 -> ByteType]
    BY <2>1 DEF Line
  <2>3. QED
    BY <2>2, SeqDef
<1>3. QED
  BY <1>1, <1>2, Zeros DEF TypeOK

LEMMA PartTypes ==
  ASSUME TtyInv
  PROVE  /\ out \in Seq(ByteType) /\ Ring \in Seq(ByteType)
         /\ Unsent \in Seq(ByteType) /\ InProcess \in Seq(ByteType)
         /\ queue \in Seq([code : Codes, key : Keys])
         /\ KeysOf(Line(0)) \subseteq 0..MaxKeys
<1>1. TypeOK /\ LinePlace
  BY DEF TtyInv
<1>2. Ring \in Seq(ByteType)
  BY <1>1, RingIs, RingType DEF TypeOK
<1>3. Line(0) \in Seq(ByteType) /\ Line(index) \in Seq(ByteType)
  BY <1>1, LineSeq, Zeros DEF TypeOK
<1>4. Unsent \in Seq(ByteType)
  BY <1>3 DEF Unsent
<1>5. InProcess \in Seq(ByteType)
  BY <1>1 DEF InProcess, TypeOK
<1>6. QED
  BY <1>1, <1>2, <1>3, <1>4, <1>5, KeysOfType DEF LinePlace

LEMMA Parts ==
  ASSUME TtyInv
  PROVE  /\ Held = Five(OutKeys, RingKeys, LineKeys, NowKeys, WaitKeys)
         /\ OutKeys \in Lists /\ RingKeys \in Lists /\ LineKeys \in Lists
         /\ NowKeys \in Lists /\ WaitKeys \in Lists
<1>1. Held = Five(OutKeys, RingKeys, LineKeys, NowKeys, WaitKeys)
  BY DEF Held, Five, Cat, OutKeys, RingKeys, LineKeys, NowKeys, WaitKeys
<1>2. OutKeys \in Lists /\ RingKeys \in Lists /\ LineKeys \in Lists
      /\ NowKeys \in Lists /\ WaitKeys \in Lists
  BY PartTypes, KeyedTypes, KeySeqIn
     DEF OutKeys, RingKeys, LineKeys, NowKeys, WaitKeys
<1>3. QED
  BY <1>1, <1>2

LEMMA PartsNext ==
  ASSUME TtyInv'
  PROVE  /\ Held' = Five(OutKeys', RingKeys', LineKeys', NowKeys', WaitKeys')
         /\ OutKeys' \in Lists /\ RingKeys' \in Lists /\ LineKeys' \in Lists
         /\ NowKeys' \in Lists /\ WaitKeys' \in Lists
<1>1. (/\ Held = Five(OutKeys, RingKeys, LineKeys, NowKeys, WaitKeys)
       /\ OutKeys \in Lists /\ RingKeys \in Lists /\ LineKeys \in Lists
       /\ NowKeys \in Lists /\ WaitKeys \in Lists)'
  BY Parts, PTL
<1>2. QED
  BY <1>1 DEF Five, Cat

(* What a step does to the keys.                                           *)
Moves ==
  Change(Held, Held', typed, typed', dropped, dropped', Apart', mode.canon)
Steps == TtyInv /\ TtyInv'

LEMMA SameMoves ==
  ASSUME Steps, Held' = Held, typed' = typed, dropped' = dropped
  PROVE  Moves
<1>1. Held \in Lists
  BY Parts, FiveForms DEF Steps
<1>2. Lost(Held, Held', {}) /\ dropped' = dropped \union {}
  BY <1>1, LostNothing
<1>3. QED
  BY <1>2 DEF Moves, Change

LEMMA SameParts ==
  ASSUME Steps, OutKeys' = OutKeys, RingKeys' = RingKeys, LineKeys' = LineKeys,
         NowKeys' = NowKeys, WaitKeys' = WaitKeys
  PROVE  Held' = Held
BY Parts, PartsNext DEF Steps

LEMMA TakeMoves ==
  ASSUME Steps, NEW k \in Nat, RingKeys = Cat(One(k), RingKeys'),
         LineKeys' = LineKeys, NowKeys' = NowKeys, WaitKeys' = WaitKeys,
         typed' = typed,
         \/ OutKeys' = Cat(OutKeys, One(k)) /\ dropped' = dropped
         \/ OutKeys' = OutKeys /\ dropped' = dropped \union {k}
  PROVE  Moves
<1> PICK o \in Lists, r \in Lists, u \in Lists, p \in Lists, q \in Lists :
           /\ o = OutKeys /\ r = RingKeys' /\ u = LineKeys
           /\ p = NowKeys /\ q = WaitKeys
  BY Parts, PartsNext DEF Steps
<1>1. Held = Five(o, Cat(One(k), r), u, p, q)
  BY Parts DEF Steps
<1>2. /\ Five(o, Cat(One(k), r), u, p, q) = Five(Cat(o, One(k)), r, u, p, q)
      /\ Lost(Five(o, Cat(One(k), r), u, p, q), Five(o, r, u, p, q), {k})
  BY FiveTake
<1>3. CASE OutKeys' = Cat(OutKeys, One(k)) /\ dropped' = dropped
  <2>1. Held' = Five(Cat(o, One(k)), r, u, p, q)
    BY <1>3, PartsNext DEF Steps
  <2>2. QED
    BY <1>1, <1>2, <1>3, <2>1, SameMoves
<1>4. CASE OutKeys' = OutKeys /\ dropped' = dropped \union {k}
  <2>1. Held' = Five(o, r, u, p, q)
    BY <1>4, PartsNext DEF Steps
  <2>2. QED
    BY <1>1, <1>2, <1>4, <2>1 DEF Moves, Change
<1>5. QED
  BY <1>3, <1>4

LEMMA SendMoves ==
  ASSUME Steps, NEW x \in Lists,
         Cat(LineKeys, NowKeys) = Cat(x, Cat(LineKeys', NowKeys')),
         OutKeys' = OutKeys, WaitKeys' = WaitKeys, typed' = typed,
         \/ RingKeys' = Cat(RingKeys, x) /\ dropped' = dropped
         \/ RingKeys' = RingKeys /\ dropped' = dropped \union Elems(x)
  PROVE  Moves
<1> PICK o \in Lists, r \in Lists, u \in Lists, p \in Lists, q \in Lists,
         v \in Lists, w \in Lists :
           /\ o = OutKeys /\ r = RingKeys /\ u = LineKeys
           /\ p = NowKeys /\ q = WaitKeys /\ v = LineKeys' /\ w = NowKeys'
  BY Parts, PartsNext DEF Steps
<1>1. Held = Five(o, r, u, p, q)
  BY Parts DEF Steps
<1>2. /\ Five(o, r, u, p, q) = Five(o, Cat(r, x), v, w, q)
      /\ Lost(Five(o, r, u, p, q), Five(o, r, v, w, q), Elems(x))
  <2>1. Cat(u, p) = Cat(x, Cat(v, w))
    OBVIOUS
  <2>2. /\ o \in Lists /\ r \in Lists /\ u \in Lists /\ p \in Lists
        /\ q \in Lists /\ x \in Lists /\ v \in Lists /\ w \in Lists
    OBVIOUS
  <2>3. QED
    BY ONLY <2>1, <2>2, FiveSend
<1>3. CASE RingKeys' = Cat(RingKeys, x) /\ dropped' = dropped
  <2>1. Held' = Five(o, Cat(r, x), v, w, q)
    BY <1>3, PartsNext DEF Steps
  <2>2. QED
    BY <1>1, <1>2, <1>3, <2>1, SameMoves
<1>4. CASE RingKeys' = RingKeys /\ dropped' = dropped \union Elems(x)
  <2>1. Held' = Five(o, r, v, w, q)
    BY <1>4, PartsNext DEF Steps
  <2>2. QED
    BY <1>1, <1>2, <1>4, <2>1 DEF Moves, Change
<1>5. QED
  BY <1>3, <1>4

LEMMA ForgetMoves ==
  ASSUME Steps, NEW x \in Lists,
         Cat(LineKeys, NowKeys) = Cat(Cat(LineKeys', NowKeys'), x),
         OutKeys' = OutKeys, RingKeys' = RingKeys, WaitKeys' = WaitKeys,
         typed' = typed, dropped' = dropped \union Elems(x)
  PROVE  Moves
<1> PICK o \in Lists, r \in Lists, u \in Lists, p \in Lists, q \in Lists,
         v \in Lists, w \in Lists :
           /\ o = OutKeys /\ r = RingKeys /\ u = LineKeys
           /\ p = NowKeys /\ q = WaitKeys /\ v = LineKeys' /\ w = NowKeys'
  BY Parts, PartsNext DEF Steps
<1>1. Held = Five(o, r, u, p, q) /\ Held' = Five(o, r, v, w, q)
  BY Parts, PartsNext DEF Steps
<1>2. Lost(Five(o, r, u, p, q), Five(o, r, v, w, q), Elems(x))
  <2>1. Cat(u, p) = Cat(Cat(v, w), x)
    OBVIOUS
  <2>2. QED
    BY <2>1, FiveForget
<1>3. QED
  BY <1>1, <1>2 DEF Moves, Change

(* The byte in process is given up.                                        *)
LEMMA DoneMoves ==
  ASSUME Steps, NEW k \in Nat, NowKeys = One(k), NowKeys' = NoKeys,
         LineKeys' = LineKeys, OutKeys' = OutKeys, RingKeys' = RingKeys,
         WaitKeys' = WaitKeys, typed' = typed, dropped' = dropped \union {k}
  PROVE  Moves
<1>1. LineKeys \in Lists /\ Elems(One(k)) = {k} /\ One(k) \in Lists
  BY Parts, ElemsOf, OneIn DEF Steps
<1>2. Cat(LineKeys, NoKeys) = LineKeys
  BY <1>1, CatNone
<1>3. Cat(LineKeys, NowKeys) = Cat(Cat(LineKeys', NowKeys'), One(k))
  BY <1>2
<1>4. QED
  BY <1>1, <1>3, ForgetMoves

LEMMA OvertakeMoves ==
  ASSUME Steps, NEW k \in Nat, NowKeys = One(k), NowKeys' = NoKeys,
         OutKeys' = Cat(OutKeys, One(k)), LineKeys' = LineKeys,
         RingKeys' = RingKeys, WaitKeys' = WaitKeys,
         typed' = typed, dropped' = dropped, mode.canon => k \in Apart'
  PROVE  Moves
<1> PICK o \in Lists, r \in Lists, u \in Lists, q \in Lists :
           o = OutKeys /\ r = RingKeys /\ u = LineKeys /\ q = WaitKeys
  BY Parts DEF Steps
<1>1. /\ Held = Five(o, r, u, One(k), q)
      /\ Held' = Five(Cat(o, One(k)), r, u, NoKeys, q)
  BY Parts, PartsNext DEF Steps
<1>2. Moved(Five(o, r, u, One(k), q), Five(Cat(o, One(k)), r, u, NoKeys, q), k)
  BY FiveOvertake
<1>3. QED
  BY <1>1, <1>2 DEF Moves, Change

(* A byte comes from the serial line.                                      *)
LEMMA SerialMoves ==
  ASSUME Steps, typed' = typed + 1, typed' \in Nat, typed' \in Apart',
         NowKeys = NoKeys, NowKeys' = One(typed'), OutKeys' = OutKeys,
         LineKeys' = LineKeys, RingKeys' = RingKeys, WaitKeys' = WaitKeys,
         dropped' = dropped
  PROVE  Moves
<1> PICK o \in Lists, r \in Lists, u \in Lists, q \in Lists, k \in Nat :
           /\ o = OutKeys /\ r = RingKeys /\ u = LineKeys /\ q = WaitKeys
           /\ k = typed'
  BY Parts DEF Steps
<1>1. Held = Five(o, r, u, NoKeys, q) /\ Held' = Five(o, r, u, One(k), q)
  BY Parts, PartsNext DEF Steps
<1>2. Gained(Five(o, r, u, NoKeys, q), Five(o, r, u, One(k), q), k)
  BY FivePoll
<1>3. Held \in Lists
  BY Parts, FiveForms DEF Steps
<1>4. Lost(Held, Held, {}) /\ dropped' = dropped \union {}
  BY <1>3, LostNothing
<1>5. Gained(Held, Held', typed')
  BY <1>1, <1>2
<1>6. QED
  BY <1>4, <1>5 DEF Moves, Change

(* The oldest key of the queue has a byte, or none.                        *)
LEMMA KeyboardMoves ==
  ASSUME Steps, NEW k \in Nat, NowKeys = NoKeys, WaitKeys = Cat(One(k), WaitKeys'),
         OutKeys' = OutKeys, LineKeys' = LineKeys, RingKeys' = RingKeys,
         typed' = typed,
         \/ NowKeys' = One(k) /\ dropped' = dropped
         \/ NowKeys' = NoKeys /\ dropped' = dropped \union {k}
  PROVE  Moves
<1> PICK o \in Lists, r \in Lists, u \in Lists, q \in Lists :
           o = OutKeys /\ r = RingKeys /\ u = LineKeys /\ q = WaitKeys'
  BY Parts, PartsNext DEF Steps
<1>1. Held = Five(o, r, u, NoKeys, Cat(One(k), q))
  BY Parts DEF Steps
<1>2. /\ Five(o, r, u, NoKeys, Cat(One(k), q)) = Five(o, r, u, One(k), q)
      /\ Lost(Five(o, r, u, NoKeys, Cat(One(k), q)), Five(o, r, u, NoKeys, q), {k})
  BY FivePoll
<1>3. CASE NowKeys' = One(k) /\ dropped' = dropped
  <2>1. Held' = Five(o, r, u, One(k), q)
    BY <1>3, PartsNext DEF Steps
  <2>2. QED
    BY <1>1, <1>2, <1>3, <2>1, SameMoves
<1>4. CASE NowKeys' = NoKeys /\ dropped' = dropped \union {k}
  <2>1. Held' = Five(o, r, u, NoKeys, q)
    BY <1>4, PartsNext DEF Steps
  <2>2. QED
    BY <1>1, <1>2, <1>4, <2>1 DEF Moves, Change
<1>5. QED
  BY <1>3, <1>4

(* A key is queued, or the queue is full.                                  *)
LEMMA QueueMoves ==
  ASSUME Steps, typed' = typed + 1, typed' \in Nat, NowKeys' = NowKeys,
         OutKeys' = OutKeys, LineKeys' = LineKeys, RingKeys' = RingKeys,
         \/ WaitKeys' = Cat(WaitKeys, One(typed')) /\ dropped' = dropped
         \/ WaitKeys' = WaitKeys /\ dropped' = dropped \union {typed'}
  PROVE  Moves
<1>1. CASE WaitKeys' = Cat(WaitKeys, One(typed')) /\ dropped' = dropped
  <2> PICK o \in Lists, r \in Lists, u \in Lists, p \in Lists, q \in Lists, k \in Nat :
             /\ o = OutKeys /\ r = RingKeys /\ u = LineKeys
             /\ p = NowKeys /\ q = WaitKeys /\ k = typed'
    BY Parts DEF Steps
  <2>1. Held = Five(o, r, u, p, q) /\ Held' = Five(o, r, u, p, Cat(q, One(k)))
    BY <1>1, Parts, PartsNext DEF Steps
  <2>2. Five(o, r, u, p, Cat(q, One(k))) = Cat(Five(o, r, u, p, q), One(k))
    BY FiveQueue
  <2>3. Held' = Cat(Held, One(typed'))
    BY <2>1, <2>2
  <2>4. QED
    BY <1>1, <2>3 DEF Moves, Change
<1>2. CASE WaitKeys' = WaitKeys /\ dropped' = dropped \union {typed'}
  <2>1. Held \in Lists /\ Held' = Held
    BY <1>2, SameParts, Parts, FiveForms DEF Steps
  <2>2. Lost(Held, Held', {}) /\ dropped' = dropped \union {} \union {typed'}
    BY <1>2, <2>1, LostNothing
  <2>3. QED
    BY <2>2 DEF Moves, Change
<1>3. QED
  BY <1>1, <1>2

(* The interrupt sends x of the line to the ring, forgets y, and puts its  *)
(* own byte behind them, if there is room.                                 *)
LEMMA PressMoves ==
  ASSUME Steps, NEW x \in Lists, NEW y \in Lists,
         LineKeys = Cat(x, Cat(y, LineKeys')),
         typed' = typed + 1, typed' \in Nat, typed' \in Apart',
         NowKeys' = NowKeys, OutKeys' = OutKeys, WaitKeys' = WaitKeys,
         \/ /\ RingKeys' = Cat(Cat(RingKeys, x), One(typed'))
            /\ dropped' = dropped \union Elems(y)
         \/ /\ RingKeys' = Cat(RingKeys, x)
            /\ dropped' = dropped \union Elems(y) \union {typed'}
  PROVE  Moves
<1> PICK o \in Lists, r \in Lists, u \in Lists, p \in Lists, q \in Lists,
         v \in Lists, k \in Nat :
           /\ o = OutKeys /\ r = RingKeys /\ u = LineKeys
           /\ p = NowKeys /\ q = WaitKeys /\ v = LineKeys' /\ k = typed'
  BY Parts, PartsNext DEF Steps
<1> DEFINE rx == Cat(r, x)
           yv == Cat(y, v)
<1>1. rx \in Lists /\ yv \in Lists
  BY CatIn
<1>2. Cat(u, p) = Cat(x, Cat(yv, p)) /\ Cat(yv, p) = Cat(y, Cat(v, p))
  <2>1. u = Cat(x, yv)
    OBVIOUS
  <2>2. Cat(yv, p) = Cat(y, Cat(v, p))
    BY CatAssoc
  <2> HIDE DEF yv
  <2>3. Cat(Cat(x, yv), p) = Cat(x, Cat(yv, p))
    BY <1>1, CatAssoc
  <2>4. QED
    BY <2>1, <2>2, <2>3
<1> HIDE DEF yv
<1>3. Five(o, r, u, p, q) = Five(o, rx, yv, p, q)
  <2>1. Five(o, r, u, p, q) = Five(o, Cat(r, x), yv, p, q)
    <3>1. /\ o \in Lists /\ r \in Lists /\ u \in Lists /\ p \in Lists
          /\ q \in Lists /\ x \in Lists /\ yv \in Lists
      BY <1>1
    <3>2. Cat(u, p) = Cat(x, Cat(yv, p))
      BY <1>2
    <3>3. /\ Five(o, r, u, p, q) = Five(o, Cat(r, x), yv, p, q)
          /\ Lost(Five(o, r, u, p, q), Five(o, r, yv, p, q), Elems(x))
      BY ONLY <3>1, <3>2, FiveSend
    <3>4. QED
      BY <3>3
  <2>2. QED
    BY <2>1
<1> HIDE DEF rx
<1>4. Lost(Five(o, rx, yv, p, q), Five(o, rx, v, p, q), Elems(y))
  <2>1. /\ o \in Lists /\ rx \in Lists /\ yv \in Lists /\ p \in Lists
        /\ q \in Lists /\ y \in Lists /\ v \in Lists
    BY <1>1
  <2>2. Cat(yv, p) = Cat(y, Cat(v, p))
    BY <1>2
  <2>3. QED
    BY ONLY <2>1, <2>2, FiveSend
<1>5. Held = Five(o, r, u, p, q)
  BY Parts DEF Steps
<1>6. Lost(Held, Five(o, rx, v, p, q), Elems(y))
  BY <1>3, <1>4, <1>5
<1>7. CASE /\ RingKeys' = Cat(Cat(RingKeys, x), One(typed'))
           /\ dropped' = dropped \union Elems(y)
  <2>1. Held' = Five(o, Cat(rx, One(k)), v, p, q)
    BY <1>7, PartsNext DEF Steps, rx
  <2>2. Gained(Five(o, rx, v, p, q), Five(o, Cat(rx, One(k)), v, p, q), k)
    BY <1>1, FiveKey
  <2>3. Gained(Five(o, rx, v, p, q), Held', typed')
    BY <2>1, <2>2
  <2>4. QED
    BY <1>6, <1>7, <2>3 DEF Moves, Change
<1>8. CASE /\ RingKeys' = Cat(RingKeys, x)
           /\ dropped' = dropped \union Elems(y) \union {typed'}
  <2>1. Held' = Five(o, rx, v, p, q)
    BY <1>8, PartsNext DEF Steps, rx
  <2>2. QED
    BY <1>6, <1>8, <2>1 DEF Moves, Change
<1>9. QED
  BY <1>7, <1>8

----------------------------------------------------------------------------
(* The parts, as the variables change.                                     *)
LEMMA AppendIsCat ==
  ASSUME NEW S, NEW s \in Seq(S), NEW e \in S
  PROVE  Append(s, e) = s \o <<e>> /\ <<e>> \in Seq(S)
OBVIOUS

LEMMA OutSame ==
  ASSUME out' = out
  PROVE  OutKeys' = OutKeys
BY DEF OutKeys, KeySeq

LEMMA OutAppended ==
  ASSUME TtyInv, NEW b \in ByteNames, NEW k \in 0..MaxKeys,
         out' = Append(out, KeyByte(b, k))
  PROVE  OutKeys' = Cat(OutKeys, One(k))
<1> DEFINE e == KeyByte(b, k)
<1>1. e \in ByteType /\ e.key = k
  BY DEF KeyByte, ByteType
<1> HIDE DEF e
<1>2. out \in Seq(ByteType) /\ Keyed(ByteType)
  BY PartTypes, KeyedTypes
<1>3. Append(out, e) = out \o <<e>> /\ <<e>> \in Seq(ByteType)
  BY <1>1, <1>2, AppendIsCat
<1>4. KeySeq(out \o <<e>>) = Cat(KeySeq(out), KeySeq(<<e>>))
  <2> DEFINE t == <<e>>
  <2>1. t \in Seq(ByteType)
    BY <1>3
  <2> HIDE DEF t
  <2>2. KeySeq(out \o t) = Cat(KeySeq(out), KeySeq(t))
    BY <1>2, <2>1, KeySeqCat
  <2>3. QED
    BY <2>2 DEF t
<1>5. KeySeq(<<e>>) = One(k)
  BY <1>1, KeySeqOne
<1>6. out' = out \o <<e>>
  BY <1>3 DEF e
<1>7. OutKeys' = KeySeq(out \o <<e>>)
  BY <1>6 DEF OutKeys, KeySeq
<1>8. QED
  BY <1>4, <1>5, <1>7 DEF OutKeys

LEMMA WaitSame ==
  ASSUME queue' = queue
  PROVE  WaitKeys' = WaitKeys
BY DEF WaitKeys, KeySeq

LEMMA WaitAppended ==
  ASSUME TtyInv, NEW e \in [code : Codes, key : Keys], queue' = Append(queue, e)
  PROVE  WaitKeys' = Cat(WaitKeys, One(e.key))
<1> DEFINE T == [code : Codes, key : Keys]
           t == <<e>>
<1>1. queue \in Seq(T) /\ Keyed(T) /\ e \in T
  BY PartTypes, KeyedTypes
<1> HIDE DEF T
<1>2. Append(queue, e) = queue \o t /\ t \in Seq(T) /\ KeySeq(t) = One(e.key)
  BY <1>1, AppendIsCat, KeySeqOne
<1> HIDE DEF t
<1>3. KeySeq(queue \o t) = Cat(KeySeq(queue), KeySeq(t))
  BY <1>1, <1>2, KeySeqCat
<1>4. WaitKeys' = KeySeq(queue \o t)
  BY <1>2 DEF WaitKeys, KeySeq
<1>5. QED
  BY <1>2, <1>3, <1>4 DEF WaitKeys

LEMMA WaitTail ==
  ASSUME TtyInv, queue # <<>>, queue' = Tail(queue)
  PROVE  /\ WaitKeys = Cat(One(queue[1].key), WaitKeys')
         /\ queue[1].key \in Nat /\ queue[1] \in [code : Codes, key : Keys]
<1> DEFINE T == [code : Codes, key : Keys]
           t == <<queue[1]>>
           s == Tail(queue)
<1>1. queue \in Seq(T) /\ Keyed(T)
  BY PartTypes, KeyedTypes
<1> HIDE DEF T
<1>2. queue[1] \in T /\ t \in Seq(T) /\ s \in Seq(T) /\ queue = t \o s
  <2>1. queue = <<Head(queue)>> \o Tail(queue) /\ Head(queue) = queue[1]
        /\ Head(queue) \in T /\ Tail(queue) \in Seq(T)
    <3>1. /\ Head(queue) \in T /\ Tail(queue) \in Seq(T) /\ Len(queue) \in Nat
          /\ Len(queue) > 0 /\ Head(queue) = queue[1]
          /\ Len(Tail(queue)) = Len(queue) - 1
          /\ \A i \in 1..Len(Tail(queue)) : Tail(queue)[i] = queue[i + 1]
      BY <1>1, HeadTailProperties, EmptySeq
    <3> DEFINE hs == <<Head(queue)>>
               ts == Tail(queue)
    <3>2. hs \in Seq(T) /\ Len(hs) = 1 /\ hs[1] = queue[1]
      BY <3>1
    <3> HIDE DEF hs
    <3>3. ts \in Seq(T) /\ Len(ts) = Len(queue) - 1
          /\ \A i \in 1..Len(ts) : ts[i] = queue[i + 1]
      BY <3>1
    <3> HIDE DEF ts
    <3>4. Joins(queue, hs, ts)
      <4>1. Len(queue) = Len(hs) + Len(ts)
        BY <3>1, <3>2, <3>3
      <4>2. \A i \in 1..Len(hs) : queue[i] = hs[i]
        BY <3>2
      <4>3. \A i \in 1..Len(ts) : queue[Len(hs) + i] = ts[i]
        BY <3>2, <3>3
      <4>4. QED
        BY <4>1, <4>2, <4>3 DEF Joins
    <3>5. queue = hs \o ts
      BY <1>1, <3>2, <3>3, <3>4, IsCat
    <3>6. QED
      BY <3>1, <3>5 DEF hs, ts
  <2>2. QED
    BY <2>1
<1>3. KeySeq(t) = One(queue[1].key) /\ queue[1].key \in Nat
  BY <1>1, <1>2, KeySeqOne DEF Keyed
<1>4. WaitKeys' = KeySeq(s)
  BY DEF WaitKeys, KeySeq
<1> HIDE DEF t, s
<1>5. KeySeq(t \o s) = Cat(KeySeq(t), KeySeq(s))
  BY <1>1, <1>2, KeySeqCat
<1>6. WaitKeys = KeySeq(t \o s)
  BY <1>2 DEF WaitKeys
<1>7. QED
  BY <1>2, <1>3, <1>4, <1>5, <1>6 DEF T

LEMMA NowIs ==
  /\ raw.key = 0 => NowKeys = NoKeys
  /\ raw.key # 0 => NowKeys = One(raw.key)
BY KeySeqOne DEF NowKeys, InProcess

LEMMA NowIsNext ==
  /\ raw'.key = 0 => NowKeys' = NoKeys
  /\ raw'.key # 0 => NowKeys' = One(raw'.key)
<1>1. (/\ raw.key = 0 => NowKeys = NoKeys
       /\ raw.key # 0 => NowKeys = One(raw.key))'
  BY NowIs, PTL
<1>2. QED
  BY <1>1 DEF One, NoKeys

LEMMA NowSame ==
  ASSUME raw' = raw
  PROVE  NowKeys' = NowKeys
BY DEF NowKeys, InProcess, KeySeq

LEMMA LineSame ==
  ASSUME line' = line, line_len' = line_len, index' = index,
         pc' = "clear" <=> pc = "clear"
  PROVE  LineKeys' = LineKeys
BY DEF LineKeys, Unsent, Line, KeySeq

LEMMA RingSame ==
  ASSUME UNCHANGED inputVars
  PROVE  RingKeys' = RingKeys
BY DEF RingKeys, Ring, InputCount, KeySeq, inputVars

LEMMA RingTaken ==
  ASSUME TypeOK, input_head # input_tail, input' = input,
         input_tail' = input_tail, input_head' = (input_head + 1) % RingSize
  PROVE  RingKeys = Cat(One(input[input_head].key), RingKeys')
<1> DEFINE s == RingIn(input, input_head, input_tail)
           t == <<input[input_head]>>
           r == RingIn(input, (input_head + 1) % RingSize, input_tail)
<1>1. /\ input \in [InputSlots -> ByteType]
      /\ input_head \in InputSlots /\ input_tail \in InputSlots
  BY DEF TypeOK
<1>2. (input_head + 1) % RingSize \in InputSlots /\ s = t \o r
  BY <1>1, RingPops
<1>3. Ring = s
  BY RingIs
<1>4. Ring' = r
  <2>1. input_head' \in InputSlots /\ input_tail' \in InputSlots
    BY <1>1, <1>2
  <2>2. Ring' = RingIn(input', input_head', input_tail')
    BY <2>1, RingIsNext
  <2>3. QED
    BY <2>2
<1>5. r \in Seq(ByteType)
  <2> DEFINE nx == (input_head + 1) % RingSize
  <2>1. nx \in InputSlots
    BY <1>2
  <2> HIDE DEF nx
  <2>2. RingIn(input, nx, input_tail) \in Seq(ByteType)
    BY <1>1, <2>1, RingType
  <2>3. QED
    BY <2>2 DEF nx
<1>6. t \in Seq(ByteType) /\ KeySeq(t) = One(input[input_head].key)
  BY <1>1, KeySeqOne
<1> HIDE DEF s, t, r
<1>7. KeySeq(t \o r) = Cat(KeySeq(t), KeySeq(r))
  BY <1>5, <1>6, KeySeqCat, KeyedTypes
<1>8. RingKeys = KeySeq(t \o r) /\ RingKeys' = KeySeq(r)
  BY <1>2, <1>3, <1>4 DEF RingKeys, KeySeq
<1>9. QED
  BY <1>6, <1>7, <1>8

(* Bytes are put into the ring.                                            *)
LEMMA RingPut ==
  ASSUME TypeOK, NEW more \in Seq(ByteType),
         input' \in [InputSlots -> ByteType], input_head' = input_head,
         input_tail' = (input_tail + Len(more)) % RingSize,
         Gap(input_head, input_tail) + Len(more) < RingSize,
         Grown(input, input', input_tail, more)
  PROVE  RingKeys' = Cat(RingKeys, KeySeq(more))
<1> DEFINE s == RingIn(input, input_head, input_tail)
<1>1. /\ input \in [InputSlots -> ByteType]
      /\ input_head \in InputSlots /\ input_tail \in InputSlots
  BY DEF TypeOK
<1>2. /\ (input_tail + Len(more)) % RingSize \in InputSlots
      /\ RingIn(input', input_head, (input_tail + Len(more)) % RingSize) = s \o more
  <2> PICK inp \in [InputSlots -> ByteType], ina \in [InputSlots -> ByteType],
           hd \in InputSlots, tl \in InputSlots :
             inp = input /\ ina = input' /\ hd = input_head /\ tl = input_tail
    BY <1>1
  <2>1. Gap(hd, tl) + Len(more) < RingSize /\ Grown(inp, ina, tl, more)
    OBVIOUS
  <2>2. /\ (tl + Len(more)) % RingSize \in InputSlots
        /\ RingIn(ina, hd, (tl + Len(more)) % RingSize) = RingIn(inp, hd, tl) \o more
    <3>1. /\ inp \in [InputSlots -> ByteType] /\ ina \in [InputSlots -> ByteType]
          /\ hd \in InputSlots /\ tl \in InputSlots /\ more \in Seq(ByteType)
      OBVIOUS
    <3>2. QED
      BY ONLY <2>1, <3>1, RingGrows
  <2>3. QED
    BY <2>2
<1>3. Ring' = s \o more
  <2>1. input_head' \in InputSlots /\ input_tail' \in InputSlots
    BY <1>1, <1>2
  <2>2. Ring' = RingIn(input', input_head', input_tail')
    BY <2>1, RingIsNext
  <2>3. QED
    BY <1>2, <2>2
<1>4. Ring = s /\ s \in Seq(ByteType)
  BY <1>1, RingIs, RingType
<1> HIDE DEF s
<1>5. KeySeq(s \o more) = Cat(KeySeq(s), KeySeq(more))
  BY <1>4, KeySeqCat, KeyedTypes
<1>6. RingKeys' = KeySeq(s \o more)
  BY <1>3 DEF RingKeys, KeySeq
<1>7. QED
  BY <1>4, <1>5, <1>6 DEF RingKeys

LEMMA Part ==
  ASSUME NEW S, NEW s \in Seq(S), NEW x \in Nat, NEW y \in Nat,
         x <= y, y <= Len(s)
  PROVE  /\ SubSeq(s, x + 1, y) \in Seq(S)
         /\ Len(SubSeq(s, x + 1, y)) = y - x
         /\ \A i \in 1..(y - x) : SubSeq(s, x + 1, y)[i] = s[x + i]
<1>1. Len(s) \in Nat /\ \A i \in 1..Len(s) : s[i] \in S
  BY Elements
<1>2. \A i \in (x + 1)..y : s[i] \in S
  BY <1>1
<1> DEFINE t == SubSeq(s, x + 1, y)
<1>3. /\ t \in Seq(S)
      /\ Len(t) = IF x + 1 <= y THEN y - (x + 1) + 1 ELSE 0
      /\ \A i \in 1..(y - (x + 1) + 1) : t[i] = s[x + 1 + i - 1]
  BY <1>2, SubSeqProperties
<1>4. \A i \in 1..(y - x) : x + 1 + i - 1 = x + i
  OBVIOUS
<1> HIDE DEF t
<1>5. Len(t) = y - x /\ 1..(y - (x + 1) + 1) = 1..(y - x)
  BY <1>3
<1>6. QED
  BY <1>3, <1>4, <1>5 DEF t

LEMMA RingPushed ==
  ASSUME TypeOK, NEW bytes \in Seq(ByteType), PushAll(bytes)
  PROVE  /\ SubSeq(bytes, 1, Fits(bytes)) \in Seq(ByteType)
         /\ RingKeys' = Cat(RingKeys, KeySeq(SubSeq(bytes, 1, Fits(bytes))))
<1> PICK f \in Nat : /\ f = Fits(bytes) /\ f <= Len(bytes) /\ f <= Room
  BY FitsIn
<1> DEFINE more == SubSeq(bytes, 1, f)
<1>1. /\ more \in Seq(ByteType) /\ Len(more) = f
      /\ \A i \in 1..f : more[i] = bytes[i]
  <2>1. \A i \in 1..f : bytes[i] \in ByteType
    <3>1. Len(bytes) \in Nat /\ \A i \in 1..Len(bytes) : bytes[i] \in ByteType
      BY Elements
    <3>2. QED
      BY <3>1
  <2>2. /\ more \in Seq(ByteType)
        /\ Len(more) = IF 1 <= f THEN f - 1 + 1 ELSE 0
        /\ \A i \in 1..(f - 1 + 1) : more[i] = bytes[1 + i - 1]
    BY <2>1, SubSeqProperties
  <2>3. \A i \in 1..f : 1 + i - 1 = i
    OBVIOUS
  <2> HIDE DEF more
  <2>4. Len(more) = f
    BY <2>2
  <2>5. 1..(f - 1 + 1) = 1..f
    OBVIOUS
  <2>6. QED
    BY <2>2, <2>3, <2>4, <2>5
<1> HIDE DEF more
<1>2. /\ input_head \in InputSlots /\ input_tail \in InputSlots
      /\ input' \in [InputSlots -> ByteType] /\ input_head' = input_head
      /\ input_tail' = (input_tail + f) % RingSize
  BY PushAllType DEF PushAll, TypeOK
<1>3. Gap(input_head, input_tail) + f < RingSize
  <2>1. Gap(input_head, input_tail) = InputCount
    BY <1>2, GapIs DEF InputCount
  <2>2. InputCount \in 0..(RingSize - 1) /\ Room = RingSize - 1 - InputCount
        /\ RingSize \in Nat
    BY RingRoom
  <2> HIDE DEF InputCount, Room
  <2>3. QED
    BY <2>1, <2>2
<1>4. Grown(input, input', input_tail, more)
  <2>1. ASSUME NEW s \in InputSlots
        PROVE  input'[s] = IF Gap(input_tail, s) < Len(more)
                           THEN more[Gap(input_tail, s) + 1] ELSE input[s]
    <3>1. (s + RingSize - input_tail) % RingSize = Gap(input_tail, s)
          /\ Gap(input_tail, s) \in 0..(RingSize - 1) /\ RingSize \in Nat
      BY <1>2, GapIs
    <3> DEFINE d == (s + RingSize - input_tail) % RingSize
    <3>2. input'[s] = IF d < f THEN bytes[d + 1] ELSE input[s]
      BY DEF PushAll
    <3> HIDE DEF d
    <3>3. d = Gap(input_tail, s)
      BY <3>1 DEF d
    <3>4. Gap(input_tail, s) < f => Gap(input_tail, s) + 1 \in 1..f
      BY <3>1
    <3>5. Gap(input_tail, s) < f =>
            more[Gap(input_tail, s) + 1] = bytes[Gap(input_tail, s) + 1]
      BY <1>1, <3>4
    <3>6. QED
      BY <1>1, <3>2, <3>3, <3>5
  <2>2. QED
    BY <2>1 DEF Grown
<1>5. RingKeys' = Cat(RingKeys, KeySeq(more))
  BY <1>1, <1>2, <1>3, <1>4, RingPut
<1>6. QED
  BY <1>1, <1>5 DEF more

(* Bytes end with one of the interrupt's own.                              *)
LEMMA PushLast ==
  ASSUME TypeOK, NEW s \in Seq(ByteType), NEW e \in ByteType,
         PushAll(Append(s, e))
  PROVE  \/ /\ RingKeys' = Cat(RingKeys, Cat(KeySeq(s), One(e.key)))
            /\ NotFitting(Append(s, e)) = {}
         \/ \E x, y \in Lists :
              /\ KeySeq(s) = Cat(x, y) /\ RingKeys' = Cat(RingKeys, x)
              /\ NotFitting(Append(s, e)) = Elems(y) \union {e.key}
<1> DEFINE bytes == Append(s, e)
           f == Fits(bytes)
           n == Len(s)
<1>1. /\ bytes \in Seq(ByteType) /\ n \in Nat /\ Len(bytes) = n + 1
      /\ bytes[n + 1] = e /\ \A i \in 1..n : bytes[i] = s[i]
      /\ bytes = s \o <<e>> /\ <<e>> \in Seq(ByteType)
      /\ \A i \in 1..n : s[i] \in ByteType
  BY AppendIsCat, Elements
<1>2. f \in Nat /\ f <= n + 1
  BY <1>1, FitsIn
<1>3. RingKeys' = Cat(RingKeys, KeySeq(SubSeq(bytes, 1, f)))
  BY <1>1, RingPushed
<1>4. NotFitting(bytes) = KeysOf(SubSeq(bytes, f + 1, n + 1))
  BY <1>1 DEF NotFitting
<1>5. CASE f = n + 1
  <2>1. SubSeq(bytes, 1, n + 1) = bytes
    BY <1>1
  <2>2. KeySeq(bytes) = Cat(KeySeq(s), One(e.key))
    <3> DEFINE t == <<e>>
    <3>1. t \in Seq(ByteType) /\ KeySeq(t) = One(e.key)
      BY <1>1, KeySeqOne
    <3> HIDE DEF t
    <3>2. KeySeq(s \o t) = Cat(KeySeq(s), KeySeq(t))
      BY <3>1, KeyedTypes, KeySeqCat
    <3>3. bytes = s \o t
      BY <1>1 DEF t
    <3>4. QED
      BY <3>1, <3>2, <3>3
  <2>3. KeysOf(SubSeq(bytes, n + 2, n + 1)) = {}
    BY <1>1 DEF KeysOf
  <2>4. f + 1 = n + 2
    BY <1>1, <1>5
  <2> HIDE DEF f, bytes
  <2>5. QED
    BY <1>3, <1>4, <1>5, <2>1, <2>2, <2>3, <2>4 DEF bytes
<1>6. CASE f <= n
  <2> DEFINE a == SubSeq(s, 1, f)
             b == SubSeq(s, f + 1, n)
  <2> HIDE DEF bytes, f
  <2>1. SubSeq(bytes, 1, f) = a
    BY <1>1, <1>2, <1>6
  <2>2. /\ a \in Seq(ByteType) /\ Len(a) = f
        /\ \A i \in 1..f : a[i] = s[i]
    <3>1. /\ SubSeq(s, 0 + 1, f) \in Seq(ByteType)
          /\ Len(SubSeq(s, 0 + 1, f)) = f - 0
          /\ \A i \in 1..(f - 0) : SubSeq(s, 0 + 1, f)[i] = s[0 + i]
      BY <1>1, <1>2, <1>6, Part
    <3>2. 0 + 1 = 1 /\ f - 0 = f /\ \A i \in 1..f : 0 + i = i
      BY <1>2
    <3>3. QED
      BY <3>1, <3>2
  <2>3. /\ b \in Seq(ByteType) /\ Len(b) = n - f
        /\ \A i \in 1..(n - f) : b[i] = s[f + i]
    BY <1>1, <1>2, <1>6, Part
  <2>4. a \in Seq(ByteType) /\ b \in Seq(ByteType) /\ s = a \o b
    <3> HIDE DEF a, b
    <3>1. Joins(s, a, b)
      BY <1>1, <1>2, <1>6, <2>2, <2>3 DEF Joins
    <3>2. QED
      BY <2>2, <2>3, <3>1, IsCat
  <2>5. KeysOf(SubSeq(bytes, f + 1, n + 1)) = KeysOf(b) \union {e.key}
    <3>1. SubSeq(bytes, f + 1, n + 1) = Append(b, e)
      <4> PICK m \in Nat : m = n + 1
        BY <1>1
      <4> DEFINE c == SubSeq(bytes, f + 1, m)
      <4>1. /\ c \in Seq(ByteType) /\ Len(c) = m - f
            /\ \A i \in 1..(m - f) : c[i] = bytes[f + i]
        <5>1. f <= m /\ m <= Len(bytes)
          BY <1>1, <1>2
        <5>2. QED
          BY <1>1, <1>2, <5>1, Part
      <4> HIDE DEF b, c
      <4>2. Len(c) = Len(b) + 1
        BY <1>1, <1>2, <2>3, <4>1
      <4>3. c[Len(b) + 1] = e
        <5>1. Len(b) + 1 \in 1..(m - f) /\ f + (Len(b) + 1) = n + 1
          BY <1>1, <1>2, <1>6, <2>3
        <5>2. QED
          BY <1>1, <4>1, <5>1
      <4>4. ASSUME NEW i \in 1..Len(b) PROVE c[i] = b[i]
        <5>1. i \in 1..(m - f) /\ i \in 1..(n - f) /\ f + i \in 1..n
          BY <1>1, <1>2, <1>6, <2>3
        <5>2. QED
          BY <1>1, <2>3, <4>1, <5>1
      <4>5. c = Append(b, e)
        BY <2>3, <4>1, <4>2, <4>3, <4>4, IsAppend
      <4>6. QED
        BY <4>5 DEF c
    <3>2. KeysOf(Append(b, e)) = KeysOf(b) \union {e.key}
      <4> HIDE DEF b
      <4>1. b \in Seq(ByteType)
        BY <2>4
      <4>2. /\ Len(b) \in Nat /\ Len(Append(b, e)) = Len(b) + 1
            /\ Append(b, e)[Len(b) + 1] = e
            /\ \A i \in 1..Len(b) : Append(b, e)[i] = b[i]
        BY <4>1
      <4>3. QED
        BY <4>2 DEF KeysOf
    <3>3. QED
      BY <3>1, <3>2
  <2> HIDE DEF a, b
  <2>6. KeySeq(s) = Cat(KeySeq(a), KeySeq(b))
    BY <2>4, KeyedTypes, KeySeqCat
  <2>7. KeySeq(a) \in Lists /\ KeySeq(b) \in Lists /\ Elems(KeySeq(b)) = KeysOf(b)
    BY <2>4, KeyedTypes, KeySeqIn
  <2>8. /\ RingKeys' = Cat(RingKeys, KeySeq(a))
        /\ NotFitting(bytes) = Elems(KeySeq(b)) \union {e.key}
    BY <1>3, <1>4, <2>1, <2>5, <2>7
  <2>9. QED
    BY <2>6, <2>7, <2>8 DEF bytes
<1>7. QED
  BY <1>1, <1>2, <1>5, <1>6

LEMMA CatEmpty ==
  ASSUME NEW x \in Lists, NEW y \in Lists, Cat(x, y) = NoKeys
  PROVE  x = NoKeys /\ y = NoKeys
<1>1. x \in Seq(Nat) /\ y \in Seq(Nat) /\ x \o y = <<>>
  BY DEF Lists, Cat, NoKeys
<1>2. Len(x) \in Nat /\ Len(y) \in Nat /\ Len(x) + Len(y) = 0
  BY <1>1, ConcatProperties, EmptySeq
<1>3. Len(x) = 0 /\ Len(y) = 0
  BY <1>2
<1>4. QED
  BY <1>1, <1>3, EmptySeq DEF NoKeys

LEMMA PushOne ==
  ASSUME TypeOK, NEW e \in ByteType, PushAll(<<e>>), RingKeys \in Lists
  PROVE  \/ RingKeys' = Cat(RingKeys, One(e.key)) /\ NotFitting(<<e>>) = {}
         \/ RingKeys' = RingKeys /\ NotFitting(<<e>>) = {e.key}
<1>1. <<e>> = Append(<<>>, e) /\ <<>> \in Seq(ByteType)
  OBVIOUS
<1>2. KeySeq(<<>>) = NoKeys /\ One(e.key) \in Lists
  BY KeySeqOne, KeyedTypes, OneIn
<1>3. \/ /\ RingKeys' = Cat(RingKeys, Cat(NoKeys, One(e.key)))
         /\ NotFitting(<<e>>) = {}
      \/ \E x, y \in Lists :
           /\ NoKeys = Cat(x, y) /\ RingKeys' = Cat(RingKeys, x)
           /\ NotFitting(<<e>>) = Elems(y) \union {e.key}
  BY <1>1, <1>2, PushLast
<1>4. CASE /\ RingKeys' = Cat(RingKeys, Cat(NoKeys, One(e.key)))
           /\ NotFitting(<<e>>) = {}
  BY <1>2, <1>4, CatNone
<1>5. CASE \E x, y \in Lists :
             /\ NoKeys = Cat(x, y) /\ RingKeys' = Cat(RingKeys, x)
             /\ NotFitting(<<e>>) = Elems(y) \union {e.key}
  <2> PICK x \in Lists, y \in Lists :
             /\ NoKeys = Cat(x, y) /\ RingKeys' = Cat(RingKeys, x)
             /\ NotFitting(<<e>>) = Elems(y) \union {e.key}
    BY <1>5
  <2>1. x = NoKeys /\ y = NoKeys
    BY CatEmpty
  <2>2. Elems(y) = {} /\ Cat(RingKeys, x) = RingKeys
    BY <2>1, ElemsOf, CatNone
  <2>3. QED
    BY <2>2
<1>6. QED
  BY <1>3, <1>4, <1>5

LEMMA LineGone ==
  ASSUME pc' = "clear" \/ (line_len' = 0 /\ index' = 0)
  PROVE  LineKeys' = NoKeys
<1>1. Unsent' = <<>>
  <2>1. CASE pc' = "clear"
    BY <2>1 DEF Unsent
  <2>2. CASE line_len' = 0 /\ index' = 0
    BY <2>2 DEF Unsent, Line
  <2>3. QED
    BY <2>1, <2>2
<1>2. KeySeq(<<>>) = NoKeys
  BY KeySeqOne
<1>3. LineKeys' = KeySeq(<<>>)
  BY <1>1 DEF LineKeys, KeySeq
<1>4. QED
  BY <1>2, <1>3

LEMMA LineWhole ==
  ASSUME TtyInv, pc \notin {"load", "push", "clear"}
  PROVE  /\ LineKeys = KeySeq(Line(0)) /\ Line(0) \in Seq(ByteType)
         /\ Elems(LineKeys) = KeysOf(Line(0)) /\ index = 0
<1>1. index = 0
  BY DEF TtyInv, LinePlace
<1>2. Line(0) \in Seq(ByteType)
  BY LineSeq, Zeros DEF TtyInv
<1>3. LineKeys = KeySeq(Line(0))
  BY <1>1 DEF LineKeys, Unsent
<1>4. QED
  BY <1>1, <1>2, <1>3, KeySeqIn, KeyedTypes

----------------------------------------------------------------------------
(* The interrupt and the keys.                                             *)
LEMMA PressSame ==
  ASSUME TtyInv, Interrupt
  PROVE  /\ OutKeys' = OutKeys /\ NowKeys' = NowKeys
         /\ line_len' = line_len => LineKeys' = LineKeys
         /\ pc' = "clear" <=> pc = "clear"
BY InterruptPlace, OutSame, NowSame, LineSame

LEMMA ApartHas ==
  ASSUME TtyInv, typed < MaxKeys, typed' = typed + 1,
         direct' = direct \union {typed'}
  PROVE  typed' \in Apart' /\ typed' \in Nat
<1>1. typed' \in Nat
  BY Zeros DEF TtyInv, TypeOK
<1>2. QED
  BY <1>1 DEF Apart

LEMMA PushKeyMoves ==
  ASSUME Steps, Interrupt, typed < MaxKeys, typed' = typed + 1,
         NEW b \in ByteNames, PushKey(b)
  PROVE  Moves
<1> TtyInv /\ TypeOK
  BY DEF Steps, TtyInv
<1>1. /\ PushAll(<<KeyByte(b, typed')>>) /\ line_len' = line_len /\ queue' = queue
      /\ dropped' = dropped \union NotFitting(<<KeyByte(b, typed')>>)
      /\ direct' = direct \union {typed'}
  BY DEF PushKey
<1>2. /\ KeyByte(b, typed') \in ByteType /\ KeyByte(b, typed').key = typed'
      /\ RingKeys \in Lists /\ LineKeys \in Lists
  BY KeyTyped, Parts DEF KeyByte
<1>3. \/ /\ RingKeys' = Cat(RingKeys, One(typed'))
         /\ NotFitting(<<KeyByte(b, typed')>>) = {}
      \/ /\ RingKeys' = RingKeys
         /\ NotFitting(<<KeyByte(b, typed')>>) = {typed'}
  BY <1>1, <1>2, PushOne
<1>4. /\ OutKeys' = OutKeys /\ NowKeys' = NowKeys /\ LineKeys' = LineKeys
      /\ WaitKeys' = WaitKeys /\ typed' \in Apart' /\ typed' \in Nat
  BY <1>1, PressSame, WaitSame, ApartHas
<1>5. /\ LineKeys = Cat(NoKeys, Cat(NoKeys, LineKeys')) /\ NoKeys \in Lists
      /\ Cat(RingKeys, NoKeys) = RingKeys /\ Elems(NoKeys) = {}
  BY <1>2, <1>4, CatNone, OneIn, ElemsOf
<1>6. \/ /\ RingKeys' = Cat(Cat(RingKeys, NoKeys), One(typed'))
         /\ dropped' = dropped \union Elems(NoKeys)
      \/ /\ RingKeys' = Cat(RingKeys, NoKeys)
         /\ dropped' = dropped \union Elems(NoKeys) \union {typed'}
  BY <1>1, <1>3, <1>5
<1>7. QED
  BY <1>4, <1>5, <1>6, PressMoves

LEMMA KillMoves ==
  ASSUME Steps, Interrupt, typed < MaxKeys, typed' = typed + 1, Kill, ~raced'
  PROVE  Moves
<1> TtyInv /\ TypeOK
  BY DEF Steps, TtyInv
<1>1. /\ line_len' = 0 /\ queue' = queue /\ direct' = direct \union {typed'}
      /\ ~EditsLine
  BY DEF Kill
<1>2. pc \notin {"load", "push", "clear"} /\ index' = 0
  BY <1>1, LineWhole, InterruptPlace DEF EditsLine
<1>3. /\ LineKeys' = NoKeys /\ LineKeys \in Lists /\ RingKeys \in Lists
      /\ Elems(LineKeys) = KeysOf(Line(0))
  BY <1>1, <1>2, LineGone, LineWhole, Parts
<1>4. /\ OutKeys' = OutKeys /\ NowKeys' = NowKeys /\ WaitKeys' = WaitKeys
      /\ typed' \in Apart' /\ typed' \in Nat
  BY <1>1, PressSame, WaitSame, ApartHas
<1>5. /\ LineKeys = Cat(NoKeys, Cat(LineKeys, LineKeys')) /\ NoKeys \in Lists
      /\ Cat(RingKeys, NoKeys) = RingKeys
  BY <1>3, CatNone, OneIn
<1>6. \/ /\ RingKeys' = Cat(RingKeys, One(typed'))
         /\ dropped' = dropped \union KeysOf(Line(0))
      \/ /\ RingKeys' = RingKeys
         /\ dropped' = dropped \union KeysOf(Line(0)) \union {typed'}
  <2>1. CASE mode.isig
    <3>1. RingKeys' = RingKeys
      BY <2>1, RingSame DEF Kill
    <3>2. QED
      BY <2>1, <3>1 DEF Kill
  <2>2. CASE ~mode.isig
    <3> DEFINE e == KeyByte("etx", typed')
    <3>1. e \in ByteType /\ e.key = typed'
      BY KeyTyped DEF KeyByte, ByteNames
    <3>2. PushAll(<<e>>)
          /\ dropped' = dropped \union KeysOf(Line(0)) \union NotFitting(<<e>>)
      BY <2>2 DEF Kill
    <3> HIDE DEF e
    <3>3. \/ RingKeys' = Cat(RingKeys, One(typed')) /\ NotFitting(<<e>>) = {}
          \/ RingKeys' = RingKeys /\ NotFitting(<<e>>) = {typed'}
      BY <1>3, <3>1, <3>2, PushOne
    <3>4. QED
      BY <3>2, <3>3
  <2>3. QED
    BY <2>1, <2>2
<1>7. \/ /\ RingKeys' = Cat(Cat(RingKeys, NoKeys), One(typed'))
         /\ dropped' = dropped \union Elems(LineKeys)
      \/ /\ RingKeys' = Cat(RingKeys, NoKeys)
         /\ dropped' = dropped \union Elems(LineKeys) \union {typed'}
  BY <1>3, <1>5, <1>6
<1>8. QED
  BY <1>3, <1>4, <1>5, <1>7, PressMoves

LEMMA EndOfFileMoves ==
  ASSUME Steps, Interrupt, typed < MaxKeys, typed' = typed + 1, EndOfFile,
         ~raced'
  PROVE  Moves
<1> TtyInv /\ TypeOK
  BY DEF Steps, TtyInv
<1>1. CASE ~mode.canon \/ line_len = 0
  BY <1>1, PushKeyMoves DEF EndOfFile, ByteNames
<1>2. CASE mode.canon /\ line_len # 0
  <2> DEFINE e == KeyByte("nl", typed')
             bytes == Append(Line(0), e)
  <2>1. e \in ByteType /\ e.key = typed'
    BY KeyTyped DEF KeyByte, ByteNames
  <2> HIDE DEF e
  <2>2. /\ PushAll(bytes) /\ dropped' = dropped \union NotFitting(bytes)
        /\ line_len' = 0 /\ direct' = direct \union {typed'}
        /\ ~EditsLine /\ queue' = queue
    BY <1>2 DEF EndOfFile, e
  <2>3. pc \notin {"load", "push", "clear"} /\ index' = 0
    BY <2>2, LineWhole, InterruptPlace DEF EditsLine
  <2>4. /\ LineKeys' = NoKeys /\ LineKeys \in Lists /\ RingKeys \in Lists
        /\ LineKeys = KeySeq(Line(0)) /\ Line(0) \in Seq(ByteType)
    BY <2>2, <2>3, LineGone, LineWhole, Parts
  <2>5. /\ OutKeys' = OutKeys /\ NowKeys' = NowKeys /\ WaitKeys' = WaitKeys
        /\ typed' \in Apart' /\ typed' \in Nat
    BY <2>2, PressSame, WaitSame, ApartHas
  <2>6. \/ /\ RingKeys' = Cat(RingKeys, Cat(LineKeys, One(typed')))
           /\ dropped' = dropped
        \/ \E x, y \in Lists :
             /\ LineKeys = Cat(x, y) /\ RingKeys' = Cat(RingKeys, x)
             /\ dropped' = dropped \union (Elems(y) \union {typed'})
    <3>1. \/ /\ RingKeys' = Cat(RingKeys, Cat(LineKeys, One(typed')))
             /\ NotFitting(bytes) = {}
          \/ \E x, y \in Lists :
               /\ LineKeys = Cat(x, y) /\ RingKeys' = Cat(RingKeys, x)
               /\ NotFitting(bytes) = Elems(y) \union {typed'}
      BY <2>1, <2>2, <2>4, PushLast
    <3>2. QED
      BY <2>2, <3>1
  <2>7. CASE /\ RingKeys' = Cat(RingKeys, Cat(LineKeys, One(typed')))
             /\ dropped' = dropped
    <3>1. /\ LineKeys = Cat(LineKeys, Cat(NoKeys, LineKeys')) /\ NoKeys \in Lists
          /\ Elems(NoKeys) = {} /\ One(typed') \in Lists
      BY <2>4, <2>5, CatNone, OneIn, ElemsOf
    <3>2. RingKeys' = Cat(Cat(RingKeys, LineKeys), One(typed'))
      BY <2>4, <2>7, <3>1, CatAssoc
    <3>3. dropped' = dropped \union Elems(NoKeys)
      BY <2>7, <3>1
    <3>4. QED
      BY <2>4, <2>5, <3>1, <3>2, <3>3, PressMoves
  <2>8. CASE \E x, y \in Lists :
               /\ LineKeys = Cat(x, y) /\ RingKeys' = Cat(RingKeys, x)
               /\ dropped' = dropped \union (Elems(y) \union {typed'})
    <3> PICK x \in Lists, y \in Lists :
               /\ LineKeys = Cat(x, y) /\ RingKeys' = Cat(RingKeys, x)
               /\ dropped' = dropped \union (Elems(y) \union {typed'})
      BY <2>8
    <3>1. LineKeys = Cat(x, Cat(y, LineKeys'))
      BY <2>4, CatNone
    <3>2. dropped' = dropped \union Elems(y) \union {typed'}
      OBVIOUS
    <3>3. QED
      BY <2>5, <3>1, <3>2, PressMoves
  <2>9. QED
    BY <2>6, <2>7, <2>8
<1>3. QED
  BY <1>1, <1>2

LEMMA KeyPressMoves ==
  ASSUME Steps, NEW code \in Codes, KeyPress(code), ~raced'
  PROVE  Moves
<1> TtyInv /\ TypeOK
  BY DEF Steps, TtyInv
<1>1. Interrupt /\ typed < MaxKeys /\ typed' = typed + 1
  BY DEF KeyPress
<1>2. CASE Kill
  BY <1>1, <1>2, KillMoves
<1>3. CASE EndOfFile
  BY <1>1, <1>3, EndOfFileMoves
<1>4. CASE PushKey("ff")
  BY <1>1, <1>4, PushKeyMoves DEF ByteNames
<1>5. CASE QueueKey(code)
  <2> DEFINE e == [code |-> code, key |-> typed']
  <2>1. e \in [code : Codes, key : Keys] /\ e.key = typed' /\ typed' \in Nat
    BY <1>1, KeyTyped, Zeros DEF ByteNames, TypeOK
  <2> HIDE DEF e
  <2>2. /\ queue' = IF Len(queue) < QueueMax THEN Append(queue, e) ELSE queue
        /\ dropped' = IF Len(queue) < QueueMax THEN dropped
                                               ELSE dropped \union {typed'}
        /\ UNCHANGED inputVars /\ line_len' = line_len
    BY <1>5 DEF QueueKey, e
  <2>3. /\ OutKeys' = OutKeys /\ NowKeys' = NowKeys /\ LineKeys' = LineKeys
        /\ RingKeys' = RingKeys
    BY <1>1, <2>2, PressSame, RingSame
  <2>4. \/ WaitKeys' = Cat(WaitKeys, One(typed')) /\ dropped' = dropped
        \/ WaitKeys' = WaitKeys /\ dropped' = dropped \union {typed'}
    <3>1. CASE Len(queue) < QueueMax
      BY <2>1, <2>2, <3>1, WaitAppended
    <3>2. CASE ~(Len(queue) < QueueMax)
      BY <2>2, <3>2, WaitSame
    <3>3. QED
      BY <3>1, <3>2
  <2>5. QED
    BY <1>1, <2>1, <2>3, <2>4, QueueMoves
<1>6. QED
  BY <1>2, <1>3, <1>4, <1>5 DEF KeyPress

LEMMA TickMoves ==
  ASSUME Steps, TimerTick \/ Control
  PROVE  Moves
<1>1. /\ TtyInv /\ Interrupt
      /\ UNCHANGED <<queue, inputVars, line_len, typed, dropped>>
  BY DEF TimerTick, Control, Steps
<1>2. /\ OutKeys' = OutKeys /\ NowKeys' = NowKeys /\ LineKeys' = LineKeys
      /\ RingKeys' = RingKeys /\ WaitKeys' = WaitKeys
  BY <1>1, PressSame, RingSame, WaitSame
<1>3. QED
  BY <1>1, <1>2, SameParts, SameMoves

----------------------------------------------------------------------------
(* A line, from slot j to slot n.                                          *)
Stretch(ln, j, n) == [i \in 1..(n - j) |-> ln[j + i - 1]]

LEMMA StretchIn ==
  ASSUME NEW ln \in [0..(LineSize - 1) -> ByteType], NEW j \in Nat, NEW n \in Nat,
         j <= n, n <= LineSize
  PROVE  /\ Stretch(ln, j, n) \in Seq(ByteType)
         /\ Len(Stretch(ln, j, n)) = n - j
         /\ \A i \in 1..(n - j) : Stretch(ln, j, n)[i] = ln[j + i - 1]
<1>1. n - j \in Nat /\ \A i \in 1..(n - j) : j + i - 1 \in 0..(LineSize - 1)
  BY Zeros
<1>2. /\ Stretch(ln, j, n) \in [1..(n - j) -> ByteType]
      /\ \A i \in 1..(n - j) : Stretch(ln, j, n)[i] = ln[j + i - 1]
  BY <1>1 DEF Stretch
<1>3. QED
  BY <1>1, <1>2

LEMMA StretchEnds ==
  ASSUME NEW ln \in [0..(LineSize - 1) -> ByteType], NEW j \in Nat, NEW n \in Nat,
         j <= n, n < LineSize
  PROVE  /\ ln[n] \in ByteType
         /\ KeySeq(Stretch(ln, j, n + 1))
              = Cat(KeySeq(Stretch(ln, j, n)), One(ln[n].key))
<1> PICK m \in Nat : m = n + 1
  OBVIOUS
<1> DEFINE s == Stretch(ln, j, m)
           a == Stretch(ln, j, n)
           t == <<ln[n]>>
<1>1. ln[n] \in ByteType /\ m <= LineSize /\ j <= m /\ n <= LineSize
  BY Zeros
<1>2. /\ s \in Seq(ByteType) /\ Len(s) = m - j
      /\ \A i \in 1..(m - j) : s[i] = ln[j + i - 1]
  BY <1>1, StretchIn
<1>3. /\ a \in Seq(ByteType) /\ Len(a) = n - j
      /\ \A i \in 1..(n - j) : a[i] = ln[j + i - 1]
  BY <1>1, StretchIn
<1>4. t \in Seq(ByteType) /\ Len(t) = 1 /\ t[1] = ln[n] /\ KeySeq(t) = One(ln[n].key)
  BY <1>1, KeySeqOne
<1> HIDE DEF s, a, t
<1>5. \A i \in 1..Len(a) : s[i] = a[i]
  BY <1>2, <1>3
<1>6. s[Len(a) + 1] = t[1]
  <2>1. Len(a) + 1 \in 1..(m - j) /\ j + (Len(a) + 1) - 1 = n
    BY <1>3
  <2>2. QED
    BY <1>2, <1>4, <2>1
<1>7. Joins(s, a, t)
  BY <1>2, <1>3, <1>4, <1>5, <1>6 DEF Joins
<1>8. s = a \o t
  BY <1>2, <1>3, <1>4, <1>7, IsCat
<1>9. KeySeq(s) = Cat(KeySeq(a), KeySeq(t))
  BY <1>3, <1>4, <1>8, KeySeqCat, KeyedTypes
<1>10. QED
  BY <1>1, <1>4, <1>9 DEF s, a

LEMMA StretchStarts ==
  ASSUME NEW ln \in [0..(LineSize - 1) -> ByteType], NEW j \in Nat, NEW n \in Nat,
         j < n, n <= LineSize
  PROVE  /\ ln[j] \in ByteType
         /\ KeySeq(Stretch(ln, j, n))
              = Cat(One(ln[j].key), KeySeq(Stretch(ln, j + 1, n)))
<1> PICK m \in Nat : m = j + 1
  OBVIOUS
<1> DEFINE s == Stretch(ln, j, n)
           a == Stretch(ln, m, n)
           t == <<ln[j]>>
<1>1. ln[j] \in ByteType /\ m <= n /\ j <= n
  BY Zeros
<1>2. /\ s \in Seq(ByteType) /\ Len(s) = n - j
      /\ \A i \in 1..(n - j) : s[i] = ln[j + i - 1]
  BY <1>1, StretchIn
<1>3. /\ a \in Seq(ByteType) /\ Len(a) = n - m
      /\ \A i \in 1..(n - m) : a[i] = ln[m + i - 1]
  BY <1>1, StretchIn
<1>4. t \in Seq(ByteType) /\ Len(t) = 1 /\ t[1] = ln[j] /\ KeySeq(t) = One(ln[j].key)
  BY <1>1, KeySeqOne
<1> HIDE DEF s, a, t
<1>5. s[1] = t[1]
  <2>1. 1 \in 1..(n - j) /\ j + 1 - 1 = j
    OBVIOUS
  <2>2. QED
    BY <1>2, <1>4, <2>1
<1>6. ASSUME NEW i \in 1..Len(a) PROVE s[Len(t) + i] = a[i]
  <2>1. /\ 1 + i \in 1..(n - j) /\ i \in 1..(n - m)
        /\ j + (1 + i) - 1 = m + i - 1
    BY <1>3
  <2>2. QED
    BY <1>2, <1>3, <1>4, <2>1
<1>7. Joins(s, t, a)
  BY <1>2, <1>3, <1>4, <1>5, <1>6 DEF Joins
<1>8. s = t \o a
  BY <1>2, <1>3, <1>4, <1>7, IsCat
<1>9. KeySeq(s) = Cat(KeySeq(t), KeySeq(a))
  BY <1>3, <1>4, <1>8, KeySeqCat, KeyedTypes
<1>10. QED
  BY <1>1, <1>4, <1>9 DEF s, a

LEMMA LineStretch ==
  /\ pc = "clear" => LineKeys = NoKeys
  /\ pc # "clear" => LineKeys = KeySeq(Stretch(line, index, line_len))
  /\ pc' = "clear" => LineKeys' = NoKeys
  /\ pc' # "clear" => LineKeys' = KeySeq(Stretch(line', index', line_len'))
<1>1. KeySeq(<<>>) = NoKeys
  BY KeySeqOne
<1>2. /\ pc = "clear" => LineKeys = NoKeys
      /\ pc # "clear" => LineKeys = KeySeq(Stretch(line, index, line_len))
  BY <1>1 DEF LineKeys, Unsent, Line, Stretch
<1>3. pc' = "clear" => LineKeys' = NoKeys
  BY LineGone
<1>4. pc' # "clear" => LineKeys' = KeySeq(Stretch(line', index', line_len'))
  BY DEF LineKeys, Unsent, Line, Stretch, KeySeq
<1>5. QED
  BY <1>2, <1>3, <1>4

----------------------------------------------------------------------------
(* The reader and the keys.                                                *)
LEMMA StillMoves ==
  ASSUME Steps, out' = out, UNCHANGED inputVars, queue' = queue,
         LineKeys' = LineKeys, NowKeys' = NowKeys, typed' = typed,
         dropped' = dropped
  PROVE  Moves
BY OutSame, RingSame, WaitSame, SameParts, SameMoves

(* Before a byte is taken, and after it was processed, none is in process. *)
LEMMA RawKey ==
  ASSUME TtyInv
  PROVE  /\ pc \in {"user", "check", "pop", "poll", "erase", "clear", "take",
                    "recheck", "sleep", "halt"} => raw.key = 0
         /\ pc \in {"process", "flush", "store", "count", "load", "push"} =>
              raw.key # 0 /\ raw.key \in Nat /\ raw.key \in 0..MaxKeys
                /\ raw.byte \in ByteNames
<1>1. raw \in ByteType /\ 0..MaxKeys \subseteq Nat
  BY Zeros DEF TtyInv, TypeOK
<1>2. QED
  BY <1>1 DEF TtyInv, LinePlace, ByteType

LEMMA GotoMoves ==
  ASSUME Steps, NEW from, NEW to, from # "clear", to # "clear",
         Reader(from), Goto(to)
  PROVE  Moves
<1>1. /\ out' = out /\ UNCHANGED inputVars /\ queue' = queue
      /\ line' = line /\ line_len' = line_len /\ index' = index /\ raw' = raw
      /\ pc' # "clear" /\ pc # "clear" /\ typed' = typed /\ dropped' = dropped
  BY DEF Reader, Goto, KeepShared, KeepLocals, lineVars, locals
<1>2. QED
  BY <1>1, NowSame, LineSame, StillMoves

LEMMA IdleMoves ==
  ASSUME Steps, set_lflag \/ StartRead \/ Halt \/ BeginFlush
  PROVE  Moves
<1>1. /\ out' = out /\ UNCHANGED inputVars /\ queue' = queue
      /\ line' = line /\ line_len' = line_len /\ index' = index /\ raw' = raw
      /\ pc' # "clear" /\ pc # "clear" /\ typed' = typed /\ dropped' = dropped
  <2>1. CASE set_lflag
    BY <2>1 DEF set_lflag, KeepShared, KeepLocals, lineVars, locals, ghosts
  <2>2. CASE StartRead
    BY <2>2 DEF StartRead, Reader, KeepShared, KeepLocals, lineVars, locals
  <2>3. CASE Halt
    BY <2>3 DEF Halt, Reader, KeepShared, lineVars, locals
  <2>4. CASE BeginFlush
    BY <2>4 DEF BeginFlush, Edits, Process, Reader
  <2>5. QED
    BY <2>1, <2>2, <2>3, <2>4
<1>2. QED
  BY <1>1, NowSame, LineSame, StillMoves

LEMMA SignalMoves ==
  ASSUME Steps, CheckSignal("check", "pop") \/ CheckSignal("recheck", "sleep")
  PROVE  Moves
<1> TtyInv
  BY DEF Steps
<1>1. CASE \E from \in {"check", "recheck"} : Reader(from) /\ pending /\ ToUser
             /\ UNCHANGED <<queue, inputVars, lineVars, out, dropped>>
  <2>1. /\ out' = out /\ UNCHANGED inputVars /\ queue' = queue
        /\ line' = line /\ line_len' = line_len /\ index' = 0 /\ raw' = NoByte
        /\ pc' # "clear" /\ pc \in {"check", "recheck"}
        /\ typed' = typed /\ dropped' = dropped
    BY <1>1 DEF Reader, ToUser, lineVars
  <2>2. index = 0 /\ NowKeys = NoKeys /\ NowKeys' = NoKeys
    BY <2>1, LineWhole, RawKey, NowIs, NowIsNext, Zeros
  <2>3. QED
    BY <2>1, <2>2, LineSame, StillMoves
<1>2. CASE Reader("check") /\ Goto("pop")
  BY <1>2, GotoMoves
<1>3. CASE Reader("recheck") /\ Goto("sleep")
  BY <1>3, GotoMoves
<1>4. QED
  BY <1>1, <1>2, <1>3 DEF CheckSignal

LEMMA PopMoves ==
  ASSUME Steps, Pop("pop", "poll") \/ Pop("take", "check")
  PROVE  Moves
<1> TtyInv /\ TypeOK
  BY DEF Steps, TtyInv
<1>1. ASSUME Reader("pop") \/ Reader("take"), pop_input
      PROVE  Moves
  <2> DEFINE b == input[input_head].byte
             k == input[input_head].key
  <2>1. b \in ByteNames /\ k \in 0..MaxKeys /\ k \in Nat
    BY Zeros DEF TypeOK, ByteType
  <2>2. RingKeys = Cat(One(k), RingKeys')
    BY <1>1, RingTaken DEF pop_input
  <2> HIDE DEF b, k
  <2>3. /\ Deliver(b, k) /\ queue' = queue /\ line' = line
        /\ line_len' = line_len /\ pc \in {"pop", "take"} /\ typed' = typed
    BY <1>1 DEF pop_input, b, k, lineVars, Reader
  <2>4. pc' = "user" /\ raw' = NoByte /\ index' = 0
    BY <2>3 DEF Deliver, ToUser
  <2>5. index = 0 /\ NowKeys = NoKeys /\ NowKeys' = NoKeys
    BY <2>3, <2>4, LineWhole, RawKey, NowIs, NowIsNext, Zeros
  <2>6. LineKeys' = LineKeys /\ WaitKeys' = WaitKeys
    BY <2>3, <2>4, <2>5, LineSame, WaitSame
  <2>7. \/ OutKeys' = Cat(OutKeys, One(k)) /\ dropped' = dropped
        \/ OutKeys' = OutKeys /\ dropped' = dropped \union {k}
    <3>1. CASE Consumed(b, k)
      BY <2>1, <3>1, OutAppended DEF Consumed
    <3>2. CASE GivenUp(k)
      BY <3>2, OutSame DEF GivenUp
    <3>3. QED
      BY <2>3, <3>1, <3>2 DEF Deliver
  <2>8. QED
    BY <2>1, <2>2, <2>3, <2>5, <2>6, <2>7, TakeMoves
<1>2. CASE Reader("pop") /\ Goto("poll")
  BY <1>2, GotoMoves
<1>3. CASE Reader("take") /\ Goto("check")
  BY <1>3, GotoMoves
<1>4. QED
  BY <1>1, <1>2, <1>3 DEF Pop

LEMMA PollMoves ==
  ASSUME Steps, PollSerial \/ PollKeyboard \/ PollNothing
  PROVE  Moves
<1> TtyInv /\ TypeOK
  BY DEF Steps, TtyInv
<1>1. CASE PollNothing
  BY <1>1, GotoMoves DEF PollNothing
<1>2. CASE PollSerial
  <2>1. /\ typed' = typed + 1 /\ direct' = direct \union {typed'}
        /\ typed < MaxKeys /\ pc = "poll" /\ pc' = "process"
        /\ out' = out /\ UNCHANGED inputVars /\ queue' = queue
        /\ line' = line /\ line_len' = line_len /\ index' = index
        /\ dropped' = dropped /\ raw'.key = typed'
    BY <1>2 DEF PollSerial, KeepShared, lineVars, KeyByte
  <2>2. typed' \in Apart' /\ typed' \in Nat /\ typed' # 0
    BY <2>1, ApartHas DEF TypeOK
  <2>3. NowKeys = NoKeys /\ NowKeys' = One(typed')
    BY <2>1, <2>2, RawKey, NowIs, NowIsNext
  <2>4. /\ OutKeys' = OutKeys /\ LineKeys' = LineKeys /\ RingKeys' = RingKeys
        /\ WaitKeys' = WaitKeys
    BY <2>1, OutSame, LineSame, RingSame, WaitSame
  <2>5. QED
    BY <2>1, <2>2, <2>3, <2>4, SerialMoves
<1>3. CASE PollKeyboard
  <2> DEFINE k == queue[1].key
  <2>1. /\ typed' = typed /\ pc = "poll" /\ UNCHANGED inputVars
        /\ queue # <<>> /\ queue' = Tail(queue)
        /\ line' = line /\ line_len' = line_len /\ index' = index
        /\ \/ pc' = "recheck" /\ GivenUp(k) /\ raw' = raw
           \/ pc' = "process" /\ out' = out /\ dropped' = dropped /\ raw'.key = k
    BY <1>3 DEF PollKeyboard, Reader, lineVars, KeyByte
  <2>2. /\ WaitKeys = Cat(One(k), WaitKeys') /\ k \in Nat
        /\ queue[1] \in [code : Codes, key : Keys]
    BY <2>1, WaitTail
  <2>3. k # 0
    <3>1. queue[1].key \in Keys
      BY <2>2
    <3>2. QED
      BY <3>1 DEF Keys
  <2> HIDE DEF k
  <2>4. NowKeys = NoKeys /\ raw.key = 0
    BY <2>1, RawKey, NowIs
  <2>5. /\ OutKeys' = OutKeys /\ LineKeys' = LineKeys /\ RingKeys' = RingKeys
    BY <2>1, OutSame, LineSame, RingSame DEF GivenUp
  <2>6. \/ NowKeys' = One(k) /\ dropped' = dropped
        \/ NowKeys' = NoKeys /\ dropped' = dropped \union {k}
    <3>1. CASE pc' = "recheck" /\ GivenUp(k) /\ raw' = raw
      BY <2>4, <3>1, NowSame DEF GivenUp
    <3>2. CASE pc' = "process" /\ out' = out /\ dropped' = dropped /\ raw'.key = k
      BY <2>3, <3>2, NowIsNext
    <3>3. QED
      BY <2>1, <3>1, <3>2
  <2>7. QED
    BY <2>1, <2>2, <2>4, <2>5, <2>6, KeyboardMoves
<1>4. QED
  BY <1>1, <1>2, <1>3

(* The byte in process is done with: given up, or read, ahead of others.   *)
LEMMA DeliverMoves ==
  ASSUME Steps, pc = "process", UNCHANGED <<queue, inputVars, line, line_len>>,
         NEW b \in ByteNames, Deliver(b, raw.key), typed' = typed,
         direct' = direct, mode.canon => b = "nul"
  PROVE  Moves
<1> TtyInv /\ TypeOK
  BY DEF Steps, TtyInv
<1> DEFINE k == raw.key
<1>1. k # 0 /\ k \in Nat /\ k \in 0..MaxKeys /\ NowKeys = One(k) /\ index = 0
  BY RawKey, NowIs, LineWhole
<1>2. raw' = NoByte /\ pc' = "user" /\ index' = 0
  BY DEF Deliver, ToUser
<1>3. NowKeys' = NoKeys
  BY <1>2, NowIsNext, Zeros
<1>4. LineKeys' = LineKeys /\ WaitKeys' = WaitKeys /\ RingKeys' = RingKeys
  BY <1>1, <1>2, LineSame, WaitSame, RingSame
<1> HIDE DEF k
<1>5. CASE Consumed(b, k)
  <2>1. out' = Append(out, KeyByte(b, k)) /\ dropped' = dropped
    BY <1>5 DEF Consumed
  <2>2. OutKeys' = Cat(OutKeys, One(k))
    BY <1>1, <2>1, OutAppended
  <2>3. ASSUME mode.canon PROVE k \in Apart'
    <3>1. b = "nul" /\ out \in Seq(ByteType)
      BY <2>3, PartTypes
    <3> DEFINE e == KeyByte(b, k)
               s == Append(out, e)
               n == Len(out) + 1
    <3>2. e.byte = "nul" /\ e.key = k /\ e \in ByteType
      BY <1>1, <3>1 DEF KeyByte, ByteType
    <3> HIDE DEF e
    <3>3. n \in DOMAIN s /\ s[n] = e
      BY <3>1, <3>2
    <3>4. out' = s
      BY <2>1 DEF e
    <3> HIDE DEF s, n
    <3>5. out'[n].byte = "nul" /\ out'[n].key = k /\ n \in DOMAIN out'
      BY <3>2, <3>3, <3>4
    <3>6. QED
      BY <3>5 DEF Apart, Eofs
  <2>4. QED
    BY <1>1, <1>3, <1>4, <2>1, <2>2, <2>3, OvertakeMoves
<1>6. CASE GivenUp(k)
  <2>1. OutKeys' = OutKeys /\ dropped' = dropped \union {k}
    BY <1>6, OutSame DEF GivenUp
  <2>2. QED
    BY <1>1, <1>3, <1>4, <2>1, DoneMoves
<1>7. QED
  BY <1>5, <1>6 DEF Deliver, k

LEMMA DropRawMoves ==
  ASSUME Steps, pc \in {"process", "erase"}, pc' # "clear", raw.key # 0, raw' = NoByte,
         UNCHANGED <<queue, inputVars, line, line_len, index, typed, out>>,
         dropped' = dropped \union {raw.key}
  PROVE  Moves
<1> TtyInv
  BY DEF Steps
<1>1. raw.key \in Nat /\ NowKeys = One(raw.key) /\ NowKeys' = NoKeys
  BY RawKey, NowIs, NowIsNext, Zeros
<1>2. /\ LineKeys' = LineKeys /\ WaitKeys' = WaitKeys /\ RingKeys' = RingKeys
      /\ OutKeys' = OutKeys
  BY LineSame, WaitSame, RingSame, OutSame
<1>3. QED
  BY <1>1, <1>2, DoneMoves

LEMMA ProcessMoves ==
  ASSUME Steps, ProcessSignal \/ ProcessUncooked \/ ProcessDelete \/ ProcessEof
                  \/ ProcessOther
  PROVE  Moves
<1> TtyInv /\ TypeOK
  BY DEF Steps, TtyInv
<1> DEFINE k == raw.key
<1>0. /\ pc = "process" /\ typed' = typed /\ direct' = direct
      /\ UNCHANGED <<queue, inputVars, line>>
  BY DEF ProcessSignal, ProcessUncooked, ProcessDelete, ProcessEof, ProcessOther,
     Edits, Process, Reader
<1>1. /\ k # 0 /\ k \in Nat /\ NowKeys = One(k) /\ index = 0
      /\ raw.byte \in ByteNames /\ k \in 0..MaxKeys
  BY <1>0, RawKey, NowIs, LineWhole
<1>2. CASE ProcessSignal
  <2>1. /\ line_len' = 0 /\ pc' = "take" /\ raw' = NoByte /\ index' = index
        /\ out' = out /\ dropped' = dropped \union KeysOf(Line(0)) \union {k}
    BY <1>2 DEF ProcessSignal, Done
  <2>2. /\ LineKeys' = NoKeys /\ NowKeys' = NoKeys /\ OutKeys' = OutKeys
        /\ WaitKeys' = WaitKeys /\ RingKeys' = RingKeys
    BY <1>0, <1>1, <2>1, LineGone, NowIsNext, OutSame, WaitSame, RingSame, Zeros
  <2>3. Elems(LineKeys) = KeysOf(Line(0)) /\ LineKeys \in Lists /\ NowKeys \in Lists
    BY <1>0, LineWhole, Parts
  <2> DEFINE x == Cat(LineKeys, NowKeys)
  <2>4. x \in Lists
    BY <2>3, CatIn
  <2>5. Elems(x) = KeysOf(Line(0)) \union {k}
    <3>1. Elems(x) = Elems(LineKeys) \union Elems(NowKeys)
      BY <2>3, CatElems DEF Lists, Cat
    <3>2. Elems(NowKeys) = {k}
      BY <1>1, ElemsOf
    <3>3. QED
      BY <2>3, <3>1, <3>2
  <2> HIDE DEF x
  <2>6. Cat(Cat(LineKeys', NowKeys'), x) = x
    BY <2>2, <2>4, CatNone, OneIn
  <2>7. dropped' = dropped \union Elems(x)
    BY <2>1, <2>5
  <2>8. Cat(LineKeys, NowKeys) = Cat(Cat(LineKeys', NowKeys'), x)
    BY <2>6 DEF x
  <2>9. QED
    BY <1>0, <2>2, <2>4, <2>7, <2>8, ForgetMoves
<1>3. CASE ProcessUncooked
  <2>1. ~mode.canon /\ Deliver(raw.byte, raw.key) /\ line_len' = line_len
    BY <1>3 DEF ProcessUncooked
  <2>2. QED
    BY <1>0, <1>1, <2>1, DeliverMoves
<1>4. CASE ProcessDelete
  <2>1. /\ line_len' = line_len /\ pc' # "clear" /\ raw' = NoByte /\ index' = index
        /\ out' = out /\ dropped' = dropped \union {k}
    BY <1>4 DEF ProcessDelete, Done, GivenUp
  <2>2. QED
    BY <1>0, <1>1, <2>1, DropRawMoves
<1>5. CASE ProcessEof
  <2>1. CASE line_len = 0 /\ Deliver("nul", raw.key)
    <3>1. "nul" \in ByteNames /\ line_len' = line_len
      BY <1>5 DEF ProcessEof, ByteNames
    <3>2. QED
      BY <1>0, <2>1, <3>1, DeliverMoves
  <2>2. CASE pc' = "flush" /\ UNCHANGED <<locals, out, dropped>>
    <3>1. NowKeys' = NowKeys /\ LineKeys' = LineKeys
      BY <1>0, <1>5, <2>2, NowSame, LineSame DEF locals, ProcessEof
    <3>2. QED
      BY <1>0, <2>2, <3>1, StillMoves
  <2>3. QED
    BY <1>5, <2>1, <2>2 DEF ProcessEof
<1>6. CASE ProcessOther
  <2>1. CASE Done({}) /\ line_len' = line_len
    <3>1. /\ pc' # "clear" /\ raw' = NoByte /\ index' = index
          /\ out' = out /\ dropped' = dropped \union {k}
      BY <2>1 DEF Done
    <3>2. QED
      BY <1>0, <1>1, <2>1, <3>1, DropRawMoves
  <2>2. CASE /\ pc' = "store" /\ line_len' = line_len
             /\ UNCHANGED <<raw, index, out, dropped>>
    <3>1. NowKeys' = NowKeys /\ LineKeys' = LineKeys
      BY <1>0, <2>2, NowSame, LineSame
    <3>2. QED
      BY <1>0, <2>2, <3>1, StillMoves
  <2>3. QED
    BY <1>6, <2>1, <2>2 DEF ProcessOther
<1>7. QED
  BY <1>2, <1>3, <1>4, <1>5, <1>6

(* The second half of an update, as long as it is not torn.                *)
LEMMA StoreMoves ==
  ASSUME Steps, Untorn, Store
  PROVE  Moves
<1> TtyInv /\ TypeOK
  BY DEF Steps, TtyInv
<1>1. /\ pc = "store" /\ pc' = "count" /\ typed' = typed /\ out' = out
      /\ dropped' = dropped /\ queue' = queue /\ UNCHANGED inputVars
      /\ line_len' = line_len /\ raw' = raw /\ index' = index
  BY DEF Store, Reader, KeepRing, locals
<1>2. line_len = seen /\ index = 0
  BY <1>1, LineWhole DEF Untorn, EditsLine
<1>3. line' = [line EXCEPT ![line_len] = raw]
  BY <1>2 DEF Store, Rereads
<1>4. Stretch(line', 0, line_len) = Stretch(line, 0, line_len)
  <2>1. ASSUME NEW i \in 1..(line_len - 0) PROVE line'[0 + i - 1] = line[0 + i - 1]
    <3>1. 0 + i - 1 # line_len /\ 0 + i - 1 \in 0..(LineSize - 1)
      BY Zeros DEF TypeOK
    <3>2. QED
      BY <1>3, <3>1 DEF TypeOK
  <2>2. QED
    BY <2>1 DEF Stretch
<1>5. LineKeys' = LineKeys
  BY <1>1, <1>2, <1>4, LineStretch
<1>6. QED
  BY <1>1, <1>5, NowSame, StillMoves

LEMMA CountMoves ==
  ASSUME Steps, Untorn, CountUp
  PROVE  Moves
<1> TtyInv /\ TypeOK
  BY DEF Steps, TtyInv
<1>1. /\ pc = "count" /\ pc' = "take" /\ typed' = typed /\ out' = out
      /\ dropped' = dropped /\ queue' = queue /\ UNCHANGED inputVars
      /\ line' = line /\ raw' = NoByte /\ index' = index
  BY DEF CountUp, Reader, KeepRing
<1>2. line_len = seen /\ index = 0 /\ line[line_len] = raw
  BY <1>1, LineWhole DEF Untorn, EditsLine
<1>3. line_len' = line_len + 1
  BY <1>2 DEF CountUp, Rereads
<1>4. /\ LineKeys = KeySeq(Stretch(line, 0, line_len))
      /\ LineKeys' = KeySeq(Stretch(line, 0, line_len + 1))
  BY <1>1, <1>2, <1>3, LineStretch
<1>5. KeySeq(Stretch(line, 0, line_len + 1))
        = Cat(KeySeq(Stretch(line, 0, line_len)), One(raw.key))
  <2>1. line_len \in Nat /\ line_len < LineSize /\ 0 <= line_len
    BY Zeros DEF TypeOK
  <2>2. line \in [0..(LineSize - 1) -> ByteType] /\ 0 \in Nat
    BY DEF TypeOK
  <2>3. KeySeq(Stretch(line, 0, line_len + 1))
          = Cat(KeySeq(Stretch(line, 0, line_len)), One(line[line_len].key))
    BY <2>1, <2>2, StretchEnds
  <2>4. QED
    BY <1>2, <2>3
<1>6. NowKeys = One(raw.key) /\ NowKeys' = NoKeys /\ LineKeys' \in Lists
  BY <1>1, RawKey, NowIs, NowIsNext, Zeros, PartsNext DEF Steps
<1>7. Cat(LineKeys, NowKeys) = Cat(Cat(LineKeys', NowKeys'), NoKeys)
  <2>1. Cat(LineKeys, NowKeys) = LineKeys'
    BY <1>4, <1>5, <1>6
  <2>2. Cat(LineKeys', NoKeys) = LineKeys'
    BY <1>6, CatNone
  <2>3. QED
    BY <1>6, <2>1, <2>2
<1>8. /\ OutKeys' = OutKeys /\ RingKeys' = RingKeys /\ WaitKeys' = WaitKeys
      /\ NoKeys \in Lists /\ dropped' = dropped \union Elems(NoKeys)
  BY <1>1, OutSame, RingSame, WaitSame, OneIn, ElemsOf
<1>9. QED
  BY <1>1, <1>7, <1>8, ForgetMoves

LEMMA EraseMoves ==
  ASSUME Steps, Untorn, Erase
  PROVE  Moves
<1> TtyInv /\ TypeOK
  BY DEF Steps, TtyInv
<1>1. /\ pc = "erase" /\ pc' = "take" /\ typed' = typed /\ out' = out
      /\ queue' = queue /\ UNCHANGED inputVars
      /\ line' = line /\ raw' = raw /\ index' = index
  BY DEF Erase, Reader
<1>2. line_len = seen /\ index = 0 /\ line_len > 0
  BY <1>1, LineWhole DEF Untorn, EditsLine
<1>3. line_len \in Nat /\ line_len < LineSize /\ LineSize \in Nat
  BY Zeros DEF TypeOK
<1> PICK m \in Nat : m = line_len - 1
  BY <1>2, <1>3
<1>4. line_len' = m /\ dropped' = dropped \union {line[m].key}
  BY <1>2, <1>3 DEF Erase, Rereads
<1>5. /\ line[m] \in ByteType
      /\ KeySeq(Stretch(line, 0, m + 1))
           = Cat(KeySeq(Stretch(line, 0, m)), One(line[m].key))
  <2>1. m < LineSize /\ 0 <= m /\ 0 \in Nat
    BY <1>3
  <2>2. line \in [0..(LineSize - 1) -> ByteType]
    BY DEF TypeOK
  <2>3. QED
    BY <2>1, <2>2, StretchEnds
<1>6. m + 1 = line_len
  BY <1>3
<1>7. /\ LineKeys = KeySeq(Stretch(line, 0, m + 1))
      /\ LineKeys' = KeySeq(Stretch(line, 0, m))
  BY <1>1, <1>2, <1>4, <1>6, LineStretch
<1>8. /\ NowKeys = NoKeys /\ NowKeys' = NoKeys
      /\ LineKeys \in Lists /\ LineKeys' \in Lists
  BY <1>1, RawKey, NowIs, NowSame, Parts, PartsNext DEF Steps
<1>9. Cat(LineKeys, NowKeys) = Cat(Cat(LineKeys', NowKeys'), One(line[m].key))
  BY <1>5, <1>7, <1>8, CatNone
<1>10. /\ OutKeys' = OutKeys /\ RingKeys' = RingKeys /\ WaitKeys' = WaitKeys
       /\ One(line[m].key) \in Lists
       /\ dropped' = dropped \union Elems(One(line[m].key))
  BY <1>1, <1>4, <1>5, OutSame, RingSame, WaitSame, OneIn, ElemsOf, KeyedTypes
<1>11. QED
  BY <1>1, <1>9, <1>10, ForgetMoves

(* flush_line moves on by a byte.                                          *)
LEMMA NextByteMoves ==
  ASSUME Steps, Untorn, pc \in {"load", "push"}, NextByte, UNCHANGED lineVars
  PROVE  /\ Sent \in ByteType /\ Sent.key \in Nat
         /\ Cat(LineKeys, NowKeys) = Cat(One(Sent.key), Cat(LineKeys', NowKeys'))
<1> TtyInv /\ TypeOK
  BY DEF Steps, TtyInv
<1>1. /\ line_len = seen /\ index <= seen /\ line' = line /\ line_len' = line_len
      /\ index' = index + 1
  BY DEF Untorn, EditsLine, TtyInv, LinePlace, NextByte, lineVars
<1>2. /\ line_len \in Nat /\ line_len < LineSize /\ LineSize \in Nat
      /\ index \in Nat /\ line \in [0..(LineSize - 1) -> ByteType]
  BY Zeros DEF TypeOK
<1>3. LineKeys = KeySeq(Stretch(line, index, line_len))
  BY LineStretch
<1>4. /\ raw.key # 0 /\ raw.key \in Nat /\ raw.key \in 0..MaxKeys
      /\ NowKeys = One(raw.key)
  BY RawKey, NowIs
<1>5. CASE index < seen
  <2>1. Sent = line[index] /\ raw' = raw /\ pc' = "load"
    BY <1>1, <1>2, <1>5 DEF Sent, NextByte
  <2>2. LineKeys' = KeySeq(Stretch(line, index + 1, line_len))
    BY <1>1, <2>1, LineStretch
  <2>3. /\ line[index] \in ByteType
        /\ KeySeq(Stretch(line, index, line_len))
             = Cat(One(line[index].key), KeySeq(Stretch(line, index + 1, line_len)))
    <3>1. index < line_len /\ line_len <= LineSize
      BY <1>1, <1>2, <1>5
    <3>2. QED
      BY <1>2, <3>1, StretchStarts
  <2>4. /\ Sent \in ByteType /\ Sent.key \in Nat /\ NowKeys' = NowKeys
        /\ LineKeys = Cat(One(Sent.key), LineKeys') /\ One(Sent.key) \in Lists
        /\ LineKeys' \in Lists /\ NowKeys \in Lists
    BY <1>3, <2>1, <2>2, <2>3, NowSame, KeyedTypes, OneIn, Parts, PartsNext DEF Steps
  <2>5. Cat(Cat(One(Sent.key), LineKeys'), NowKeys)
          = Cat(One(Sent.key), Cat(LineKeys', NowKeys))
    <3> PICK a \in Lists, b \in Lists, c \in Lists :
               a = One(Sent.key) /\ b = LineKeys' /\ c = NowKeys
      BY <2>4
    <3>1. Cat(Cat(a, b), c) = Cat(a, Cat(b, c))
      BY CatAssoc
    <3>2. QED
      BY <3>1
  <2>6. QED
    BY <2>4, <2>5
<1>6. CASE index = seen
  <2>1. /\ Sent = KeyByte("nl", raw.key) /\ raw' = NoByte /\ pc' = "clear"
    BY <1>1, <1>2, <1>6 DEF Sent, NextByte
  <2>2. Sent \in ByteType /\ Sent.key = raw.key
    BY <1>4, <2>1 DEF KeyByte, ByteType, ByteNames
  <2>3. LineKeys' = NoKeys /\ NowKeys' = NoKeys
    BY <2>1, LineGone, NowIsNext, Zeros
  <2>4. LineKeys = NoKeys
    <3>1. 1..(line_len - index) = {}
      BY <1>1, <1>2, <1>6
    <3>2. Stretch(line, index, line_len) = <<>>
      BY <3>1 DEF Stretch
    <3>3. QED
      BY <1>3, <3>2, KeySeqOne
  <2>5. One(raw.key) \in Lists
    BY <1>4, OneIn
  <2>6. /\ Cat(NoKeys, One(raw.key)) = One(raw.key)
        /\ Cat(NoKeys, NoKeys) = NoKeys /\ Cat(One(raw.key), NoKeys) = One(raw.key)
    BY <2>5, OneIn, CatNone
  <2>7. QED
    BY <1>4, <2>2, <2>3, <2>4, <2>6
<1>7. QED
  BY <1>1, <1>2, <1>5, <1>6 DEF TypeOK

LEMMA LoadMoves ==
  ASSUME Steps, Untorn, Load
  PROVE  Moves
<1> TtyInv /\ TypeOK
  BY DEF Steps, TtyInv
<1>1. /\ pc = "load" /\ typed' = typed /\ queue' = queue /\ UNCHANGED inputVars
      /\ UNCHANGED lineVars
  BY DEF Load, Reader, KeepRing
<1>2. CASE NextByte /\ GivenUp(Sent.key)
  <2>1. /\ Sent.key \in Nat
        /\ Cat(LineKeys, NowKeys) = Cat(One(Sent.key), Cat(LineKeys', NowKeys'))
    BY <1>1, <1>2, NextByteMoves
  <2>2. /\ One(Sent.key) \in Lists /\ OutKeys' = OutKeys /\ RingKeys' = RingKeys
        /\ WaitKeys' = WaitKeys /\ dropped' = dropped \union Elems(One(Sent.key))
    BY <1>1, <1>2, <2>1, OneIn, ElemsOf, OutSame, RingSame, WaitSame DEF GivenUp
  <2>3. QED
    BY <1>1, <2>1, <2>2, SendMoves
<1>3. CASE pc' = "push" /\ UNCHANGED <<raw, index, out, dropped>>
  <2>1. NowKeys' = NowKeys /\ LineKeys' = LineKeys
    BY <1>1, <1>3, NowSame, LineSame DEF lineVars
  <2>2. QED
    BY <1>1, <1>3, <2>1, StillMoves
<1>4. QED
  BY <1>2, <1>3 DEF Load

LEMMA ClearMoves ==
  ASSUME Steps, Clear
  PROVE  Moves
<1>1. /\ pc = "clear" /\ line_len' = 0 /\ index' = 0 /\ typed' = typed
      /\ out' = out /\ dropped' = dropped /\ queue' = queue
      /\ UNCHANGED inputVars /\ raw' = raw
  BY DEF Clear, Reader, KeepRing
<1>2. LineKeys = NoKeys /\ LineKeys' = NoKeys
  BY <1>1, LineStretch, LineGone
<1>3. QED
  BY <1>1, <1>2, NowSame, StillMoves

(* The byte goes where the tail is, and there is room for it.              *)
LEMMA RingStored ==
  ASSUME TypeOK, NEW e \in ByteType, next = (input_tail + 1) % RingSize,
         next # input_head,
         \E slot \in {input_tail, (next + RingSize - 1) % RingSize} :
           input' = [input EXCEPT ![slot] = e],
         input_tail' = next, input_head' = input_head
  PROVE  RingKeys' = Cat(RingKeys, One(e.key))
<1> DEFINE more == <<e>>
<1>1. /\ RingSize \in Nat \ {0} /\ input_tail \in Nat /\ input_head \in Nat
      /\ input_tail < RingSize /\ input_head < RingSize
      /\ input_tail \in InputSlots /\ input_head \in InputSlots
      /\ input \in [InputSlots -> ByteType]
  BY RingRoom DEF TypeOK
<1> PICK t \in Nat : t = input_tail
  BY <1>1
<1>2. next = IF t + 1 < RingSize THEN t + 1 ELSE 0
  <2> DEFINE x == t + 1
  <2>1. x \in 0..(2 * RingSize - 1)
    BY <1>1
  <2>2. x % RingSize = IF x < RingSize THEN x ELSE x - RingSize
    <3> HIDE DEF x
    <3>1. QED
      BY <1>1, <2>1, Wrap
  <2>3. next = x % RingSize
    OBVIOUS
  <2>4. (IF x < RingSize THEN x ELSE x - RingSize)
           = IF t + 1 < RingSize THEN t + 1 ELSE 0
    BY <1>1
  <2> HIDE DEF x
  <2>5. QED
    BY <2>2, <2>3, <2>4
<1>3. (next + RingSize - 1) % RingSize = t
  <2> DEFINE x == next + RingSize - 1
  <2>1. x \in 0..(2 * RingSize - 1) /\ x = IF t + 1 < RingSize THEN t + RingSize ELSE t
    BY <1>1, <1>2
  <2>2. x % RingSize = IF x < RingSize THEN x ELSE x - RingSize
    <3> HIDE DEF x
    <3>1. QED
      BY <1>1, <2>1, Wrap
  <2> HIDE DEF x
  <2>3. (IF x < RingSize THEN x ELSE x - RingSize) = t
    BY <1>1, <2>1
  <2>4. QED
    BY <2>2, <2>3 DEF x
<1>4. input' = [input EXCEPT ![t] = e]
  BY <1>3
<1>5. /\ input' \in [InputSlots -> ByteType]
      /\ more \in Seq(ByteType) /\ Len(more) = 1 /\ more[1] = e
      /\ KeySeq(more) = One(e.key)
  <2>1. input' \in [InputSlots -> ByteType]
    BY <1>1, <1>4
  <2>2. more \in Seq(ByteType) /\ Len(more) = 1 /\ more[1] = e
    OBVIOUS
  <2>3. QED
    BY <2>1, <2>2, KeySeqOne
<1> HIDE DEF more
<1>6. Gap(input_head, input_tail) + Len(more) < RingSize
  <2>1. CASE t + 1 < RingSize
    <3>1. input_head # t + 1
      BY <1>2, <2>1
    <3>2. QED
      BY <1>1, <1>5, <2>1, <3>1 DEF Gap
  <2>2. CASE t + 1 >= RingSize
    <3>1. input_head > 0
      BY <1>1, <1>2, <2>2
    <3>2. QED
      BY <1>1, <1>5, <2>2, <3>1 DEF Gap
  <2>3. QED
    BY <1>1, <2>1, <2>2
<1>7. input_tail' = (input_tail + Len(more)) % RingSize
  BY <1>5
<1>8. Grown(input, input', input_tail, more)
  <2>1. ASSUME NEW s \in InputSlots
        PROVE  input'[s] = IF Gap(input_tail, s) < Len(more)
                           THEN more[Gap(input_tail, s) + 1] ELSE input[s]
    <3>1. /\ Gap(input_tail, s) \in 0..(RingSize - 1)
          /\ Gap(input_tail, s) = 0 <=> input_tail = s
      BY <1>1, GapIs
    <3>2. CASE s = t
      <4>1. Gap(input_tail, s) = 0 /\ input'[s] = e
        BY <1>1, <1>4, <3>1, <3>2
      <4>2. QED
        BY <1>5, <4>1
    <3>3. CASE s # t
      <4>1. ~ (Gap(input_tail, s) < 1) /\ input'[s] = input[s]
        BY <1>1, <1>4, <3>1, <3>3
      <4>2. QED
        BY <1>5, <4>1
    <3>4. QED
      BY <3>2, <3>3
  <2>2. QED
    BY <2>1 DEF Grown
<1>9. RingKeys' = Cat(RingKeys, KeySeq(more))
  BY <1>5, <1>6, <1>7, <1>8, RingPut
<1>10. QED
  BY <1>5, <1>9

LEMMA StoreByteMoves ==
  ASSUME Steps, Untorn, StoreByte
  PROVE  Moves
<1> TtyInv /\ TypeOK
  BY DEF Steps, TtyInv
<1>1. /\ pc = "push" /\ typed' = typed /\ queue' = queue /\ UNCHANGED lineVars
      /\ out' = out /\ dropped' = dropped /\ NextByte
      /\ input_tail' = next /\ input_head' = input_head
      /\ \E slot \in {input_tail, (next + RingSize - 1) % RingSize} :
           input' = [input EXCEPT ![slot] = Sent]
  BY DEF StoreByte, Reader
<1>2. next = (input_tail + 1) % RingSize /\ next # input_head
  BY <1>1 DEF Untorn
<1>3. /\ Sent \in ByteType /\ Sent.key \in Nat
      /\ Cat(LineKeys, NowKeys) = Cat(One(Sent.key), Cat(LineKeys', NowKeys'))
  BY <1>1, NextByteMoves
<1>4. RingKeys' = Cat(RingKeys, One(Sent.key))
  <2> PICK e \in ByteType : e = Sent
    BY <1>3
  <2>1. \E slot \in {input_tail, (next + RingSize - 1) % RingSize} :
          input' = [input EXCEPT ![slot] = e]
    BY <1>1
  <2>2. RingKeys' = Cat(RingKeys, One(e.key))
    BY <1>1, <1>2, <2>1, RingStored
  <2>3. QED
    BY <2>2
<1>5. /\ One(Sent.key) \in Lists /\ OutKeys' = OutKeys /\ WaitKeys' = WaitKeys
  BY <1>1, <1>3, OneIn, OutSame, WaitSame
<1>6. QED
  BY <1>1, <1>3, <1>4, <1>5, SendMoves

(* Updates are not torn.                                                   *)
LEMMA UntornInterrupt ==
  ASSUME TtyInv, Untorn, ~raced', TimerTick \/ Control \/ \E code \in Codes : KeyPress(code)
  PROVE  Untorn'
<1>1. /\ line' = line /\ seen' = seen /\ raw' = raw /\ next' = next
      /\ pc' = (IF pc = "halt" THEN "check" ELSE pc)
  BY InterruptPlace DEF TimerTick, Control, KeyPress
<1>2. /\ EditsLine => line_len' = line_len
      /\ pc = "push" => input_tail' = input_tail /\ input_head' = input_head
  <2>1. CASE TimerTick \/ Control
    BY <2>1 DEF TimerTick, Control, inputVars
  <2>2. CASE \E code \in Codes : KeyPress(code)
    <3> PICK code \in Codes : KeyPress(code)
      BY <2>2
    <3>1. CASE Kill
      BY <3>1 DEF Kill, EditsLine, Pushes
    <3>2. CASE EndOfFile
      BY <3>2 DEF EndOfFile, PushKey, EditsLine, Pushes
    <3>3. CASE PushKey("ff")
      BY <3>3 DEF PushKey, Pushes
    <3>4. CASE QueueKey(code)
      BY <3>4 DEF QueueKey, inputVars
    <3>5. QED
      BY <3>1, <3>2, <3>3, <3>4 DEF KeyPress
  <2>3. QED
    BY <2>1, <2>2
<1>3. EditsLine' => EditsLine
  BY <1>1 DEF EditsLine
<1>4. (EditsLine' => line_len' = seen') /\ (pc' = "erase" => seen' > 0)
  BY <1>1, <1>2, <1>3 DEF Untorn
<1>5. pc' = "count" => line'[seen'] = raw'
  BY <1>1 DEF Untorn
<1>6. pc' = "push" => next' = (input_tail' + 1) % RingSize /\ next' # input_head'
  BY <1>1, <1>2 DEF Untorn
<1>7. QED
  BY <1>4, <1>5, <1>6 DEF Untorn

LEMMA UntornReader ==
  ASSUME TtyInv, Untorn, set_lflag \/ StartRead \/ ReaderStep
  PROVE  Untorn'
<1> TypeOK
  BY DEF TtyInv
<1>1. ASSUME ~EditsLine', pc' # "erase", pc' # "count", pc' # "push"
      PROVE  Untorn'
  BY <1>1 DEF Untorn
<1>2. CASE set_lflag \/ StartRead \/ Halt
  BY <1>1, <1>2 DEF set_lflag, StartRead, Halt, EditsLine
<1>3. CASE \/ CheckSignal("check", "pop") \/ CheckSignal("recheck", "sleep")
           \/ Pop("pop", "poll") \/ Pop("take", "check")
  BY <1>1, <1>3 DEF CheckSignal, Pop, pop_input, Deliver, ToUser, Goto, EditsLine
<1>4. CASE PollSerial \/ PollKeyboard \/ PollNothing
  BY <1>1, <1>4 DEF PollSerial, PollKeyboard, PollNothing, Goto, EditsLine
<1>5. CASE ProcessSignal \/ ProcessUncooked \/ ProcessEof
  BY <1>1, <1>5 DEF ProcessSignal, ProcessUncooked, ProcessEof, Done, Deliver,
     ToUser, EditsLine
<1>6. CASE ProcessDelete
  <2>1. CASE Done({})
    BY <1>1, <2>1 DEF Done, EditsLine
  <2>2. CASE /\ line_len # 0 /\ pc' = "erase" /\ seen' = line_len
             /\ line_len' = line_len
    <3>1. seen' > 0
      BY <2>2, Zeros DEF TypeOK
    <3>2. QED
      BY <2>2, <3>1 DEF Untorn
  <2>3. QED
    BY <1>6, <2>1, <2>2 DEF ProcessDelete
<1>7. CASE BeginFlush
  BY <1>7 DEF BeginFlush, Untorn
<1>8. CASE ProcessOther
  <2>1. CASE Done({})
    BY <1>1, <2>1 DEF Done, EditsLine
  <2>2. CASE pc' = "store" /\ seen' = line_len /\ line_len' = line_len
    BY <2>2 DEF Untorn
  <2>3. QED
    BY <1>8, <2>1, <2>2 DEF ProcessOther
<1>9. CASE Erase \/ CountUp \/ Clear
  BY <1>1, <1>9 DEF Erase, CountUp, Clear, EditsLine
<1>10. CASE Store
  <2>1. /\ pc' = "count" /\ line_len' = line_len /\ seen' = seen /\ raw' = raw
        /\ line_len = seen
    BY <1>10 DEF Store, Reader, locals, Untorn, EditsLine
  <2>2. line' = [line EXCEPT ![seen] = raw]
    BY <1>10, <2>1 DEF Store, Rereads
  <2>3. line'[seen] = raw
    BY <2>2 DEF TypeOK
  <2>4. QED
    BY <2>1, <2>3 DEF Untorn
<1>11. CASE Load
  <2>1. line_len = seen /\ line_len' = line_len /\ seen' = seen
    BY <1>11 DEF Load, Reader, Untorn, EditsLine, lineVars
  <2>2. CASE NextByte
    BY <2>1, <2>2 DEF NextByte, Untorn
  <2>3. CASE pc' = "push"
    <3>1. /\ next' = (input_tail + 1) % RingSize /\ next' # input_head
          /\ input_tail' = input_tail /\ input_head' = input_head
      BY <1>11, <2>3 DEF Load, NextByte, KeepRing, inputVars
    <3>2. QED
      BY <2>1, <2>3, <3>1 DEF Untorn
  <2>4. QED
    BY <1>11, <2>2, <2>3 DEF Load
<1>12. CASE StoreByte
  <2>1. line_len = seen /\ line_len' = line_len /\ seen' = seen /\ NextByte
    BY <1>12 DEF StoreByte, Reader, Untorn, EditsLine, lineVars
  <2>2. QED
    BY <2>1 DEF NextByte, Untorn
<1>13. QED
  BY <1>2, <1>3, <1>4, <1>5, <1>6, <1>7, <1>8, <1>9, <1>10, <1>11, <1>12
     DEF ReaderStep

----------------------------------------------------------------------------
(* Every key is in one place.                                              *)
LEMMA RacedStays ==
  ASSUME [Next]_vars, ~raced'
  PROVE  ~raced
<1>1. CASE set_lflag \/ StartRead \/ ReaderStep
  BY <1>1 DEF set_lflag, StartRead, ReaderStep, ghosts, CheckSignal, Pop,
     PollSerial, PollKeyboard, PollNothing, ProcessSignal, ProcessUncooked,
     ProcessDelete, ProcessEof, BeginFlush, ProcessOther, Erase, Store, CountUp,
     Load, StoreByte, Clear, Halt, Edits, Process, Reader
<1>2. CASE TimerTick \/ Control
  BY <1>2 DEF TimerTick, Control
<1>3. CASE \E code \in Codes : KeyPress(code)
  BY <1>3 DEF KeyPress, Kill, EndOfFile, PushKey, QueueKey
<1>4. CASE UNCHANGED vars
  BY <1>4 DEF vars, ghosts
<1>5. QED
  BY <1>1, <1>2, <1>3, <1>4 DEF Next

LEMMA StepMoves ==
  ASSUME TtyInv, Untorn, [Next]_vars, ~raced'
  PROVE  Untorn' /\ Moves
<1>1. Steps
  BY TtyNextInv DEF Steps
<1>2. CASE set_lflag \/ StartRead \/ ReaderStep
  <2>1. Untorn'
    BY <1>2, UntornReader
  <2>2. Moves
    BY <1>1, <1>2, IdleMoves, SignalMoves, PopMoves, PollMoves, ProcessMoves,
       EraseMoves, StoreMoves, CountMoves, LoadMoves, StoreByteMoves, ClearMoves
       DEF ReaderStep
  <2>3. QED
    BY <2>1, <2>2
<1>3. CASE TimerTick \/ Control
  BY <1>1, <1>3, TickMoves, UntornInterrupt
<1>4. CASE \E code \in Codes : KeyPress(code)
  BY <1>1, <1>4, KeyPressMoves, UntornInterrupt
<1>5. CASE UNCHANGED vars
  <2>1. /\ out' = out /\ UNCHANGED inputVars /\ queue' = queue
        /\ line' = line /\ line_len' = line_len /\ index' = index /\ raw' = raw
        /\ pc' = pc /\ typed' = typed /\ dropped' = dropped
        /\ seen' = seen /\ next' = next
    BY <1>5 DEF vars, lineVars, locals, ghosts
  <2>2. Moves
    BY <1>1, <2>1, NowSame, LineSame, StillMoves
  <2>3. Untorn'
    BY <2>1 DEF Untorn, EditsLine, inputVars
  <2>4. QED
    BY <2>2, <2>3
<1>6. QED
  BY <1>2, <1>3, <1>4, <1>5 DEF Next

LEMMA HeldInit == Init => Held = <<>>
<1> SUFFICES ASSUME Init PROVE Held = <<>>
  OBVIOUS
<1>1. TtyInv /\ TypeOK
  BY TtyInitInv DEF TtyInv
<1>2. OutKeys = NoKeys /\ WaitKeys = NoKeys
  BY KeySeqOne DEF Init, OutKeys, WaitKeys
<1>3. NowKeys = NoKeys
  BY NowIs, Zeros DEF Init
<1>4. LineKeys = NoKeys
  <2>1. Stretch(line, index, line_len) = <<>>
    BY DEF Init, Stretch
  <2>2. pc # "clear"
    BY DEF Init
  <2>3. QED
    BY <2>1, <2>2, LineStretch, KeySeqOne
<1>5. RingKeys = NoKeys
  <2>1. input_head \in InputSlots /\ input_tail \in InputSlots
        /\ input_head = input_tail
    BY <1>1 DEF TypeOK, Init
  <2>2. Gap(input_head, input_tail) = 0
    BY <2>1, GapIs
  <2>3. Ring = <<>>
    BY <1>1, <2>2, RingIs DEF RingIn
  <2>4. QED
    BY <2>3, KeySeqOne DEF RingKeys
<1>6. NoKeys \in Lists /\ Cat(NoKeys, NoKeys) = NoKeys
  BY OneIn, CatNone
<1>7. Held = NoKeys
  BY <1>1, <1>2, <1>3, <1>4, <1>5, <1>6, Parts DEF Five
<1>8. QED
  BY <1>7 DEF NoKeys

LEMMA KeysInitInv == Init => KeysInv
<1> SUFFICES ASSUME Init PROVE KeysInv
  OBVIOUS
<1>1. Untorn
  BY DEF Init, Untorn, EditsLine
<1>2. Account(<<>>, 0, {})
  <2>1. <<>> \in Seq(1..0) /\ Len(<<>>) = 0 /\ 1..0 = {}
    OBVIOUS
  <2>2. QED
    BY <2>1 DEF Account
<1>3. Held = <<>> /\ typed = 0 /\ dropped = {}
  BY HeldInit DEF Init
<1>4. QED
  BY <1>1, <1>2, <1>3 DEF KeysInv

LEMMA KeysNextInv == TtyInv /\ KeysInv /\ [Next]_vars => KeysInv'
<1> SUFFICES ASSUME TtyInv, KeysInv, [Next]_vars, ~raced'
             PROVE  Untorn' /\ Account(Held, typed, dropped)'
  BY DEF KeysInv
<1>1. Untorn /\ Account(Held, typed, dropped)
  BY RacedStays DEF KeysInv
<1>2. Untorn' /\ Moves
  BY <1>1, StepMoves
<1>3. typed \in Nat
  BY Zeros DEF TtyInv, TypeOK
<1>4. Change(Held, Held', typed, typed', dropped, dropped', Apart', mode.canon)
  BY <1>2 DEF Moves
<1>5. Account(Held', typed', dropped')
  BY <1>1, <1>3, <1>4, ChangeAccount
<1>6. QED
  BY <1>2, <1>5 DEF Account

(* Being held once, or not at all, is what the count says.                 *)
LEMMA CountedOnce ==
  ASSUME NEW held, NEW n \in Nat, NEW lost, Account(held, n, lost), NEW k \in 1..n
  PROVE  Cardinality({i \in DOMAIN held : held[i] = k}) = IF k \in lost THEN 0 ELSE 1
<1> DEFINE at_k == {i \in DOMAIN held : held[i] = k}
<1>1. /\ DOMAIN held = 1..Len(held)
      /\ \A i, j \in 1..Len(held) : held[i] = held[j] => i = j
      /\ {held[i] : i \in 1..Len(held)} = (1..n) \ lost
  BY Elements DEF Account
<1>2. CASE k \in lost
  <2>1. at_k = {}
    BY <1>1, <1>2
  <2>2. QED
    BY <1>2, <2>1, FS_EmptySet
<1>3. CASE k \notin lost
  <2>1. PICK i \in 1..Len(held) : held[i] = k
    BY <1>1, <1>3
  <2>2. at_k = {i}
    BY <1>1, <2>1
  <2>3. QED
    BY <1>3, <2>2, FS_Singleton
<1>4. QED
  BY <1>2, <1>3

(* For every size of the line, the ring and the queue: as long as the      *)
(* interrupt does not fall into an update of the line or of the ring's     *)
(* tail, no key is lost or doubled unnoticed on its way to the reader.     *)
THEOREM KeysStayAccounted == Spec => []KeysAccounted
<1>1. TtyInv /\ KeysInv => KeysAccounted
  <2> SUFFICES ASSUME TtyInv, KeysInv, ~raced, NEW k \in 1..typed
               PROVE  Cardinality({i \in DOMAIN Held : Held[i] = k}) =
                        IF k \in dropped THEN 0 ELSE 1
    BY DEF KeysAccounted
  <2>1. typed \in Nat /\ Account(Held, typed, dropped)
    BY Zeros DEF KeysInv, TtyInv, TypeOK
  <2>2. QED
    BY <2>1, CountedOnce
<1>2. QED
  BY <1>1, TtyInitInv, TtyNextInv, KeysInitInv, KeysNextInv, PTL DEF Spec

----------------------------------------------------------------------------
(* Keys that are set apart stay so: what was returned is not taken back.   *)
Grows == out' = out \/ \E e : out' = Append(out, e)

LEMMA ReturnedStays ==
  ASSUME out \in Seq(ByteType), direct \subseteq direct', Grows
  PROVE  Apart \subseteq Apart'
<1>1. \A i \in DOMAIN out : i \in DOMAIN out' /\ out'[i] = out[i]
  <2>1. CASE out' = out
    BY <2>1
  <2>2. CASE \E e : out' = Append(out, e)
    <3> PICK e : out' = Append(out, e)
      BY <2>2
    <3>1. DOMAIN out = 1..Len(out) /\ Len(out) \in Nat
      OBVIOUS
    <3>2. DOMAIN Append(out, e) = 1..(Len(out) + 1)
      OBVIOUS
    <3>3. \A i \in 1..Len(out) : Append(out, e)[i] = out[i]
      OBVIOUS
    <3>4. \A i \in 1..Len(out) : i \in 1..(Len(out) + 1)
      BY <3>1
    <3>5. QED
      BY <3>1, <3>2, <3>3, <3>4
  <2>3. QED
    BY <2>1, <2>2 DEF Grows
<1>2. \A i \in Eofs : i \in Eofs' /\ out'[i].key = out[i].key
  BY <1>1 DEF Eofs
<1>3. {out[i].key : i \in Eofs} \subseteq {out'[i].key : i \in Eofs'}
  BY <1>2
<1>4. QED
  BY <1>3 DEF Apart

LEMMA DeliverGrows ==
  ASSUME NEW b, NEW k, Deliver(b, k)
  PROVE  direct' = direct /\ Grows
BY DEF Deliver, Consumed, GivenUp, ToUser, Grows

LEMMA ApartGrows ==
  ASSUME TtyInv, [Next]_vars
  PROVE  Apart \subseteq Apart'
<1>1. out \in Seq(ByteType)
  BY DEF TtyInv, LinePlace
<1>2. CASE \/ set_lflag \/ StartRead \/ Halt \/ PollKeyboard \/ PollNothing
           \/ CheckSignal("check", "pop") \/ CheckSignal("recheck", "sleep")
  <2>1. direct' = direct /\ out' = out
    BY <1>2 DEF set_lflag, StartRead, Halt, PollKeyboard, PollNothing,
       CheckSignal, Goto, ToUser, GivenUp, ghosts
  <2>2. QED
    BY <1>1, <2>1, ReturnedStays DEF Grows
<1>3. CASE PollSerial
  <2>1. direct \subseteq direct' /\ out' = out
    BY <1>3 DEF PollSerial
  <2>2. QED
    BY <1>1, <2>1, ReturnedStays DEF Grows
<1>4. CASE \/ Pop("pop", "poll") \/ Pop("take", "check") \/ ProcessUncooked
           \/ ProcessEof
  <2>1. direct' = direct /\ Grows
    <3>1. CASE Pop("pop", "poll") \/ Pop("take", "check")
      BY <3>1, DeliverGrows DEF Pop, pop_input, Goto, Grows
    <3>2. CASE ProcessUncooked \/ ProcessEof
      BY <3>2, DeliverGrows DEF ProcessUncooked, ProcessEof, Edits, Process, Grows
    <3>3. QED
      BY <1>4, <3>1, <3>2
  <2>2. QED
    BY <1>1, <2>1, ReturnedStays
<1>5. CASE \/ ProcessSignal \/ ProcessDelete \/ BeginFlush \/ ProcessOther
           \/ Erase \/ Store \/ CountUp \/ Load \/ StoreByte \/ Clear
  <2>1. direct' = direct /\ out' = out
    BY <1>5 DEF ProcessSignal, ProcessDelete, BeginFlush, ProcessOther, Erase,
       Store, CountUp, Load, StoreByte, Clear, Edits, Process, Done, GivenUp,
       KeepRing
  <2>2. QED
    BY <1>1, <2>1, ReturnedStays DEF Grows
<1>6. CASE TimerTick \/ Control \/ \E code \in Codes : KeyPress(code)
  <2>1. direct \subseteq direct' /\ out' = out
    BY <1>6 DEF TimerTick, Control, KeyPress, Interrupt, Kill, EndOfFile,
       PushKey, QueueKey
  <2>2. QED
    BY <1>1, <2>1, ReturnedStays DEF Grows
<1>7. CASE UNCHANGED vars
  <2>1. direct' = direct /\ out' = out
    BY <1>7 DEF vars, ghosts
  <2>2. QED
    BY <1>1, <2>1, ReturnedStays DEF Grows
<1>8. QED
  BY <1>2, <1>3, <1>4, <1>5, <1>6, <1>7 DEF Next, ReaderStep

LEMMA CanonStays ==
  ASSUME \A m \in Modes : m.canon, mode.canon, [Next]_vars
  PROVE  mode'.canon
<1>1. CASE set_lflag
  BY <1>1 DEF set_lflag
<1>2. CASE StartRead \/ ReaderStep
  BY <1>2 DEF StartRead, ReaderStep, CheckSignal, Pop, PollSerial,
     PollKeyboard, PollNothing, ProcessSignal, ProcessUncooked, ProcessDelete,
     ProcessEof, BeginFlush, ProcessOther, Erase, Store, CountUp, Load,
     StoreByte, Clear, Halt, Edits, Process, Reader
<1>3. CASE TimerTick \/ Control \/ \E code \in Codes : KeyPress(code)
  BY <1>3 DEF TimerTick, Control, KeyPress, Interrupt
<1>4. CASE UNCHANGED vars
  BY <1>4 DEF vars
<1>5. QED
  BY <1>1, <1>2, <1>3, <1>4 DEF Next

----------------------------------------------------------------------------
(* What is typed is read in the order of typing.                           *)
LEMMA OrderInitInv == Init => OrderInv
<1> SUFFICES ASSUME Init PROVE OrderInv
  OBVIOUS
<1>1. mode.canon
  BY DEF Init
<1>2. Held = <<>> /\ Len(<<>>) = 0
  BY HeldInit
<1>3. QED
  BY <1>1, <1>2 DEF OrderInv, Ordered

LEMMA OrderNextInv ==
  ASSUME \A m \in Modes : m.canon
  PROVE  TtyInv /\ KeysInv /\ OrderInv /\ [Next]_vars => OrderInv'
<1> SUFFICES ASSUME TtyInv, KeysInv, OrderInv, [Next]_vars PROVE OrderInv'
  OBVIOUS
<1>1. mode.canon /\ mode'.canon
  BY CanonStays DEF OrderInv
<1>2. ASSUME ~raced' PROVE Ordered(Held', Apart')
  <2>1. Untorn /\ Account(Held, typed, dropped) /\ Ordered(Held, Apart)
    BY <1>2, RacedStays DEF KeysInv, OrderInv
  <2>2. Moves
    BY <1>2, <2>1, StepMoves
  <2>3. typed \in Nat
    BY Zeros DEF TtyInv, TypeOK
  <2>4. mode.canon = TRUE
    BY <1>1 DEF TtyInv, TypeOK, Mode
  <2>5. Change(Held, Held', typed, typed', dropped, dropped', Apart', TRUE)
    BY <2>2, <2>4 DEF Moves
  <2>6. Apart \subseteq Apart'
    BY ApartGrows
  <2>7. QED
    BY <2>1, <2>3, <2>5, <2>6, ChangeOrder
<1>3. QED
  BY <1>1, <1>2 DEF OrderInv, Ordered

(* While the terminal is in canonical mode, for every size of the line,    *)
(* the ring and the queue: what the reader edits and what the interrupt    *)
(* flushes under it is read in the order of typing, but for the bytes the  *)
(* interrupt pushes itself and an end of file.                             *)
THEOREM KeysStayInOrder ==
  ASSUME \A m \in Modes : m.canon
  PROVE  Spec => []KeysInOrder
<1>1. TtyInv /\ KeysInv /\ OrderInv => KeysInOrder
  <2> SUFFICES ASSUME TtyInv, KeysInv, OrderInv, ~raced PROVE KeysInOrder
    BY DEF KeysInOrder
  <2>1. Account(Held, typed, dropped) /\ Ordered(Held, Apart)
    BY DEF KeysInv, OrderInv
  <2>2. DOMAIN Held = 1..Len(Held)
    BY <2>1 DEF Account
  <2>3. QED
    BY <2>1, <2>2 DEF KeysInOrder, Ordered
<1>2. TtyInv /\ KeysInv /\ OrderInv /\ [Next]_vars => OrderInv'
  BY OrderNextInv
<1>3. QED
  BY <1>1, <1>2, TtyInitInv, TtyNextInv, KeysInitInv, KeysNextInv, OrderInitInv,
     PTL DEF Spec
=============================================================================
