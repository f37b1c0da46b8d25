---------------------------- MODULE EventsProofs ----------------------------
(***************************************************************************)
(* Proofs about Events, for every number of slots, every clock rate, every *)
(* set of signals and all bounds: types, that no wait sleeps on past its   *)
(* deadline, and that what a wait reports still holds when it has ended.   *)
(***************************************************************************)
EXTENDS Events, FiniteSetTheorems, TLAPS

FdType == [kind : {"free"}]
          \cup [kind : {"event"}, id : 1 .. EventMax]
          \cup [kind : {"timer"}, id : 1 .. TimerMax]
          \cup [kind : {"signal"}, id : 1 .. SignalMax]
          \cup [kind : {"epoll"}, id : 1 .. EpollMax]
TimerType == [used : BOOLEAN, armed : BOOLEAN, expires : Nat, interval : Nat]

(* The objects and their descriptors keep their types.                     *)
ObjectsOk ==
  /\ fds \in [Fds -> FdType]
  /\ events \in [1 .. EventMax -> [used : BOOLEAN, counter : Nat]]
  /\ timers \in [1 .. TimerMax -> TimerType]
  /\ sigfds \in [1 .. SignalMax -> [used : BOOLEAN, mask : SUBSET Signals]]
  /\ epolls \in [1 .. EpollMax -> [used : BOOLEAN]]

Watched == [fd : Fds, asked : SUBSET {"in", "out"}]
CallType == [watched : Seq(Watched), todo : Seq(Watched),
             found : SUBSET (Fds \X SUBSET {"in", "out", "nval"}),
             deadline : Int, signals : BOOLEAN]

(* The clock, the signals and the waiting call keep their types.           *)
WaitOk ==
  /\ now \in 0 .. MaxTick /\ pending \subseteq Signals /\ mask \subseteq Signals
  /\ pc \in {"user", "look", "deadline", "halt", "asleep"}
  /\ call \in CallType /\ ticked \in BOOLEAN
  /\ reported \subseteq Fds
  /\ IF pc = "user" THEN call.found = {} ELSE reported = {}

(* Between the look at the clock and the hlt there is time for one tick.   *)
Awake ==
  call.deadline # None =>
    /\ pc = "halt" => now <= call.deadline /\ (~ticked => now < call.deadline)
    /\ pc = "asleep" => now <= call.deadline

(* What was found ready is ready.                                          *)
FoundHold ==
  \A r \in call.found : "in" \in r[2] => fds[r[1]].kind # "free" /\ Readable(fds[r[1]])

Inv == ObjectsOk /\ WaitOk /\ Awake /\ FoundHold /\ ReportsHold

----------------------------------------------------------------------------
LEMMA Numbers ==
  /\ MaxTick \in Nat /\ TickNs \in Nat /\ TickNs > 0
  /\ FdMax \in Nat /\ EventMax \in Nat /\ TimerMax \in Nat /\ SignalMax \in Nat
  /\ EpollMax \in Nat
BY EventConstants

LEMMA InitInv == Init => Inv
<1> SUFFICES ASSUME Init PROVE Inv
  OBVIOUS
<1>1. ObjectsOk
  BY Numbers DEF Init, ObjectsOk, FdType, TimerType, Free, NoEvent, NoTimer, NoSigfd, NoEpoll
<1>2. call = NoCall /\ pc = "user" /\ reported = {}
  BY DEF Init
<1>3. NoCall \in CallType /\ NoCall.found = {}
  BY DEF NoCall, CallType, None
<1>4. WaitOk
  <2>1. now \in 0 .. MaxTick /\ pending \subseteq Signals /\ mask \subseteq Signals
    BY Numbers DEF Init
  <2>2. ticked \in BOOLEAN
    BY DEF Init
  <2>3. QED
    BY <1>2, <1>3, <2>1, <2>2 DEF WaitOk
<1>5. Awake /\ FoundHold /\ ReportsHold
  BY <1>2, <1>3 DEF Awake, FoundHold, ReportsHold
<1>6. QED
  BY <1>1, <1>4, <1>5 DEF Inv

LEMMA DeliveredOk ==
  ASSUME NEW p, NEW m
  PROVE  /\ Delivered(p, m) \subseteq p
         /\ \A s \in p : s \in m => s \in Delivered(p, m)
BY DEF Delivered

(* Calls that do not wait.                                                 *)
LEMMA CallInv ==
  ASSUME Inv, NEW p \in SUBSET Signals, NEW m \in SUBSET Signals,
         CallWith(p, m), ObjectsOk'
  PROVE  Inv'
<1>1. /\ pc = "user" /\ pc' = "user" /\ call' = call /\ reported' = {} /\ call.found = {}
      /\ now' = now /\ ticked' = ticked /\ mask' = m /\ pending' \subseteq p
  BY DeliveredOk DEF CallWith, waiting, clock, Inv, WaitOk
<1>2. WaitOk'
  BY <1>1 DEF Inv, WaitOk
<1>3. Awake' /\ FoundHold' /\ ReportsHold'
  BY <1>1 DEF Awake, FoundHold, ReportsHold
<1>4. QED
  BY <1>2, <1>3 DEF Inv

LEMMA PlainCallInv == ASSUME Inv, Call, ObjectsOk' PROVE Inv'
BY CallInv DEF Call, Inv, WaitOk

LEMMA SameObjects == ASSUME ObjectsOk, UNCHANGED objects PROVE ObjectsOk'
BY DEF ObjectsOk, objects

LEMMA AllocOk ==
  ASSUME ObjectsOk, NEW kind, NEW id, Fd(kind, id) \in FdType, AllocFd(kind, id)
  PROVE  fds' \in [Fds -> FdType]
BY DEF AllocFd, ObjectsOk

LEMMA ObjectsInv == ASSUME Inv, Objects PROVE Inv'
<1>1. ObjectsOk
  BY DEF Inv
<1>2. ASSUME NEW init \in Inits, eventfd_alloc(init) PROVE Inv'
  <2>1. PICK id \in 1 .. EventMax :
          /\ AllocFd("event", id)
          /\ events' = [events EXCEPT ![id] = [used |-> TRUE, counter |-> init]]
    BY <1>1, <1>2 DEF eventfd_alloc, ObjectsOk
  <2>2. Fd("event", id) \in FdType /\ init \in Nat
    BY EventConstants DEF Fd, FdType
  <2>3. ObjectsOk'
    BY <1>1, <1>2, <2>1, <2>2, AllocOk DEF eventfd_alloc, ObjectsOk
  <2>4. QED
    BY <1>2, <2>3, PlainCallInv DEF eventfd_alloc
<1>3. CASE timerfd_alloc
  <2>1. PICK id \in 1 .. TimerMax :
          /\ AllocFd("timer", id)
          /\ timers' = [timers EXCEPT ![id] = [NoTimer EXCEPT !.used = TRUE]]
    BY <1>1, <1>3 DEF timerfd_alloc, ObjectsOk
  <2>2. Fd("timer", id) \in FdType /\ [NoTimer EXCEPT !.used = TRUE] \in TimerType
    BY DEF Fd, FdType, NoTimer, TimerType
  <2>3. ObjectsOk'
    BY <1>1, <1>3, <2>1, <2>2, AllocOk DEF timerfd_alloc, ObjectsOk
  <2>4. QED
    BY <1>3, <2>3, PlainCallInv DEF timerfd_alloc
<1>4. ASSUME NEW set \in SUBSET Signals, signalfd_alloc(set) PROVE Inv'
  <2>1. PICK id \in 1 .. SignalMax :
          /\ AllocFd("signal", id)
          /\ sigfds' = [sigfds EXCEPT ![id] = [used |-> TRUE, mask |-> set]]
    BY <1>1, <1>4 DEF signalfd_alloc, ObjectsOk
  <2>2. Fd("signal", id) \in FdType
    BY DEF Fd, FdType
  <2>3. ObjectsOk'
    BY <1>1, <1>4, <2>1, <2>2, AllocOk DEF signalfd_alloc, ObjectsOk
  <2>4. QED
    BY <1>4, <2>3, PlainCallInv DEF signalfd_alloc
<1>5. CASE epoll_alloc
  <2>1. PICK id \in 1 .. EpollMax :
          AllocFd("epoll", id) /\ epolls' = [epolls EXCEPT ![id].used = TRUE]
    BY <1>1, <1>5 DEF epoll_alloc, ObjectsOk
  <2>2. Fd("epoll", id) \in FdType
    BY DEF Fd, FdType
  <2>3. epolls' \in [1 .. EpollMax -> [used : BOOLEAN]]
    BY <1>1, <2>1 DEF ObjectsOk
  <2>4. ObjectsOk'
    BY <1>1, <1>5, <2>1, <2>2, <2>3, AllocOk DEF epoll_alloc, ObjectsOk
  <2>5. QED
    BY <1>5, <2>4, PlainCallInv DEF epoll_alloc
<1>6. ASSUME NEW fd \in Fds, close(fd) PROVE Inv'
  <2>1. Free \in FdType
    BY DEF Free, FdType
  <2>2. ObjectsOk'
    BY <1>1, <1>6, <2>1 DEF close, ObjectsOk
  <2>3. QED
    BY <1>6, <2>2, PlainCallInv DEF close
<1>7. QED
  BY <1>2, <1>3, <1>4, <1>5, <1>6 DEF Objects

LEMMA NowType == ASSUME WaitOk PROVE now \in Nat /\ NowNs \in Nat
BY Numbers DEF WaitOk, NowNs

(* A timer that is read late stays a number.                               *)
LEMMA ExpirationsOk ==
  ASSUME WaitOk, NEW t \in TimerType, Due(t)
  PROVE  Expirations(t) \in Nat /\ t.expires + Expirations(t) * t.interval \in Nat
<1>1. NowNs \in Nat /\ t.expires \in Nat /\ t.interval \in Nat /\ NowNs >= t.expires
  BY NowType DEF TimerType, Due
<1>2. Expirations(t) \in Nat
  <2>1. CASE t.interval = 0
    BY <2>1 DEF Expirations
  <2>2. CASE t.interval > 0
    <3> DEFINE late == NowNs - t.expires
               step == t.interval
    <3>1. late \in Nat /\ step \in Nat /\ step > 0
      BY <1>1, <2>2
    <3> HIDE DEF late, step
    <3>2. late \div step \in Nat
      BY <3>1
    <3>3. Expirations(t) = 1 + (late \div step)
      BY <1>1, <2>2 DEF Expirations, late, step
    <3>4. QED
      BY <3>2, <3>3
  <2>3. QED
    BY <1>1, <2>1, <2>2
<1> HIDE DEF Expirations
<1>3. Expirations(t) * t.interval \in Nat
  BY <1>1, <1>2
<1>4. QED
  BY <1>1, <1>2, <1>3

LEMMA ReadsInv == ASSUME Inv, Reads PROVE Inv'
<1>1. ObjectsOk /\ WaitOk
  BY DEF Inv
<1>2. PICK fd \in Fds :
        \/ \E v \in Times, i \in Intervals, abs \in BOOLEAN :
             timerfd_settime(fd, v, i, abs)
        \/ timerfd_disarm(fd)
        \/ read_timerfd(fd)
        \/ read_eventfd(fd)
        \/ read_signalfd(fd)
  BY DEF Reads
<1>3. /\ fds[fd].kind = "timer" => fds[fd].id \in 1 .. TimerMax
      /\ fds[fd].kind = "event" => fds[fd].id \in 1 .. EventMax
  BY <1>1 DEF ObjectsOk, FdType
<1> DEFINE id == fds[fd].id
<1>4. ASSUME NEW v \in Times, NEW i \in Intervals, NEW abs \in BOOLEAN,
             timerfd_settime(fd, v, i, abs)
      PROVE  Inv'
  <2>1. v \in Nat /\ i \in Nat /\ NowNs \in Nat
    BY <1>1, EventConstants, NowType
  <2> DEFINE expires == IF abs THEN v ELSE NowNs + v
  <2>2. expires \in Nat
    BY <2>1
  <2>3. timers' = [timers EXCEPT ![id] = [used |-> TRUE, armed |-> TRUE,
                                          expires |-> expires, interval |-> i]]
    BY <1>4 DEF timerfd_settime
  <2> HIDE DEF expires
  <2>4. timers' \in [1 .. TimerMax -> TimerType]
    BY <1>1, <2>1, <2>2, <2>3 DEF ObjectsOk, TimerType
  <2>5. ObjectsOk'
    BY <1>1, <1>4, <2>4 DEF timerfd_settime, ObjectsOk
  <2>6. QED
    BY <1>4, <2>5, PlainCallInv DEF timerfd_settime
<1>5. CASE timerfd_disarm(fd)
  <2>1. timers' \in [1 .. TimerMax -> TimerType]
    BY <1>1, <1>5 DEF timerfd_disarm, ObjectsOk, TimerType
  <2>2. ObjectsOk'
    BY <1>1, <1>5, <2>1 DEF timerfd_disarm, ObjectsOk
  <2>3. QED
    BY <1>5, <2>2, PlainCallInv DEF timerfd_disarm
<1>6. CASE read_timerfd(fd)
  <2> DEFINE t == timers[id]
             next == t.expires + Expirations(t) * t.interval
  <2>1. t \in TimerType /\ Due(t)
    BY <1>1, <1>3, <1>6 DEF read_timerfd, ObjectsOk
  <2>2. next \in Nat
    BY <1>1, <2>1, ExpirationsOk
  <2>3. timers' = [timers EXCEPT ![id].expires = next, ![id].armed = t.interval # 0]
    BY <1>6 DEF read_timerfd
  <2>4. (t.interval # 0) \in BOOLEAN
    OBVIOUS
  <2> HIDE DEF next
  <2>5. timers' \in [1 .. TimerMax -> TimerType]
    <3>1. timers \in [1 .. TimerMax -> TimerType]
      BY <1>1 DEF ObjectsOk
    <3>2. ASSUME NEW x \in 1 .. TimerMax PROVE timers'[x] \in TimerType
      <4>1. CASE x = id
        BY ONLY <2>2, <2>3, <2>4, <3>1, <4>1, x \in 1 .. TimerMax DEF TimerType
      <4>2. CASE x # id
        BY ONLY <2>3, <3>1, <4>2, x \in 1 .. TimerMax
      <4>3. QED
        BY <4>1, <4>2
    <3>3. QED
      BY ONLY <2>3, <3>1, <3>2
  <2>6. ObjectsOk'
    BY <1>1, <1>6, <2>5 DEF read_timerfd, ObjectsOk
  <2>7. QED
    BY <1>6, <2>6, PlainCallInv DEF read_timerfd
<1>7. CASE read_eventfd(fd)
  <2>1. events' \in [1 .. EventMax -> [used : BOOLEAN, counter : Nat]]
    BY <1>1, <1>7 DEF read_eventfd, ObjectsOk
  <2>2. ObjectsOk'
    BY <1>1, <1>7, <2>1 DEF read_eventfd, ObjectsOk
  <2>3. QED
    BY <1>7, <2>2, PlainCallInv DEF read_eventfd
<1>8. CASE read_signalfd(fd)
  <2>1. PICK s \in Signals : CallWith(pending \ {s}, mask)
    BY <1>8 DEF read_signalfd
  <2>2. ObjectsOk'
    BY <1>1, <1>8, SameObjects DEF read_signalfd
  <2>3. QED
    BY <1>1, <2>1, <2>2, CallInv DEF WaitOk
<1>9. QED
  BY <1>2, <1>4, <1>5, <1>6, <1>7, <1>8

----------------------------------------------------------------------------
(* The waiting calls.                                                      *)
LEMMA RequestsType == Requests \subseteq Seq(Watched)
<1>1. ASSUME NEW fd \in Fds, NEW a \in Asked PROVE Watch(fd, a) \in Watched
  BY EventConstants DEF Watch, Watched
<1>2. ASSUME NEW fd \in 0 .. FdMax - 2 PROVE fd \in Fds /\ fd + 1 \in Fds
  BY Numbers DEF Fds
<1>3. ASSUME NEW r \in Requests PROVE r \in Seq(Watched)
  <2>1. CASE r = <<>>
    BY <2>1
  <2>2. ASSUME NEW fd \in Fds, NEW a \in Asked, r = <<Watch(fd, a)>>
        PROVE  r \in Seq(Watched)
    BY <1>1, <2>2
  <2>3. ASSUME NEW fd \in 0 .. FdMax - 2, NEW a \in Asked,
               r = <<Watch(fd, a), Watch(fd + 1, a)>>
        PROVE  r \in Seq(Watched)
    <3>1. Watch(fd, a) \in Watched /\ Watch(fd + 1, a) \in Watched
      BY <1>1, <1>2
    <3>2. QED
      BY <2>3, <3>1
  <2>4. QED
    BY <2>1, <2>2, <2>3 DEF Requests
<1>4. QED
  BY <1>3

LEMMA WaitInv ==
  ASSUME Inv, NEW w \in Seq(Watched), NEW d \in Int, NEW b \in BOOLEAN, Wait(w, d, b)
  PROVE  Inv'
<1>1. ObjectsOk'
  BY SameObjects DEF Wait, Inv
<1> DEFINE c == [watched |-> w, todo |-> w, found |-> {}, deadline |-> d, signals |-> b]
<1>2. c \in CallType /\ c.found = {}
  BY DEF CallType
<1> HIDE DEF c
<1>3. /\ pc' = "look" /\ call' = c /\ reported' = {} /\ ticked' = FALSE
      /\ now' = now /\ pending' = pending /\ mask' = mask
  BY DEF Wait, c
<1>4. ticked' \in BOOLEAN
  BY <1>3
<1>5. WaitOk'
  BY <1>2, <1>3, <1>4 DEF Inv, WaitOk
<1>6. Awake' /\ FoundHold' /\ ReportsHold'
  BY <1>2, <1>3 DEF Awake, FoundHold, ReportsHold
<1>7. QED
  BY <1>1, <1>5, <1>6 DEF Inv

LEMMA TicksInt == ASSUME NEW t \in Nat PROVE Ticks(t) \in Int
BY Numbers DEF Ticks

LEMMA BeginInv == ASSUME Inv, Begin PROVE Inv'
<1>1. PICK t \in Waits \cup {None} :
        \/ \E w \in Requests : poll(w, t) \/ ppoll(w, t) \/ select_impl(w, t)
        \/ \E fd \in Fds : epoll_wait_impl(fd, t)
        \/ t # None /\ (nanosleep(t) \/ clock_nanosleep_absolute(t))
  BY DEF Begin
<1>2. now \in Int /\ None \in Int
  BY NowType DEF Inv, None
<1>3. t # None => Ticks(t) \in Int
  BY EventConstants, TicksInt DEF None
<1>4. Deadline(t) \in Int
  BY <1>2, <1>3 DEF Deadline
<1>5. ASSUME NEW w \in Requests, poll(w, t) \/ ppoll(w, t) \/ select_impl(w, t)
      PROVE  Inv'
  <2>1. w \in Seq(Watched)
    BY RequestsType
  <2>2. (IF t = None THEN now ELSE Deadline(t)) \in Int
    BY <1>2, <1>4
  <2>3. QED
    BY <1>4, <1>5, <2>1, <2>2, WaitInv DEF poll, ppoll, select_impl
<1>6. <<>> \in Seq(Watched)
  OBVIOUS
<1>7. ASSUME NEW fd \in Fds, epoll_wait_impl(fd, t) PROVE Inv'
  BY <1>4, <1>6, <1>7, WaitInv DEF epoll_wait_impl
<1>8. CASE t # None /\ (nanosleep(t) \/ clock_nanosleep_absolute(t))
  BY <1>3, <1>4, <1>6, <1>8, WaitInv DEF nanosleep, clock_nanosleep_absolute
<1>9. QED
  BY <1>1, <1>5, <1>7, <1>8

LEMMA ReturnOk ==
  ASSUME Inv, Return, reported' \subseteq Fds
  PROVE  ObjectsOk' /\ WaitOk' /\ Awake' /\ FoundHold'
<1>1. ObjectsOk'
  BY SameObjects DEF Return, Inv
<1>2. /\ pc' = "user" /\ call' = NoCall /\ ticked' = FALSE /\ now' = now /\ mask' = mask
      /\ pending' \subseteq pending
  BY DeliveredOk DEF Return
<1>3. NoCall \in CallType /\ NoCall.found = {} /\ NoCall.deadline = None
  BY DEF NoCall, CallType, None
<1>4. ticked' \in BOOLEAN
  BY <1>2
<1>5. WaitOk'
  BY <1>2, <1>3, <1>4 DEF Inv, WaitOk
<1>6. Awake' /\ FoundHold'
  BY <1>2, <1>3 DEF Awake, FoundHold
<1>7. QED
  BY <1>1, <1>5, <1>6

LEMMA LookInv == ASSUME Inv, Look PROVE Inv'
<1>1. ObjectsOk /\ WaitOk /\ ObjectsOk'
  BY SameObjects DEF Inv, Look
<1> DEFINE w == Head(call.todo)
           hit == poll_fd_revents(w.fd, w.asked)
           found == IF hit = {} THEN call.found ELSE call.found \cup {<<w.fd, hit>>}
<1>2. call.todo \in Seq(Watched) /\ call.todo # <<>> /\ call \in CallType
  BY <1>1 DEF Look, WaitOk, CallType
<1>3. w \in Watched /\ Tail(call.todo) \in Seq(Watched)
  BY <1>2
<1>4. call' = [call EXCEPT !.todo = Tail(@), !.found = found]
  BY <1>2 DEF Look, CallType
<1> HIDE DEF w
<1>5. w.fd \in Fds /\ w.asked \subseteq {"in", "out"}
  BY <1>3 DEF Watched
<1>6. /\ hit \subseteq {"in", "out", "nval"}
      /\ "in" \in hit => fds[w.fd].kind # "free" /\ Readable(fds[w.fd])
  BY <1>5 DEF poll_fd_revents
<1> HIDE DEF hit
<1>7. /\ found \in SUBSET (Fds \X SUBSET {"in", "out", "nval"})
      /\ \A r \in found : "in" \in r[2] =>
           fds[r[1]].kind # "free" /\ Readable(fds[r[1]])
  <2>1. call.found \in SUBSET (Fds \X SUBSET {"in", "out", "nval"})
    BY <1>2 DEF CallType
  <2>2. <<w.fd, hit>> \in Fds \X SUBSET {"in", "out", "nval"}
    BY <1>5, <1>6
  <2>3. /\ "in" \in <<w.fd, hit>>[2] => fds[<<w.fd, hit>>[1]].kind # "free"
        /\ "in" \in <<w.fd, hit>>[2] => Readable(fds[<<w.fd, hit>>[1]])
    BY <1>6
  <2>4. QED
    BY <2>1, <2>2, <2>3 DEF Inv, FoundHold
<1> HIDE DEF found
<1>8. /\ call' \in CallType /\ call'.found = found /\ call'.deadline = call.deadline
  BY <1>2, <1>3, <1>4, <1>7 DEF CallType
<1>9. /\ pc = "look" /\ pc' = pc /\ reported' = reported /\ now' = now
      /\ ticked' = ticked /\ pending' = pending /\ mask' = mask
      /\ fds' = fds /\ events' = events /\ timers' = timers /\ sigfds' = sigfds
  BY DEF Look, clock, objects
<1>10. WaitOk'
  BY <1>1, <1>8, <1>9 DEF WaitOk
<1>11. FoundHold'
  BY <1>7, <1>8, <1>9 DEF FoundHold, Readable, Due, NowNs
<1>12. Awake' /\ ReportsHold'
  BY <1>8, <1>9 DEF Awake, ReportsHold
<1>13. QED
  BY <1>1, <1>10, <1>11, <1>12 DEF Inv

(* A step of the loop that only moves on.                                  *)
LEMMA MoveOn ==
  ASSUME Inv, pc # "user", pc' \in {"look", "deadline", "halt", "asleep"},
         UNCHANGED <<objects, clock, pending, mask, call, reported>>, Awake'
  PROVE  Inv'
<1>1. ObjectsOk'
  BY SameObjects DEF Inv
<1>2. WaitOk'
  BY DEF Inv, WaitOk, clock
<1>3. FoundHold'
  BY DEF Inv, FoundHold, Readable, Due, NowNs, objects, clock
<1>4. ReportsHold'
  BY DEF ReportsHold
<1>5. QED
  BY <1>1, <1>2, <1>3, <1>4 DEF Inv

LEMMA LookedInv == ASSUME Inv, Looked PROVE Inv'
<1>1. CASE call.found # {}
  <2>1. Return /\ reported' = {r[1] : r \in {x \in call.found : "in" \in x[2]}}
    BY <1>1 DEF Looked
  <2>2. call.found \subseteq Fds \X SUBSET {"in", "out", "nval"}
    BY DEF Inv, WaitOk, CallType
  <2>3. reported' \subseteq Fds
    BY <2>1, <2>2
  <2>4. ASSUME NEW fd \in reported'
        PROVE  \/ CanRead(fd)'
               \/ fds'[fd].kind = "signal" /\ ~(sigfds'[fds'[fd].id].mask \subseteq mask')
    <3>1. fds[fd].kind # "free" /\ Readable(fds[fd]) /\ fd \in Fds
      BY <2>1, <2>3 DEF Inv, FoundHold
    <3>2. /\ fds' = fds /\ events' = events /\ timers' = timers /\ sigfds' = sigfds
          /\ now' = now /\ mask' = mask /\ pending' = Delivered(pending, mask)
      BY <2>1 DEF Return, objects
    <3>3. \A s \in pending : s \in mask => s \in pending'
      BY <3>2, DeliveredOk
    <3>4. CASE fds[fd].kind = "signal"
      BY <3>1, <3>2, <3>3, <3>4 DEF Readable, CanRead
    <3>5. CASE fds[fd].kind = "timer"
      <4>1. timers[fds[fd].id].armed /\ NowNs >= timers[fds[fd].id].expires
        BY <3>1, <3>5 DEF Readable, Due
      <4>2. timers[fds[fd].id].expires \in Nat /\ NowNs \in Nat
        BY <3>1, <3>5, NowType DEF Inv, ObjectsOk, FdType, TimerType
      <4>3. NowNs' = NowNs
        BY <3>2 DEF NowNs
      <4>4. QED
        BY <3>2, <3>5, <4>1, <4>2, <4>3 DEF CanRead
    <3>6. CASE fds[fd].kind = "event"
      BY <3>1, <3>2, <3>6 DEF Readable, CanRead
    <3>7. CASE fds[fd].kind = "epoll"
      BY <3>2, <3>7 DEF CanRead
    <3>8. QED
      BY <3>1, <3>4, <3>5, <3>6, <3>7 DEF Inv, ObjectsOk, FdType
  <2>5. ReportsHold'
    BY <2>4 DEF ReportsHold
  <2>6. QED
    BY <2>1, <2>3, <2>5, ReturnOk DEF Inv
<1>2. CASE call.found = {}
  <2>1. /\ pc = "look" /\ pc' = "deadline"
        /\ UNCHANGED <<objects, clock, pending, mask, call, reported>>
    BY <1>2 DEF Looked
  <2>2. Awake'
    BY <2>1 DEF Awake
  <2>3. QED
    BY <2>1, <2>2, MoveOn
<1>3. QED
  BY <1>1, <1>2

LEMMA CheckInv == ASSUME Inv, Check PROVE Inv'
<1>1. pc = "deadline" /\ reported = {}
  BY DEF Check, Inv, WaitOk
<1>2. CASE Return /\ UNCHANGED reported
  <2>1. reported' = {}
    BY <1>1, <1>2
  <2>2. ReportsHold'
    BY <2>1 DEF ReportsHold
  <2>3. QED
    BY <1>2, <2>1, <2>2, ReturnOk DEF Inv
<1>3. CASE /\ ~(call.deadline # None /\ now >= call.deadline)
           /\ pc' = "halt"
           /\ UNCHANGED <<objects, clock, pending, mask, call, irq, reported>>
  <2>1. now \in Int /\ call.deadline \in Int
    BY NowType DEF Inv, WaitOk, CallType
  <2>2. Awake'
    BY <1>3, <2>1 DEF Awake, clock
  <2>3. QED
    BY <1>1, <1>3, <2>2, MoveOn
<1>4. QED
  BY <1>2, <1>3 DEF Check

LEMMA HaltInv == ASSUME Inv, Halt PROVE Inv'
<1>1. Awake'
  BY DEF Halt, Inv, Awake, clock
<1>2. QED
  BY <1>1, MoveOn DEF Halt

----------------------------------------------------------------------------
(* Interrupts only add signals and time.                                   *)
LEMMA MoreTime ==
  ASSUME NEW a \in Nat, NEW b \in Nat, a <= b
  PROVE  a * TickNs <= b * TickNs /\ a * TickNs \in Nat /\ b * TickNs \in Nat
BY Numbers

(* What the clock and the pending signals only help.                       *)
LEMMA Later ==
  ASSUME ObjectsOk, WaitOk, UNCHANGED objects, now' \in Nat, now <= now',
         pending \subseteq pending', NEW fd \in Fds
  PROVE  /\ fds[fd].kind # "free" /\ Readable(fds[fd]) => Readable(fds[fd])'
         /\ CanRead(fd) => CanRead(fd)'
<1>1. /\ fds' = fds /\ events' = events /\ timers' = timers /\ sigfds' = sigfds
  BY DEF objects
<1>2. NowNs <= NowNs' /\ NowNs \in Nat /\ NowNs' \in Nat
  BY NowType, MoreTime DEF NowNs
<1>3. CASE fds[fd].kind = "timer"
  <2>1. timers[fds[fd].id].expires \in Nat
    BY <1>3 DEF ObjectsOk, FdType, TimerType
  <2>2. QED
    BY <1>1, <1>2, <1>3, <2>1 DEF Readable, CanRead, Due
<1>4. CASE fds[fd].kind = "signal"
  BY <1>1, <1>4 DEF Readable, CanRead
<1>5. CASE fds[fd].kind \in {"event", "epoll", "free"}
  BY <1>1, <1>5 DEF Readable, CanRead
<1>6. QED
  BY <1>3, <1>4, <1>5 DEF ObjectsOk, FdType

LEMMA InterruptInv ==
  ASSUME Inv, UNCHANGED <<objects, mask, reported>>,
         now' \in 0 .. MaxTick, now <= now', ticked' \in BOOLEAN,
         pending \subseteq pending', pending' \subseteq Signals, Wake, Awake'
  PROVE  Inv'
<1>1. ObjectsOk /\ WaitOk /\ ObjectsOk' /\ now' \in Nat
  BY SameObjects, Numbers DEF Inv
<1>2. call \in CallType /\ call' \in CallType /\ call'.found = call.found
      /\ (pc = "user" <=> pc' = "user")
      /\ pc' \in {"user", "look", "deadline", "halt", "asleep"}
  BY <1>1 DEF Wake, WaitOk, CallType
<1>3. WaitOk'
  BY <1>1, <1>2 DEF WaitOk
<1>4. FoundHold'
  <2>1. ASSUME NEW r \in call.found, "in" \in r[2]
        PROVE  fds'[r[1]].kind # "free" /\ Readable(fds[r[1]])'
    <3>1. r[1] \in Fds /\ fds[r[1]].kind # "free" /\ Readable(fds[r[1]])
      BY <1>2, <2>1 DEF Inv, FoundHold, CallType
    <3>2. QED
      BY <1>1, <3>1, Later DEF objects
  <2>2. QED
    BY <1>2, <2>1 DEF FoundHold
<1>5. ReportsHold'
  <2>1. ASSUME NEW fd \in reported, pc = "user"
        PROVE  \/ CanRead(fd)'
               \/ fds[fd].kind = "signal" /\ ~(sigfds[fds[fd].id].mask \subseteq mask)
    <3>1. fd \in Fds
      BY <1>1 DEF WaitOk
    <3>2. QED
      BY <1>1, <2>1, <3>1, Later DEF Inv, ReportsHold
  <2>2. QED
    BY <1>2, <2>1 DEF ReportsHold, objects
<1>6. QED
  BY <1>1, <1>3, <1>4, <1>5 DEF Inv

LEMMA TimerTickInv == ASSUME Inv, TimerTick PROVE Inv'
<1>1. now \in 0 .. MaxTick /\ MaxTick \in Nat /\ call.deadline \in Int /\ now \in Nat
  BY Numbers, NowType DEF Inv, WaitOk, CallType
<1>2. /\ now' \in 0 .. MaxTick /\ now <= now' /\ now' <= now + 1
      /\ now' \in Nat
  BY <1>1 DEF TimerTick
<1>3. ticked' \in BOOLEAN /\ (pc = "halt" => ticked')
  <2> DEFINE working == pc \in {"look", "deadline", "halt"}
  <2>1. working \in BOOLEAN
    OBVIOUS
  <2>2. pc = "halt" => working
    OBVIOUS
  <2>3. ticked' = working
    BY DEF TimerTick
  <2> HIDE DEF working
  <2>4. QED
    BY <2>1, <2>2, <2>3
<1>4. Awake'
  <2>1. CASE pc = "asleep"
    BY <2>1 DEF TimerTick, Wake, Awake
  <2>2. CASE pc # "asleep"
    <3>1. pc' = pc /\ call' = call
      BY <2>2 DEF TimerTick, Wake
    <3>2. CASE pc = "halt"
      <4>1. ~ticked /\ ticked'
        BY <1>3, <3>2 DEF TimerTick
      <4>2. call.deadline # None => now' <= call.deadline
        BY <1>1, <1>2, <3>2, <4>1 DEF Inv, Awake
      <4>3. QED
        BY <3>1, <3>2, <4>1, <4>2 DEF Awake
    <3>3. CASE pc # "halt"
      BY <2>2, <3>1, <3>3 DEF Awake
    <3>4. QED
      BY <3>2, <3>3
  <2>3. QED
    BY <2>1, <2>2
<1>5. pending' = pending /\ pending \subseteq Signals
  BY DEF TimerTick, Inv, WaitOk
<1>6. QED
  BY <1>2, <1>3, <1>4, <1>5, InterruptInv DEF TimerTick

LEMMA OtherInterruptInv ==
  ASSUME Inv, NEW raised \in SUBSET Signals, OtherInterrupt(raised)
  PROVE  Inv'
<1>1. now' = now /\ now \in 0 .. MaxTick /\ now \in Nat
  BY NowType DEF OtherInterrupt, Inv, WaitOk
<1>2. ticked' \in BOOLEAN
  BY DEF OtherInterrupt, Inv, WaitOk
<1>3. pending \subseteq pending' /\ pending' \subseteq Signals
  BY DEF OtherInterrupt, Inv, WaitOk
<1>4. Awake'
  <2>1. CASE pc = "asleep"
    BY <2>1 DEF OtherInterrupt, Wake, Awake
  <2>2. CASE pc # "asleep"
    <3>1. pc' = pc /\ call' = call /\ (ticked' <=> ticked)
      BY <2>2 DEF OtherInterrupt, Wake
    <3>2. QED
      BY <1>1, <3>1 DEF Inv, Awake
  <2>3. QED
    BY <2>1, <2>2
<1>5. QED
  BY <1>1, <1>2, <1>3, <1>4, InterruptInv DEF OtherInterrupt

LEMMA NextInv == Inv /\ [Next]_vars => Inv'
<1> SUFFICES ASSUME Inv, [Next]_vars PROVE Inv'
  OBVIOUS
<1>1. CASE Objects
  BY <1>1, ObjectsInv
<1>2. CASE Reads
  BY <1>2, ReadsInv
<1>3. CASE OtherCall
  BY <1>3, SameObjects, PlainCallInv DEF OtherCall, Inv
<1>4. ASSUME NEW set \in SUBSET Signals, rt_sigprocmask(set) PROVE Inv'
  <2>1. ObjectsOk' /\ pending \in SUBSET Signals
    BY <1>4, SameObjects DEF rt_sigprocmask, Inv, WaitOk
  <2>2. QED
    BY <1>4, <2>1, CallInv DEF rt_sigprocmask
<1>5. CASE Begin
  BY <1>5, BeginInv
<1>6. CASE Turn
  BY <1>6, LookInv, LookedInv, CheckInv, HaltInv DEF Turn
<1>7. CASE TimerTick
  BY <1>7, TimerTickInv
<1>8. ASSUME NEW raised \in {{}} \cup {{s} : s \in Signals}, OtherInterrupt(raised)
      PROVE  Inv'
  <2>1. raised \in SUBSET Signals
    OBVIOUS
  <2>2. QED
    BY <1>8, <2>1, OtherInterruptInv
<1>9. CASE UNCHANGED vars
  <2>1. /\ UNCHANGED <<objects, clock, pending, mask, call, reported>> /\ pc' = pc
    BY <1>9 DEF vars, waiting
  <2>2. ObjectsOk' /\ WaitOk' /\ Awake'
    BY <2>1, SameObjects DEF Inv, WaitOk, Awake, clock
  <2>3. FoundHold' /\ ReportsHold'
    BY <2>1 DEF Inv, FoundHold, ReportsHold, Readable, CanRead, Due, NowNs, clock, objects
  <2>4. QED
    BY <2>2, <2>3 DEF Inv
<1>10. QED
  BY <1>1, <1>2, <1>3, <1>4, <1>5, <1>6, <1>7, <1>8, <1>9 DEF Next

LEMMA Invariant == Spec => []Inv
BY InitInv, NextInv, PTL DEF Spec

(* Objects, descriptors, clock and signals keep their types.               *)
THEOREM TypeCorrect == Spec => []TypeOK
<1>1. Inv => TypeOK
  BY DEF Inv, ObjectsOk, WaitOk, TypeOK, FdType, TimerType
<1>2. QED
  BY <1>1, Invariant, PTL

(* A wait that has a deadline does not sleep on past it, although the tick *)
(* can come between its look at the clock and its hlt.                     *)
THEOREM NoOversleeping == Spec => []NeverOversleeps
<1>1. Inv => NeverOversleeps
  BY DEF Inv, Awake, NeverOversleeps
<1>2. QED
  BY <1>1, Invariant, PTL

(* What poll and select report can be read when the program looks, in      *)
(* whatever order interrupts come, but for signals that it left unblocked. *)
THEOREM ReportsStayTrue == Spec => []ReportsHold
BY Invariant, PTL DEF Inv

----------------------------------------------------------------------------
(* Counting expirations.                                                   *)
LEMMA Monotone ==
  ASSUME NEW a \in Nat, NEW b \in Nat, NEW d \in Nat, a <= b
  PROVE  a * d <= b * d /\ a * d \in Nat /\ b * d \in Nat
OBVIOUS

LEMMA Distribute ==
  ASSUME NEW a \in Nat, NEW b \in Nat, NEW d \in Nat
  PROVE  /\ (a + b) * d = a * d + b * d /\ ((a + b) + 1) * d = a * d + (b + 1) * d
         /\ a * d \in Nat /\ b * d \in Nat /\ (b + 1) * d \in Nat
OBVIOUS

LEMMA Quotient ==
  ASSUME NEW n \in Nat, NEW d \in Nat, d > 0
  PROVE  LET q == n \div d IN q \in Nat /\ q * d <= n /\ n < (q + 1) * d
OBVIOUS

Multiples(first, d, n) == {k \in 0 .. n : first + k * d <= n}

(* How many multiples of d from first on are not beyond n.                 *)
LEMMA CountPast ==
  ASSUME NEW first \in Nat, NEW d \in Nat, d > 0, NEW n \in Nat, first <= n,
         NEW q \in Nat, first + q * d <= n, n < first + (q + 1) * d
  PROVE  Cardinality(Multiples(first, d, n)) = q + 1
<1>1. ASSUME NEW k \in Nat, first + k * d <= n PROVE k <= q
  <2>1. ASSUME q + 1 <= k PROVE FALSE
    <3>1. (q + 1) * d <= k * d /\ (q + 1) * d \in Nat /\ k * d \in Nat
      BY <2>1, Monotone
    <3>2. QED
      BY <1>1, <3>1
  <2>2. QED
    BY <2>1
<1>2. ASSUME NEW k \in 0 .. q PROVE first + k * d <= n /\ k \in 0 .. n
  <2>1. k \in Nat /\ k <= q
    OBVIOUS
  <2>2. k * d <= q * d /\ k * d \in Nat /\ q * d \in Nat
    BY <2>1, Monotone
  <2>3. 1 * k <= d * k /\ d * k \in Nat /\ d * k = k * d
    BY <2>1, Monotone
  <2>4. QED
    BY <2>1, <2>2, <2>3
<1>3. Multiples(first, d, n) = 0 .. q
  <2>1. \A k \in 0 .. n : first + k * d <= n => k \in 0 .. q
    BY <1>1
  <2>2. QED
    BY <1>2, <2>1 DEF Multiples
<1>4. Cardinality(0 .. q) = q + 1
  BY FS_Interval
<1>5. QED
  BY <1>3, <1>4

(* n lies between the multiples a + b and a + b + 1.                       *)
Between(first, d, n, a, b) ==
  first + a * d + b * d <= n /\ n < first + a * d + (b + 1) * d

LEMMA CountBetween ==
  ASSUME NEW first \in Nat, NEW d \in Nat, d > 0, NEW n \in Nat,
         NEW a \in Nat, NEW b \in Nat, Between(first, d, n, a, b)
  PROVE  Cardinality(Multiples(first, d, n)) = a + b + 1
<1>1. PICK q \in Nat : q = a + b
  OBVIOUS
<1>2. /\ q * d = a * d + b * d /\ (q + 1) * d = a * d + (b + 1) * d
      /\ a * d \in Nat /\ b * d \in Nat /\ (b + 1) * d \in Nat
  BY <1>1, Distribute
<1>3. first <= n /\ first + q * d <= n /\ n < first + (q + 1) * d
  BY <1>2 DEF Between
<1>4. Cardinality(Multiples(first, d, n)) = q + 1
  BY <1>3, CountPast
<1>5. QED
  BY <1>1, <1>4

(* An armed timer expires next when the tally says.                        *)
TallyOk ==
  /\ tally \in [1 .. TimerMax -> [first : Nat, taken : Nat]]
  /\ \A id \in 1 .. TimerMax :
       LET t == timers[id]
       IN t.armed =>
            /\ t.expires = tally[id].first + tally[id].taken * t.interval
            /\ t.interval = 0 => tally[id].taken = 0

LEMMA ReadTally ==
  ASSUME Inv, TallyOk, NEW fd \in Fds, read_timerfd(fd),
         NEW id, id = fds[fd].id, NEW first, first = tally[id].first,
         NEW d, d = timers[id].interval
  PROVE  /\ tally'[id].taken = Past(first, d) /\ tally'[id].taken \in Nat
         /\ d # 0 => timers'[id].expires = first + tally'[id].taken * d
<1> DEFINE t == timers[id]
           n == Expirations(t)
           taken == tally[id].taken
<1>1. id \in 1 .. TimerMax /\ t \in TimerType
  BY DEF Inv, ObjectsOk, FdType, read_timerfd
<1>2. /\ t.expires = first + taken * d /\ (d = 0 => taken = 0)
      /\ first \in Nat /\ taken \in Nat /\ d \in Nat /\ NowNs \in Nat
      /\ NowNs >= t.expires /\ t.expires \in Nat
  BY <1>1, NowType DEF TallyOk, read_timerfd, Due, TimerType, Inv
<1>3. n \in Nat
  BY <1>1, ExpirationsOk DEF Inv, read_timerfd
<1>4. tally'[id].taken = taken + n
  BY <1>1 DEF read_timerfd, TallyOk
<1>5. timers'[id].expires = t.expires + n * d
  BY <1>1 DEF read_timerfd, Inv, ObjectsOk, TimerType
<1>6. CASE d = 0
  <2>1. n = 1 /\ taken = 0
    BY <1>2, <1>6 DEF Expirations
  <2> HIDE DEF n, taken
  <2>2. taken + n = Past(first, d)
    BY <1>6, <2>1 DEF Past
  <2>3. QED
    BY <1>3, <1>4, <1>6, <2>1, <2>2
<1>7. CASE d # 0
  <2> DEFINE now_ == NowNs
             late == now_ - t.expires
             q == late \div d
  <2>1. late \in Nat /\ d > 0
    BY <1>2, <1>7
  <2>2. n = 1 + q
    BY <1>2, <1>7 DEF Expirations
  <2> HIDE DEF n, late, taken, t, now_
  <2>3. q \in Nat /\ q * d <= late /\ late < (q + 1) * d
    BY <1>2, <2>1, Quotient
  <2> HIDE DEF q
  <2>4. taken * d \in Nat /\ q * d \in Nat /\ (q + 1) * d \in Nat
    BY <1>2, <2>3, Distribute
  <2>5. /\ first + taken * d + q * d <= now_ /\ now_ < first + taken * d + (q + 1) * d
        /\ now_ \in Nat
    BY <1>2, <2>3, <2>4 DEF late, now_
  <2>6. taken + n = taken + q + 1
    BY <1>2, <2>2, <2>3
  <2>7. Cardinality(Multiples(first, d, now_)) = taken + q + 1
    <3>1. Between(first, d, now_, taken, q)
      BY <2>5 DEF Between
    <3>2. /\ first \in Nat /\ d \in Nat /\ d > 0 /\ now_ \in Nat
          /\ taken \in Nat /\ q \in Nat
      BY <1>2, <2>1, <2>3, <2>5
    <3>3. QED
      BY <3>1, <3>2, CountBetween, SMTT(60)
  <2>8. Past(first, d) = taken + n
    BY <1>7, <2>6, <2>7 DEF Past, Multiples, now_
  <2>9. t.expires + n * d = first + (taken + n) * d
    BY <1>2, <1>3
  <2>10. taken + n \in Nat
    BY <1>2, <1>3
  <2>11. QED
    BY <1>4, <1>5, <2>8, <2>9, <2>10
<1>8. QED
  BY <1>2, <1>6, <1>7

LEMMA InitTally == Init => TallyOk
BY DEF Init, TallyOk, NoTally, NoTimer

(* What a read adds brings the tally up to the past expirations.          *)
TimerStep ==
  \A id \in 1 .. TimerMax :
    tally'[id].taken > tally[id].taken =>
      tally'[id].taken = Past(tally[id].first, timers[id].interval)

LEMMA SameTally ==
  ASSUME TallyOk, UNCHANGED <<timers, tally>>
  PROVE  TallyOk' /\ TimerStep
BY DEF TallyOk, TimerStep

(* One timer is set anew.                                                  *)
LEMMA NewTally ==
  ASSUME Inv, TallyOk, NEW id \in 1 .. TimerMax, NEW t, NEW first \in Nat,
         timers' = [timers EXCEPT ![id] = t], t.armed => t.expires = first,
         tally' = [tally EXCEPT ![id] = [first |-> first, taken |-> 0]],
         t.interval \in Nat
  PROVE  TallyOk' /\ TimerStep
<1>1. /\ timers'[id] = t /\ tally'[id] = [first |-> first, taken |-> 0]
      /\ \A j \in (1 .. TimerMax) \ {id} : timers'[j] = timers[j] /\ tally'[j] = tally[j]
  BY DEF Inv, ObjectsOk, TallyOk
<1>2. tally' \in [1 .. TimerMax -> [first : Nat, taken : Nat]]
  BY DEF TallyOk
<1>3. t.armed => t.expires = first + 0 * t.interval
  OBVIOUS
<1>4. TallyOk'
  BY <1>1, <1>2, <1>3 DEF TallyOk
<1>5. \A j \in 1 .. TimerMax : ~(tally'[j].taken > tally[j].taken)
  BY <1>1 DEF TallyOk
<1>6. QED
  BY <1>4, <1>5 DEF TimerStep

LEMMA ReadKeepsTally ==
  ASSUME Inv, TallyOk, NEW fd \in Fds, read_timerfd(fd)
  PROVE  TallyOk' /\ TimerStep
<1>1. PICK id : id = fds[fd].id
  OBVIOUS
<1>2. id \in 1 .. TimerMax
  BY <1>1 DEF Inv, ObjectsOk, FdType, read_timerfd
<1>3. PICK first, d : first = tally[id].first /\ d = timers[id].interval
  OBVIOUS
<1>4. /\ tally'[id].taken = Past(first, d) /\ tally'[id].taken \in Nat
      /\ d # 0 => timers'[id].expires = first + tally'[id].taken * d
  BY <1>1, <1>3, ReadTally
<1>5. /\ \A j \in (1 .. TimerMax) \ {id} : timers'[j] = timers[j] /\ tally'[j] = tally[j]
      /\ timers'[id].interval = d /\ (timers'[id].armed <=> d # 0)
  BY <1>1, <1>2, <1>3 DEF read_timerfd, Inv, ObjectsOk, TimerType
<1> DEFINE r == [tally[id] EXCEPT !.taken = @ + Expirations(timers[id])]
<1>6. tally' = [tally EXCEPT ![id] = r]
  BY <1>1 DEF read_timerfd
<1>7. r = [first |-> first, taken |-> tally[id].taken + Expirations(timers[id])]
      /\ first \in Nat
  BY <1>2, <1>3 DEF TallyOk
<1> HIDE DEF r
<1>8. /\ tally' \in [1 .. TimerMax -> [first : Nat, taken : Nat]]
      /\ tally'[id].first = first
  <2>1. tally'[id] = r
    BY <1>2, <1>6 DEF TallyOk
  <2>2. r \in [first : Nat, taken : Nat] /\ r.first = first
    BY <1>4, <1>7, <2>1
  <2>3. QED
    BY <1>2, <1>6, <2>1, <2>2 DEF TallyOk
<1>9. ASSUME NEW j \in 1 .. TimerMax, timers'[j].armed
      PROVE  /\ timers'[j].expires =
                  tally'[j].first + tally'[j].taken * timers'[j].interval
             /\ timers'[j].interval = 0 => tally'[j].taken = 0
  <2>1. CASE j = id
    BY <1>4, <1>5, <1>8, <1>9, <2>1
  <2>2. CASE j # id
    BY <1>5, <1>9, <2>2 DEF TallyOk
  <2>3. QED
    BY <2>1, <2>2
<1>10. TallyOk'
  BY <1>8, <1>9 DEF TallyOk
<1>11. TimerStep
  <2>1. \A j \in (1 .. TimerMax) \ {id} : ~(tally'[j].taken > tally[j].taken)
    BY <1>5 DEF TallyOk
  <2>2. QED
    BY <1>3, <1>4, <2>1 DEF TimerStep
<1>12. QED
  BY <1>10, <1>11

LEMMA NextTally == Inv /\ TallyOk /\ [Next]_vars => TallyOk' /\ TimerStep
<1> SUFFICES ASSUME Inv, TallyOk, [Next]_vars PROVE TallyOk' /\ TimerStep
  OBVIOUS
<1> DEFINE Kept == UNCHANGED <<timers, tally>>
<1>1. CASE Objects
  <2>1. CASE timerfd_alloc
    <3>1. PICK id \in 1 .. TimerMax :
            /\ timers' = [timers EXCEPT ![id] = [NoTimer EXCEPT !.used = TRUE]]
            /\ tally' = [tally EXCEPT ![id] = NoTally]
      BY <2>1 DEF timerfd_alloc, Inv, ObjectsOk
    <3> DEFINE t == [NoTimer EXCEPT !.used = TRUE]
    <3>2. ~t.armed /\ t.interval = 0 /\ NoTally = [first |-> 0, taken |-> 0]
      BY DEF NoTimer, NoTally
    <3> HIDE DEF t
    <3>3. timers' = [timers EXCEPT ![id] = t]
      BY <3>1 DEF t
    <3>4. tally' = [tally EXCEPT ![id] = [first |-> 0, taken |-> 0]]
      BY <3>1, <3>2
    <3>5. 0 \in Nat /\ t.interval \in Nat /\ (t.armed => t.expires = 0)
      BY <3>2
    <3>6. QED
      BY <3>3, <3>4, <3>5, NewTally
  <2>2. CASE ~timerfd_alloc
    <3>1. Kept
      BY <1>1, <2>2 DEF Objects, eventfd_alloc, signalfd_alloc, epoll_alloc, close
    <3>2. QED
      BY <3>1, SameTally
  <2>3. QED
    BY <2>1, <2>2
<1>2. CASE Reads
  <2>1. PICK fd \in Fds :
          \/ \E v \in Times, i \in Intervals, abs \in BOOLEAN :
               timerfd_settime(fd, v, i, abs)
          \/ timerfd_disarm(fd)
          \/ read_timerfd(fd)
          \/ read_eventfd(fd)
          \/ read_signalfd(fd)
    BY <1>2 DEF Reads
  <2> DEFINE id == fds[fd].id
  <2>2. fds[fd].kind = "timer" => id \in 1 .. TimerMax
    BY DEF Inv, ObjectsOk, FdType
  <2>3. ASSUME NEW v \in Times, NEW i \in Intervals, NEW abs \in BOOLEAN,
               timerfd_settime(fd, v, i, abs)
        PROVE  TallyOk' /\ TimerStep
    <3> DEFINE expires == IF abs THEN v ELSE NowNs + v
               t == [used |-> TRUE, armed |-> TRUE, expires |-> expires, interval |-> i]
    <3>1. v \in Nat /\ i \in Nat /\ NowNs \in Nat
      BY EventConstants, NowType DEF Inv
    <3>2. expires \in Nat /\ t.expires = expires /\ t.interval \in Nat
      BY <3>1
    <3>3. /\ timers' = [timers EXCEPT ![id] = t] /\ fds[fd].kind = "timer"
          /\ tally' = [tally EXCEPT ![id] = [NoTally EXCEPT !.first = expires]]
      BY <2>3 DEF timerfd_settime
    <3>4. [NoTally EXCEPT !.first = expires] = [first |-> expires, taken |-> 0]
      BY DEF NoTally
    <3> HIDE DEF t, expires, id
    <3>5. tally' = [tally EXCEPT ![id] = [first |-> expires, taken |-> 0]]
      BY <3>3, <3>4
    <3>6. QED
      BY <2>2, <3>2, <3>3, <3>5, NewTally
  <2>4. CASE timerfd_disarm(fd)
    <3> DEFINE t == [timers[id] EXCEPT !.armed = FALSE]
    <3>1. fds[fd].kind = "timer" /\ id \in 1 .. TimerMax
      BY <2>2, <2>4 DEF timerfd_disarm
    <3>2. timers[id] \in TimerType
      BY <3>1 DEF Inv, ObjectsOk
    <3>3. ~t.armed /\ t.interval \in Nat /\ NoTally = [first |-> 0, taken |-> 0]
      BY <3>2 DEF TimerType, NoTally
    <3>4. /\ timers' = [timers EXCEPT ![id] = t]
          /\ tally' = [tally EXCEPT ![id] = NoTally]
      BY <2>4 DEF timerfd_disarm
    <3> HIDE DEF t, id
    <3>5. QED
      BY <3>1, <3>3, <3>4, NewTally
  <2>5. CASE read_timerfd(fd)
    BY <2>5, ReadKeepsTally
  <2>6. CASE read_eventfd(fd) \/ read_signalfd(fd)
    <3>1. Kept
      BY <2>6 DEF read_eventfd, read_signalfd, objects
    <3>2. QED
      BY <3>1, SameTally
  <2>7. QED
    BY <2>1, <2>3, <2>4, <2>5, <2>6
<1>3. CASE OtherCall \/ (\E set \in SUBSET Signals : rt_sigprocmask(set)) \/ Begin
  <2>1. Kept
    BY <1>3 DEF OtherCall, rt_sigprocmask, Begin, poll, ppoll, select_impl,
                epoll_wait_impl, nanosleep, clock_nanosleep_absolute, Wait, objects
  <2>2. QED
    BY <2>1, SameTally
<1>4. CASE \/ Turn \/ TimerTick
           \/ \E raised \in {{}} \cup {{s} : s \in Signals} : OtherInterrupt(raised)
           \/ UNCHANGED vars
  <2>1. Kept
    BY <1>4 DEF Turn, Look, Looked, Check, Halt, Return, TimerTick, OtherInterrupt,
                objects, vars
  <2>2. QED
    BY <2>1, SameTally
<1>5. QED
  BY <1>1, <1>2, <1>3, <1>4 DEF Next

(* However late a timer is read, its reads together have taken exactly the *)
(* expirations that are past: none is lost and none is counted twice.      *)
THEOREM ExactTimers == Spec => TimerExact
<1>1. Inv /\ TallyOk /\ [Next]_vars => Inv' /\ TallyOk'
  BY NextInv, NextTally
<1>2. Inv /\ TallyOk /\ [Next]_vars => [TimerStep]_vars
  BY NextTally
<1>3. Spec => [](Inv /\ TallyOk)
  BY <1>1, InitInv, InitTally, PTL DEF Spec
<1>4. QED
  BY <1>2, <1>3, PTL DEF Spec, TimerExact, TimerStep
=============================================================================
