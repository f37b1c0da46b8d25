------------------------------- MODULE Events -------------------------------
(***************************************************************************)
(* Waiting in the vibuxOS kernel (kernel/src/arch/x86_64/syscall.rs):      *)
(* timerfd, eventfd, signalfd and epoll descriptors, and the calls that    *)
(* wait for them: poll, ppoll, select, pselect, epoll_wait, nanosleep.     *)
(*                                                                         *)
(* A waiting call is a loop: it looks at its descriptors one after the     *)
(* other, then at its deadline, most of them then at the signals, and      *)
(* executes `sti; hlt`.  The first turn runs with interrupts off, all      *)
(* later ones with interrupts on.  Nothing but interrupts runs meanwhile.  *)
(*                                                                         *)
(* An eventfd can never be written: its descriptor is opened read-only,    *)
(* and write_fd looks at that first.  Nothing can be added to an epoll     *)
(* set: no call leads to epoll_ctl_impl.                                   *)
(***************************************************************************)
EXTENDS Integers, Sequences, FiniteSets

CONSTANTS
  FdMax,     \* the descriptors that alloc_fd gives out
  EventMax, TimerMax, SignalMax, EpollMax,   \* slots for the objects
  TickNs,    \* the units of time in a tick, 4 000 000 ns
  Signals,   \* signals that are neither ignored nor SIGKILL or SIGSTOP
  MaxObjects, \* bound: the objects a program makes
  Inits,     \* bound: the values eventfds start with
  Asked,     \* bound: the sets of "in" and "out" that waits ask for
  Times,     \* bound: the times timers are set to
  Intervals, \* bound: the intervals they get
  Waits,     \* bound: the timeouts of waiting calls
  MaxTick    \* bound: the clock stops here, interrupts go on

ASSUME EventConstants ==
  /\ {FdMax, EventMax, TimerMax, SignalMax, EpollMax} \subseteq Nat
  /\ TickNs \in Nat \ {0} /\ {MaxTick, MaxObjects} \subseteq Nat
  /\ Inits \cup Times \cup Intervals \cup Waits \subseteq Nat
  /\ Asked \subseteq SUBSET {"in", "out"}

VARIABLES
  fds,      \* STATE.fds
  events,   \* EVENTFDS
  timers,   \* TIMERFDS
  sigfds,   \* SIGNALFDS
  epolls,   \* EPOLLS
  now,      \* TICKS
  pending,  \* PENDING_SIGNALS
  mask,     \* STATE.signal_mask
  pc,       \* where a waiting call is; "user" when none is under way
  call,     \* the waiting call
  irq,      \* interrupts are on in it
  reported, \* ghost: descriptors the last wait called readable
  tally,    \* ghost: first expiration of every timer, how many were read
  ticked    \* ghost: the clock ticked since the processor last woke up

objects == <<fds, events, timers, sigfds, epolls, tally>>
clock == <<now, ticked>>
waiting == <<pc, call, irq>>
vars == <<objects, clock, pending, mask, waiting, reported>>

Fds == 0 .. FdMax - 1
Free == [kind |-> "free"]
Fd(kind, id) == [kind |-> kind, id |-> id]
NoEvent == [used |-> FALSE, counter |-> 0]
NoTimer == [used |-> FALSE, armed |-> FALSE, expires |-> 0, interval |-> 0]
NoSigfd == [used |-> FALSE, mask |-> {}]
NoEpoll == [used |-> FALSE]
NoTally == [first |-> 0, taken |-> 0]

None == -1                          \* no deadline
NoCall == [watched |-> <<>>, todo |-> <<>>, found |-> {},
           deadline |-> None, signals |-> FALSE]

Init ==
  /\ fds = [fd \in Fds |-> Free]
  /\ events = [id \in 1 .. EventMax |-> NoEvent]
  /\ timers = [id \in 1 .. TimerMax |-> NoTimer]
  /\ sigfds = [id \in 1 .. SignalMax |-> NoSigfd]
  /\ epolls = [id \in 1 .. EpollMax |-> NoEpoll]
  /\ now = 0 /\ ticked = FALSE
  /\ pending = {} /\ mask = {}
  /\ pc = "user" /\ call = NoCall /\ irq = FALSE
  /\ reported = {}
  /\ tally = [id \in 1 .. TimerMax |-> NoTally]

NowNs == now * TickNs
Ticks(t) == (t + TickNs - 1) \div TickNs    \* how timeouts become ticks

IsLeast(x, S) == x \in S /\ \A y \in S : x <= y

(* The end of every call takes the lowest unblocked signal.                *)
Delivered(p, m) == p \ {s \in p \ m : IsLeast(s, p \ m)}

(* A call that does not wait; it leaves signals p and the mask m.          *)
CallWith(p, m) ==
  /\ pc = "user"
  /\ mask' = m
  /\ pending' = Delivered(p, m)
  /\ reported' = {}
  /\ UNCHANGED <<clock, waiting>>
Call == CallWith(pending, mask)

----------------------------------------------------------------------------
(* Descriptors.  Slots are never given back: close forgets the descriptor  *)
(* only.                                                                   *)
FreeFds == {fd \in Fds : fds[fd].kind = "free"}
Unused(objs) == {id \in DOMAIN objs : ~objs[id].used}

(* alloc_fd, for an object that has taken its slot.                        *)
Made == Cardinality({<<"event", i>> : i \in DOMAIN events \ Unused(events)})
        + Cardinality({<<"timer", i>> : i \in DOMAIN timers \ Unused(timers)})
        + Cardinality({<<"signal", i>> : i \in DOMAIN sigfds \ Unused(sigfds)})
        + Cardinality({<<"epoll", i>> : i \in DOMAIN epolls \ Unused(epolls)})

AllocFd(kind, id) ==
  /\ Made < MaxObjects
  /\ \E fd \in Fds : /\ IsLeast(fd, FreeFds)
                     /\ fds' = [fds EXCEPT ![fd] = Fd(kind, id)]

eventfd_alloc(init) ==
  /\ Call
  /\ \E id \in DOMAIN events :
       /\ IsLeast(id, Unused(events))
       /\ AllocFd("event", id)
       /\ events' = [events EXCEPT ![id] = [used |-> TRUE, counter |-> init]]
  /\ UNCHANGED <<timers, sigfds, epolls, tally>>

timerfd_alloc ==
  /\ Call
  /\ \E id \in DOMAIN timers :
       /\ IsLeast(id, Unused(timers))
       /\ AllocFd("timer", id)
       /\ timers' = [timers EXCEPT ![id] = [NoTimer EXCEPT !.used = TRUE]]
       /\ tally' = [tally EXCEPT ![id] = NoTally]
  /\ UNCHANGED <<events, sigfds, epolls>>

signalfd_alloc(set) ==
  /\ Call
  /\ \E id \in DOMAIN sigfds :
       /\ IsLeast(id, Unused(sigfds))
       /\ AllocFd("signal", id)
       /\ sigfds' = [sigfds EXCEPT ![id] = [used |-> TRUE, mask |-> set]]
  /\ UNCHANGED <<events, timers, epolls, tally>>

epoll_alloc ==
  /\ Call
  /\ \E id \in DOMAIN epolls :
       /\ IsLeast(id, Unused(epolls))
       /\ AllocFd("epoll", id)
       /\ epolls' = [epolls EXCEPT ![id].used = TRUE]
  /\ UNCHANGED <<events, timers, sigfds, tally>>

close(fd) ==
  /\ Call
  /\ fds[fd].kind # "free"
  /\ fds' = [fds EXCEPT ![fd] = Free]
  /\ UNCHANGED <<events, timers, sigfds, epolls, tally>>

----------------------------------------------------------------------------
(* timerfd_settime.  A time of 0 arms the timer like any other; only a     *)
(* missing value disarms it.                                               *)
timerfd_settime(fd, value, interval, absolute) ==
  /\ Call
  /\ fds[fd].kind = "timer"
  /\ LET expires == IF absolute THEN value ELSE NowNs + value
     IN /\ timers' = [timers EXCEPT ![fds[fd].id] =
                        [used |-> TRUE, armed |-> TRUE, expires |-> expires,
                         interval |-> interval]]
        /\ tally' = [tally EXCEPT ![fds[fd].id] =
                       [NoTally EXCEPT !.first = expires]]
  /\ UNCHANGED <<fds, events, sigfds, epolls>>

timerfd_disarm(fd) ==
  /\ Call
  /\ fds[fd].kind = "timer"
  /\ timers' = [timers EXCEPT ![fds[fd].id].armed = FALSE]
  /\ tally' = [tally EXCEPT ![fds[fd].id] = NoTally]
  /\ UNCHANGED <<fds, events, sigfds, epolls>>

(* How often a timer has expired since it was read.  Faulty variant: the   *)
(* expiration that is due is not counted with those that followed it.      *)
ExpirationsAfter(t) ==
  IF t.interval = 0 THEN 1 ELSE (NowNs - t.expires) \div t.interval
Expirations(t) ==
  IF t.interval = 0 THEN 1 ELSE 1 + (NowNs - t.expires) \div t.interval

(* read.  What is read is taken first, also when the call then refuses a   *)
(* short buffer or a bad address.                                          *)
Due(t) == t.armed /\ NowNs >= t.expires

read_timerfd(fd) ==
  /\ Call
  /\ fds[fd].kind = "timer"
  /\ LET id == fds[fd].id
         t == timers[id]
         n == Expirations(t)
     IN /\ Due(t)
        /\ timers' = [timers EXCEPT
                        ![id].expires = t.expires + n * t.interval,
                        ![id].armed = t.interval # 0]
        /\ tally' = [tally EXCEPT ![id].taken = @ + n]
  /\ UNCHANGED <<fds, events, sigfds, epolls>>

read_eventfd(fd) ==
  /\ Call
  /\ fds[fd].kind = "event"
  /\ events[fds[fd].id].counter > 0
  /\ events' = [events EXCEPT ![fds[fd].id].counter = 0]
  /\ UNCHANGED <<fds, timers, sigfds, epolls, tally>>

read_signalfd(fd) ==
  /\ fds[fd].kind = "signal"
  /\ \E s \in Signals :
       /\ IsLeast(s, pending \cap sigfds[fds[fd].id].mask)
       /\ CallWith(pending \ {s}, mask)
  /\ UNCHANGED objects

rt_sigprocmask(set) == CallWith(pending, set) /\ UNCHANGED objects

OtherCall == Call /\ UNCHANGED objects

----------------------------------------------------------------------------
(* What poll sees on a descriptor.  Everything that has no state here, the *)
(* sets of epoll included, is always readable.  Faulty variant: a timer is *)
(* readable from when it is armed.                                         *)
ReadableArmed(d) ==
  CASE d.kind = "event" -> events[d.id].counter > 0
    [] d.kind = "timer" -> timers[d.id].armed
    [] d.kind = "signal" -> pending \cap sigfds[d.id].mask # {}
    [] d.kind = "epoll" -> TRUE
Readable(d) ==
  CASE d.kind = "event" -> events[d.id].counter > 0
    [] d.kind = "timer" -> Due(timers[d.id])
    [] d.kind = "signal" -> pending \cap sigfds[d.id].mask # {}
    [] d.kind = "epoll" -> TRUE

poll_fd_revents(fd, asked) ==
  IF fds[fd].kind = "free" THEN {"nval"}
  ELSE {e \in asked : \/ e = "in" /\ Readable(fds[fd])
                      \/ e = "out" /\ fds[fd].kind = "event"}

(* A waiting call enters its loop with interrupts off.                     *)
Wait(watched, deadline, signals) ==
  /\ pc = "user"
  /\ deadline < MaxTick
  /\ pc' = "look"
  /\ call' = [watched |-> watched, todo |-> watched, found |-> {},
              deadline |-> deadline, signals |-> signals]
  /\ irq' = FALSE
  /\ ticked' = FALSE
  /\ reported' = {}
  /\ UNCHANGED <<objects, now, pending, mask>>

Deadline(t) == IF t = None THEN None ELSE now + Ticks(t)

poll(watched, t) == Wait(watched, Deadline(t), FALSE)
(* A missing timeout is one that has passed.                               *)
ppoll(watched, t) == Wait(watched, IF t = None THEN now ELSE Deadline(t), FALSE)
select_impl(watched, t) == Wait(watched, Deadline(t), TRUE)
(* The set is empty: this is a sleep that signals end.                     *)
epoll_wait_impl(epfd, t) ==
  fds[epfd].kind = "epoll" /\ Wait(<<>>, Deadline(t), TRUE)
nanosleep(t) == Wait(<<>>, Deadline(t), FALSE)
clock_nanosleep_absolute(t) == Wait(<<>>, Ticks(t), FALSE)

Return ==
  /\ pc' = "user"
  /\ call' = NoCall
  /\ irq' = FALSE
  /\ ticked' = FALSE
  /\ pending' = Delivered(pending, mask)
  /\ UNCHANGED <<objects, now, mask>>

Look ==
  /\ pc = "look"
  /\ call.todo # <<>>
  /\ LET w == Head(call.todo)
         hit == poll_fd_revents(w.fd, w.asked)
     IN call' = [call EXCEPT !.todo = Tail(@),
                             !.found = IF hit = {} THEN @
                                       ELSE @ \cup {<<w.fd, hit>>}]
  /\ UNCHANGED <<objects, clock, pending, mask, pc, irq, reported>>

Looked ==
  /\ pc = "look"
  /\ call.todo = <<>>
  /\ IF call.found # {}
     THEN /\ Return
          /\ reported' = {r[1] : r \in {x \in call.found : "in" \in x[2]}}
     ELSE /\ pc' = "deadline"
          /\ UNCHANGED <<objects, clock, pending, mask, call, irq, reported>>

(* Faulty variant: the signals are not looked at.                          *)
CheckDeadlineOnly ==
  /\ pc = "deadline"
  /\ IF call.deadline # None /\ now >= call.deadline
     THEN Return /\ UNCHANGED reported
     ELSE /\ pc' = "halt"
          /\ UNCHANGED <<objects, clock, pending, mask, call, irq, reported>>

Check ==
  /\ pc = "deadline"
  /\ IF \/ call.deadline # None /\ now >= call.deadline
        \/ call.signals /\ pending \ mask # {}
     THEN Return /\ UNCHANGED reported
     ELSE /\ pc' = "halt"
          /\ UNCHANGED <<objects, clock, pending, mask, call, irq, reported>>

(* `sti; hlt`: no interrupt between the two when they were off.            *)
Halt ==
  /\ pc = "halt"
  /\ pc' = "asleep"
  /\ irq' = TRUE
  /\ UNCHANGED <<objects, clock, pending, mask, call, reported>>

----------------------------------------------------------------------------
(* Interrupts.  One that finds the processor asleep starts the next turn.  *)
Interruptible == pc = "user" \/ irq

Wake ==
  /\ irq' = irq
  /\ IF pc = "asleep"
     THEN /\ pc' = "look"
          /\ call' = [call EXCEPT !.todo = call.watched]
     ELSE UNCHANGED <<pc, call>>

(* A turn of the loop takes much less than a tick: there is no second one  *)
(* in it.  Faulty variant: the tick does not wake the processor up.        *)
TimerTickUnheard ==
  /\ Interruptible
  /\ pc \in {"look", "deadline", "halt"} => ~ticked
  /\ now' = IF now < MaxTick THEN now + 1 ELSE now
  /\ ticked' = (pc \in {"look", "deadline", "halt"})
  /\ UNCHANGED <<objects, pending, mask, reported, waiting>>

TimerTick ==
  /\ Interruptible
  /\ pc \in {"look", "deadline", "halt"} => ~ticked
  /\ now' = IF now < MaxTick THEN now + 1 ELSE now
  /\ ticked' = (pc \in {"look", "deadline", "halt"})
  /\ Wake
  /\ UNCHANGED <<objects, pending, mask, reported>>

(* Any other interrupt; the keyboard's may raise a signal.                 *)
OtherInterrupt(raised) ==
  /\ Interruptible
  /\ pending' = pending \cup raised
  /\ ticked' = (ticked /\ pc # "asleep")
  /\ Wake
  /\ UNCHANGED <<objects, now, mask, reported>>

----------------------------------------------------------------------------
Watch(fd, asked) == [fd |-> fd, asked |-> asked]
Requests ==
  {<<>>} \cup {<<Watch(fd, a)>> : fd \in Fds, a \in Asked}
         \cup {<<Watch(fd, a), Watch(fd + 1, a)>> :
                  fd \in 0 .. FdMax - 2, a \in Asked}

Objects ==
  \/ \E init \in Inits : eventfd_alloc(init)
  \/ timerfd_alloc
  \/ \E set \in SUBSET Signals : signalfd_alloc(set)
  \/ epoll_alloc
  \/ \E fd \in Fds : close(fd)

Reads ==
  \E fd \in Fds :
    \/ \E v \in Times, i \in Intervals, abs \in BOOLEAN :
         timerfd_settime(fd, v, i, abs)
    \/ timerfd_disarm(fd)
    \/ read_timerfd(fd)
    \/ read_eventfd(fd)
    \/ read_signalfd(fd)

Begin ==
  \E t \in Waits \cup {None} :
    \/ \E w \in Requests : poll(w, t) \/ ppoll(w, t) \/ select_impl(w, t)
    \/ \E fd \in Fds : epoll_wait_impl(fd, t)
    \/ t # None /\ (nanosleep(t) \/ clock_nanosleep_absolute(t))

Turn == Look \/ Looked \/ Check \/ Halt

Next ==
  \/ Objects \/ Reads \/ OtherCall
  \/ \E set \in SUBSET Signals : rt_sigprocmask(set)
  \/ Begin \/ Turn
  \/ TimerTick
  \/ \E raised \in {{}} \cup {{s} : s \in Signals} : OtherInterrupt(raised)

(* The processor executes and the timer ticks.                             *)
Spec == Init /\ [][Next]_vars /\ WF_vars(Turn) /\ WF_vars(TimerTick)
----------------------------------------------------------------------------
(* Every variable keeps its range.                                         *)
TypeOK ==
  /\ fds \in [Fds -> [kind : {"free"}]
                        \cup [kind : {"event"}, id : 1 .. EventMax]
                        \cup [kind : {"timer"}, id : 1 .. TimerMax]
                        \cup [kind : {"signal"}, id : 1 .. SignalMax]
                        \cup [kind : {"epoll"}, id : 1 .. EpollMax]]
  /\ events \in [1 .. EventMax -> [used : BOOLEAN, counter : Nat]]
  /\ timers \in [1 .. TimerMax -> [used : BOOLEAN, armed : BOOLEAN,
                                   expires : Nat, interval : Nat]]
  /\ sigfds \in [1 .. SignalMax -> [used : BOOLEAN, mask : SUBSET Signals]]
  /\ now \in 0 .. MaxTick /\ pending \subseteq Signals /\ mask \subseteq Signals
  /\ pc \in {"user", "look", "deadline", "halt", "asleep"}

(* A read of a timer takes every expiration that is past and not yet       *)
(* taken, and none twice, however late the reads come and however many     *)
(* intervals went by: with it the reads since the timer was set have taken *)
(* what a count of the past expirations gives.                             *)
Past(first, interval) ==
  IF interval = 0 THEN 1
  ELSE Cardinality({k \in 0 .. NowNs : first + k * interval <= NowNs})

TimerExact ==
  [][\A id \in 1 .. TimerMax :
       tally'[id].taken > tally[id].taken =>
         tally'[id].taken = Past(tally[id].first, timers[id].interval)]_vars

(* A read of the descriptor can succeed now.                               *)
CanRead(fd) ==
  LET d == fds[fd]
  IN CASE d.kind = "event" -> events[d.id].counter > 0
       [] d.kind = "timer" -> timers[d.id].armed /\ timers[d.id].expires <= NowNs
       [] d.kind = "signal" -> pending \cap sigfds[d.id].mask # {}
       [] OTHER -> TRUE

(* A descriptor that poll or select called readable can be read when the   *)
(* program gets round to it, whatever interrupts came between the look at  *)
(* it and the end of the call, or come after it.  Only a program that      *)
(* reads signals from a descriptor without blocking them can find that the *)
(* end of the very same call has delivered them instead.                   *)
ReportsHold ==
  pc = "user" =>
    \A fd \in reported :
      \/ CanRead(fd)
      \/ fds[fd].kind = "signal" /\ ~(sigfds[fds[fd].id].mask \subseteq mask)

(* A wait that has a deadline never sleeps on once it has passed: a tick   *)
(* between the last look at the clock and the hlt costs one more tick, not *)
(* more.                                                                   *)
NeverOversleeps ==
  pc = "asleep" /\ call.deadline # None => now <= call.deadline

(* A wait ends: at its deadline, for a signal where the call looks for     *)
(* signals, and for a descriptor that is ready, also when they come just   *)
(* before its hlt.                                                         *)
MustEnd ==
  \/ call.deadline # None
  \/ call.signals /\ pending \ mask # {}
  \/ \E i \in DOMAIN call.watched :
       poll_fd_revents(call.watched[i].fd, call.watched[i].asked) # {}
WaitReturns == (pc # "user" /\ MustEnd) ~> pc = "user"
=============================================================================
