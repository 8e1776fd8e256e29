------------------------------ MODULE TimerFd ------------------------------
(***************************************************************************)
(* Timers as AG_EventSinkTIMERFD (core/event.c) provides them: each        *)
(* running timer is a timerfd, the sink waits in select for the            *)
(* descriptors of all of them, then walks agTimerObjQ and calls back the   *)
(* timers the descriptor of which select reported.                         *)
(*                                                                         *)
(* The sink builds its descriptor sets and sleeps without agTimerLock:     *)
(* other threads may start and cancel timers until the walk begins.  A     *)
(* descriptor number that was closed is the next one that is opened.       *)
(***************************************************************************)
EXTENDS TimerQueues

CONSTANTS
  Ivals,      \* intervals the application asks for
  NFds,       \* bound: the descriptors the process may open for timers
  MaxLag,     \* bound: no timer is overdue by more than this
  Threads,    \* whether other threads start and cancel timers
  OnReported  \* what a callback may do to a descriptor that select reported:
              \* have a timer that it starts get it ("start"), "reset" its timer

ASSUME IvalsAssumption == Ivals \subseteq Nat \ {0}
ASSUME NFdsAssumption == NFds \in Nat
ASSUME SwitchesAssumption == Threads \in BOOLEAN

Fd == 1..NFds
NoFd == 0       \* to->id = -1

VARIABLES
  tfd,        \* to->id: the descriptor of a running timer
  open,       \* the timer descriptors that are open
  remain,     \* ticks until the timer of a descriptor expires (<= 0: it has)
  rdFds,      \* the descriptors in the sink's set: to wait for, then readable
  sink        \* where the sink is: "idle", "select", "ready" (select returned)

fdvars == <<tfd, open, remain>>
vars == <<objq, timers, tobj, live, onext, tnext, walk, tfd, open, remain, rdFds, sink>>

Init ==
  /\ QueueInit
  /\ tfd = [t \in Timer |-> NoFd]
  /\ open = {}
  /\ remain = [f \in Fd |-> 0]
  /\ rdFds = {}
  /\ sink = "idle"

Readable(f) == f \in open /\ remain[f] <= 0

-----------------------------------------------------------------------------
(* AG_AddTimerTIMERFD, AG_DelTimerTIMERFD *)

\* timerfd_settime
Armed(f, ival) == remain' = [remain EXCEPT ![f] = ival]

\* timerfd_create, which returns the lowest number that is not in use.
LowestFd == CHOOSE f \in Fd \ open : \A g \in Fd \ open : f <= g

Created(t, ival) ==
  /\ open # Fd
  /\ tfd' = [tfd EXCEPT ![t] = LowestFd]
  /\ open' = open \cup {LowestFd}
  /\ Armed(LowestFd, ival)

\* (Mutant: the descriptor is not closed.)
ClosedNot(S) ==
  /\ tfd' = [t \in Timer |-> IF t \in S THEN NoFd ELSE tfd[t]]
  /\ UNCHANGED <<open, remain>>
Closed(S) ==
  /\ tfd' = [t \in Timer |-> IF t \in S THEN NoFd ELSE tfd[t]]
  /\ open' = open \ {tfd[t] : t \in S}
  /\ remain' = [f \in Fd |-> IF f \in open' THEN remain[f] ELSE 0]

-----------------------------------------------------------------------------
(* Operations *)

\* Another thread is kept out by agTimerLock, which the walk holds; within the
\* thread of the event loop, the sink is not asleep.
ByCaller == Threads \/ sink = "idle" \/ InCallback

MayStart == MayCall /\ ByCaller /\
            (InCallback /\ open # Fd /\ LowestFd \in rdFds => "start" \in OnReported)

\* AG_AddTimer of a timer that does not run. (Out of descriptors, it fails, and
\* takes the timer out of the queues again.)
AddTimer(o, t, ival) ==
  /\ MayStart
  /\ t \in live /\ tobj[t] = Nil
  /\ Attached(o, t, TailqInsertTail(timers[o], t))
  /\ Created(t, ival)
  /\ UNCHANGED <<live, walk, rdFds, sink>>

AddTimerAuto(o, t, ival) ==
  /\ MayStart
  /\ t \in AutoTimer \ live
  /\ live' = live \cup {t}
  /\ Attached(o, t, TailqInsertTail(timers[o], t))
  /\ Created(t, ival)
  /\ UNCHANGED <<walk, rdFds, sink>>

\* AG_AddTimer and AG_ResetTimer of a running timer.
ResetTimer(o, t, ival) ==
  /\ MayCall /\ ByCaller
  /\ tobj[t] = o
  /\ InCallback /\ t # walk.to /\ tfd[t] \in rdFds => "reset" \in OnReported
  /\ Armed(tfd[t], ival)
  /\ UNCHANGED <<qvars, walk, tfd, open, rdFds, sink>>

DelTimer(o, t) ==
  /\ MayCancelTimer(o, t) /\ ByCaller
  /\ t \in Entries(timers[o])
  /\ Cancelled(o, t)
  /\ Closed({t})
  /\ UNCHANGED <<walk, rdFds, sink>>

DelTimers(o) ==
  /\ MayCancelAll(o) /\ ByCaller
  /\ AllCancelled(o)
  /\ Closed(Entries(timers[o]))
  /\ UNCHANGED <<walk, rdFds, sink>>

-----------------------------------------------------------------------------
(* AG_EventSinkTIMERFD *)

\* The descriptors of all the timers go into the set select waits for.
BuildSets ==
  /\ sink = "idle" /\ walk.pc = "idle"
  /\ rdFds' = {tfd[t] : t \in {u \in Timer : tobj[u] # Nil}}
  /\ sink' = "select"
  /\ UNCHANGED <<qvars, walk, fdvars>>

\* select returns with the readable ones, if any is.
SelectReturns ==
  /\ sink = "select"
  /\ rdFds' = {f \in rdFds : Readable(f)}
  /\ rdFds' # {}
  /\ sink' = "ready"
  /\ UNCHANGED <<qvars, walk, fdvars>>

\* A signal interrupts the sleep, and the sets are built again; or an I/O event,
\* or the zero timeout of a source with spinners, makes select return: neither
\* needs to happen.
SelectInterrupted ==
  /\ sink = "select"
  /\ \A f \in rdFds : ~Readable(f)
  /\ rdFds' = {}
  /\ sink' = "idle"
  /\ UNCHANGED <<qvars, walk, fdvars>>

SelectReturnsForIO ==
  /\ sink = "select"
  /\ rdFds' = {f \in rdFds : Readable(f)}
  /\ sink' = "ready"
  /\ UNCHANGED <<qvars, walk, fdvars>>

\* AG_LockTiming, and the walk begins; there may be no timer left.
BeginWalk ==
  /\ sink = "ready"
  /\ WalkBegins
  /\ UNCHANGED <<fdvars, rdFds, sink>>

NothingToWalk ==
  /\ sink = "ready" /\ walk.pc = "idle" /\ objq = << >>
  /\ rdFds' = {}
  /\ sink' = "idle"
  /\ UNCHANGED <<qvars, walk, fdvars>>

EnterObject == WalkEntersObject /\ UNCHANGED <<fdvars, rdFds, sink>>

SkipTimer ==
  /\ AtTimer /\ tfd[walk.to] \notin rdFds
  /\ WalkSkipsTimer
  /\ UNCHANGED <<fdvars, rdFds, sink>>

CallTimer ==
  /\ AtTimer /\ tfd[walk.to] \in rdFds
  /\ WalkCallsTimer
  /\ UNCHANGED <<fdvars, rdFds, sink>>

\* (Mutant: the descriptor is not armed again.)
CallbackRestartsNot(ival) ==
  /\ InCallback /\ tobj[walk.to] = walk.ob
  /\ WalkGoesOn(walk.toNext)
  /\ UNCHANGED <<qvars, fdvars, rdFds, sink>>

\* The callback returned a new interval (its timer runs): timerfd_settime.
CallbackRestarts(ival) ==
  /\ InCallback /\ tobj[walk.to] = walk.ob
  /\ Armed(tfd[walk.to], ival)
  /\ WalkGoesOn(walk.toNext)
  /\ UNCHANGED <<qvars, tfd, open, rdFds, sink>>

\* FD_CLR(to->id) after the callback. If it cancelled its own timer, to->id is -1,
\* or read from memory that was freed: some descriptor, or none, leaves the set.
Cleared ==
  \E f \in Fd \cup {NoFd} :
    /\ tobj[walk.to] # Nil => f = tfd[walk.to]
    /\ rdFds' = rdFds \ {f}

\* (Mutant: the next timer is looked up after AG_DelTimer, through the timer.)
CallbackCancelsUnsaved ==
  /\ InCallback
  /\ Cleared
  /\ Cancelled(walk.ob, walk.to)
  /\ IF tobj[walk.to] = walk.ob THEN Closed({walk.to}) ELSE UNCHANGED fdvars
  /\ WalkGoesOn(walk.to)
  /\ UNCHANGED sink

\* The callback returned 0, or an interval that timerfd_settime refuses for it has
\* cancelled its timer: the descriptor leaves the set, and AG_DelTimer.
CallbackCancels ==
  /\ InCallback
  /\ Cleared
  /\ Cancelled(walk.ob, walk.to)
  /\ IF tobj[walk.to] = walk.ob THEN Closed({walk.to}) ELSE UNCHANGED fdvars
  /\ WalkGoesOn(walk.toNext)
  /\ UNCHANGED sink

\* The walk goes to the next object; after the last one, the sink returns and
\* the loop calls it again.
LeaveObject ==
  /\ WalkLeavesObject
  /\ IF walk'.pc = "idle" THEN sink' = "idle" /\ rdFds' = {}
                          ELSE UNCHANGED <<sink, rdFds>>
  /\ UNCHANGED fdvars

\* Time passes for every armed descriptor. Bound: MaxLag.
Tick ==
  /\ \A f \in open : remain[f] > -MaxLag
  /\ remain' = [f \in Fd |-> IF f \in open THEN remain[f] - 1 ELSE remain[f]]
  /\ UNCHANGED <<qvars, walk, tfd, open, rdFds, sink>>

Application ==
  \E o \in Object :
    \/ \E t \in Timer, ival \in Ivals :
         AddTimer(o, t, ival) \/ AddTimerAuto(o, t, ival) \/ ResetTimer(o, t, ival)
    \/ \E t \in Timer : DelTimer(o, t)
    \/ DelTimers(o)

EventSink ==
  \/ BuildSets \/ SelectReturns \/ BeginWalk \/ NothingToWalk
  \/ EnterObject \/ SkipTimer \/ CallTimer
  \/ (\E ival \in Ivals : CallbackRestarts(ival)) \/ CallbackCancels
  \/ LeaveObject

Next == Application \/ EventSink \/ SelectInterrupted \/ SelectReturnsForIO \/ Tick

\* AG_EventLoop calls the sink for ever, callbacks return, time passes.
Fairness == WF_vars(EventSink) /\ WF_vars(Tick)

Spec == Init /\ [][Next]_vars
FairSpec == Spec /\ Fairness

-----------------------------------------------------------------------------
(* Properties *)

\* The type of the state.
TypeOK ==
  /\ QueueType
  /\ walk \in WalkType
  /\ tfd \in [Timer -> Fd \cup {NoFd}]
  /\ open \in SUBSET Fd
  /\ remain \in [Fd -> Int]
  /\ rdFds \in SUBSET Fd
  /\ sink \in {"idle", "select", "ready"}

\* Every running timer has a descriptor of its own, and no descriptor is left
\* open for a timer that does not run, whichever of AG_DelTimer, AG_DelTimers and
\* the sink stopped it.
FdsOwned ==
  /\ open = {tfd[t] : t \in {u \in Timer : tobj[u] # Nil}}
  /\ \A t, u \in Timer : tobj[t] # Nil /\ tobj[u] # Nil /\ tfd[t] = tfd[u] => t = u

\* Where the sink reads to->id: at a timer, and again once its callback returned.
SinkReads == AtTimer \/ (InCallback /\ walk'.pc = "timer")

\* Where a callback cancelled the auto-allocated timer it was called for, AG_DelTimer
\* has freed it, and the sink reads to->id once more (event.c:1338).
FreedByItself == InCallback /\ tobj[walk.to] = Nil

\* The sink reads no freed timer but that one, although callbacks free others.
NoFreedTimerRead == [][SinkReads => walk.to \in live \/ FreedByItself]_vars

\* Refinement of TimerService: the ticks left are those of the kernel's timer.
Service == INSTANCE TimerService WITH
  Idle <- Nil, owner <- tobj,
  left <- [t \in Timer |-> IF tobj[t] = Nil THEN Nil ELSE remain[tfd[t]]],
  firing <- IF InCallback THEN walk.to ELSE Nil,
  onObj <- IF InCallback THEN walk.ob ELSE Nil

\* The sink implements the timer service.
ImplementsService == Service!Spec

\* A timer that has expired is called back, unless it is cancelled or restarted
\* first: the sink, asleep or not, is woken for it.
ExpiredServed ==
  \A t \in Timer : (tobj[t] # Nil /\ Readable(tfd[t])) ~>
    (tobj[t] = Nil \/ (InCallback /\ walk.to = t) \/ ~Readable(tfd[t]))
=============================================================================
