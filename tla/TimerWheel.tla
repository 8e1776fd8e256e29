----------------------------- MODULE TimerWheel -----------------------------
(***************************************************************************)
(* Software timers (core/timeout.c) as they run on the event sources that  *)
(* provide no timers of their own (AG_EventSinkSELECT, -SPINNER, and every *)
(* source under AG_SOFT_TIMERS): AG_ProcessTimeouts walks agTimerObjQ and  *)
(* the timers of each object, in the order they expire, and calls back     *)
(* those whose time has come.                                              *)
(***************************************************************************)
EXTENDS TimerQueues

CONSTANTS
  Ivals,      \* intervals the application asks for (> 0 restarts a timer)
  TickMod,    \* the ticks counter is modulo TickMod (2^32 in the code)
  MaxLag,     \* bound: no running timer is ever overdue by more than this
  MayRearm    \* how AG_AddTimer is used on a running timer: "behind", "ahead"

ASSUME TickModAssumption == TickMod \in Nat /\ TickMod > 1
ASSUME IvalsAssumption == Ivals \subseteq Nat \ {0}

VARIABLES
  ticks,      \* AG_GetTicks()
  tSched,     \* to->tSched: when a timer expires
  cyclic,     \* objects whose list of timers was linked into a cycle
  now         \* the argument of AG_ProcessTimeouts (0 outside of it)

vars == <<objq, timers, tobj, live, onext, tnext, walk, ticks, tSched, cyclic, now>>

\* The difference of two tick counts as the signed integer the code casts to.
Signed(d) == LET m == d % TickMod IN IF 2 * m >= TickMod THEN m - TickMod ELSE m

\* The time "ival" ticks from now, as an Uint32.
When(ival) == (ticks + ival) % TickMod

\* (Mutant: the comparison is not signed.)
ExpiredUnsigned(t, at) == tSched[t] <= at
Expired(t, at) == Signed(tSched[t] - at) <= 0

Init ==
  /\ QueueInit
  /\ ticks = 0
  /\ tSched = [t \in Timer |-> 0]
  /\ cyclic = {}
  /\ now = 0

-----------------------------------------------------------------------------
(* The list of timers of an object *)

\* Where a timer that expires at "when" belongs in q: before the first one that
\* expires later (an unsigned comparison of the tick counts).
InsertPos(q, when) ==
  CHOOSE i \in 1..(Len(q) + 1) :
    /\ i <= Len(q) => when < tSched[q[i]]
    /\ \A j \in 1..(i - 1) : ~(when < tSched[q[j]])

Insert(q, t, when) == TailqInsertBefore(q, InsertPos(q, when), t)

Without(q, t) == IF t \in Entries(q) THEN TailqRemove(q, t) ELSE q

\* Re-adding a timer that runs already: the insertion loop stops at a timer that
\* expires later, or at the timer itself, which it removes before it starts
\* over. If the former comes first, the timer is linked in a second time.
LinkedTwice(o, t, when) ==
  /\ t \in Entries(timers[o])
  /\ InsertPos(timers[o], when) < Pos(timers[o], t)

\* The operations on the timers of o return only if the list is not cyclic.
Usable(o) == o \notin cyclic

-----------------------------------------------------------------------------
(* Operations *)

\* AG_AddTimer with an object and a timer that is not attached to another one
\* (a fatal error). Re-adding a running timer changes its interval.
AddTimer(o, t, ival) ==
  LET when == When(ival) IN
  /\ MayCall /\ Usable(o) /\ t \in live /\ tobj[t] \in {Nil, o}
  /\ tSched' = [tSched EXCEPT ![t] = when]
  /\ \/ /\ ~LinkedTwice(o, t, when)
        /\ Attached(o, t, Insert(Without(timers[o], t), t, when))
        /\ UNCHANGED cyclic
     \/ /\ LinkedTwice(o, t, when) /\ "ahead" \in MayRearm
        /\ cyclic' = cyclic \cup {o}
        /\ UNCHANGED <<objq, timers, tobj, onext, tnext>>
  /\ UNCHANGED <<live, walk, ticks, now>>

\* AG_AddTimerAuto: allocate a timer structure, and add it.
AddTimerAuto(o, t, ival) ==
  /\ MayCall /\ Usable(o) /\ t \in AutoTimer \ live
  /\ live' = live \cup {t}
  /\ tSched' = [tSched EXCEPT ![t] = When(ival)]
  /\ Attached(o, t, Insert(timers[o], t, When(ival)))
  /\ UNCHANGED <<walk, ticks, cyclic, now>>

\* AG_DelTimer of a running timer (it does nothing otherwise).
DelTimer(o, t) ==
  /\ MayCancelTimer(o, t) /\ Usable(o)
  /\ t \in Entries(timers[o])
  /\ Cancelled(o, t)
  /\ UNCHANGED <<walk, ticks, tSched, cyclic, now>>

DelTimers(o) ==
  /\ MayCancelAll(o) /\ Usable(o)
  /\ AllCancelled(o)
  /\ UNCHANGED <<walk, ticks, tSched, cyclic, now>>

\* The effect of AG_ResetTimer, which is illegal on a timer not running.
Rescheduled(o, t, ival) ==
  /\ t \in Entries(timers[o])
  /\ tSched' = [tSched EXCEPT ![t] = When(ival)]
  /\ timers' = [timers EXCEPT ![o] = Insert(TailqRemove(@, t), t, When(ival))]
  /\ UNCHANGED <<objq, tobj, live, onext, tnext>>

\* AG_ResetTimer called by the application.
ResetTimer(o, t, ival) ==
  /\ MayCall /\ Usable(o)
  /\ Rescheduled(o, t, ival)
  /\ UNCHANGED <<walk, ticks, cyclic, now>>

-----------------------------------------------------------------------------
(* AG_ProcessTimeouts(at) *)

BeginWalk(at) ==
  /\ WalkBegins
  /\ now' = at
  /\ UNCHANGED <<ticks, tSched, cyclic>>

EnterObject ==
  /\ WalkEntersObject /\ Usable(walk.ob)
  /\ UNCHANGED <<ticks, tSched, cyclic, now>>

\* A timer that is still to expire is passed over.
SkipTimer ==
  /\ AtTimer /\ ~Expired(walk.to, now)
  /\ WalkSkipsTimer
  /\ UNCHANGED <<ticks, tSched, cyclic, now>>

CallTimer ==
  /\ AtTimer /\ Expired(walk.to, now)
  /\ WalkCallsTimer
  /\ UNCHANGED <<ticks, tSched, cyclic, now>>

\* The callback returned a new interval (which it does only while its timer
\* runs): AG_ResetTimer, and the object is scanned from the start.
CallbackRestarts(ival) ==
  /\ InCallback /\ Usable(walk.ob)
  /\ Rescheduled(walk.ob, walk.to, ival)
  /\ WalkGoesOn(TailqFirst(timers'[walk.ob], Nil))
  /\ UNCHANGED <<ticks, cyclic, now>>

\* (Mutant: the next timer is looked up after AG_DelTimer, through the timer.)
CallbackCancelsUnsaved ==
  /\ InCallback /\ Usable(walk.ob)
  /\ Cancelled(walk.ob, walk.to)
  /\ WalkGoesOn(walk.to)
  /\ UNCHANGED <<ticks, tSched, cyclic, now>>

\* The callback returned 0: AG_DelTimer, and on to the next timer.
CallbackCancels ==
  /\ InCallback /\ Usable(walk.ob)
  /\ Cancelled(walk.ob, walk.to)
  /\ WalkGoesOn(walk.toNext)
  /\ UNCHANGED <<ticks, tSched, cyclic, now>>

LeaveObject ==
  /\ WalkLeavesObject
  /\ now' = IF walk'.pc = "idle" THEN 0 ELSE now
  /\ UNCHANGED <<ticks, tSched, cyclic>>

\* Time passes. Bounds: no running timer is overdue, and no walk takes, more than
\* MaxLag ticks.
Tick ==
  /\ \A t \in Timer : tobj[t] # Nil => Signed(tSched[t] - ticks) > -MaxLag
  /\ walk.pc # "idle" => Signed(ticks - now) < MaxLag
  /\ ticks' = (ticks + 1) % TickMod
  /\ UNCHANGED <<qvars, walk, tSched, cyclic, now>>

Application ==
  \E o \in Object :
    \/ \E t \in Timer, ival \in Ivals :
         AddTimer(o, t, ival) \/ AddTimerAuto(o, t, ival) \/ ResetTimer(o, t, ival)
    \/ \E t \in Timer : DelTimer(o, t)
    \/ DelTimers(o)

WalkSteps ==
  \/ EnterObject \/ SkipTimer \/ CallTimer
  \/ (\E ival \in Ivals : CallbackRestarts(ival)) \/ CallbackCancels
  \/ LeaveObject

\* The sinks call AG_ProcessTimeouts(AG_GetTicks()).
ProcessTimeouts == BeginWalk(ticks) \/ WalkSteps

Next == Application \/ ProcessTimeouts \/ Tick

Spec == Init /\ [][Next]_vars

-----------------------------------------------------------------------------
(* Properties *)

\* The type of the state.
TypeOK ==
  /\ QueueType
  /\ walk \in WalkType
  /\ ticks \in 0..(TickMod - 1)
  /\ tSched \in [Timer -> 0..(TickMod - 1)]
  /\ cyclic \in SUBSET Object
  /\ now \in 0..(TickMod - 1)

\* Refinement of TimerService: the ticks left are the signed difference the code
\* computes, and a callback runs while the walk is in it.
Left == [t \in Timer |-> IF tobj[t] = Nil THEN Nil ELSE Signed(tSched[t] - ticks)]

Service == INSTANCE TimerService WITH
  Idle <- Nil, owner <- tobj, left <- Left,
  firing <- IF InCallback THEN walk.to ELSE Nil,
  onObj <- IF InCallback THEN walk.ob ELSE Nil

\* The walk implements the timer service: a callback runs only for a timer that
\* is running and due, and its return value alone restarts or cancels it.
ImplementsService == Service!Spec
=============================================================================
