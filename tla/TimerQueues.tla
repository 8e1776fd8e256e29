---------------------------- MODULE TimerQueues ----------------------------
(***************************************************************************)
(* The queues of running timers (core/timeout.c) and the walk through      *)
(* them, which AG_ProcessTimeouts and AG_EventSinkTIMERFD have in common.  *)
(* TimerWheel and TimerFd extend this module with what expires a timer.    *)
(*                                                                         *)
(* A walk keeps four pointers (ob, obNext, to, toNext) across callbacks,   *)
(* and the callbacks start and cancel timers: each step of the walk is an  *)
(* action, with the calls a callback makes in between.  agTimerLock is     *)
(* held for the whole walk, so that no other thread changes a queue then.  *)
(***************************************************************************)
EXTENDS AgQueue

CONSTANTS
  Object,     \* objects that own timers (agTimerMgr among them)
  Timer,      \* AG_Timer structures
  AutoTimer,  \* those allocated by AG_AddTimerAuto, freed when they stop
  Nil,        \* the NULL pointer
  MayCancel   \* whose timers a callback cancels: "self", "peer", "other"

ASSUME NilAssumption == Nil \notin Object /\ Nil \notin Timer
ASSUME AutoAssumption == AutoTimer \subseteq Timer

VARIABLES
  objq,       \* agTimerObjQ: the objects that have running timers
  timers,     \* ob->timers of each object
  tobj,       \* to->obj: the object a timer runs on, or Nil
  live,       \* the AG_Timer structures that are allocated
  onext,      \* tobjs.tqe_next left behind in an object taken off agTimerObjQ
  tnext,      \* timers.tqe_next left behind in a cancelled timer (both are kept
              \* while a walk is on: nothing else reads them)
  walk        \* the frame of the walk

qvars == <<objq, timers, tobj, live, onext, tnext>>

NoWalk == [pc |-> "idle", ob |-> Nil, obNext |-> Nil, to |-> Nil, toNext |-> Nil]

QueueInit ==
  /\ objq = << >>
  /\ timers = [o \in Object |-> << >>]
  /\ tobj = [t \in Timer |-> Nil]
  /\ live = Timer \ AutoTimer
  /\ onext = [o \in Object |-> Nil]
  /\ tnext = [t \in Timer |-> Nil]
  /\ walk = NoWalk

-----------------------------------------------------------------------------
(* The queues *)

\* TAILQ_NEXT as the walk reads it: an entry no longer queued still holds the
\* pointer it had when it was removed.
NextObj(o) == IF o \in Entries(objq) THEN TailqNext(objq, o, Nil) ELSE onext[o]
NextTimer(o, t) == IF t \in Entries(timers[o]) THEN TailqNext(timers[o], t, Nil)
                                               ELSE tnext[t]
Stale(next) == IF walk.pc = "idle" THEN Nil ELSE next

\* A timer is attached to o, the list of which becomes q: the object is put on
\* agTimerObjQ with its first timer.
Attached(o, t, q) ==
  /\ tobj' = [tobj EXCEPT ![t] = o]
  /\ objq' = IF timers[o] = << >> THEN TailqInsertTail(objq, o) ELSE objq
  /\ timers' = [timers EXCEPT ![o] = q]
  /\ UNCHANGED <<onext, tnext>>

\* (Mutant: the object is not taken off agTimerObjQ with its last timer.)
DetachedObjectStays(o, t) ==
  /\ tobj' = [tobj EXCEPT ![t] = Nil]
  /\ timers' = [timers EXCEPT ![o] = TailqRemove(@, t)]
  /\ live' = live \ (AutoTimer \cap {t})
  /\ UNCHANGED <<objq, onext, tnext>>

\* AG_DelTimer of a timer that runs on o.
Detached(o, t) ==
  /\ tobj' = [tobj EXCEPT ![t] = Nil]
  /\ tnext' = [tnext EXCEPT ![t] = Stale(TailqNext(timers[o], t, Nil))]
  /\ timers' = [timers EXCEPT ![o] = TailqRemove(@, t)]
  /\ IF Len(timers[o]) = 1
     THEN /\ onext' = [onext EXCEPT ![o] = Stale(TailqNext(objq, o, Nil))]
          /\ objq' = TailqRemove(objq, o)
     ELSE UNCHANGED <<onext, objq>>
  /\ live' = live \ (AutoTimer \cap {t})

\* AG_DelTimer: nothing if the timer is not on o.
Cancelled(o, t) ==
  IF t \in Entries(timers[o]) THEN Detached(o, t) ELSE UNCHANGED qvars

\* AG_DelTimers of an object that has some: each of them in turn.
AllCancelled(o) ==
  /\ tobj' = [t \in Timer |-> IF t \in Entries(timers[o]) THEN Nil ELSE tobj[t]]
  /\ tnext' = [t \in Timer |-> IF t \in Entries(timers[o])
                               THEN Stale(TailqNext(timers[o], t, Nil)) ELSE tnext[t]]
  /\ timers' = [timers EXCEPT ![o] = << >>]
  /\ onext' = [onext EXCEPT ![o] = Stale(TailqNext(objq, o, Nil))]
  /\ objq' = TailqRemove(objq, o)
  /\ live' = live \ (AutoTimer \cap Entries(timers[o]))

-----------------------------------------------------------------------------
(* The calls *)

\* The application calls the interface outside of a walk, or from the callback
\* the walk is in.
MayCall == walk.pc \in {"idle", "callback"}

\* In a callback, MayCancel says which timers the application cancels.
MayCancelTimer(o, t) ==
  /\ MayCall
  /\ walk.pc = "callback" =>
       (IF t = walk.to THEN "self" ELSE IF o = walk.ob THEN "peer" ELSE "other") \in MayCancel

\* AG_DelTimers is not called on the object of the callback (AG_ObjectDetach
\* calls it).
MayCancelAll(o) ==
  /\ MayCall /\ timers[o] # << >>
  /\ walk.pc = "callback" => o # walk.ob /\ "other" \in MayCancel

-----------------------------------------------------------------------------
(* The walk *)

WalkBegins ==
  /\ walk.pc = "idle" /\ objq # << >>
  /\ walk' = [NoWalk EXCEPT !.pc = "object", !.ob = TailqFirst(objq, Nil)]
  /\ UNCHANGED qvars

WalkEntersObject ==
  /\ walk.pc = "object"
  /\ walk' = [walk EXCEPT !.pc = "timer", !.obNext = NextObj(walk.ob),
                          !.to = TailqFirst(timers[walk.ob], Nil)]
  /\ UNCHANGED qvars

AtTimer == walk.pc = "timer" /\ walk.to # Nil

WalkSkipsTimer ==
  /\ AtTimer
  /\ walk' = [walk EXCEPT !.to = NextTimer(walk.ob, walk.to)]
  /\ UNCHANGED qvars

WalkCallsTimer ==
  /\ AtTimer
  /\ walk' = [walk EXCEPT !.pc = "callback", !.toNext = NextTimer(walk.ob, walk.to)]
  /\ UNCHANGED qvars

InCallback == walk.pc = "callback"

WalkGoesOn(to) == walk' = [walk EXCEPT !.pc = "timer", !.to = to, !.toNext = Nil]

\* (Mutant: the walk ends with its first object.)
WalkEndsWithObject ==
  /\ walk.pc = "timer" /\ walk.to = Nil
  /\ walk' = NoWalk
  /\ onext' = [o \in Object |-> Nil]
  /\ tnext' = [t \in Timer |-> Nil]
  /\ UNCHANGED <<objq, timers, tobj, live>>

WalkLeavesObject ==
  /\ walk.pc = "timer" /\ walk.to = Nil
  /\ IF walk.obNext = Nil
     THEN /\ walk' = NoWalk
          /\ onext' = [o \in Object |-> Nil]
          /\ tnext' = [t \in Timer |-> Nil]
     ELSE /\ walk' = [walk EXCEPT !.pc = "object", !.ob = walk.obNext, !.obNext = Nil]
          /\ UNCHANGED <<onext, tnext>>
  /\ UNCHANGED <<objq, timers, tobj, live>>

-----------------------------------------------------------------------------
(* Properties *)

WalkType ==
  [pc : {"idle", "object", "timer", "callback"},
   ob : Object \cup {Nil}, obNext : Object \cup {Nil},
   to : Timer \cup {Nil}, toNext : Timer \cup {Nil}]

QueueType ==
  /\ objq \in Seq(Object)
  /\ timers \in [Object -> Seq(Timer)]
  /\ tobj \in [Timer -> Object \cup {Nil}]
  /\ live \in SUBSET Timer
  /\ onext \in [Object -> Object \cup {Nil}]
  /\ tnext \in [Timer -> Timer \cup {Nil}]

\* agTimerObjQ lists each object with running timers once, and no other.
ObjectsQueued ==
  /\ NoRepeats(objq)
  /\ Entries(objq) = {o \in Object : timers[o] # << >>}

\* A timer is linked on the object its obj pointer names, once, and nowhere if
\* it is not running; a timer that runs is allocated.
TimersLinked ==
  /\ \A o \in Object : NoRepeats(timers[o])
  /\ \A o \in Object, t \in Timer : t \in Entries(timers[o]) <=> tobj[t] = o
  /\ \A t \in Timer : tobj[t] # Nil => t \in live

\* The queues agree with each other after any sequence of calls, in whatever
\* state a walk is: what AG_DelTimer, AG_AddTimer and the walk itself test
\* (TAILQ_EMPTY, to->obj) they all take for granted.
QueuesConsistent == ObjectsQueued /\ TimersLinked

\* The walk never holds a pointer to a timer that was freed (its fields are read
\* through it), although callbacks may free timers.
NoUseAfterFree == AtTimer => walk.to \in live
=============================================================================
