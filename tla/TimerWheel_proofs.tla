------------------------- MODULE TimerWheel_proofs -------------------------
(***************************************************************************)
(* Proofs about TimerWheel and about TimedSelect, which calls its walk     *)
(* from the event sink, for any numbers of objects and timers.  The state  *)
(* keeps its type and the queues stay consistent, whatever calls the       *)
(* application makes, in and out of the callbacks of a walk; the sink does *)
(* not sleep beyond the expiry of the next timer.  Under the rule NoPeers  *)
(* the walk never reads a freed timer, and within the range InRange of the *)
(* tick counter the abstract service is implemented.                       *)
(***************************************************************************)
EXTENDS TimedSelect, TimerQueues_proofs, WellFoundedInduction

-----------------------------------------------------------------------------
(* Lemmas *)

\* The insertion loop of AG_AddTimer stops within the queue or at its end.
LEMMA InsertPosInRange ==
  ASSUME NEW q \in Seq(Timer), NEW when
  PROVE  InsertPos(q, when) \in 1..(Len(q) + 1)
<1> DEFINE Stops == {i \in 1..(Len(q) + 1) : i <= Len(q) => when < tSched[q[i]]}
<1>1. Len(q) \in Nat /\ Len(q) + 1 \in Stops  BY LenProperties
<1>2. Stops \subseteq Nat /\ Stops # {}  BY <1>1
<1>3. PICK i \in Stops : \A j \in Stops : <<j, i>> \notin OpToRel(<, Nat)
  <2> HIDE DEF Stops
  <2> QED  BY <1>2, NatLessThanWellFounded, WFMin
<1>4. ASSUME NEW j \in 1..(i - 1)  PROVE ~(when < tSched[q[j]])
  <2>1. j \in Nat /\ i \in Nat /\ j < i /\ j \in 1..(Len(q) + 1)
        /\ i <= Len(q) + 1 /\ j <= Len(q)
    BY <1>1
  <2>2. <<j, i>> \in OpToRel(<, Nat)  BY <2>1 DEF OpToRel
  <2>3. j \notin Stops  BY <1>3, <2>2
  <2> QED  BY <2>1, <2>3
<1>5. \E k \in 1..(Len(q) + 1) :
         /\ k <= Len(q) => when < tSched[q[k]]
         /\ \A j \in 1..(k - 1) : ~(when < tSched[q[j]])
  BY <1>4
<1> HIDE DEF Stops
<1> QED  BY <1>5 DEF InsertPos

\* An expiry time is a tick count of TickMod values.
LEMMA WhenType ==
  ASSUME ticks \in 0..(TickMod - 1), NEW ival \in Ivals
  PROVE  When(ival) \in 0..(TickMod - 1)
BY TickModAssumption, IvalsAssumption DEF When

\* A timer inserted in a queue it is not on: AG_AddTimer and AG_ResetTimer.
LEMMA InsertProperties ==
  ASSUME NEW q \in Seq(Timer), NoRepeats(q),
         NEW t \in Timer, t \notin Entries(q), NEW when
  PROVE  /\ Insert(q, t, when) \in Seq(Timer)
         /\ Entries(Insert(q, t, when)) = Entries(q) \cup {t}
         /\ NoRepeats(Insert(q, t, when))
BY InsertPosInRange, InsertBeforeProperties DEF Insert

\* A timer taken off the queue, if it is on it.
LEMMA WithoutProperties ==
  ASSUME NEW q \in Seq(Timer), NoRepeats(q), NEW t \in Timer
  PROVE  /\ Without(q, t) \in Seq(Timer)
         /\ Entries(Without(q, t)) = Entries(q) \ {t}
         /\ NoRepeats(Without(q, t))
<1>1. CASE t \in Entries(q)  BY <1>1, RemoveProperties DEF Without
<1>2. CASE t \notin Entries(q)  BY <1>2 DEF Without
<1> QED  BY <1>1, <1>2

\* The inductive invariant: the queues are consistent, the walk is somewhere in
\* them, and the clock keeps its width.
ClockType ==
  /\ ticks \in 0..(TickMod - 1) /\ now \in 0..(TickMod - 1)
  /\ tSched \in [Timer -> 0..(TickMod - 1)]
  /\ cyclic \in SUBSET Object
IInv == QueueInv /\ WalkInv /\ ClockType

-----------------------------------------------------------------------------
(* The operations *)

\* AG_AddTimer keeps the queues consistent, even where it corrupts a list.
LEMMA AddTimerInv ==
  ASSUME IInv, NEW o \in Object, NEW t \in Timer, NEW ival \in Ivals, AddTimer(o, t, ival)
  PROVE  IInv'
<1> DEFINE when == When(ival)
           q == Insert(Without(timers[o], t), t, when)
<1>1. when \in 0..(TickMod - 1)  BY WhenType DEF IInv, ClockType
<1>2. timers[o] \in Seq(Timer) /\ NoRepeats(timers[o])
  BY DEF IInv, QueueInv, QueueType, QueuesConsistent, TimersLinked
<1>3. q \in Seq(Timer) /\ Entries(q) = Entries(timers[o]) \cup {t} /\ NoRepeats(q)
  <2>1. /\ Without(timers[o], t) \in Seq(Timer)
        /\ Entries(Without(timers[o], t)) = Entries(timers[o]) \ {t}
        /\ NoRepeats(Without(timers[o], t))
    BY <1>2, WithoutProperties
  <2> HIDE DEF when
  <2> QED  BY <2>1, InsertProperties
<1>4. ClockType' /\ walk' = walk
  <2>1. cyclic' = cyclic \/ cyclic' = cyclic \cup {o}  BY DEF AddTimer
  <2>2. UNCHANGED <<ticks, now, walk>> /\ tSched' = [tSched EXCEPT ![t] = when]
    BY DEF AddTimer
  <2> HIDE DEF when
  <2> QED  BY <1>1, <2>1, <2>2 DEF IInv, ClockType
<1>5. QueueInv'
  <2>1. CASE Attached(o, t, q)
    <3>1. t \in live /\ tobj[t] \in {Nil, o} /\ live' = live  BY DEF AddTimer
    <3> HIDE DEF q
    <3> QED  BY <1>3, <2>1, <3>1, AttachedInv DEF IInv, QueueInv, QueueType
  <2>2. CASE UNCHANGED <<objq, timers, tobj, onext, tnext>>
    BY <2>2, QueuesUnchanged DEF AddTimer, IInv, QueueInv, QueueType
  <2> QED  BY <2>1, <2>2 DEF AddTimer
<1> QED  BY <1>4, <1>5 DEF IInv, WalkInv

\* AG_AddTimerAuto keeps the queues consistent.
LEMMA AddTimerAutoInv ==
  ASSUME IInv, NEW o \in Object, NEW t \in Timer, NEW ival \in Ivals,
         AddTimerAuto(o, t, ival)
  PROVE  IInv'
<1> DEFINE when == When(ival)
           q == Insert(timers[o], t, when)
<1>1. when \in 0..(TickMod - 1)  BY WhenType DEF IInv, ClockType
<1>2. timers[o] \in Seq(Timer) /\ NoRepeats(timers[o])
  BY DEF IInv, QueueInv, QueueType, QueuesConsistent, TimersLinked
<1>3. tobj[t] = Nil /\ live' = live \cup {t}
  BY DEF AddTimerAuto, IInv, QueueInv, QueueType, QueuesConsistent, TimersLinked
<1>4. t \notin Entries(timers[o])
  BY <1>3, NilAssumption DEF IInv, QueueInv, QueuesConsistent, TimersLinked
<1>5. q \in Seq(Timer) /\ Entries(q) = Entries(timers[o]) \cup {t} /\ NoRepeats(q)
  <2> HIDE DEF when
  <2> QED  BY <1>2, <1>4, InsertProperties
<1>6. /\ Attached(o, t, q) /\ UNCHANGED <<ticks, now, walk, cyclic>>
      /\ tSched' = [tSched EXCEPT ![t] = when]
  BY DEF AddTimerAuto
<1> HIDE DEF q, when
<1>7. QueueInv'
  BY <1>3, <1>5, <1>6, AttachedInv DEF IInv, QueueInv, QueueType
<1> QED  BY <1>1, <1>6, <1>7 DEF IInv, WalkInv, ClockType

\* AG_ResetTimer keeps the queues consistent: the timer stays on its object.
LEMMA RescheduledInv ==
  ASSUME IInv, NEW o \in Object, NEW t \in Timer, NEW ival \in Ivals,
         Rescheduled(o, t, ival)
  PROVE  QueueInv' /\ tSched' \in [Timer -> 0..(TickMod - 1)]
<1> DEFINE when == When(ival)
           r == TailqRemove(timers[o], t)
           q == Insert(r, t, when)
<1>1. when \in 0..(TickMod - 1)  BY WhenType DEF IInv, ClockType
<1>2. timers[o] \in Seq(Timer) /\ NoRepeats(timers[o]) /\ t \in Entries(timers[o])
  BY DEF IInv, QueueInv, QueueType, QueuesConsistent, TimersLinked, Rescheduled
<1>3. r \in Seq(Timer) /\ Entries(r) = Entries(timers[o]) \ {t} /\ NoRepeats(r)
  BY <1>2, RemoveProperties
<1>4. q \in Seq(Timer) /\ Entries(q) = Entries(timers[o]) /\ NoRepeats(q)
  <2>1. t \notin Entries(r)  BY <1>3
  <2> HIDE DEF r, when
  <2>2. q \in Seq(Timer) /\ Entries(q) = Entries(r) \cup {t} /\ NoRepeats(q)
    BY <1>3, <2>1, InsertProperties
  <2> HIDE DEF q
  <2> QED  BY <1>2, <1>3, <2>2
<1>5. /\ tSched' = [tSched EXCEPT ![t] = when] /\ timers' = [timers EXCEPT ![o] = q]
      /\ UNCHANGED <<objq, tobj, live, onext, tnext>>
  BY DEF Rescheduled
<1> HIDE DEF q, r, when
<1>6. QueueInv'  BY <1>4, <1>5, ReorderedInv DEF IInv
<1> QED  BY <1>1, <1>5, <1>6 DEF IInv, ClockType

\* The other operations are those of the queues.
LEMMA ApplicationInv == ASSUME IInv, Application PROVE IInv'
<1>1. ASSUME NEW o \in Object, NEW t \in Timer, NEW ival \in Ivals, ResetTimer(o, t, ival)
      PROVE  IInv'
  BY <1>1, RescheduledInv DEF ResetTimer, IInv, WalkInv, ClockType
<1>2. ASSUME NEW o \in Object, NEW t \in Timer, DelTimer(o, t)
      PROVE  IInv'
  BY <1>2, CancelledInv DEF DelTimer, IInv, WalkInv, ClockType
<1>3. ASSUME NEW o \in Object, DelTimers(o)
      PROVE  IInv'
  BY <1>3, AllCancelledInv DEF DelTimers, MayCancelAll, IInv, WalkInv, ClockType
<1> QED  BY <1>1, <1>2, <1>3, AddTimerInv, AddTimerAutoInv DEF Application

-----------------------------------------------------------------------------
(* The walk *)

\* AG_ProcessTimeouts keeps the queues consistent, and its place in them.
LEMMA ProcessTimeoutsInv ==
  ASSUME IInv, (\E at \in 0..(TickMod - 1) : BeginWalk(at)) \/ WalkSteps
  PROVE  IInv'
<1>0. QueueInv /\ WalkInv /\ ClockType  BY DEF IInv
<1>1. ASSUME NEW at \in 0..(TickMod - 1), BeginWalk(at)  PROVE IInv'
  BY <1>0, <1>1, WalkStepInv DEF BeginWalk, IInv, ClockType
<1>2. CASE EnterObject
  BY <1>0, <1>2, WalkStepInv DEF EnterObject, IInv, ClockType
<1>3. CASE SkipTimer
  BY <1>0, <1>3, WalkStepInv DEF SkipTimer, IInv, ClockType
<1>4. CASE CallTimer
  BY <1>0, <1>4, WalkStepInv DEF CallTimer, IInv, ClockType
<1>5. CASE LeaveObject
  <2>1. now' \in 0..(TickMod - 1)
    BY <1>0, <1>5, TickModAssumption DEF LeaveObject, ClockType
  <2> QED  BY <1>0, <1>5, <2>1, WalkStepInv DEF LeaveObject, IInv, ClockType
<1>6. InCallback => walk.ob \in Object /\ walk.to \in Timer
                    /\ walk.toNext \in Timer \cup {Nil}
  BY <1>0 DEF InCallback, WalkInv, WalkType
<1>7. ASSUME NEW ival \in Ivals, CallbackRestarts(ival)  PROVE IInv'
  <2>1. QueueInv' /\ tSched' \in [Timer -> 0..(TickMod - 1)]
    BY <1>6, <1>7, RescheduledInv DEF CallbackRestarts
  <2>2. TailqFirst(timers'[walk.ob], Nil) \in Timer \cup {Nil}
    BY <1>6, <1>7, <2>1, TailqFirstNext DEF CallbackRestarts, QueueInv, QueueType
  <2>3. WalkInv'  BY <1>0, <1>7, <2>2, WalkGoesOnInv DEF CallbackRestarts
  <2> QED  BY <1>0, <1>7, <2>1, <2>3 DEF CallbackRestarts, IInv, ClockType
<1>8. CASE CallbackCancels
  <2>1. QueueInv'  BY <1>0, <1>6, <1>8, CancelledInv DEF CallbackCancels
  <2>2. WalkInv'  BY <1>0, <1>6, <1>8, WalkGoesOnInv DEF CallbackCancels
  <2> QED  BY <1>0, <1>8, <2>1, <2>2 DEF CallbackCancels, IInv, ClockType
<1> QED  BY <1>1, <1>2, <1>3, <1>4, <1>5, <1>7, <1>8 DEF WalkSteps

-----------------------------------------------------------------------------
(* The theorems *)

\* The invariant holds of the initial state.
LEMMA InitInv == Init => IInv
BY QueueInitInv, TickModAssumption DEF Init, IInv, ClockType

\* Every step preserves the invariant.
LEMMA NextInv == IInv /\ [Next]_vars => IInv'
<1> SUFFICES ASSUME IInv, [Next]_vars PROVE IInv'  OBVIOUS
<1>1. CASE Application  BY <1>1, ApplicationInv
<1>2. CASE ProcessTimeouts  BY <1>2, ProcessTimeoutsInv DEF ProcessTimeouts, IInv, ClockType
<1>3. ASSUME UNCHANGED qvars PROVE QueueInv'
  BY <1>3, QueuesUnchanged DEF qvars, IInv, QueueInv, QueueType
<1>4. CASE Tick
  <2>1. ticks' \in 0..(TickMod - 1)
    BY <1>4, TickModAssumption DEF Tick, IInv, ClockType
  <2> QED  BY <1>3, <1>4, <2>1 DEF Tick, IInv, WalkInv, ClockType
<1>5. CASE UNCHANGED vars
  BY <1>3, <1>5 DEF vars, qvars, IInv, WalkInv, ClockType
<1> QED  BY <1>1, <1>2, <1>4, <1>5 DEF Next

\* The state keeps its type in every behaviour.
THEOREM TypeCorrect == Spec => []TypeOK
<1>1. IInv => TypeOK  BY DEF IInv, QueueInv, WalkInv, ClockType, TypeOK
<1> QED  BY <1>1, InitInv, NextInv, PTL DEF Spec

\* agTimerObjQ, the lists of timers and the obj pointers agree in every
\* behaviour: for any number of objects and timers, any interval, callbacks that
\* cancel what they please, and re-insertions that corrupt a list.
THEOREM QueuesAlwaysConsistent == Spec => []QueuesConsistent
<1>1. IInv => QueuesConsistent  BY DEF IInv, QueueInv
<1> QED  BY <1>1, InitInv, NextInv, PTL DEF Spec

-----------------------------------------------------------------------------
(* The pointers of the walk *)

\* Every step keeps the pointers of the walk to timers that run, provided that the
\* callbacks cancel no peer of theirs.
LEMMA StepSafe ==
  ASSUME NoPeers, IInv, WalkSafe,
         Application \/ (\E at : BeginWalk(at)) \/ WalkSteps \/ UNCHANGED <<tobj, walk>>
  PROVE  WalkSafe'
<1>0. QueueInv /\ WalkInv /\ tobj \in [Timer -> Object \cup {Nil}]
  BY DEF IInv, QueueInv, QueueType
<1>1. ASSUME UNCHANGED <<tobj, walk>>  PROVE WalkSafe'
  BY <1>1 DEF WalkSafe, AtTimer, InCallback
<1>2. CASE Application
  <2>1. ASSUME NEW o \in Object, NEW t \in Timer, NEW ival \in Ivals,
               AddTimer(o, t, ival) \/ AddTimerAuto(o, t, ival)
        PROVE  WalkSafe'
    <3>1. /\ MayCall /\ walk' = walk
          /\ tobj' = [tobj EXCEPT ![t] = o] \/ UNCHANGED tobj
      BY <2>1 DEF AddTimer, AddTimerAuto, Attached
    <3>2. tobj[t] \in {Nil, o}
      BY <1>0, <2>1 DEF AddTimer, AddTimerAuto, QueueInv, QueuesConsistent, TimersLinked
    <3> QED  BY <1>0, <3>1, <3>2, StartSafe
  <2>2. ASSUME NEW o \in Object, NEW t \in Timer, NEW ival \in Ivals, ResetTimer(o, t, ival)
        PROVE  WalkSafe'
    BY <1>1, <2>2 DEF ResetTimer, Rescheduled
  <2>3. ASSUME NEW o \in Object, NEW t \in Timer, DelTimer(o, t)  PROVE WalkSafe'
    BY <1>0, <2>3, CancelSafe DEF DelTimer
  <2>4. ASSUME NEW o \in Object, DelTimers(o)  PROVE WalkSafe'
    BY <1>0, <2>4, CancelAllSafe DEF DelTimers
  <2> QED  BY <1>2, <2>1, <2>2, <2>3, <2>4 DEF Application
<1>3. CASE (\E at : BeginWalk(at)) \/ EnterObject \/ SkipTimer \/ CallTimer \/ LeaveObject
  BY <1>0, <1>3, WalkStepSafe DEF BeginWalk, EnterObject, SkipTimer, CallTimer, LeaveObject
<1>4. ASSUME NEW ival \in Ivals, CallbackRestarts(ival)  PROVE WalkSafe'
  <2>1. InCallback /\ tobj' = tobj /\ Rescheduled(walk.ob, walk.to, ival)
    BY <1>4 DEF CallbackRestarts, Rescheduled
  <2>2. walk.ob \in Object /\ walk.to \in Timer  BY <1>0, <2>1 DEF InCallback, WalkInv
  <2>3. QueueInv'  BY <2>1, <2>2, RescheduledInv
  <2> DEFINE first == TailqFirst(timers'[walk.ob], Nil)
  <2>4. timers'[walk.ob] \in Seq(Timer)  BY <2>2, <2>3 DEF QueueInv, QueueType
  <2>5. first # Nil => first \in Entries(timers'[walk.ob]) /\ first \in Timer
    BY <2>4, FirstNextQueued, EntriesType
  <2>6. first # Nil => tobj'[first] = walk.ob
    BY <2>2, <2>3, <2>5 DEF QueueInv, QueuesConsistent, TimersLinked
  <2>7. WalkGoesOn(first)  BY <1>4 DEF CallbackRestarts
  <2> HIDE DEF first
  <2> QED  BY <1>0, <2>1, <2>6, <2>7, GoesOnSafe
<1>5. CASE CallbackCancels
  BY <1>0, <1>5, OwnCancelSafe DEF CallbackCancels
<1> QED  BY <1>1, <1>2, <1>3, <1>4, <1>5 DEF WalkSteps

-----------------------------------------------------------------------------
(* Tick counts *)

\* A tick leaves one less, if any was left.
LEMMA TickLeft ==
  ASSUME NEW s \in 0..(TickMod - 1), NEW k \in 0..(TickMod - 1), (s - k) % TickMod > 0
  PROVE  (s - ((k + 1) % TickMod)) % TickMod = ((s - k) % TickMod) - 1
<1>0. TickMod \in Nat /\ TickMod > 1 /\ s \in Int /\ k \in Int
      /\ 0 <= k /\ k < TickMod /\ 0 <= s /\ s < TickMod
  BY TickModAssumption
<1>1. CASE k + 1 = TickMod
  <2>1. (k + 1) % TickMod = 0  BY <1>0, <1>1
  <2>2. s % TickMod = s  BY <1>0
  <2>3. CASE s < k
    <3>1. (s - k) % TickMod = s - k + TickMod  BY <1>0, <2>3
    <3> QED  BY <1>0, <1>1, <2>1, <2>2, <3>1
  <2>4. CASE s = k
    <3>1. (s - k) % TickMod = 0  BY <1>0, <2>4
    <3> QED  BY <3>1
  <2> QED  BY <1>0, <1>1, <2>3, <2>4
<1>2. CASE k + 1 < TickMod
  <2>1. (k + 1) % TickMod = k + 1  BY <1>0, <1>2
  <2>2. CASE s > k
    <3>1. (s - k) % TickMod = s - k /\ (s - (k + 1)) % TickMod = s - (k + 1)
      BY <1>0, <2>2
    <3> QED  BY <1>0, <2>1, <3>1
  <2>3. CASE s = k
    <3>1. (s - k) % TickMod = 0  BY <1>0, <2>3
    <3> QED  BY <3>1
  <2>4. CASE s < k
    <3>1. (s - k) % TickMod = s - k + TickMod  BY <1>0, <2>4
    <3>2. (s - (k + 1)) % TickMod = s - (k + 1) + TickMod  BY <1>0, <1>2, <2>4
    <3> QED  BY <1>0, <2>1, <3>1, <3>2
  <2> QED  BY <1>0, <2>2, <2>3, <2>4
<1> QED  BY <1>0, <1>1, <1>2

\* The signed difference of two tick counts is within half the range, and congruent
\* to their difference.
LEMMA SignedRange ==
  ASSUME NEW s \in 0..(TickMod - 1), NEW k \in 0..(TickMod - 1)
  PROVE  /\ Signed(s - k) \in Int
         /\ -TickMod <= 2 * Signed(s - k) /\ 2 * Signed(s - k) < TickMod
         /\ Signed(s - k) \in {s - k, s - k + TickMod, s - k - TickMod}
<1>0. TickMod \in Nat /\ TickMod > 1 /\ s \in Int /\ k \in Int
      /\ 0 <= k /\ k < TickMod /\ 0 <= s /\ s < TickMod
  BY TickModAssumption
<1> DEFINE m == (s - k) % TickMod
<1>1. m \in Int /\ 0 <= m /\ m < TickMod /\ m \in {s - k, s - k + TickMod}
  <2>1. CASE s >= k
    <3>1. (s - k) % TickMod = s - k  BY <1>0, <2>1
    <3> QED  BY <1>0, <2>1, <3>1
  <2>2. CASE s < k
    <3>1. (s - k) % TickMod = s - k + TickMod  BY <1>0, <2>2
    <3> QED  BY <1>0, <2>2, <3>1
  <2> QED  BY <1>0, <2>1, <2>2
<1>2. Signed(s - k) = IF 2 * m >= TickMod THEN m - TickMod ELSE m  BY DEF Signed
<1> HIDE DEF m
<1> QED  BY <1>0, <1>1, <1>2

\* It is the only such number.
LEMMA SignedDiff ==
  ASSUME NEW s \in 0..(TickMod - 1), NEW k \in 0..(TickMod - 1), NEW l \in Int,
         -TickMod <= 2 * l, 2 * l < TickMod,
         l \in {s - k, s - k + TickMod, s - k - TickMod}
  PROVE  Signed(s - k) = l
<1> DEFINE d == Signed(s - k)
<1>1. /\ d \in Int /\ -TickMod <= 2 * d /\ 2 * d < TickMod
      /\ d \in {s - k, s - k + TickMod, s - k - TickMod}
  BY SignedRange
<1> HIDE DEF d
<1>2. d = l  BY <1>1, TickModAssumption
<1> QED  BY <1>2 DEF d

\* The next tick count.
LEMMA NextTick ==
  ASSUME NEW k \in 0..(TickMod - 1)
  PROVE  /\ (k + 1) % TickMod \in 0..(TickMod - 1)
         /\ (k + 1) % TickMod \in {k + 1, k + 1 - TickMod}
<1>0. TickMod \in Nat /\ TickMod > 1 /\ k \in Int /\ 0 <= k /\ k < TickMod
  BY TickModAssumption
<1>1. CASE k + 1 = TickMod
  <2>1. (k + 1) % TickMod = 0  BY <1>0, <1>1
  <2> QED  BY <1>0, <1>1, <2>1
<1>2. CASE k + 1 < TickMod
  <2>1. (k + 1) % TickMod = k + 1  BY <1>0, <1>2
  <2> QED  BY <1>0, <1>2, <2>1
<1> QED  BY <1>0, <1>1, <1>2

\* A tick leaves a timer one less, and makes a past time one older.
LEMMA SignedTick ==
  ASSUME NEW s \in 0..(TickMod - 1), NEW k \in 0..(TickMod - 1)
  PROVE  /\ -TickMod <= 2 * (Signed(s - k) - 1) =>
              Signed(s - ((k + 1) % TickMod)) = Signed(s - k) - 1
         /\ 2 * (Signed(k - s) + 1) < TickMod =>
              Signed(((k + 1) % TickMod) - s) = Signed(k - s) + 1
<1> DEFINE n == (k + 1) % TickMod
           d == Signed(s - k)
           e == Signed(k - s)
<1>0. TickMod \in Nat /\ TickMod > 1 /\ s \in Int /\ k \in Int
      /\ 0 <= k /\ k < TickMod /\ 0 <= s /\ s < TickMod
  BY TickModAssumption
<1>1. n \in 0..(TickMod - 1) /\ n \in {k + 1, k + 1 - TickMod}  BY NextTick
<1>2. /\ d \in Int /\ -TickMod <= 2 * d /\ 2 * d < TickMod
      /\ d \in {s - k, s - k + TickMod, s - k - TickMod}
  BY SignedRange
<1>3. /\ e \in Int /\ -TickMod <= 2 * e /\ 2 * e < TickMod
      /\ e \in {k - s, k - s + TickMod, k - s - TickMod}
  BY SignedRange
<1> HIDE DEF n, d, e
<1>4. ASSUME -TickMod <= 2 * (d - 1)  PROVE Signed(s - n) = d - 1
  <2>1. d - 1 \in {s - n, s - n + TickMod, s - n - TickMod}
    BY <1>0, <1>1, <1>2, <1>4
  <2>2. d - 1 \in Int /\ 2 * (d - 1) < TickMod  BY <1>0, <1>2
  <2> QED  BY <1>1, <1>4, <2>1, <2>2, SignedDiff
<1>5. ASSUME 2 * (e + 1) < TickMod  PROVE Signed(n - s) = e + 1
  <2>1. e + 1 \in {n - s, n - s + TickMod, n - s - TickMod}
    BY <1>0, <1>1, <1>3, <1>5
  <2>2. e + 1 \in Int /\ -TickMod <= 2 * (e + 1)  BY <1>0, <1>3
  <2> QED  BY <1>1, <1>5, <2>1, <2>2, SignedDiff
<1> QED  BY <1>4, <1>5 DEF n, d, e

\* Differences add up while the sum is within half the range.
LEMMA SignedSum ==
  ASSUME NEW s \in 0..(TickMod - 1), NEW k \in 0..(TickMod - 1), NEW p \in 0..(TickMod - 1),
         -TickMod <= 2 * (Signed(s - k) + Signed(k - p)),
         2 * (Signed(s - k) + Signed(k - p)) < TickMod
  PROVE  Signed(s - p) = Signed(s - k) + Signed(k - p)
<1> DEFINE d == Signed(s - k)
           e == Signed(k - p)
<1>0. TickMod \in Nat /\ TickMod > 1 /\ s \in Int /\ k \in Int /\ p \in Int
      /\ 0 <= k /\ k < TickMod /\ 0 <= s /\ s < TickMod /\ 0 <= p /\ p < TickMod
  BY TickModAssumption
<1>1. d \in Int /\ d \in {s - k, s - k + TickMod, s - k - TickMod}  BY SignedRange
<1>2. e \in Int /\ e \in {k - p, k - p + TickMod, k - p - TickMod}  BY SignedRange
<1>3. -TickMod <= 2 * (d + e) /\ 2 * (d + e) < TickMod  OBVIOUS
<1> HIDE DEF d, e
<1>4. d + e \in {s - p, s - p + TickMod, s - p - TickMod}  BY <1>0, <1>1, <1>2, <1>3
<1>5. d + e \in Int  BY <1>1, <1>2
<1>6. Signed(s - p) = d + e  BY <1>3, <1>4, <1>5, SignedDiff
<1> QED  BY <1>6 DEF d, e

\* A timer just scheduled has its interval left.
LEMMA ScheduledSigned ==
  ASSUME ticks \in 0..(TickMod - 1), NEW ival \in Ivals, 2 * ival < TickMod
  PROVE  Signed(When(ival) - ticks) = ival
<1>0. TickMod \in Nat /\ ticks \in Int /\ ival \in Nat /\ ival < TickMod
      /\ 0 <= ticks /\ ticks < TickMod
  BY TickModAssumption, IvalsAssumption
<1>1. When(ival) \in 0..(TickMod - 1)  BY WhenType
<1>2. When(ival) \in {ticks + ival, ticks + ival - TickMod}
  <2>1. CASE ticks + ival < TickMod
    <3>1. (ticks + ival) % TickMod = ticks + ival  BY <1>0, <2>1
    <3> QED  BY <3>1 DEF When
  <2>2. CASE ticks + ival >= TickMod
    <3>1. (ticks + ival) % TickMod = ticks + ival - TickMod  BY <1>0, <2>2
    <3> QED  BY <3>1 DEF When
  <2> QED  BY <1>0, <2>1, <2>2
<1>3. ival \in {When(ival) - ticks, When(ival) - ticks + TickMod, When(ival) - ticks - TickMod}
  BY <1>0, <1>1, <1>2
<1> QED  BY <1>0, <1>1, <1>3, SignedDiff

-----------------------------------------------------------------------------
(* The sink that waits in select *)

\* The type of what TimedSelect adds; a walk is on only while the sink processes
\* timers, and with the time of the sink.
SelType ==
  /\ sink \in {"idle", "select", "process"}
  /\ tSel \in 0..(TickMod - 1)
  /\ timeo \in 0..(TickMod - 2)
WalkInSink == walk.pc # "idle" => sink = "process" /\ now = tSel
SelInv == IInv /\ SelType /\ WalkInSink

\* The ticks left to a timer, as an Uint32.
Delta(t) == (tSched[t] - ticks) % TickMod

\* The timeout given to select is no longer than any timer has left.
LEMMA SoonestProperties ==
  ASSUME ClockType
  PROVE  /\ Soonest \in 0..(TickMod - 2)
         /\ \A t \in Timer : tobj[t] # Nil => Soonest <= Delta(t)
<1> DEFINE S == {Delta(t) : t \in {u \in Timer : tobj[u] # Nil}} \cup {TickMod - 2}
<1>1. S \subseteq Nat /\ TickMod - 2 \in S
  <2>1. \A t \in Timer : tSched[t] - ticks \in Int  BY DEF ClockType
  <2>2. TickMod - 2 \in Nat  BY TickModAssumption
  <2> QED  BY <2>1, <2>2, TickModAssumption DEF Delta
<1>2. PICK x \in S : \A y \in S : <<y, x>> \notin OpToRel(<, Nat)
  <2> HIDE DEF S
  <2> QED  BY <1>1, NatLessThanWellFounded, WFMin
<1>3. ASSUME NEW y \in S  PROVE x <= y
  <2>1. x \in Nat /\ y \in Nat  BY <1>1
  <2>2. ASSUME y < x PROVE FALSE
    <3>1. <<y, x>> \in OpToRel(<, Nat)  BY <2>1, <2>2 DEF OpToRel
    <3> QED  BY <1>2, <3>1
  <2> QED  BY <2>1, <2>2
<1>4. Soonest = CHOOSE z \in S : \A y \in S : z <= y  BY DEF Soonest, Min, Delta
<1>5. \A t \in Timer : tobj[t] # Nil => Delta(t) \in S  OBVIOUS
<1> HIDE DEF S
<1>6. Soonest \in S /\ \A y \in S : Soonest <= y  BY <1>3, <1>4
<1>7. Soonest \in 0..(TickMod - 2)  BY <1>1, <1>6, TickModAssumption
<1> QED  BY <1>5, <1>6, <1>7

\* The invariant holds of the initial state.
LEMMA SelInitInv == SelInit => SelInv
BY InitInv, TickModAssumption DEF SelInit, SelInv, SelType, WalkInSink, Init, QueueInit, NoWalk

\* Every step preserves the invariant.
LEMMA SelNextInv ==
  ASSUME SelInv, [SelNext]_allvars
  PROVE  SelInv'
<1>0. IInv /\ SelType /\ WalkInSink /\ ClockType  BY DEF SelInv, IInv
<1>1. ASSUME UNCHANGED vars, SelType', walk.pc # "idle" => sink' = sink /\ tSel' = tSel
      PROVE  SelInv'
  <2>1. IInv'  BY <1>0, <1>1, NextInv
  <2> QED  BY <1>0, <1>1, <2>1 DEF SelInv, WalkInSink, vars
<1>2. CASE Calls
  <2>1. IInv'  BY <1>0, <1>2, ApplicationInv DEF Calls
  <2>2. walk' = walk /\ now' = now
    BY <1>2 DEF Calls, Application, AddTimer, AddTimerAuto, ResetTimer, DelTimer, DelTimers
  <2> QED  BY <1>0, <1>2, <2>1, <2>2 DEF Calls, selvars, SelInv, SelType, WalkInSink
<1>3. CASE Select
  <2>1. Soonest \in 0..(TickMod - 2) /\ 0 \in 0..(TickMod - 2)
    BY <1>0, SoonestProperties, TickModAssumption
  <2>2. SelType'  BY <1>0, <1>3, <2>1 DEF Select, SelType, ClockType
  <2> QED  BY <1>0, <1>1, <1>3, <2>2 DEF Select, WalkInSink
<1>4. CASE SelectReturns \/ SelectReturnsForIO
  <2>1. SelType'
    BY <1>0, <1>4, TickModAssumption DEF SelectReturns, SelectReturnsForIO, SelType
  <2>2. walk.pc = "idle" /\ UNCHANGED vars
    BY <1>0, <1>4 DEF SelectReturns, SelectReturnsForIO, WalkInSink
  <2> QED  BY <1>1, <2>1, <2>2
<1>5. CASE BeginProcessing
  <2>1. IInv'  BY <1>0, <1>5, ProcessTimeoutsInv DEF BeginProcessing, SelType
  <2> QED  BY <1>0, <1>5, <2>1 DEF BeginProcessing, BeginWalk, selvars, SelInv, SelType, WalkInSink
<1>6. CASE Process
  <2>1. IInv'  BY <1>0, <1>6, ProcessTimeoutsInv DEF Process
  <2>2. now' = now /\ walk.pc # "idle"
    BY <1>6 DEF Process, WalkSteps, EnterObject, SkipTimer, CallTimer, CallbackRestarts,
                CallbackCancels, LeaveObject, WalkEntersObject, AtTimer, InCallback,
                WalkLeavesObject
  <2> QED  BY <1>0, <1>6, <2>1, <2>2 DEF Process, selvars, SelInv, SelType, WalkInSink
<1>7. CASE Return
  <2>1. SelType' /\ walk'.pc = "idle"
    BY <1>0, <1>7, TickModAssumption DEF Return, SelType, vars
  <2>2. IInv'
    <3>1. CASE LeaveObject  BY <1>0, <3>1, ProcessTimeoutsInv DEF WalkSteps
    <3>2. CASE UNCHANGED vars  BY <1>0, <3>2, NextInv
    <3> QED  BY <1>7, <3>1, <3>2 DEF Return
  <2> QED  BY <2>1, <2>2 DEF SelInv, WalkInSink
<1>8. CASE SelTick
  <2>1. IInv'  BY <1>0, <1>8, NextInv DEF SelTick, Next
  <2>2. SelType'
    <3>1. timeo' = timeo \/ (timeo > 0 /\ timeo' = timeo - 1)  BY <1>8 DEF SelTick
    <3>2. timeo' \in 0..(TickMod - 2)  BY <1>0, <3>1, TickModAssumption DEF SelType
    <3> QED  BY <1>0, <1>8, <3>2 DEF SelTick, SelType
  <2>3. walk' = walk /\ now' = now  BY <1>8 DEF SelTick, Tick
  <2> QED  BY <1>0, <1>8, <2>1, <2>2, <2>3 DEF SelTick, SelInv, WalkInSink
<1>9. CASE UNCHANGED allvars
  <2>1. SelType'  BY <1>0, <1>9 DEF allvars, selvars, SelType
  <2> QED  BY <1>1, <1>9, <2>1 DEF allvars, selvars
<1> QED
  BY <1>2, <1>3, <1>4, <1>5, <1>6, <1>7, <1>8, <1>9 DEF SelNext, EventSink

\* The state of the sink keeps its type in every behaviour.
THEOREM SelTypeCorrect == SelSpec => []SelTypeOK
<1>1. SelInv => SelTypeOK
  BY DEF SelInv, SelType, SelTypeOK, IInv, QueueInv, WalkInv, ClockType, TypeOK
<1> QED  BY <1>1, SelInitInv, SelNextInv, PTL DEF SelSpec

\* The queues agree in every behaviour of the sink, whether time passes in the
\* callbacks, select returns late, or the source has spinners.
THEOREM SelQueuesConsistent == SelSpec => []QueuesConsistent
<1>1. SelInv => QueuesConsistent  BY DEF SelInv, IInv, QueueInv
<1> QED  BY <1>1, SelInitInv, SelNextInv, PTL DEF SelSpec

\* Every step of the sink keeps the pointers of the walk to timers that run.
LEMMA SelNextSafe ==
  ASSUME NoPeers, SelInv, WalkSafe, [SelNext]_allvars
  PROVE  WalkSafe'
<1>1. CASE UNCHANGED vars \/ Tick
  BY <1>1, StepSafe DEF vars, qvars, Tick, SelInv
<1>2. CASE Application \/ BeginWalk(tSel) \/ WalkSteps
  BY <1>2, StepSafe DEF SelInv
<1> QED
  BY <1>1, <1>2 DEF SelNext, allvars, EventSink, Calls, Select, SelectReturns,
     SelectReturnsForIO, BeginProcessing, Process, Return, SelTick, WalkSteps

\* No walk of AG_ProcessTimeouts holds a pointer to a timer that was freed.
THEOREM SelNeverAtFreedTimer == NoPeers => (SelSpec => []NoUseAfterFree)
<1> SUFFICES ASSUME NoPeers PROVE SelSpec => []NoUseAfterFree
  OBVIOUS
<1>1. SelInit => WalkSafe
  BY DEF SelInit, Init, QueueInit, NoWalk, WalkSafe, AtTimer, InCallback
<1>2. SelInv /\ WalkSafe /\ [SelNext]_allvars => WalkSafe'  BY SelNextSafe
<1>3. SelInv /\ WalkSafe => NoUseAfterFree  BY SafeWalkIsLive DEF SelInv, IInv
<1> QED  BY <1>1, <1>2, <1>3, SelInitInv, SelNextInv, PTL DEF SelSpec

-----------------------------------------------------------------------------
(* The sleep of the sink *)

\* The timeout of select runs out no later than any timer that had not expired when
\* it was computed: Delta takes an overdue timer for one that is far ahead.
SleepFits ==
  sink = "select" => \A t \in Timer : tobj[t] # Nil => timeo <= Delta(t)

\* Time passes for select and for the timers alike.
LEMMA SleepTick ==
  ASSUME SelInv, SleepFits, SelTick
  PROVE  SleepFits'
<1> SUFFICES ASSUME sink' = "select", NEW t \in Timer, tobj'[t] # Nil
             PROVE  timeo' <= Delta(t)'
  BY DEF SleepFits
<1>1. /\ sink = "select" /\ timeo \in Nat /\ tobj'[t] = tobj[t] /\ tSched'[t] = tSched[t]
      /\ ticks' = (ticks + 1) % TickMod
      /\ timeo' = IF timeo > 0 THEN timeo - 1 ELSE timeo
  BY TickModAssumption DEF SelTick, Tick, qvars, SelInv, SelType
<1>2. tSched[t] \in 0..(TickMod - 1) /\ ticks \in 0..(TickMod - 1)
  BY DEF SelInv, IInv, ClockType
<1>3. Delta(t)' = (tSched[t] - ((ticks + 1) % TickMod)) % TickMod
  BY ONLY <1>1, Zenon DEF Delta
<1>4. Delta(t) \in Int /\ timeo <= Delta(t)
  BY <1>1, <1>2, TickModAssumption DEF SleepFits, Delta
<1>5. CASE timeo > 0
  <2>1. Delta(t) > 0  BY <1>1, <1>4, <1>5
  <2>2. (tSched[t] - ((ticks + 1) % TickMod)) % TickMod = ((tSched[t] - ticks) % TickMod) - 1
    BY <1>2, <2>1, TickLeft DEF Delta
  <2>3. Delta(t)' = Delta(t) - 1  BY ONLY <1>3, <2>2, Zenon DEF Delta
  <2> QED  BY <1>1, <1>4, <1>5, <2>3
<1>6. CASE timeo = 0
  <2>1. (ticks + 1) % TickMod \in 0..(TickMod - 1)  BY <1>2, NextTick
  <2>2. Delta(t)' >= 0  BY <1>2, <1>3, <2>1, TickModAssumption
  <2> QED  BY <1>1, <1>6, <2>2
<1> QED  BY <1>1, <1>5, <1>6

\* Every step keeps the timeout of select within what the timers have left.
LEMMA SleepNext ==
  ASSUME SelInv, SleepFits, [SelNext]_allvars
  PROVE  SleepFits'
<1>0. IInv /\ SelType /\ WalkInSink /\ ClockType  BY DEF SelInv, IInv
<1>1. CASE Calls \/ BeginProcessing \/ Process \/ (Return /\ LeaveObject)
  <2>1. sink' # "select"
    BY <1>0, <1>1 DEF Calls, BeginProcessing, Process, Return, selvars, WalkInSink, SelType,
       WalkSteps, EnterObject, SkipTimer, CallTimer, CallbackRestarts,
       CallbackCancels, LeaveObject, WalkEntersObject, AtTimer, InCallback, WalkLeavesObject
  <2> QED  BY <2>1 DEF SleepFits
<1>2. CASE Select
  <2>1. /\ \A t \in Timer : tobj[t] # Nil => Soonest <= Delta(t)
        /\ \A t \in Timer : Delta(t) \in Nat
    <3>1. \A t \in Timer : tSched[t] - ticks \in Int  BY <1>0 DEF ClockType
    <3> QED  BY <1>0, <3>1, SoonestProperties, TickModAssumption DEF Delta
  <2>2. timeo' = 0 \/ timeo' = Soonest  BY <1>2 DEF Select
  <2>3. UNCHANGED <<tobj, tSched, ticks>>  BY <1>2 DEF Select, vars
  <2> QED  BY <2>1, <2>2, <2>3 DEF SleepFits, Delta
<1>3. CASE SelectReturns \/ SelectReturnsForIO \/ (Return /\ UNCHANGED vars)
  BY <1>3 DEF SelectReturns, SelectReturnsForIO, Return, SleepFits
<1>4. CASE SelTick  BY <1>4, SleepTick
<1>5. CASE UNCHANGED allvars
  BY <1>5 DEF allvars, vars, selvars, SleepFits, Delta
<1> QED
  BY <1>1, <1>2, <1>3, <1>4, <1>5 DEF SelNext, EventSink, Return

\* The sink never sleeps on past the expiry of the next timer, whatever timers run,
\* on whatever objects, however late select returns, callbacks take and other timers
\* are, for every range of the counter. (One that is overdue already when the sink
\* goes to sleep does not wake it: SleepBounded is violated.)
THEOREM SleepEndsAtNextExpiry == SelSpec => []SleepsToNext
<1>1. SelInit => SleepFits  BY DEF SelInit, Init, QueueInit, SleepFits
<1>2. SelInv /\ SleepFits /\ [SelNext]_allvars => SleepFits'  BY SleepNext
<1>3. ASSUME SelInv, SleepFits  PROVE SleepsToNext
  <2> SUFFICES ASSUME sink = "select", NEW t \in Timer, tobj[t] # Nil,
                      Signed(tSched[t] - ticks) >= 0
               PROVE  timeo <= Signed(tSched[t] - ticks)
    BY DEF SleepsToNext
  <2>1. tSched[t] - ticks \in Int  BY <1>3 DEF SelInv, IInv, ClockType
  <2>2. Delta(t) \in Int /\ Delta(t) < TickMod  BY <2>1, TickModAssumption DEF Delta
  <2>3. Signed(tSched[t] - ticks) = Delta(t)
    <3>1. Signed(tSched[t] - ticks)
            = IF 2 * Delta(t) >= TickMod THEN Delta(t) - TickMod ELSE Delta(t)
      BY DEF Signed, Delta
    <3> QED  BY <2>2, <3>1, TickModAssumption
  <2> QED  BY <1>3, <2>3 DEF SleepFits
<1> QED  BY <1>1, <1>2, <1>3, SelInitInv, SelNextInv, PTL DEF SelSpec

-----------------------------------------------------------------------------
(* The timer service *)

\* Twice the longest interval and the time by which timers and walks may be late are
\* less than half the range of the tick counter (24 days).
Fits(b) ==
  /\ \A ival \in Ivals : ival <= b
  /\ 2 * (2 * b + MaxLag) < TickMod
InRange == MaxLag \in Nat /\ \E b \in Nat : Fits(b)

\* How long ago the sink started to wait, and what a timer has left.
Since == Signed(ticks - tSel)
ToGo(t) == Signed(tSched[t] - ticks)

\* A timer is not overdue by more than MaxLag, and has at most b left; while the sink
\* waits each has run for as long as it waited, and the walk is no later than that.
LagBounded(b) ==
  /\ \A t \in Timer : tobj[t] # Nil => -MaxLag <= ToGo(t) /\ ToGo(t) <= b
  /\ sink \in {"select", "process"} /\ walk.pc = "idle" =>
       \A t \in Timer : tobj[t] # Nil => 0 <= Since /\ ToGo(t) + Since <= b
  /\ walk.pc # "idle" => 0 <= Since /\ Since <= b + MaxLag

\* The types of these numbers.
LEMMA LagTypes ==
  ASSUME SelInv
  PROVE  /\ Since \in Int /\ -TickMod <= 2 * Since /\ 2 * Since < TickMod
         /\ \A t \in Timer : /\ ToGo(t) \in Int /\ -TickMod <= 2 * ToGo(t)
                             /\ 2 * ToGo(t) < TickMod /\ tSched[t] \in 0..(TickMod - 1)
         /\ ticks \in 0..(TickMod - 1) /\ tSel \in 0..(TickMod - 1)
BY SignedRange DEF SelInv, IInv, ClockType, SelType, Since, ToGo

\* The calls of the application and the steps of a walk leave the time of a running
\* timer alone, or schedule it anew.
LEMMA StepSchedules ==
  ASSUME IInv, Application \/ (\E at : BeginWalk(at)) \/ WalkSteps
  PROVE  /\ ticks' = ticks
         /\ \A t \in Timer : tobj'[t] # Nil =>
              \/ tobj[t] # Nil /\ tSched'[t] = tSched[t]
              \/ \E ival \in Ivals : tSched'[t] = When(ival)
<1>0. /\ tobj \in [Timer -> Object \cup {Nil}] /\ tSched \in [Timer -> 0..(TickMod - 1)]
      /\ WalkInv
  BY DEF IInv, QueueInv, QueueType, ClockType
<1> DEFINE Goal == /\ ticks' = ticks
                   /\ \A t \in Timer : tobj'[t] # Nil =>
                        \/ tobj[t] # Nil /\ tSched'[t] = tSched[t]
                        \/ \E ival \in Ivals : tSched'[t] = When(ival)
<1>1. ASSUME NEW o \in Object, NEW t \in Timer, NEW ival \in Ivals,
             AddTimer(o, t, ival) \/ AddTimerAuto(o, t, ival) \/ ResetTimer(o, t, ival)
      PROVE  Goal
  <2>1. /\ ticks' = ticks /\ tSched' = [tSched EXCEPT ![t] = When(ival)]
        /\ tobj' = [tobj EXCEPT ![t] = o] \/ UNCHANGED tobj
    BY <1>1 DEF AddTimer, AddTimerAuto, ResetTimer, Rescheduled, Attached
  <2> QED  BY <1>0, <2>1
<1>2. ASSUME NEW o \in Object, NEW t \in Timer, Cancelled(o, t), UNCHANGED <<ticks, tSched>>
      PROVE  Goal
  <2>1. tobj' = [tobj EXCEPT ![t] = Nil] \/ UNCHANGED tobj
    BY <1>2 DEF Cancelled, Detached, qvars
  <2> QED  BY <1>0, <1>2, <2>1
<1>3. ASSUME NEW o \in Object, DelTimers(o)  PROVE Goal
  BY <1>3 DEF DelTimers, AllCancelled
<1>4. CASE Application
  BY <1>1, <1>2, <1>3, <1>4 DEF Application, DelTimer
<1>5. CASE (\E at : BeginWalk(at)) \/ EnterObject \/ SkipTimer \/ CallTimer \/ LeaveObject
  BY <1>5 DEF BeginWalk, EnterObject, SkipTimer, CallTimer, LeaveObject, WalkBegins,
              WalkEntersObject, WalkSkipsTimer, WalkCallsTimer, WalkLeavesObject, qvars
<1>6. ASSUME NEW ival \in Ivals, CallbackRestarts(ival)  PROVE Goal
  <2>1. /\ ticks' = ticks /\ tSched' = [tSched EXCEPT ![walk.to] = When(ival)]
        /\ tobj' = tobj /\ walk.to \in Timer
    BY <1>0, <1>6 DEF CallbackRestarts, Rescheduled, InCallback, WalkInv
  <2> QED  BY <1>0, <2>1
<1>7. CASE CallbackCancels
  BY <1>0, <1>2, <1>7 DEF CallbackCancels, InCallback, WalkInv
<1> QED  BY <1>4, <1>5, <1>6, <1>7 DEF WalkSteps

\* Time passes: timers have one less left, the sink has waited one more.
LEMMA TickLags ==
  ASSUME NEW b \in Nat, Fits(b), MaxLag \in Nat, SelInv, LagBounded(b), SelTick
  PROVE  /\ LagBounded(b)'
         /\ \A t \in Timer : tobj[t] # Nil => ToGo(t)' = ToGo(t) - 1
<1>0. /\ tobj' = tobj /\ tSched' = tSched /\ walk' = walk /\ sink' = sink /\ tSel' = tSel
      /\ ticks' = (ticks + 1) % TickMod
      /\ \A t \in Timer : tobj[t] # Nil => ToGo(t) > -MaxLag
      /\ walk.pc # "idle" => Since < MaxLag
  <2>1. walk.pc # "idle" => now = tSel  BY DEF SelInv, WalkInSink
  <2> QED  BY <2>1 DEF SelTick, Tick, qvars, ToGo, Since
<1>1. /\ Since \in Int /\ ticks \in 0..(TickMod - 1) /\ tSel \in 0..(TickMod - 1)
      /\ \A t \in Timer : ToGo(t) \in Int /\ tSched[t] \in 0..(TickMod - 1)
      /\ MaxLag \in Nat /\ TickMod \in Nat /\ 2 * (2 * b + MaxLag) < TickMod
  BY LagTypes, TickModAssumption DEF Fits
<1>2. ASSUME NEW t \in Timer, tobj[t] # Nil  PROVE ToGo(t)' = ToGo(t) - 1
  <2>1. -MaxLag < ToGo(t)  BY <1>0, <1>1, <1>2
  <2>2. -TickMod <= 2 * (ToGo(t) - 1)  BY <1>1, <2>1
  <2>3. Signed(tSched[t] - ((ticks + 1) % TickMod)) = ToGo(t) - 1
    BY <1>1, <2>2, SignedTick DEF ToGo
  <2> QED  BY <1>0, <2>3 DEF ToGo
<1>3. 2 * (Since + 1) < TickMod => Since' = Since + 1
  <2>1. ASSUME 2 * (Since + 1) < TickMod
        PROVE  Signed(((ticks + 1) % TickMod) - tSel) = Since + 1
    BY <1>1, <2>1, SignedTick DEF Since
  <2> QED  BY <1>0, <2>1 DEF Since
<1>4. ASSUME NEW t \in Timer, tobj[t] # Nil
      PROVE  -MaxLag <= ToGo(t)' /\ ToGo(t)' <= b
  BY <1>0, <1>1, <1>2, <1>4 DEF LagBounded
<1>5. ASSUME sink \in {"select", "process"}, walk.pc = "idle", NEW t \in Timer, tobj[t] # Nil
      PROVE  0 <= Since' /\ ToGo(t)' + Since' <= b
  <2>1. 0 <= Since /\ ToGo(t) + Since <= b /\ -MaxLag < ToGo(t)
    BY <1>0, <1>1, <1>5 DEF LagBounded
  <2>2. 2 * (Since + 1) < TickMod  BY <1>1, <2>1
  <2> QED  BY <1>1, <1>2, <1>3, <1>5, <2>1, <2>2
<1>6. ASSUME walk.pc # "idle"  PROVE 0 <= Since' /\ Since' <= b + MaxLag
  <2>1. 0 <= Since /\ Since < MaxLag  BY <1>0, <1>6 DEF LagBounded
  <2>2. 2 * (Since + 1) < TickMod  BY <1>1, <2>1
  <2> QED  BY <1>1, <1>3, <2>1, <2>2
<1>7. LagBounded(b)'
  BY <1>0, <1>4, <1>5, <1>6 DEF LagBounded
<1> QED  BY <1>2, <1>7

\* A timer that is scheduled has its interval left.
LEMMA ScheduledLag ==
  ASSUME NEW b \in Nat, Fits(b), MaxLag \in Nat, SelInv, NEW ival \in Ivals
  PROVE  Signed(When(ival) - ticks) = ival /\ 0 < ival /\ ival <= b /\ ival \in Nat
<1>1. ival \in Nat /\ 0 < ival /\ ival <= b /\ 2 * ival < TickMod
  BY IvalsAssumption, TickModAssumption DEF Fits
<1>2. ticks \in 0..(TickMod - 1)  BY LagTypes
<1> QED  BY <1>1, <1>2, ScheduledSigned

\* The calls of the application and the steps of the walk leave no timer with too much
\* or too little left.
LEMMA StepLags ==
  ASSUME NEW b \in Nat, Fits(b), MaxLag \in Nat, SelInv, LagBounded(b),
         Application \/ (\E at : BeginWalk(at)) \/ WalkSteps
  PROVE  \A t \in Timer : tobj'[t] # Nil => -MaxLag <= ToGo(t)' /\ ToGo(t)' <= b
<1> SUFFICES ASSUME NEW t \in Timer, tobj'[t] # Nil
             PROVE  -MaxLag <= ToGo(t)' /\ ToGo(t)' <= b
  OBVIOUS
<1>0. IInv  BY DEF SelInv
<1>1. ticks' = ticks /\ (\/ tobj[t] # Nil /\ tSched'[t] = tSched[t]
                         \/ \E ival \in Ivals : tSched'[t] = When(ival))
  BY <1>0, StepSchedules
<1>2. CASE tobj[t] # Nil /\ tSched'[t] = tSched[t]
  BY <1>1, <1>2 DEF LagBounded, ToGo
<1>3. ASSUME NEW ival \in Ivals, tSched'[t] = When(ival)
      PROVE  -MaxLag <= ToGo(t)' /\ ToGo(t)' <= b
  <2>1. Signed(When(ival) - ticks) = ival /\ 0 < ival /\ ival <= b /\ ival \in Nat
    BY ScheduledLag
  <2>2. ToGo(t)' = ival  BY <1>1, <1>3, <2>1 DEF ToGo
  <2> QED  BY <2>1, <2>2
<1> QED  BY <1>1, <1>2, <1>3

\* Every step of the sink keeps the lags bounded.
LEMMA LagNext ==
  ASSUME NEW b \in Nat, Fits(b), MaxLag \in Nat, Spinners = FALSE,
         SelInv, LagBounded(b), [SelNext]_allvars
  PROVE  LagBounded(b)'
<1>0. IInv /\ SelType /\ WalkInSink /\ WalkInv /\ QueueInv  BY DEF SelInv, IInv
<1>1. CASE Calls
  <2>1. /\ \A t \in Timer : tobj'[t] # Nil => -MaxLag <= ToGo(t)' /\ ToGo(t)' <= b
        /\ UNCHANGED <<ticks, walk, sink, tSel>>
    <3>1. Application  BY <1>1 DEF Calls
    <3>2. ticks' = ticks  BY <1>0, <3>1, StepSchedules
    <3>3. walk' = walk
      BY <3>1 DEF Application, AddTimer, AddTimerAuto, ResetTimer, DelTimer, DelTimers
    <3> QED  BY <1>1, <3>1, <3>2, <3>3, StepLags DEF Calls, selvars
  <2>2. sink = "idle" \/ InCallback  BY <1>0, <1>1 DEF Calls, SelType
  <2>3. walk.pc = "idle" => sink = "idle"  BY <2>2 DEF InCallback
  <2> QED  BY <2>1, <2>3 DEF LagBounded, Since
<1>2. CASE Select
  <2>1. /\ UNCHANGED <<tobj, tSched, ticks, walk>> /\ tSel' = ticks /\ walk.pc = "idle"
    BY <1>0, <1>2 DEF Select, vars, qvars, WalkInSink
  <2>2. Since' = 0
    <3>1. ticks \in 0..(TickMod - 1)  BY LagTypes
    <3>2. Signed(ticks - ticks) = 0  BY <3>1, TickModAssumption, SignedDiff
    <3> QED  BY <2>1, <3>2 DEF Since
  <2>3. \A t \in Timer : ToGo(t)' = ToGo(t) /\ ToGo(t) \in Int
    BY <2>1, LagTypes DEF ToGo
  <2> QED  BY <2>1, <2>2, <2>3 DEF LagBounded
<1>3. CASE SelectReturns \/ SelectReturnsForIO
  <2>1. /\ UNCHANGED <<tobj, tSched, ticks, walk>> /\ walk.pc = "idle"
        /\ sink = "select" /\ (sink' = "idle" \/ tSel' = tSel)
    BY <1>0, <1>3 DEF SelectReturns, SelectReturnsForIO, vars, qvars, WalkInSink
  <2> QED  BY <2>1 DEF LagBounded, Since, ToGo
<1>4. CASE BeginProcessing
  <2>1. /\ UNCHANGED <<tobj, tSched, ticks, sink, tSel>> /\ walk.pc = "idle"
        /\ objq # << >> /\ sink = "process" /\ walk'.pc = "object"
    BY <1>4 DEF BeginProcessing, BeginWalk, WalkBegins, NoWalk, qvars, selvars
  <2>2. PICK t \in Timer : tobj[t] # Nil
    <3>1. objq \in Seq(Object) /\ Len(objq) \in Nat /\ Len(objq) # 0
      BY <1>0, <2>1, LenProperties, EmptySeq DEF QueueInv, QueueType
    <3>2. objq[1] \in Object /\ objq[1] \in Entries(objq)
      BY <3>1, ElementOfSeq DEF Entries, Range
    <3>3. timers[objq[1]] # << >> /\ timers[objq[1]] \in Seq(Timer)
      BY <1>0, <3>2 DEF QueueInv, QueueType, QueuesConsistent, ObjectsQueued
    <3>4. Len(timers[objq[1]]) \in Nat /\ Len(timers[objq[1]]) # 0
      BY <3>3, LenProperties, EmptySeq
    <3>5. timers[objq[1]][1] \in Timer /\ timers[objq[1]][1] \in Entries(timers[objq[1]])
      BY <3>3, <3>4, ElementOfSeq DEF Entries, Range
    <3>6. tobj[timers[objq[1]][1]] = objq[1]
      BY <1>0, <3>2, <3>5 DEF QueueInv, QueuesConsistent, TimersLinked
    <3> QED  BY <3>2, <3>5, <3>6, NilAssumption
  <2>3. 0 <= Since /\ ToGo(t) + Since <= b /\ -MaxLag <= ToGo(t)
    BY <2>1, <2>2 DEF LagBounded
  <2>4. Since <= b + MaxLag  BY <2>3, LagTypes
  <2>5. Since' = Since /\ \A u \in Timer : ToGo(u)' = ToGo(u)  BY <2>1 DEF Since, ToGo
  <2> QED  BY <2>1, <2>3, <2>4, <2>5 DEF LagBounded
<1>5. CASE Process
  <2>1. /\ \A t \in Timer : tobj'[t] # Nil => -MaxLag <= ToGo(t)' /\ ToGo(t)' <= b
        /\ UNCHANGED <<ticks, tSel, sink>>
    BY <1>0, <1>5, StepSchedules, StepLags DEF Process, selvars
  <2>2. walk.pc # "idle" /\ walk'.pc # "idle"
    <3>1. walk.pc # "idle"
      BY <1>5 DEF Process, WalkSteps, EnterObject, SkipTimer, CallTimer, CallbackRestarts,
                  CallbackCancels, LeaveObject, WalkEntersObject, AtTimer, InCallback,
                  WalkLeavesObject
    <3>2. CASE LeaveObject  BY <1>5, <3>1, <3>2 DEF Process
    <3>3. CASE EnterObject \/ SkipTimer \/ CallTimer \/ CallbackCancels
               \/ \E ival \in Ivals : CallbackRestarts(ival)
      BY <1>0, <3>1, <3>3 DEF EnterObject, SkipTimer, CallTimer, CallbackRestarts, CallbackCancels,
            WalkEntersObject, WalkSkipsTimer, WalkCallsTimer, WalkGoesOn, AtTimer, WalkInv,
            WalkType
    <3> QED  BY <1>5, <3>1, <3>2, <3>3 DEF Process, WalkSteps
  <2> QED  BY <2>1, <2>2 DEF LagBounded, Since
<1>6. CASE Return
  <2>1. sink' = "idle" /\ walk'.pc = "idle" /\ UNCHANGED <<tobj, tSched, ticks>>
    BY <1>6 DEF Return, LeaveObject, WalkLeavesObject, vars, qvars
  <2> QED  BY <2>1 DEF LagBounded, ToGo
<1>7. CASE SelTick  BY <1>7, TickLags
<1>8. CASE UNCHANGED allvars
  BY <1>8 DEF allvars, vars, qvars, selvars, LagBounded, Since, ToGo
<1> QED
  BY <1>1, <1>2, <1>3, <1>4, <1>5, <1>6, <1>7, <1>8 DEF SelNext, EventSink

\* Scheduling a timer is a start of the service.
LEMMA MapsToStart ==
  ASSUME NEW b \in Nat, Fits(b), MaxLag \in Nat, SelInv, NEW o \in Object, NEW t \in Timer, NEW ival \in Ivals,
         tobj[t] \in {Nil, o}, tobj' = [tobj EXCEPT ![t] = o],
         tSched' = [tSched EXCEPT ![t] = When(ival)], ticks' = ticks
  PROVE  Left' = [Left EXCEPT ![t] = ival]
<1>0. /\ tobj \in [Timer -> Object \cup {Nil}] /\ tSched \in [Timer -> 0..(TickMod - 1)]
      /\ ticks \in 0..(TickMod - 1)
  BY DEF SelInv, IInv, QueueInv, QueueType, ClockType
<1>2. Signed(When(ival) - ticks) = ival  BY ScheduledLag
<1>3. ASSUME NEW u \in Timer
      PROVE  (IF tobj'[u] = Nil THEN Nil ELSE Signed(tSched'[u] - ticks'))
               = IF u = t THEN ival ELSE Left[u]
  <2>1. CASE u = t
    <3>1. tobj'[u] = o /\ o # Nil /\ tSched'[u] = When(ival)
      BY <1>0, <2>1, NilAssumption
    <3> QED  BY <1>2, <2>1, <3>1
  <2>2. CASE u # t
    <3>1. tobj'[u] = tobj[u] /\ tSched'[u] = tSched[u]  BY <1>0, <2>2
    <3> QED  BY <2>2, <3>1 DEF Left
  <2> QED  BY <2>1, <2>2
<1> QED  BY <1>3 DEF Left

\* Timers that are cancelled stop.
LEMMA MapsToStopped ==
  ASSUME IInv, NEW S \in SUBSET Timer, UNCHANGED <<tSched, ticks>>,
         tobj' = [u \in Timer |-> IF u \in S THEN Nil ELSE tobj[u]]
  PROVE  Service!Stopped(S)
BY DEF Left, Service!Stopped

\* A call of the application starts a timer, cancels some, or is no step of the
\* service.
LEMMA ApplicationMaps ==
  ASSUME NEW b \in Nat, Fits(b), MaxLag \in Nat, SelInv, Application
  PROVE  Service!Next
<1>0. /\ tobj \in [Timer -> Object \cup {Nil}] /\ timers \in [Object -> Seq(Timer)]
      /\ TimersLinked /\ IInv
  BY DEF SelInv, IInv, QueueInv, QueueType, QueuesConsistent
<1>1. ASSUME NEW o \in Object, NEW t \in Timer, NEW ival \in Ivals,
             AddTimer(o, t, ival) \/ AddTimerAuto(o, t, ival) \/ ResetTimer(o, t, ival)
      PROVE  Service!Start(o, t, ival)
  <2>1. tobj[t] \in {Nil, o} /\ tobj' = [tobj EXCEPT ![t] = o]
    <3>1. CASE AddTimer(o, t, ival)
      <4>1. CASE Attached(o, t, Insert(Without(timers[o], t), t, When(ival)))
        BY <3>1, <4>1 DEF AddTimer, Attached
      <4>2. CASE LinkedTwice(o, t, When(ival)) /\ UNCHANGED tobj
        <5>1. tobj[t] = o  BY <1>0, <4>2 DEF LinkedTwice, TimersLinked
        <5> QED  BY <1>0, <4>2, <5>1
      <4> QED  BY <3>1, <4>1, <4>2 DEF AddTimer
    <3>2. CASE AddTimerAuto(o, t, ival)
      BY <1>0, <3>2 DEF AddTimerAuto, Attached, TimersLinked
    <3>3. CASE ResetTimer(o, t, ival)
      <4>1. tobj[t] = o /\ tobj' = tobj
        BY <1>0, <3>3 DEF ResetTimer, Rescheduled, TimersLinked
      <4> QED  BY <1>0, <4>1
    <3> QED  BY <1>1, <3>1, <3>2, <3>3
  <2>2. tSched' = [tSched EXCEPT ![t] = When(ival)] /\ UNCHANGED <<ticks, walk>>
    BY <1>1 DEF AddTimer, AddTimerAuto, ResetTimer, Rescheduled
  <2>3. Left' = [Left EXCEPT ![t] = ival]  BY <2>1, <2>2, MapsToStart
  <2> QED  BY <2>1, <2>2, <2>3 DEF Service!Start, InCallback
<1>2. ASSUME NEW o \in Object, NEW t \in Timer, DelTimer(o, t)
      PROVE  Service!Cancel(o, {t})
  <2>1. tobj[t] = o /\ tobj' = [u \in Timer |-> IF u \in {t} THEN Nil ELSE tobj[u]]
    BY <1>0, <1>2 DEF DelTimer, Cancelled, Detached, TimersLinked
  <2>2. UNCHANGED <<tSched, ticks, walk>>  BY <1>2 DEF DelTimer
  <2>3. Service!Stopped({t})  BY <1>0, <2>1, <2>2, MapsToStopped
  <2> QED  BY <2>1, <2>2, <2>3 DEF Service!Cancel, InCallback
<1>3. ASSUME NEW o \in Object, DelTimers(o)
      PROVE  \E S \in SUBSET Timer : Service!Cancel(o, S)
  <2> DEFINE S == Entries(timers[o])
  <2>1. S \in SUBSET Timer  BY <1>0, EntriesType
  <2>2. \A t \in S : tobj[t] = o  BY <1>0, <2>1 DEF TimersLinked
  <2>3. /\ tobj' = [u \in Timer |-> IF u \in S THEN Nil ELSE tobj[u]]
        /\ UNCHANGED <<tSched, ticks, walk>>
    BY <1>3 DEF DelTimers, AllCancelled
  <2> HIDE DEF S
  <2>4. Service!Stopped(S)  BY <1>0, <2>1, <2>3, MapsToStopped
  <2> QED  BY <2>1, <2>2, <2>3, <2>4 DEF Service!Cancel, InCallback
<1>4. ASSUME NEW o \in Object, NEW t \in Timer, DelTimer(o, t)
      PROVE  Service!Next
  <2>1. {t} \in SUBSET Timer  OBVIOUS
  <2> QED  BY <1>2, <1>4, <2>1 DEF Service!Next
<1> QED  BY <1>1, <1>3, <1>4 DEF Application, Service!Next

\* The steps of a walk are calls of expired timers, what the callbacks return, or
\* no step of the service.
LEMMA WalkMaps ==
  ASSUME NoPeers, NEW b \in Nat, Fits(b), MaxLag \in Nat, SelInv, LagBounded(b), WalkSafe,
         WalkSteps
  PROVE  Service!Next \/ UNCHANGED Service!svars
<1>0. /\ IInv /\ WalkInv /\ WalkInSink /\ TimersLinked /\ QueueInv
      /\ tobj \in [Timer -> Object \cup {Nil}]
  BY DEF SelInv, IInv, QueueInv, QueueType, QueuesConsistent
<1>1. ASSUME UNCHANGED <<tobj, tSched, ticks>>, ~InCallback, ~InCallback'
      PROVE  UNCHANGED Service!svars
  BY <1>1 DEF Service!svars, Left
<1>2. CASE EnterObject \/ SkipTimer
  BY <1>0, <1>1, <1>2 DEF EnterObject, SkipTimer, WalkEntersObject, WalkSkipsTimer, AtTimer,
                          qvars, InCallback, WalkInv, WalkType
<1>3. CASE LeaveObject
  <2>1. walk'.pc # "callback"
    <3>1. CASE walk.obNext = Nil  BY <1>3, <3>1 DEF LeaveObject, WalkLeavesObject, NoWalk
    <3>2. CASE walk.obNext # Nil
      BY <1>0, <1>3, <3>2 DEF LeaveObject, WalkLeavesObject, WalkInv, WalkType
    <3> QED  BY <3>1, <3>2
  <2> QED  BY <1>1, <1>3, <2>1 DEF LeaveObject, WalkLeavesObject, InCallback
<1>4. CASE CallTimer
  <2>1. /\ AtTimer /\ ~InCallback /\ Expired(walk.to, now)
        /\ UNCHANGED <<tobj, tSched, ticks>>
    BY <1>4 DEF CallTimer, WalkCallsTimer, AtTimer, InCallback, qvars
  <2>2. InCallback' /\ walk'.to = walk.to /\ walk'.ob = walk.ob
    BY <1>0, <1>4 DEF CallTimer, WalkCallsTimer, InCallback, WalkInv, WalkType
  <2>3. walk.to \in Timer /\ walk.to # Nil /\ tobj[walk.to] = walk.ob /\ walk.ob # Nil
    BY <1>0, <2>1, NilAssumption DEF WalkSafe, AtTimer, WalkInv, WalkType
  <2>4. now = tSel /\ walk.pc # "idle"  BY <1>0, <2>1 DEF AtTimer, WalkInSink
  <2>5. Left[walk.to] <= 0
    <3> DEFINE d == ToGo(walk.to)
    <3>1. /\ d \in Int /\ -MaxLag <= d /\ d <= b /\ Since \in Int
          /\ 0 <= Since /\ Since <= b + MaxLag
      BY <2>3, <2>4, LagTypes DEF LagBounded
    <3>2. -TickMod <= 2 * (d + Since) /\ 2 * (d + Since) < TickMod
      <4> HIDE DEF d
      <4> QED  BY <3>1, TickModAssumption DEF Fits
    <3>3. Signed(tSched[walk.to] - tSel) = d + Since
      BY <2>3, <3>2, LagTypes, SignedSum DEF ToGo, Since
    <3>4. Signed(tSched[walk.to] - tSel) <= 0  BY <2>1, <2>4 DEF Expired
    <3>5. d <= 0
      <4> HIDE DEF d
      <4> QED  BY <3>1, <3>3, <3>4
    <3> QED  BY <2>3, <3>5 DEF Left, ToGo
  <2>6. Left' = Left  BY <2>1 DEF Left
  <2>7. Service!Fire(walk.to)
    BY <2>1, <2>2, <2>3, <2>5, <2>6 DEF Service!Fire, Service!Running
  <2> QED  BY <2>3, <2>7 DEF Service!Next
<1>5. InCallback => walk.to \in Timer /\ walk.to # Nil /\ walk.ob \in Object /\ walk.ob # Nil
  BY <1>0, NilAssumption DEF InCallback, WalkInv
<1>6. ASSUME NEW ival \in Ivals, CallbackRestarts(ival)  PROVE Service!Restart(ival)
  <2>1. InCallback /\ tobj[walk.to] = walk.ob /\ tobj' = tobj
    BY <1>0, <1>5, <1>6 DEF CallbackRestarts, Rescheduled, TimersLinked
  <2>2. tSched' = [tSched EXCEPT ![walk.to] = When(ival)] /\ ticks' = ticks
    BY <1>6 DEF CallbackRestarts, Rescheduled
  <2>3. tobj' = [tobj EXCEPT ![walk.to] = walk.ob]  BY <1>0, <2>1
  <2>4. Left' = [Left EXCEPT ![walk.to] = ival]
    <3>1. walk.to \in Timer /\ walk.ob \in Object /\ tobj[walk.to] \in {Nil, walk.ob}
      BY <1>5, <2>1
    <3> QED  BY <1>0, <2>2, <2>3, <3>1, MapsToStart
  <2>5. ~InCallback'
    BY <1>0, <1>6 DEF CallbackRestarts, WalkGoesOn, InCallback, WalkInv, WalkType
  <2> QED  BY <1>5, <2>1, <2>4, <2>5 DEF Service!Restart, Service!Return
<1>7. CASE CallbackCancels
  <2> DEFINE S == {walk.to} \cap {t \in Timer : tobj[t] = walk.ob}
  <2>1. InCallback /\ UNCHANGED <<tSched, ticks>> /\ Cancelled(walk.ob, walk.to)
    BY <1>7 DEF CallbackCancels
  <2>2. walk.to \in Entries(timers[walk.ob]) <=> tobj[walk.to] = walk.ob
    BY <1>0, <1>5, <2>1 DEF TimersLinked
  <2>3. tobj' = [u \in Timer |-> IF u \in S THEN Nil ELSE tobj[u]]
    <3>1. CASE tobj[walk.to] = walk.ob
      BY <1>0, <1>5, <2>1, <2>2, <3>1 DEF Cancelled, Detached
    <3>2. CASE tobj[walk.to] # walk.ob
      BY <1>0, <2>1, <2>2, <3>2 DEF Cancelled, qvars
    <3> QED  BY <3>1, <3>2
  <2>4. S \in SUBSET Timer  OBVIOUS
  <2>5. ~InCallback'
    BY <1>0, <1>7 DEF CallbackCancels, WalkGoesOn, InCallback, WalkInv, WalkType
  <2> HIDE DEF S
  <2>6. Service!Stopped(S)  BY <1>0, <2>1, <2>3, <2>4, MapsToStopped
  <2>7. Service!Expire
    BY <1>5, <2>1, <2>5, <2>6 DEF S, Service!Expire, Service!Return
  <2> QED  BY <2>7 DEF Service!Next
<1> QED  BY <1>2, <1>3, <1>4, <1>6, <1>7 DEF WalkSteps, Service!Next

\* A tick of the counter is a tick of the service.
LEMMA TickMaps ==
  ASSUME NEW b \in Nat, Fits(b), MaxLag \in Nat, SelInv, LagBounded(b), SelTick
  PROVE  Service!Tick
<1>1. \A t \in Timer : tobj[t] # Nil => ToGo(t)' = ToGo(t) - 1  BY TickLags
<1>2. tobj' = tobj /\ walk' = walk  BY DEF SelTick, Tick, qvars
<1>3. ASSUME NEW t \in Timer, tobj[t] # Nil
      PROVE  Signed(tSched'[t] - ticks') = Left[t] - 1
  <2>1. Left[t] = ToGo(t)  BY <1>3 DEF Left, ToGo
  <2>2. ToGo(t)' = Signed(tSched'[t] - ticks')  BY DEF ToGo
  <2> QED  BY <1>1, <1>3, <2>1, <2>2
<1>4. Left' = [t \in Timer |-> IF tobj[t] # Nil THEN Left[t] - 1 ELSE Nil]
  BY <1>2, <1>3 DEF Left
<1>5. Left' = [t \in Timer |-> IF t \in Service!Running THEN Left[t] - 1 ELSE Nil]
  BY <1>4 DEF Service!Running
<1> QED  BY <1>2, <1>5 DEF Service!Tick, InCallback

\* Every step of the sink is a step of the service, or none.
LEMMA SelNextMaps ==
  ASSUME NoPeers, NEW b \in Nat, Fits(b), MaxLag \in Nat, SelInv, LagBounded(b), WalkSafe,
         [SelNext]_allvars
  PROVE  Service!Next \/ UNCHANGED Service!svars
<1>1. ASSUME UNCHANGED vars  PROVE UNCHANGED Service!svars
  BY <1>1 DEF vars, qvars, Service!svars, Left, InCallback
<1>2. CASE Calls  BY <1>2, ApplicationMaps DEF Calls
<1>3. CASE Process \/ Return
  BY <1>1, <1>3, WalkMaps DEF Process, Return, WalkSteps
<1>4. CASE BeginProcessing
  BY <1>4 DEF BeginProcessing, BeginWalk, WalkBegins, NoWalk, qvars, Service!svars, Left,
              InCallback
<1>5. CASE SelTick  BY <1>5, TickMaps DEF Service!Next
<1> QED
  BY <1>1, <1>2, <1>3, <1>4, <1>5 DEF SelNext, EventSink, Select, SelectReturns,
     SelectReturnsForIO, allvars

\* The sink of builds without threads implements the timer service, however late select
\* returns and callbacks take, as long as nothing is late by so much that the tick
\* counter wraps around (InRange), the source has no spinners (with which the time given
\* to AG_ProcessTimeouts is not assigned), and the callbacks cancel no peer.  The time at
\* which the sink started to wait serves for the walk: a timer that had expired then has
\* expired, and one that was scheduled since has not.
THEOREM SelImplementsService ==
  NoPeers /\ InRange /\ Spinners = FALSE => (SelSpec => ImplementsService)
<1> SUFFICES ASSUME NoPeers, MaxLag \in Nat, NEW b \in Nat, Fits(b), Spinners = FALSE
             PROVE  SelSpec => ImplementsService
  BY DEF InRange
<1> DEFINE J == SelInv /\ LagBounded(b) /\ WalkSafe
<1>1. SelInit => J
  BY SelInitInv DEF SelInit, Init, QueueInit, NoWalk, WalkSafe, AtTimer, InCallback, LagBounded
<1>2. J /\ [SelNext]_allvars => J'
  BY SelNextInv, LagNext, SelNextSafe
<1>3. SelInit => Service!Init
  BY DEF SelInit, Init, QueueInit, NoWalk, Service!Init, Left, InCallback
<1>4. J /\ J' /\ [SelNext]_allvars => [Service!Next]_(Service!svars)
  BY SelNextMaps
<1> HIDE DEF J
<1> QED  BY <1>1, <1>2, <1>3, <1>4, PTL DEF SelSpec, ImplementsService, Service!Spec
=============================================================================
