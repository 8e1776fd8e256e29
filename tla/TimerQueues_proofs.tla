------------------------- MODULE TimerQueues_proofs -------------------------
(***************************************************************************)
(* Lemmas about the queues of running timers and the walk through them,    *)
(* for any numbers of objects and timers: they stay consistent, and, if    *)
(* callbacks leave the other timers of their object alone, the pointers of *)
(* the walk stay on what is queued.  The proofs about TimerWheel and       *)
(* TimerFd rest on them.                                                   *)
(***************************************************************************)
EXTENDS TimerQueues, AgQueue_proofs

\* The queues are consistent.
QueueInv == QueueType /\ QueuesConsistent

\* The walk is at an object while it is on, and in the callback of a timer.
WalkInv ==
  /\ walk \in WalkType
  /\ walk.pc # "idle" => walk.ob \in Object
  /\ walk.pc = "callback" => walk.to \in Timer

-----------------------------------------------------------------------------
(* The queues *)

\* The queues are consistent when nothing is queued.
LEMMA QueueInitInv == QueueInit => QueueInv /\ WalkInv
<1> SUFFICES ASSUME QueueInit PROVE QueueInv /\ WalkInv  OBVIOUS
<1>1. Entries(<< >>) = {} /\ NoRepeats(<< >>)
  BY EmptySeq DEF Entries, NoRepeats
<1>2. QueueType  BY EmptySeq DEF QueueInit, QueueType
<1>3. ObjectsQueued  BY <1>1 DEF QueueInit, ObjectsQueued
<1>4. TimersLinked  BY <1>1, NilAssumption DEF QueueInit, TimersLinked
<1>5. WalkInv  BY DEF QueueInit, NoWalk, WalkType, WalkInv
<1> QED  BY <1>2, <1>3, <1>4, <1>5 DEF QueueInv, QueuesConsistent

\* An object is appended to agTimerObjQ when its first timer is added.
LEMMA ObjectQueuedOnce ==
  ASSUME QueueInv, NEW o \in Object
  PROVE  LET q == IF timers[o] = << >> THEN TailqInsertTail(objq, o) ELSE objq
         IN  /\ q \in Seq(Object)
             /\ NoRepeats(q)
             /\ Entries(q) = Entries(objq) \cup {o}
<1>1. objq \in Seq(Object) /\ NoRepeats(objq)
  BY DEF QueueInv, QueueType, QueuesConsistent, ObjectsQueued
<1>2. CASE timers[o] = << >>
  <2>1. o \notin Entries(objq)
    BY <1>2 DEF QueueInv, QueuesConsistent, ObjectsQueued
  <2> QED  BY <1>1, <1>2, <2>1, InsertTailProperties
<1>3. CASE timers[o] # << >>
  <2>1. o \in Entries(objq)
    BY <1>3 DEF QueueInv, QueuesConsistent, ObjectsQueued
  <2> QED  BY <1>1, <1>3, <2>1
<1> QED  BY <1>2, <1>3

\* A timer that runs on no other object is attached to o, the list of which
\* becomes q: the queues stay consistent.
LEMMA AttachedInv ==
  ASSUME QueueInv, NEW o \in Object, NEW t \in Timer, tobj[t] \in {Nil, o},
         NEW q \in Seq(Timer), NoRepeats(q), Entries(q) = Entries(timers[o]) \cup {t},
         Attached(o, t, q), live' \in SUBSET Timer, live \cup {t} \subseteq live'
  PROVE  QueueInv'
<1>1. /\ objq' \in Seq(Object) /\ NoRepeats(objq')
      /\ Entries(objq') = Entries(objq) \cup {o}
  BY ObjectQueuedOnce DEF Attached
<1>2. /\ timers' = [timers EXCEPT ![o] = q] /\ tobj' = [tobj EXCEPT ![t] = o]
      /\ UNCHANGED <<onext, tnext>>
  BY DEF Attached
<1>3. \A p \in Object : timers'[p] = IF p = o THEN q ELSE timers[p]
  BY <1>2 DEF QueueInv, QueueType
<1>4. QueueType'  BY <1>1, <1>2 DEF QueueInv, QueueType
<1>5. ObjectsQueued'
  <2>1. q # << >>  BY EntriesType
  <2> QED  BY <2>1, <1>1, <1>3 DEF QueueInv, QueuesConsistent, ObjectsQueued
<1>6. TimersLinked'
  <2>1. /\ \A p \in Object : NoRepeats(timers[p])
        /\ \A p \in Object, u \in Timer : u \in Entries(timers[p]) <=> tobj[u] = p
        /\ \A u \in Timer : tobj[u] # Nil => u \in live
    BY DEF QueueInv, QueuesConsistent, TimersLinked
  <2>2. \A u \in Timer : tobj'[u] = IF u = t THEN o ELSE tobj[u]
    BY <1>2 DEF QueueInv, QueueType
  <2>3. \A p \in Object : NoRepeats(timers'[p])  BY <2>1, <1>3
  <2>4. ASSUME NEW p \in Object, NEW u \in Timer
        PROVE  u \in Entries(timers'[p]) <=> tobj'[u] = p
    <3>1. p # Nil /\ o # Nil  BY NilAssumption
    <3>2. u \in Entries(timers'[p]) <=> u \in Entries(timers[p]) \/ (p = o /\ u = t)
      BY <1>3
    <3>3. CASE u = t  BY <2>1, <2>2, <3>1, <3>2, <3>3
    <3>4. CASE u # t  BY <2>1, <2>2, <3>2, <3>4
    <3> QED  BY <3>3, <3>4
  <2>5. \A u \in Timer : tobj'[u] # Nil => u \in live'  BY <2>1, <2>2
  <2> QED  BY <2>3, <2>4, <2>5 DEF TimersLinked
<1> QED  BY <1>4, <1>5, <1>6 DEF QueueInv, QueuesConsistent

\* The list of o is put in another order: the queues stay consistent.
LEMMA ReorderedInv ==
  ASSUME QueueInv, NEW o \in Object,
         NEW q \in Seq(Timer), NoRepeats(q), Entries(q) = Entries(timers[o]),
         timers' = [timers EXCEPT ![o] = q], UNCHANGED <<objq, tobj, live, onext, tnext>>
  PROVE  QueueInv'
<1>1. \A p \in Object : timers'[p] = IF p = o THEN q ELSE timers[p]
  BY DEF QueueInv, QueueType
<1>2. timers[o] \in Seq(Timer)  BY DEF QueueInv, QueueType
<1>3. q = << >> <=> timers[o] = << >>
  <2>1. q # << >> => Entries(q) # {}  BY EntriesType
  <2>2. timers[o] # << >> => Entries(timers[o]) # {}  BY <1>2, EntriesType
  <2>3. Entries(<< >>) = {}  BY EmptySeq DEF Entries
  <2> QED  BY <2>1, <2>2, <2>3
<1>4. QueueType'  BY DEF QueueInv, QueueType
<1>5. ObjectsQueued'  BY <1>1, <1>3 DEF QueueInv, QueuesConsistent, ObjectsQueued
<1>6. TimersLinked'  BY <1>1 DEF QueueInv, QueuesConsistent, TimersLinked
<1> QED  BY <1>4, <1>5, <1>6 DEF QueueInv, QueuesConsistent

\* AG_DelTimer keeps the queues consistent: the last timer of an object takes it
\* off agTimerObjQ.
LEMMA CancelledInv ==
  ASSUME QueueInv, NEW o \in Object, NEW t \in Timer, Cancelled(o, t)
  PROVE  QueueInv'
<1>0. QueueType /\ ObjectsQueued /\ TimersLinked  BY DEF QueueInv, QueuesConsistent
<1>1. CASE t \notin Entries(timers[o])
  BY <1>0, <1>1 DEF Cancelled, qvars, QueueInv, QueueType, QueuesConsistent,
                    ObjectsQueued, TimersLinked
<1>2. CASE t \in Entries(timers[o])
  <2> DEFINE r == TailqRemove(timers[o], t)
  <2>1. timers[o] \in Seq(Timer) /\ NoRepeats(timers[o])
    BY <1>0 DEF QueueType, TimersLinked
  <2>2. /\ r \in Seq(Timer) /\ Entries(r) = Entries(timers[o]) \ {t} /\ NoRepeats(r)
        /\ r = << >> <=> Len(timers[o]) = 1
    BY <2>1, <1>2, RemoveProperties
  <2>3. timers[o] # << >> /\ o \in Entries(objq)
    BY <1>0, <2>1, <1>2, EntriesType DEF ObjectsQueued
  <2>4. TailqNext(timers[o], t, Nil) \in Timer \cup {Nil}
    BY <2>1, <1>2, TailqFirstNext
  <2>5. objq \in Seq(Object) /\ NoRepeats(objq)
    BY <1>0 DEF QueueType, ObjectsQueued
  <2>6. TailqNext(objq, o, Nil) \in Object \cup {Nil}
    BY <2>5, <2>3, TailqFirstNext
  <2>7. /\ TailqRemove(objq, o) \in Seq(Object) /\ NoRepeats(TailqRemove(objq, o))
        /\ Entries(TailqRemove(objq, o)) = Entries(objq) \ {o}
    BY <2>5, <2>3, RemoveProperties
  <2>8. /\ tobj' = [tobj EXCEPT ![t] = Nil]
        /\ tnext' = [tnext EXCEPT ![t] = Stale(TailqNext(timers[o], t, Nil))]
        /\ timers' = [timers EXCEPT ![o] = r]
        /\ live' = live \ (AutoTimer \cap {t})
    BY <1>2 DEF Cancelled, Detached
  <2>9. /\ r = << >> => /\ objq' = TailqRemove(objq, o)
                        /\ onext' = [onext EXCEPT ![o] = Stale(TailqNext(objq, o, Nil))]
        /\ r # << >> => objq' = objq /\ onext' = onext
    BY <1>2, <2>2 DEF Cancelled, Detached
  <2> HIDE DEF r
  <2>10. QueueType'
    <3>1. Stale(TailqNext(timers[o], t, Nil)) \in Timer \cup {Nil}  BY <2>4 DEF Stale
    <3>2. Stale(TailqNext(objq, o, Nil)) \in Object \cup {Nil}  BY <2>6 DEF Stale
    <3> QED  BY <1>0, <3>1, <3>2, <2>2, <2>7, <2>8, <2>9 DEF QueueType
  <2>11. \A p \in Object : timers'[p] = IF p = o THEN r ELSE timers[p]
    BY <1>0, <2>8 DEF QueueType
  <2>12. ObjectsQueued'
    BY <1>0, <2>3, <2>7, <2>9, <2>11 DEF ObjectsQueued
  <2>13. TimersLinked'
    <3>1. \A u \in Timer : tobj'[u] = IF u = t THEN Nil ELSE tobj[u]
      BY <1>0, <2>8 DEF QueueType
    <3>2. /\ \A p \in Object : NoRepeats(timers[p])
          /\ \A p \in Object, u \in Timer : u \in Entries(timers[p]) <=> tobj[u] = p
          /\ \A u \in Timer : tobj[u] # Nil => u \in live
      BY <1>0 DEF TimersLinked
    <3>3. \A p \in Object : NoRepeats(timers'[p])  BY <2>11, <3>2, <2>2
    <3>4. \A p \in Object, u \in Timer :
            u \in Entries(timers'[p]) <=> u \in Entries(timers[p]) /\ u # t
      <4>1. tobj[t] = o  BY <1>2, <3>2
      <4> QED  BY <4>1, <2>11, <3>2, <2>2
    <3>5. \A p \in Object, u \in Timer : u \in Entries(timers'[p]) <=> tobj'[u] = p
      BY <3>1, <3>2, <3>4, NilAssumption
    <3>6. \A u \in Timer : tobj'[u] # Nil => u \in live'
      BY <3>1, <3>2, <2>8
    <3> QED  BY <3>3, <3>5, <3>6 DEF TimersLinked
  <2> QED  BY <2>10, <2>12, <2>13 DEF QueueInv, QueuesConsistent
<1> QED  BY <1>1, <1>2

\* AG_DelTimers keeps the queues consistent.
LEMMA AllCancelledInv ==
  ASSUME QueueInv, NEW o \in Object, timers[o] # << >>, AllCancelled(o)
  PROVE  QueueInv'
<1>0. QueueType /\ ObjectsQueued /\ TimersLinked  BY DEF QueueInv, QueuesConsistent
<1>1. o \in Entries(objq)  BY <1>0 DEF ObjectsQueued
<1>2. objq \in Seq(Object) /\ NoRepeats(objq)  BY <1>0 DEF QueueType, ObjectsQueued
<1>3. timers[o] \in Seq(Timer) /\ << >> \in Seq(Timer)
      /\ Entries(<< >>) = {} /\ NoRepeats(<< >>)
  BY <1>0, EmptySeq DEF QueueType, Entries, NoRepeats
<1>4. /\ TailqRemove(objq, o) \in Seq(Object) /\ NoRepeats(TailqRemove(objq, o))
      /\ Entries(TailqRemove(objq, o)) = Entries(objq) \ {o}
  BY <1>1, <1>2, RemoveProperties
<1>5. Stale(TailqNext(objq, o, Nil)) \in Object \cup {Nil}
  BY <1>1, <1>2, TailqFirstNext DEF Stale
<1>6. \A t \in Entries(timers[o]) : Stale(TailqNext(timers[o], t, Nil)) \in Timer \cup {Nil}
  BY <1>3, TailqFirstNext DEF Stale
<1>7. QueueType'
  BY <1>0, <1>3, <1>4, <1>5, <1>6 DEF AllCancelled, QueueType
<1>8. \A p \in Object : timers'[p] = IF p = o THEN << >> ELSE timers[p]
  BY <1>0 DEF AllCancelled, QueueType
<1>9. ObjectsQueued'
  BY <1>0, <1>4, <1>8 DEF AllCancelled, ObjectsQueued
<1>10. TimersLinked'
  <2>1. /\ \A p \in Object : NoRepeats(timers[p])
        /\ \A p \in Object, u \in Timer : u \in Entries(timers[p]) <=> tobj[u] = p
        /\ \A u \in Timer : tobj[u] # Nil => u \in live
    BY <1>0 DEF TimersLinked
  <2>2. /\ tobj' = [t \in Timer |-> IF t \in Entries(timers[o]) THEN Nil ELSE tobj[t]]
        /\ live' = live \ (AutoTimer \cap Entries(timers[o]))
    BY DEF AllCancelled
  <2>3. \A p \in Object : NoRepeats(timers'[p])  BY <2>1, <1>3, <1>8
  <2>4. \A p \in Object, u \in Timer : u \in Entries(timers'[p]) <=> tobj'[u] = p
    BY <2>1, <2>2, <1>3, <1>8, NilAssumption
  <2>5. \A u \in Timer : tobj'[u] # Nil => u \in live'  BY <2>1, <2>2
  <2> QED  BY <2>3, <2>4, <2>5 DEF TimersLinked
<1> QED  BY <1>7, <1>9, <1>10 DEF QueueInv, QueuesConsistent

-----------------------------------------------------------------------------
(* The walk *)

\* What the walk reads next is a timer of the program, or the end of a list.
LEMMA NextTimerType ==
  ASSUME QueueInv, NEW o \in Object, NEW t \in Timer
  PROVE  NextTimer(o, t) \in Timer \cup {Nil}
BY TailqFirstNext DEF NextTimer, QueueInv, QueueType, QueuesConsistent, TimersLinked

\* A step that leaves the queues alone keeps them consistent.
LEMMA QueuesUnchanged ==
  ASSUME QueueInv, UNCHANGED <<objq, timers, tobj, live>>,
         onext' \in [Object -> Object \cup {Nil}], tnext' \in [Timer -> Timer \cup {Nil}]
  PROVE  QueueInv'
BY DEF QueueInv, QueueType, QueuesConsistent, ObjectsQueued, TimersLinked

\* The steps of the walk between callbacks preserve the invariants.
LEMMA WalkStepInv ==
  ASSUME QueueInv, WalkInv,
         \/ WalkBegins \/ WalkEntersObject \/ WalkSkipsTimer \/ WalkCallsTimer
         \/ WalkLeavesObject
  PROVE  QueueInv' /\ WalkInv'
<1>1. CASE WalkBegins
  <2>1. TailqFirst(objq, Nil) \in Object
    BY <1>1, TailqFirstNext DEF WalkBegins, QueueInv, QueueType
  <2>2. WalkInv'  BY <1>1, <2>1 DEF WalkBegins, NoWalk, WalkType, WalkInv
  <2> QED  BY <1>1, <2>2, QueuesUnchanged DEF WalkBegins, qvars, QueueInv, QueueType
<1>2. CASE WalkEntersObject
  <2>1. walk.ob \in Object  BY <1>2 DEF WalkEntersObject, WalkInv
  <2>2. NextObj(walk.ob) \in Object \cup {Nil}
    BY <2>1, TailqFirstNext DEF NextObj, QueueInv, QueueType, QueuesConsistent, ObjectsQueued
  <2>3. TailqFirst(timers[walk.ob], Nil) \in Timer \cup {Nil}
    BY <2>1, TailqFirstNext DEF QueueInv, QueueType
  <2>4. WalkInv'  BY <1>2, <2>1, <2>2, <2>3 DEF WalkEntersObject, WalkType, WalkInv
  <2> QED  BY <1>2, <2>4, QueuesUnchanged DEF WalkEntersObject, qvars, QueueInv, QueueType
<1>3. ASSUME AtTimer PROVE walk.ob \in Object /\ walk.to \in Timer
  BY <1>3 DEF AtTimer, WalkInv, WalkType
<1>4. CASE WalkSkipsTimer
  <2>1. NextTimer(walk.ob, walk.to) \in Timer \cup {Nil}
    BY <1>3, <1>4, NextTimerType DEF WalkSkipsTimer
  <2>2. WalkInv'  BY <1>4, <2>1 DEF WalkSkipsTimer, AtTimer, WalkType, WalkInv
  <2> QED  BY <1>4, <2>2, QueuesUnchanged DEF WalkSkipsTimer, qvars, QueueInv, QueueType
<1>5. CASE WalkCallsTimer
  <2>1. walk.to \in Timer /\ walk.ob \in Object /\ NextTimer(walk.ob, walk.to) \in Timer \cup {Nil}
    BY <1>3, <1>5, NextTimerType DEF WalkCallsTimer
  <2>2. WalkInv'  BY <1>5, <2>1 DEF WalkCallsTimer, WalkType, WalkInv
  <2> QED  BY <1>5, <2>2, QueuesUnchanged DEF WalkCallsTimer, qvars, QueueInv, QueueType
<1>6. CASE WalkLeavesObject
  <2>1. WalkInv'
    <3>1. CASE walk.obNext = Nil
      BY <1>6, <3>1 DEF WalkLeavesObject, NoWalk, WalkType, WalkInv
    <3>2. CASE walk.obNext # Nil
      <4>1. walk.obNext \in Object  BY <3>2 DEF WalkInv, WalkType
      <4> QED  BY <1>6, <3>2, <4>1 DEF WalkLeavesObject, WalkType, WalkInv
    <3> QED  BY <3>1, <3>2
  <2>2. onext' \in [Object -> Object \cup {Nil}] /\ tnext' \in [Timer -> Timer \cup {Nil}]
    BY <1>6 DEF WalkLeavesObject, QueueInv, QueueType
  <2> QED  BY <1>6, <2>1, <2>2, QueuesUnchanged DEF WalkLeavesObject
<1> QED  BY <1>1, <1>2, <1>4, <1>5, <1>6

\* The walk goes on after a callback.
LEMMA WalkGoesOnInv ==
  ASSUME WalkInv, InCallback, NEW to \in Timer \cup {Nil}, WalkGoesOn(to)
  PROVE  WalkInv'
BY DEF InCallback, WalkGoesOn, WalkType, WalkInv

-----------------------------------------------------------------------------
(* The pointers of the walk *)

\* No callback cancels a timer of its own object other than its own.
NoPeers == "peer" \notin MayCancel

\* The timer the walk is at runs on the object it is at; during a callback, so does
\* the one the walk has saved to go on with, and it is another one than the one
\* called back (which the callback may cancel).
WalkSafe ==
  /\ AtTimer => tobj[walk.to] = walk.ob
  /\ InCallback /\ walk.toNext # Nil => tobj[walk.toNext] = walk.ob /\ walk.toNext # walk.to

\* A timer that runs is allocated.
LEMMA SafeWalkIsLive ==
  ASSUME QueueInv, WalkInv, WalkSafe
  PROVE  NoUseAfterFree
<1> SUFFICES ASSUME AtTimer PROVE walk.to \in live  BY DEF NoUseAfterFree
<1>1. walk.to \in Timer /\ walk.ob \in Object  BY DEF AtTimer, WalkInv, WalkType
<1> QED  BY <1>1, NilAssumption DEF WalkSafe, QueueInv, QueuesConsistent, TimersLinked

\* What the walk reads after a timer that runs on its object runs there too.
LEMMA NextTimerRuns ==
  ASSUME QueueInv, WalkInv, WalkSafe, AtTimer, NextTimer(walk.ob, walk.to) # Nil
  PROVE  /\ tobj[NextTimer(walk.ob, walk.to)] = walk.ob
         /\ NextTimer(walk.ob, walk.to) # walk.to
<1> DEFINE o == walk.ob
           t == walk.to
           u == NextTimer(o, t)
<1>1. o \in Object /\ t \in Timer  BY DEF AtTimer, WalkInv, WalkType
<1>2. timers[o] \in Seq(Timer) /\ NoRepeats(timers[o])
  BY <1>1 DEF QueueInv, QueueType, QueuesConsistent, TimersLinked
<1>3. t \in Entries(timers[o])
  BY <1>1 DEF WalkSafe, QueueInv, QueuesConsistent, TimersLinked
<1>4. u = TailqNext(timers[o], t, Nil)  BY <1>3 DEF NextTimer
<1>5. u \in Entries(timers[o]) /\ u # t
  <2> HIDE DEF o, t
  <2> QED  BY <1>2, <1>3, <1>4, FirstNextQueued DEF o, t
<1>6. u \in Timer  BY <1>2, <1>5, EntriesType
<1> HIDE DEF u
<1>7. tobj[u] = o
  BY <1>1, <1>5, <1>6 DEF QueueInv, QueuesConsistent, TimersLinked
<1> QED  BY <1>5, <1>7 DEF u

\* The first timer of an object runs on it.
LEMMA FirstTimerRuns ==
  ASSUME QueueInv, NEW o \in Object, TailqFirst(timers[o], Nil) # Nil
  PROVE  tobj[TailqFirst(timers[o], Nil)] = o
<1>1. timers[o] \in Seq(Timer)  BY DEF QueueInv, QueueType
<1>2. TailqFirst(timers[o], Nil) \in Entries(timers[o])  BY <1>1, FirstNextQueued
<1>3. TailqFirst(timers[o], Nil) \in Timer  BY <1>1, <1>2, EntriesType
<1> QED  BY <1>2, <1>3 DEF QueueInv, QueuesConsistent, TimersLinked

\* The steps of the walk between callbacks keep its pointers to running timers.
LEMMA WalkStepSafe ==
  ASSUME QueueInv, WalkInv, WalkSafe,
         \/ WalkBegins \/ WalkEntersObject \/ WalkSkipsTimer \/ WalkCallsTimer
         \/ WalkLeavesObject
  PROVE  WalkSafe'
<1>0. walk \in WalkType /\ (walk.pc # "idle" => walk.ob \in Object)  BY DEF WalkInv
<1>1. CASE WalkBegins
  BY <1>1 DEF WalkBegins, NoWalk, WalkSafe, AtTimer, InCallback
<1>2. CASE WalkEntersObject
  <2>1. walk.ob \in Object /\ tobj' = tobj  BY <1>0, <1>2 DEF WalkEntersObject, qvars
  <2>2. walk'.pc = "timer" /\ walk'.ob = walk.ob /\ walk'.to = TailqFirst(timers[walk.ob], Nil)
    BY <1>0, <1>2 DEF WalkEntersObject, WalkType
  <2> QED  BY <2>1, <2>2, FirstTimerRuns DEF WalkSafe, AtTimer, InCallback
<1>3. CASE WalkSkipsTimer
  <2>1. AtTimer /\ tobj' = tobj  BY <1>3 DEF WalkSkipsTimer, qvars
  <2>2. walk'.pc = "timer" /\ walk'.ob = walk.ob /\ walk'.to = NextTimer(walk.ob, walk.to)
    BY <1>0, <1>3 DEF WalkSkipsTimer, AtTimer, WalkType
  <2> QED  BY <2>1, <2>2, NextTimerRuns DEF WalkSafe, AtTimer, InCallback
<1>4. CASE WalkCallsTimer
  <2>1. AtTimer /\ tobj' = tobj  BY <1>4 DEF WalkCallsTimer, qvars
  <2>2. /\ walk'.pc = "callback" /\ walk'.ob = walk.ob /\ walk'.to = walk.to
        /\ walk'.toNext = NextTimer(walk.ob, walk.to)
    BY <1>0, <1>4 DEF WalkCallsTimer, WalkType
  <2> QED  BY <2>1, <2>2, NextTimerRuns DEF WalkSafe, AtTimer, InCallback
<1>5. CASE WalkLeavesObject
  <2>1. walk'.pc \in {"idle", "object"}
    <3>1. CASE walk.obNext = Nil  BY <1>5, <3>1 DEF WalkLeavesObject, NoWalk
    <3>2. CASE walk.obNext # Nil  BY <1>0, <1>5, <3>2 DEF WalkLeavesObject, WalkType
    <3> QED  BY <3>1, <3>2
  <2> QED  BY <2>1 DEF WalkSafe, AtTimer, InCallback
<1> QED  BY <1>1, <1>2, <1>3, <1>4, <1>5

\* A call the application makes keeps them if the timer saved for later, if any,
\* stays where it runs.
LEMMA CallSafe ==
  ASSUME WalkInv, WalkSafe, MayCall, UNCHANGED walk,
         InCallback /\ walk.toNext # Nil => tobj'[walk.toNext] = tobj[walk.toNext]
  PROVE  WalkSafe'
BY DEF WalkSafe, MayCall, AtTimer, InCallback

\* A timer that is started, or started again where it runs, disturbs no other.
LEMMA StartSafe ==
  ASSUME QueueInv, WalkInv, WalkSafe, MayCall, UNCHANGED walk,
         NEW o \in Object, NEW t \in Timer, tobj[t] \in {Nil, o},
         tobj' = [tobj EXCEPT ![t] = o] \/ UNCHANGED tobj
  PROVE  WalkSafe'
<1>1. tobj \in [Timer -> Object \cup {Nil}]  BY DEF QueueInv, QueueType
<1>2. InCallback /\ walk.toNext # Nil =>
        tobj[walk.toNext] = walk.ob /\ walk.ob # Nil /\ walk.toNext \in Timer
  BY NilAssumption DEF WalkSafe, InCallback, WalkInv, WalkType
<1> QED  BY <1>1, <1>2, CallSafe

\* The callbacks cancel no peer: the timer saved for later keeps running.
LEMMA CancelSafe ==
  ASSUME QueueInv, WalkInv, WalkSafe, NoPeers,
         NEW o \in Object, NEW t \in Timer, MayCancelTimer(o, t), Cancelled(o, t), UNCHANGED walk
  PROVE  WalkSafe'
<1>1. tobj \in [Timer -> Object \cup {Nil}]  BY DEF QueueInv, QueueType
<1>2. CASE t \notin Entries(timers[o])
  BY <1>2, CallSafe DEF Cancelled, qvars, MayCancelTimer
<1>3. CASE t \in Entries(timers[o])
  <2>1. tobj[t] = o /\ tobj' = [tobj EXCEPT ![t] = Nil]
    BY <1>3 DEF Cancelled, Detached, QueueInv, QueuesConsistent, TimersLinked
  <2>2. InCallback => t = walk.to \/ o # walk.ob
    BY DEF MayCancelTimer, NoPeers, InCallback
  <2>3. InCallback /\ walk.toNext # Nil => walk.toNext # t
    BY <2>1, <2>2 DEF WalkSafe
  <2>4. InCallback /\ walk.toNext # Nil => tobj'[walk.toNext] = tobj[walk.toNext]
    BY <1>1, <2>1, <2>3 DEF WalkInv, WalkType
  <2> QED  BY <2>4, CallSafe DEF MayCancelTimer
<1> QED  BY <1>2, <1>3

\* AG_DelTimers is called on other objects only.
LEMMA CancelAllSafe ==
  ASSUME QueueInv, WalkInv, WalkSafe,
         NEW o \in Object, MayCancelAll(o), AllCancelled(o), UNCHANGED walk
  PROVE  WalkSafe'
<1>1. InCallback => o # walk.ob  BY DEF MayCancelAll, InCallback
<1>2. InCallback /\ walk.toNext # Nil =>
        walk.toNext \in Timer /\ walk.toNext \notin Entries(timers[o])
  BY <1>1 DEF WalkSafe, WalkInv, WalkType, QueueInv, QueuesConsistent, TimersLinked
<1>3. InCallback /\ walk.toNext # Nil => tobj'[walk.toNext] = tobj[walk.toNext]
  BY <1>2 DEF AllCancelled
<1> QED  BY <1>3, CallSafe DEF MayCancelAll

\* After a callback, the walk goes on with a timer that runs where it is.
LEMMA GoesOnSafe ==
  ASSUME WalkInv, InCallback, NEW to, WalkGoesOn(to),
         to # Nil => tobj'[to] = walk.ob
  PROVE  WalkSafe'
<1>1. walk'.pc = "timer" /\ walk'.ob = walk.ob /\ walk'.to = to
  BY DEF WalkGoesOn, WalkInv, WalkType
<1> QED  BY <1>1 DEF WalkSafe, AtTimer, InCallback

\* AG_DelTimer of the timer called back leaves the one saved for later running.
LEMMA OwnCancelSafe ==
  ASSUME QueueInv, WalkInv, WalkSafe, InCallback,
         Cancelled(walk.ob, walk.to), WalkGoesOn(walk.toNext)
  PROVE  WalkSafe'
<1>1. tobj \in [Timer -> Object \cup {Nil}] /\ walk.to \in Timer
      /\ walk.toNext \in Timer \cup {Nil}
  BY DEF InCallback, QueueInv, QueueType, WalkInv, WalkType
<1>2. tobj' = tobj \/ tobj' = [tobj EXCEPT ![walk.to] = Nil]
  BY DEF Cancelled, Detached, qvars
<1>3. walk.toNext # Nil => tobj'[walk.toNext] = walk.ob
  BY <1>1, <1>2 DEF WalkSafe
<1> QED  BY <1>3, GoesOnSafe
=============================================================================
