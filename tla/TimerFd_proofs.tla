--------------------------- MODULE TimerFd_proofs ---------------------------
(***************************************************************************)
(* Proofs about TimerFd, for any numbers of objects, timers and            *)
(* descriptors: with or without other threads, no descriptor is shared or  *)
(* lost and the queues stay consistent; if callbacks cancel no timer of    *)
(* their object, no freed timer is read; under the rules NoPeers and       *)
(* OneThread the abstract service is implemented.                          *)
(***************************************************************************)
EXTENDS TimerFd, TimerQueues_proofs, WellFoundedInduction

Running == {t \in Timer : tobj[t] # Nil}

\* The type of what this module adds to the queues.
FdType ==
  /\ tfd \in [Timer -> Fd \cup {NoFd}]
  /\ open \in SUBSET Fd
  /\ remain \in [Fd -> Int]
  /\ rdFds \in SUBSET Fd
  /\ sink \in {"idle", "select", "ready"}

\* The inductive invariant.
IInv == QueueInv /\ WalkInv /\ FdType /\ FdsOwned

-----------------------------------------------------------------------------
(* Descriptors *)

\* timerfd_create returns a descriptor that is not in use.
LEMMA LowestFdFree ==
  ASSUME FdType, open # Fd
  PROVE  LowestFd \in Fd /\ LowestFd \notin open
<1> DEFINE Free == Fd \ open
<1>1. Free \subseteq Nat /\ Free # {}
  <2>1. open \subseteq Fd  BY DEF FdType
  <2>2. Fd \subseteq Nat  BY NFdsAssumption DEF Fd
  <2> QED  BY <2>1, <2>2
<1>2. PICK f \in Free : \A g \in Free : <<g, f>> \notin OpToRel(<, Nat)
  <2> HIDE DEF Free
  <2> QED  BY <1>1, NatLessThanWellFounded, WFMin
<1>3. ASSUME NEW g \in Free PROVE f <= g
  <2>1. f \in Nat /\ g \in Nat  BY <1>1
  <2>2. ASSUME g < f PROVE FALSE
    <3>1. g \in Nat /\ f \in Nat /\ g < f  BY <2>1, <2>2
    <3>2. <<g, f>> \in OpToRel(<, Nat)  BY <3>1 DEF OpToRel
    <3> QED  BY <1>2, <3>2
  <2> QED  BY <2>1, <2>2
<1> QED  BY <1>3 DEF LowestFd

\* A timer that did not run gets a descriptor: it shares it with no other.
LEMMA CreatedInv ==
  ASSUME FdType, FdsOwned, QueueType, NEW o \in Object, NEW t \in Timer, tobj[t] = Nil,
         NEW ival \in Ivals, Created(t, ival), tobj' = [tobj EXCEPT ![t] = o],
         UNCHANGED <<rdFds, sink>>
  PROVE  FdType' /\ FdsOwned'
<1> DEFINE f == LowestFd
<1>1. f \in Fd /\ f \notin open  BY LowestFdFree DEF Created
<1>2. /\ tfd' = [tfd EXCEPT ![t] = f] /\ open' = open \cup {f}
      /\ remain' = [remain EXCEPT ![f] = ival]
  BY DEF Created, Armed
<1> HIDE DEF f
<1>3. FdType'  BY <1>1, <1>2, IvalsAssumption DEF FdType
<1>4. /\ \A u \in Timer : tobj'[u] = IF u = t THEN o ELSE tobj[u]
      /\ \A u \in Timer : tfd'[u] = IF u = t THEN f ELSE tfd[u]
      /\ o # Nil
  BY <1>2, NilAssumption DEF QueueType, FdType
<1>5. FdsOwned'  BY <1>1, <1>2, <1>4 DEF FdsOwned
<1> QED  BY <1>3, <1>5

\* Timers that stop close their descriptors, and no other timer's.
LEMMA ClosedInv ==
  ASSUME FdType, FdsOwned, QueueType, NEW S \in SUBSET Running, Closed(S),
         \A u \in Timer : tobj'[u] = IF u \in S THEN Nil ELSE tobj[u],
         rdFds' \in SUBSET rdFds, UNCHANGED sink
  PROVE  FdType' /\ FdsOwned'
<1>1. \A u \in Timer : tfd'[u] = IF u \in S THEN NoFd ELSE tfd[u]
  BY DEF Closed
<1>2. open' = open \ {tfd[u] : u \in S}  BY DEF Closed
<1>3. FdType'
  BY <1>2 DEF Closed, FdType, Running
<1>4. S \subseteq Timer  BY DEF Running
<1>5. \A t, u \in Timer : tobj[t] # Nil /\ tobj[u] # Nil /\ tfd[t] = tfd[u] => t = u
  BY DEF FdsOwned
<1>6. open' = {tfd'[u] : u \in {v \in Timer : tobj'[v] # Nil}}
  <2>1. ASSUME NEW f \in open' PROVE \E u \in Timer : tobj'[u] # Nil /\ f = tfd'[u]
    <3>1. PICK u \in Timer : tobj[u] # Nil /\ f = tfd[u]  BY <1>2, <2>1 DEF FdsOwned
    <3>2. u \notin S  BY <1>2, <2>1, <3>1
    <3> QED  BY <1>1, <3>1, <3>2
  <2>2. ASSUME NEW u \in Timer, tobj'[u] # Nil PROVE tfd'[u] \in open'
    <3>1. u \notin S /\ tobj[u] # Nil  BY <2>2
    <3>2. tfd'[u] = tfd[u] /\ tfd[u] \in open  BY <1>1, <3>1 DEF FdsOwned
    <3>3. \A v \in S : tfd[v] # tfd[u]  BY <1>4, <1>5, <3>1 DEF Running
    <3> QED  BY <1>2, <3>2, <3>3
  <2> QED  BY <2>1, <2>2
<1>7. \A t, u \in Timer : tobj'[t] # Nil /\ tobj'[u] # Nil /\ tfd'[t] = tfd'[u] => t = u
  BY <1>1, <1>5
<1> QED  BY <1>3, <1>6, <1>7 DEF FdsOwned

\* Arming a descriptor keeps the descriptors as they are.
LEMMA ArmedInv ==
  ASSUME FdType, FdsOwned, NEW f, NEW ival \in Ivals, Armed(f, ival),
         UNCHANGED <<tfd, open, tobj, rdFds, sink>>
  PROVE  FdType' /\ FdsOwned'
<1>1. remain' \in [Fd -> Int]
  <2>1. ival \in Int  BY IvalsAssumption
  <2>2. remain \in [Fd -> Int] /\ remain' = [remain EXCEPT ![f] = ival]
    BY DEF FdType, Armed
  <2> QED  BY <2>1, <2>2
<1>2. FdType'  BY <1>1 DEF FdType
<1>3. FdsOwned'  BY DEF FdsOwned
<1> QED  BY <1>2, <1>3

-----------------------------------------------------------------------------
(* The operations *)

LEMMA ApplicationInv == ASSUME IInv, Application PROVE IInv'
<1>0. /\ QueueInv /\ WalkInv /\ FdType /\ FdsOwned
      /\ QueueType /\ ObjectsQueued /\ TimersLinked
  BY DEF IInv, QueueInv, QueuesConsistent
<1>1. ASSUME NEW o \in Object, NEW t \in Timer, tobj[t] = Nil,
             Attached(o, t, TailqInsertTail(timers[o], t)),
             live' \in SUBSET Timer, live \cup {t} \subseteq live'
      PROVE  QueueInv' /\ tobj' = [tobj EXCEPT ![t] = o]
  <2> DEFINE q == TailqInsertTail(timers[o], t)
  <2>1. timers[o] \in Seq(Timer) /\ NoRepeats(timers[o]) /\ t \notin Entries(timers[o])
    BY <1>0, <1>1, NilAssumption DEF QueueType, TimersLinked
  <2>2. q \in Seq(Timer) /\ Entries(q) = Entries(timers[o]) \cup {t} /\ NoRepeats(q)
    BY <2>1, InsertTailProperties
  <2>3. Attached(o, t, q)  BY <1>1
  <2>4. tobj' = [tobj EXCEPT ![t] = o]  BY <1>1 DEF Attached
  <2> HIDE DEF q
  <2> QED  BY <1>0, <1>1, <2>2, <2>3, <2>4, AttachedInv
<1>2. ASSUME NEW o \in Object, NEW t \in Timer, NEW ival \in Ivals, AddTimer(o, t, ival)
      PROVE  IInv'
  <2>1. QueueInv' /\ tobj' = [tobj EXCEPT ![t] = o]
    BY <1>0, <1>1, <1>2 DEF AddTimer, QueueType
  <2>2. FdType' /\ FdsOwned'  BY <1>0, <1>2, <2>1, CreatedInv DEF AddTimer
  <2> QED  BY <1>0, <1>2, <2>1, <2>2 DEF AddTimer, IInv, WalkInv
<1>3. ASSUME NEW o \in Object, NEW t \in Timer, NEW ival \in Ivals, AddTimerAuto(o, t, ival)
      PROVE  IInv'
  <2>1. tobj[t] = Nil  BY <1>0, <1>3 DEF AddTimerAuto, TimersLinked
  <2>2. QueueInv' /\ tobj' = [tobj EXCEPT ![t] = o]
    BY <1>0, <1>1, <1>3, <2>1 DEF AddTimerAuto, QueueType
  <2>3. FdType' /\ FdsOwned'  BY <1>0, <1>3, <2>1, <2>2, CreatedInv DEF AddTimerAuto
  <2> QED  BY <1>0, <1>3, <2>2, <2>3 DEF AddTimerAuto, IInv, WalkInv
<1>4. ASSUME NEW o \in Object, NEW t \in Timer, NEW ival \in Ivals, ResetTimer(o, t, ival)
      PROVE  IInv'
  <2>1. QueueInv'
    BY <1>0, <1>4, QueuesUnchanged DEF ResetTimer, qvars, QueueType
  <2>2. FdType' /\ FdsOwned'  BY <1>0, <1>4, ArmedInv DEF ResetTimer, qvars
  <2> QED  BY <1>0, <1>4, <2>1, <2>2 DEF ResetTimer, IInv, WalkInv
<1>5. ASSUME NEW o \in Object, NEW t \in Timer, DelTimer(o, t)
      PROVE  IInv'
  <2>1. QueueInv'  BY <1>0, <1>5, CancelledInv DEF DelTimer
  <2>2. t \in Running  BY <1>0, <1>5, NilAssumption DEF DelTimer, TimersLinked, Running
  <2>3. \A u \in Timer : tobj'[u] = IF u \in {t} THEN Nil ELSE tobj[u]
    BY <1>0, <1>5 DEF DelTimer, Cancelled, Detached, QueueType
  <2>4. FdType' /\ FdsOwned'  BY <1>0, <1>5, <2>2, <2>3, ClosedInv DEF DelTimer
  <2> QED  BY <1>0, <1>5, <2>1, <2>4 DEF DelTimer, IInv, WalkInv
<1>6. ASSUME NEW o \in Object, DelTimers(o)
      PROVE  IInv'
  <2>1. QueueInv'  BY <1>0, <1>6, AllCancelledInv DEF DelTimers, MayCancelAll
  <2>2. Entries(timers[o]) \subseteq Timer
    BY <1>0, EntriesType DEF QueueType
  <2>3. Entries(timers[o]) \in SUBSET Running
    BY <1>0, <2>2, NilAssumption DEF TimersLinked, Running
  <2>4. \A u \in Timer : tobj'[u] = IF u \in Entries(timers[o]) THEN Nil ELSE tobj[u]
    BY <1>6 DEF DelTimers, AllCancelled
  <2>5. FdType' /\ FdsOwned'
    BY <1>0, <1>6, <2>3, <2>4, ClosedInv DEF DelTimers
  <2> QED  BY <1>0, <1>6, <2>1, <2>5 DEF DelTimers, IInv, WalkInv
<1> QED  BY <1>2, <1>3, <1>4, <1>5, <1>6 DEF Application

-----------------------------------------------------------------------------
(* The sink *)

LEMMA SinkInv ==
  ASSUME IInv, EventSink \/ SelectInterrupted \/ SelectReturnsForIO
  PROVE  IInv'
<1>0. /\ QueueInv /\ WalkInv /\ FdType /\ FdsOwned
      /\ QueueType /\ ObjectsQueued /\ TimersLinked
  BY DEF IInv, QueueInv, QueuesConsistent
<1>1. ASSUME UNCHANGED <<qvars, walk, fdvars>>, rdFds' \in SUBSET Fd,
             sink' \in {"idle", "select", "ready"}
      PROVE  IInv'
  <2>1. QueueInv'  BY <1>0, <1>1, QueuesUnchanged DEF qvars, QueueType
  <2> QED  BY <1>0, <1>1, <2>1 DEF qvars, fdvars, IInv, WalkInv, FdType, FdsOwned
<1>2. ASSUME QueueInv', WalkInv', UNCHANGED <<tobj, fdvars>>, rdFds' \in SUBSET Fd,
             sink' \in {"idle", "select", "ready"}
      PROVE  IInv'
  BY <1>0, <1>2 DEF fdvars, IInv, FdType, FdsOwned
<1>3. CASE BuildSets
  <2>1. \A t \in Timer : tobj[t] # Nil => tfd[t] \in Fd
    BY <1>0 DEF FdsOwned, FdType
  <2> QED  BY <1>1, <1>3, <2>1 DEF BuildSets
<1>4. CASE SelectReturns \/ SelectReturnsForIO \/ SelectInterrupted \/ NothingToWalk
  BY <1>0, <1>1, <1>4 DEF SelectReturns, SelectReturnsForIO, SelectInterrupted,
                          NothingToWalk, FdType
<1>5. CASE BeginWalk
  <2>1. QueueInv' /\ WalkInv'  BY <1>0, <1>5, WalkStepInv DEF BeginWalk
  <2> QED  BY <1>0, <1>2, <1>5, <2>1 DEF BeginWalk, WalkBegins, qvars, FdType
<1>6. CASE EnterObject
  <2>1. QueueInv' /\ WalkInv'  BY <1>0, <1>6, WalkStepInv DEF EnterObject
  <2> QED  BY <1>0, <1>2, <1>6, <2>1 DEF EnterObject, WalkEntersObject, qvars, FdType
<1>7. CASE SkipTimer
  <2>1. QueueInv' /\ WalkInv'  BY <1>0, <1>7, WalkStepInv DEF SkipTimer
  <2> QED  BY <1>0, <1>2, <1>7, <2>1 DEF SkipTimer, WalkSkipsTimer, qvars, FdType
<1>8. CASE CallTimer
  <2>1. QueueInv' /\ WalkInv'  BY <1>0, <1>8, WalkStepInv DEF CallTimer
  <2> QED  BY <1>0, <1>2, <1>8, <2>1 DEF CallTimer, WalkCallsTimer, qvars, FdType
<1>9. CASE LeaveObject
  <2>1. QueueInv' /\ WalkInv'  BY <1>0, <1>9, WalkStepInv DEF LeaveObject
  <2> QED  BY <1>0, <1>2, <1>9, <2>1 DEF LeaveObject, WalkLeavesObject, FdType
<1>10. InCallback => walk.ob \in Object /\ walk.to \in Timer
                     /\ walk.toNext \in Timer \cup {Nil}
  BY <1>0 DEF InCallback, WalkInv, WalkType
<1>11. ASSUME NEW ival \in Ivals, CallbackRestarts(ival)  PROVE IInv'
  <2>1. QueueInv'
    BY <1>0, <1>11, QueuesUnchanged DEF CallbackRestarts, qvars, QueueType
  <2>2. WalkInv'  BY <1>0, <1>10, <1>11, WalkGoesOnInv DEF CallbackRestarts
  <2>3. FdType' /\ FdsOwned'  BY <1>0, <1>11, ArmedInv DEF CallbackRestarts, qvars
  <2> QED  BY <2>1, <2>2, <2>3 DEF IInv
<1>12. CASE CallbackCancels
  <2>1. QueueInv'  BY <1>0, <1>10, <1>12, CancelledInv DEF CallbackCancels
  <2>2. WalkInv'  BY <1>0, <1>10, <1>12, WalkGoesOnInv DEF CallbackCancels
  <2>3. walk.to \in Entries(timers[walk.ob]) <=> tobj[walk.to] = walk.ob
    BY <1>0, <1>10, <1>12 DEF CallbackCancels, TimersLinked
  <2>4. CASE tobj[walk.to] = walk.ob
    <3>1. walk.to \in Running
      BY <1>10, <1>12, <2>4, NilAssumption DEF CallbackCancels, Running
    <3>2. \A u \in Timer : tobj'[u] = IF u \in {walk.to} THEN Nil ELSE tobj[u]
      BY <1>0, <1>12, <2>3, <2>4 DEF CallbackCancels, Cancelled, Detached, QueueType
    <3>3. Closed({walk.to}) /\ rdFds' \in SUBSET rdFds /\ sink' = sink
      BY <1>12, <2>4 DEF CallbackCancels, Cleared
    <3>4. FdType' /\ FdsOwned'  BY <1>0, <3>1, <3>2, <3>3, ClosedInv
    <3> QED  BY <2>1, <2>2, <3>4 DEF IInv
  <2>5. CASE tobj[walk.to] # walk.ob
    <3>1. UNCHANGED <<tobj, fdvars, sink>> /\ rdFds' \in SUBSET Fd
      BY <1>0, <1>12, <2>3, <2>5 DEF CallbackCancels, Cleared, Cancelled, qvars, FdType
    <3> QED  BY <1>0, <1>2, <2>1, <2>2, <3>1 DEF FdType
  <2> QED  BY <2>4, <2>5
<1> QED
  BY <1>3, <1>4, <1>5, <1>6, <1>7, <1>8, <1>9, <1>11, <1>12 DEF EventSink

-----------------------------------------------------------------------------
(* The theorems *)

\* The invariant holds of the initial state.
LEMMA InitInv == Init => IInv
<1> SUFFICES ASSUME Init PROVE IInv  OBVIOUS
<1>1. QueueInv /\ WalkInv  BY QueueInitInv DEF Init
<1>2. FdType  BY DEF Init, FdType
<1>3. FdsOwned  BY DEF Init, QueueInit, FdsOwned
<1> QED  BY <1>1, <1>2, <1>3 DEF IInv

\* Every step preserves the invariant.
LEMMA NextInv == IInv /\ [Next]_vars => IInv'
<1> SUFFICES ASSUME IInv, [Next]_vars PROVE IInv'  OBVIOUS
<1>1. CASE Application  BY <1>1, ApplicationInv
<1>2. CASE EventSink \/ SelectInterrupted \/ SelectReturnsForIO  BY <1>2, SinkInv
<1>3. ASSUME UNCHANGED qvars PROVE QueueInv'
  BY <1>3, QueuesUnchanged DEF qvars, IInv, QueueInv, QueueType
<1>4. CASE Tick
  <2>1. remain' \in [Fd -> Int]  BY <1>4 DEF Tick, IInv, FdType
  <2> QED  BY <1>3, <1>4, <2>1 DEF Tick, qvars, IInv, WalkInv, FdType, FdsOwned
<1>5. CASE UNCHANGED vars
  BY <1>3, <1>5 DEF vars, qvars, IInv, WalkInv, FdType, FdsOwned
<1> QED  BY <1>1, <1>2, <1>4, <1>5 DEF Next

\* The state keeps its type in every behaviour.
THEOREM TypeCorrect == Spec => []TypeOK
<1>1. IInv => TypeOK  BY DEF IInv, QueueInv, WalkInv, FdType, TypeOK
<1> QED  BY <1>1, InitInv, NextInv, PTL DEF Spec

\* In every behaviour, each running timer has a descriptor of its own and no
\* other timer descriptor is open: whatever starts and stops timers in whatever
\* order, callbacks and other threads included, none is shared and none leaks.
THEOREM DescriptorsOwned == Spec => []FdsOwned
<1>1. IInv => FdsOwned  BY DEF IInv
<1> QED  BY <1>1, InitInv, NextInv, PTL DEF Spec

-----------------------------------------------------------------------------
(* The pointers of the walk *)

\* Every step keeps the pointers of the walk to timers that run, provided that the
\* callbacks cancel no peer of theirs.
LEMMA NextSafe ==
  ASSUME NoPeers, IInv, WalkSafe, [Next]_vars
  PROVE  WalkSafe'
<1>0. QueueInv /\ WalkInv /\ tobj \in [Timer -> Object \cup {Nil}]
  BY DEF IInv, QueueInv, QueueType
<1>1. ASSUME UNCHANGED <<tobj, walk>>  PROVE WalkSafe'
  BY <1>1 DEF WalkSafe, AtTimer, InCallback
<1>2. CASE Application
  <2>1. ASSUME NEW o \in Object, NEW t \in Timer, NEW ival \in Ivals,
               AddTimer(o, t, ival) \/ AddTimerAuto(o, t, ival)
        PROVE  WalkSafe'
    <3>1. MayCall /\ walk' = walk /\ tobj' = [tobj EXCEPT ![t] = o]
      BY <2>1 DEF AddTimer, AddTimerAuto, MayStart, Attached
    <3>2. tobj[t] = Nil
      BY <1>0, <2>1 DEF AddTimer, AddTimerAuto, QueueInv, QueuesConsistent, TimersLinked
    <3> QED  BY <1>0, <3>1, <3>2, StartSafe
  <2>2. ASSUME NEW o \in Object, NEW t \in Timer, NEW ival \in Ivals, ResetTimer(o, t, ival)
        PROVE  WalkSafe'
    BY <1>1, <2>2 DEF ResetTimer, qvars
  <2>3. ASSUME NEW o \in Object, NEW t \in Timer, DelTimer(o, t)  PROVE WalkSafe'
    BY <1>0, <2>3, CancelSafe DEF DelTimer
  <2>4. ASSUME NEW o \in Object, DelTimers(o)  PROVE WalkSafe'
    BY <1>0, <2>4, CancelAllSafe DEF DelTimers
  <2> QED  BY <1>2, <2>1, <2>2, <2>3, <2>4 DEF Application
<1>3. CASE BeginWalk \/ EnterObject \/ SkipTimer \/ CallTimer \/ LeaveObject
  BY <1>0, <1>3, WalkStepSafe DEF BeginWalk, EnterObject, SkipTimer, CallTimer, LeaveObject
<1>4. ASSUME NEW ival \in Ivals, CallbackRestarts(ival)  PROVE WalkSafe'
  BY <1>0, <1>4, GoesOnSafe DEF CallbackRestarts, WalkSafe, qvars
<1>5. CASE CallbackCancels
  BY <1>0, <1>5, OwnCancelSafe DEF CallbackCancels
<1>6. CASE BuildSets \/ SelectReturns \/ NothingToWalk \/ SelectInterrupted
           \/ SelectReturnsForIO \/ Tick \/ UNCHANGED vars
  BY <1>1, <1>6 DEF BuildSets, SelectReturns, NothingToWalk, SelectInterrupted,
                    SelectReturnsForIO, Tick, vars, qvars
<1> QED  BY <1>2, <1>3, <1>4, <1>5, <1>6 DEF Next, EventSink

\* The only freed timer that the sink ever reads is one whose own callback cancelled
\* it, when that callback returns; where it looks for the next timer to call it reads
\* none, whatever the callbacks and other threads start and cancel, as long as no
\* callback cancels a peer, another timer of its own object.
THEOREM WalkNeverAtFreedTimer == NoPeers => (Spec => NoFreedTimerRead)
<1> SUFFICES ASSUME NoPeers PROVE Spec => NoFreedTimerRead
  OBVIOUS
<1>1. Init => WalkSafe
  BY DEF Init, QueueInit, NoWalk, WalkSafe, AtTimer, InCallback
<1>2. IInv /\ WalkSafe /\ [Next]_vars => WalkSafe'
  BY NextSafe
<1>3. IInv /\ WalkSafe => (SinkReads => walk.to \in live \/ FreedByItself)
  <2> SUFFICES ASSUME IInv, WalkSafe, SinkReads  PROVE walk.to \in live \/ FreedByItself
    OBVIOUS
  <2>1. CASE AtTimer  BY <2>1, SafeWalkIsLive DEF IInv, NoUseAfterFree
  <2>2. CASE InCallback
    BY <2>2, NilAssumption DEF FreedByItself, IInv, QueueInv, QueuesConsistent,
                               TimersLinked, WalkInv, InCallback
  <2> QED  BY <2>1, <2>2 DEF SinkReads
<1>4. IInv /\ WalkSafe /\ [Next]_vars =>
        [SinkReads => walk.to \in live \/ FreedByItself]_vars
  BY <1>3
<1> QED  BY <1>1, <1>2, <1>4, InitInv, NextInv, PTL DEF Spec, NoFreedTimerRead

-----------------------------------------------------------------------------
(* The order of the walk *)

\* No other thread starts or cancels timers, and no callback resets, or has a new
\* timer get, a descriptor that select reported.
OneThread == Threads = FALSE /\ OnReported = {}

\* A running timer the descriptor of which was reported, and that has been armed
\* again since: the walk must not meet it.
Rearmed(t) == tobj[t] # Nil /\ tfd[t] \in rdFds /\ remain[tfd[t]] > 0

\* The objects of U are ahead of the walk, in the order R: from any of them it goes
\* on to objects of U alone, be it queued or taken off the queue, and it meets none
\* that has a timer armed again.
Ahead(U, R) ==
  /\ \A x \in Object : <<x, x>> \notin R
  /\ \A x, y, z \in Object : <<x, y>> \in R /\ <<y, z>> \in R => <<x, z>> \in R
  /\ \A x \in U, y \in Object : Before(objq, x, y) => y \in U /\ <<x, y>> \in R
  /\ \A x \in U : x \notin Entries(objq) /\ onext[x] # Nil =>
       onext[x] \in U /\ <<x, onext[x]>> \in R
  /\ \A t \in Timer : Rearmed(t) => tobj[t] \notin U

\* Timer t and those behind it on its object were not armed again.
ClearFrom(t) ==
  ~Rearmed(t) /\ \A u \in Timer : Before(timers[walk.ob], t, u) => ~Rearmed(u)

\* Where the walk is, if it goes on to the objects of U.
Place(U) ==
  /\ walk.pc = "object" => walk.ob \in U
  /\ walk.pc \in {"timer", "callback"} => walk.obNext \in U \cup {Nil}
  /\ AtTimer => walk.ob \notin U /\ ClearFrom(walk.to)
  /\ InCallback /\ walk.toNext # Nil => walk.ob \notin U /\ ClearFrom(walk.toNext)
  /\ InCallback /\ tobj[walk.to] # Nil /\ tfd[walk.to] \in rdFds =>
       /\ tobj[walk.to] = walk.ob /\ walk.ob \notin U
       /\ walk.toNext # Nil => Before(timers[walk.ob], walk.to, walk.toNext)

\* A walk meets no timer that was armed again: the timers it restarts are behind it.
WalkOrder ==
  /\ walk.pc # "idle" => sink = "ready"
  /\ sink = "ready" /\ walk.pc = "idle" => \A t \in Timer : ~Rearmed(t)
  /\ walk.pc # "idle" =>
       \E U \in SUBSET Object, R \in SUBSET (Object \X Object) : Ahead(U, R) /\ Place(U)

\* An object that leaves the queue leaves the objects ahead where they are.
LEMMA AheadKept ==
  ASSUME QueueInv, NEW U \in SUBSET Object, NEW R \in SUBSET (Object \X Object), Ahead(U, R),
         \/ UNCHANGED <<objq, onext>>
         \/ \E o \in Entries(objq) :
              /\ objq' = TailqRemove(objq, o)
              /\ onext' = [onext EXCEPT ![o] = TailqNext(objq, o, Nil)],
         \A t \in Timer : Rearmed(t)' => tobj'[t] \notin U
  PROVE  Ahead(U, R)'
<1>0. /\ objq \in Seq(Object) /\ NoRepeats(objq) /\ onext \in [Object -> Object \cup {Nil}]
  BY DEF QueueInv, QueueType, QueuesConsistent, ObjectsQueued
<1>1. CASE UNCHANGED <<objq, onext>>  BY <1>1 DEF Ahead
<1>2. ASSUME NEW o \in Entries(objq), objq' = TailqRemove(objq, o),
             onext' = [onext EXCEPT ![o] = TailqNext(objq, o, Nil)]
      PROVE  Ahead(U, R)'
  <2>1. \A x, y : Before(objq', x, y) => Before(objq, x, y)
    BY <1>0, <1>2, BeforeRemove
  <2>2. Entries(objq') = Entries(objq) \ {o}  BY <1>0, <1>2, RemoveProperties
  <2>3. ASSUME NEW x \in U, x \notin Entries(objq'), onext'[x] # Nil
        PROVE  onext'[x] \in U /\ <<x, onext'[x]>> \in R
    <3>1. CASE x = o
      <4>1. onext'[x] = TailqNext(objq, o, Nil)  BY <1>0, <1>2, <3>1
      <4>2. Before(objq, o, TailqNext(objq, o, Nil))
        BY <1>0, <2>3, <3>1, <4>1, NextIsAfter
      <4>3. TailqNext(objq, o, Nil) \in Object \cup {Nil}  BY <1>0, TailqFirstNext
      <4> QED  BY <2>3, <3>1, <4>1, <4>2, <4>3 DEF Ahead
    <3>2. CASE x # o
      BY <1>0, <1>2, <2>2, <2>3, <3>2 DEF Ahead
    <3> QED  BY <3>1, <3>2
  <2> QED  BY <2>1, <2>3 DEF Ahead
<1> QED  BY <1>1, <1>2

\* An object that is put on the queue comes last: it is ahead of the walk.
LEMMA AheadArrives ==
  ASSUME QueueInv, NEW U \in SUBSET Object, NEW R \in SUBSET (Object \X Object), Ahead(U, R),
         NEW o \in Object, o \notin Entries(objq),
         objq' = TailqInsertTail(objq, o), onext' = onext,
         \A t \in Timer : Rearmed(t)' => tobj'[t] \notin U \cup {o}
  PROVE  \E Q \in SUBSET (Object \X Object) : Ahead(U \cup {o}, Q)'
<1>0. /\ objq \in Seq(Object) /\ NoRepeats(objq) /\ onext \in [Object -> Object \cup {Nil}]
  BY DEF QueueInv, QueueType, QueuesConsistent, ObjectsQueued
<1> DEFINE Q == {p \in Object \X Object :
                   \/ p \in R /\ p[1] # o /\ p[2] # o
                   \/ p[1] # o /\ p[2] = o}
           V == U \cup {o}
<1>1. \A x, y \in Object :
        <<x, y>> \in Q <=> x # o /\ (y = o \/ <<x, y>> \in R)
  OBVIOUS
<1> HIDE DEF Q
<1>2. \A x \in Object : <<x, x>> \notin Q  BY <1>1 DEF Ahead
<1>3. \A x, y, z \in Object : <<x, y>> \in Q /\ <<y, z>> \in Q => <<x, z>> \in Q
  BY <1>1 DEF Ahead
<1>4. Entries(objq') = Entries(objq) \cup {o} /\ objq' \in Seq(Object) /\ NoRepeats(objq')
  BY <1>0, InsertTailProperties
<1>5. ASSUME NEW x \in V, NEW y \in Object, Before(objq', x, y)
      PROVE  y \in V /\ <<x, y>> \in Q
  <2>1. x # y /\ (Before(objq, x, y) \/ y = o)
    BY <1>0, <1>4, <1>5, BeforeInsertTail, BeforeIsOrder
  <2>2. CASE y = o  BY <1>1, <2>1, <2>2
  <2>3. CASE y # o
    <3>1. Before(objq, x, y)  BY <2>1, <2>3
    <3>2. x \in Entries(objq)  BY <1>0, <3>1, BeforeIsOrder
    <3>3. x # o /\ x \in U  BY <3>2
    <3> QED  BY <1>1, <3>1, <3>3 DEF Ahead
  <2> QED  BY <2>2, <2>3
<1>6. ASSUME NEW x \in V, x \notin Entries(objq'), onext'[x] # Nil
      PROVE  onext'[x] \in V /\ <<x, onext'[x]>> \in Q
  <2>1. x # o /\ x \in U /\ x \notin Entries(objq)  BY <1>4, <1>6
  <2>2. onext[x] \in U /\ <<x, onext[x]>> \in R /\ onext[x] \in Object
    BY <1>6, <2>1 DEF Ahead
  <2> QED  BY <1>1, <2>1, <2>2
<1>7. Ahead(V, Q)'
  BY <1>2, <1>3, <1>5, <1>6 DEF Ahead
<1>8. Q \in SUBSET (Object \X Object)  BY DEF Q
<1> QED  BY <1>7, <1>8

\* A call made in a callback keeps the place of the walk, if it arms no descriptor
\* that was reported other than that of the timer called back, and puts behind the
\* saved timer none that was armed again.
LEMMA PlaceKept ==
  ASSUME IInv, WalkSafe, InCallback, walk' = walk,
         NEW U, Place(U), NEW V, U \subseteq V, \A o \in Object : o \in V => o \in U \/ timers[o] = << >>,
         \A t \in Timer : Rearmed(t)' =>
            Rearmed(t) \/ (t = walk.to /\ tobj[t] # Nil /\ tfd[t] \in rdFds),
         \A u \in Timer : Before(timers'[walk.ob], walk.toNext, u) =>
            Before(timers[walk.ob], walk.toNext, u) \/ ~Rearmed(u)',
         tobj'[walk.to] # Nil /\ tfd'[walk.to] \in rdFds' =>
            /\ tobj'[walk.to] = tobj[walk.to] /\ tobj[walk.to] # Nil /\ tfd[walk.to] \in rdFds
            /\ Before(timers[walk.ob], walk.to, walk.toNext) =>
                 Before(timers'[walk.ob], walk.to, walk.toNext)
  PROVE  Place(V)'
<1> DEFINE o == walk.ob
<1>0. /\ o \in Object /\ walk.to \in Timer /\ walk.toNext \in Timer \cup {Nil}
      /\ walk.pc = "callback" /\ o # Nil
  BY NilAssumption DEF IInv, WalkInv, WalkType, InCallback
<1>1. timers[o] \in Seq(Timer) /\ NoRepeats(timers[o]) /\ TimersLinked
  BY <1>0 DEF IInv, QueueInv, QueueType, QueuesConsistent, TimersLinked
<1>2. ASSUME NEW t \in Timer, tobj[t] = o PROVE timers[o] # << >>
  <2>1. t \in Entries(timers[o])  BY <1>0, <1>1, <1>2 DEF TimersLinked
  <2> QED  BY <1>1, <2>1, EntriesType
<1>3. ASSUME walk.toNext # Nil
      PROVE  o \notin V /\ ClearFrom(walk.toNext)'
  <2>1. walk.toNext \in Timer /\ tobj[walk.toNext] = o /\ walk.toNext # walk.to
        /\ o \notin U /\ ClearFrom(walk.toNext)
    BY <1>0, <1>3 DEF WalkSafe, Place
  <2>2. o \notin V  BY <1>0, <1>2, <2>1
  <2>3. ~Rearmed(walk.toNext)'  BY <2>1 DEF ClearFrom
  <2>4. ASSUME NEW u \in Timer, Before(timers'[o], walk.toNext, u)
        PROVE  ~Rearmed(u)'
    <3>1. CASE Before(timers[o], walk.toNext, u)
      <4>1. ~Rearmed(u)  BY <2>1, <3>1 DEF ClearFrom
      <4>2. u = walk.to /\ tobj[u] # Nil /\ tfd[u] \in rdFds => Before(timers[o], u, walk.toNext)
        BY <1>3 DEF Place
      <4>3. ~(u = walk.to /\ tobj[u] # Nil /\ tfd[u] \in rdFds)
        BY <1>1, <3>1, <4>2, BeforeIsOrder
      <4> QED  BY <4>1, <4>3
    <3> QED  BY <2>4, <3>1
  <2> QED  BY <2>2, <2>3, <2>4 DEF ClearFrom
<1>4. ASSUME tobj'[walk.to] # Nil, tfd'[walk.to] \in rdFds'
      PROVE  /\ tobj'[walk.to] = o /\ o \notin V
             /\ walk.toNext # Nil => Before(timers'[o], walk.to, walk.toNext)
  <2>1. /\ tobj[walk.to] = o /\ o \notin U
        /\ walk.toNext # Nil => Before(timers[o], walk.to, walk.toNext)
    BY <1>4 DEF Place
  <2>2. o \notin V  BY <1>0, <1>2, <2>1
  <2> QED  BY <1>4, <2>1, <2>2
<1> HIDE DEF o
<1>5. walk.obNext \in V \cup {Nil}  BY <1>0 DEF Place
<1> QED  BY <1>0, <1>3, <1>4, <1>5 DEF Place, AtTimer, InCallback, o

\* The calls of the application keep the order of the walk.
LEMMA CallsKeepOrder ==
  ASSUME NoPeers, OneThread, IInv, WalkSafe, WalkOrder, Application
  PROVE  WalkOrder'
<1>0. /\ QueueInv /\ WalkInv /\ FdType /\ FdsOwned /\ QueueType /\ TimersLinked /\ ObjectsQueued
      /\ tobj \in [Timer -> Object \cup {Nil}] /\ timers \in [Object -> Seq(Timer)]
      /\ tfd \in [Timer -> Fd \cup {NoFd}] /\ remain \in [Fd -> Int]
  BY DEF IInv, QueueInv, QueueType, QueuesConsistent, FdType
<1>1. walk' = walk /\ sink' = sink /\ rdFds' = rdFds /\ MayCall /\ ByCaller
  BY DEF Application, AddTimer, AddTimerAuto, ResetTimer, DelTimer, DelTimers, MayStart,
         MayCancelTimer, MayCancelAll
<1>2. CASE ~InCallback
  <2>1. walk.pc = "idle" /\ sink = "idle"
    BY <1>1, <1>2 DEF MayCall, ByCaller, InCallback, OneThread
  <2> QED  BY <1>1, <2>1 DEF WalkOrder
<1> SUFFICES ASSUME InCallback PROVE WalkOrder'
  BY <1>2
<1>3. /\ walk.pc = "callback" /\ sink = "ready" /\ walk.ob \in Object /\ walk.to \in Timer
      /\ walk.ob # Nil
  BY <1>0, NilAssumption DEF InCallback, WalkInv, WalkOrder
<1>4. PICK U \in SUBSET Object, R \in SUBSET (Object \X Object) : Ahead(U, R) /\ Place(U)
  BY <1>3 DEF WalkOrder
<1>5. SUFFICES \E V \in SUBSET Object, Q \in SUBSET (Object \X Object) : (Ahead(V, Q) /\ Place(V))'
  BY <1>1, <1>3 DEF WalkOrder
<1>6. \A t, u \in Timer : tobj[t] # Nil /\ tobj[u] # Nil /\ tfd[t] = tfd[u] => t = u
  BY <1>0 DEF FdsOwned
<1>7. \A t \in Timer : Rearmed(t) => tobj[t] \notin U  BY <1>4 DEF Ahead
<1>8. ASSUME NEW o \in Object, NEW t \in Timer, NEW ival \in Ivals,
             AddTimer(o, t, ival) \/ AddTimerAuto(o, t, ival)
      PROVE  \E V \in SUBSET Object, Q \in SUBSET (Object \X Object) : (Ahead(V, Q) /\ Place(V))'
  <2>1. /\ tobj[t] = Nil /\ Attached(o, t, TailqInsertTail(timers[o], t)) /\ Created(t, ival)
        /\ MayStart
    BY <1>0, <1>8 DEF AddTimer, AddTimerAuto, TimersLinked
  <2> DEFINE f == LowestFd
  <2>2. f \in Fd /\ f \notin open /\ f \notin rdFds
    BY <1>0, <2>1, LowestFdFree DEF Created, MayStart, OneThread
  <2>3. /\ tfd' = [tfd EXCEPT ![t] = f] /\ remain' = [remain EXCEPT ![f] = ival]
        /\ tobj' = [tobj EXCEPT ![t] = o]
        /\ timers' = [timers EXCEPT ![o] = TailqInsertTail(timers[o], t)]
        /\ objq' = IF timers[o] = << >> THEN TailqInsertTail(objq, o) ELSE objq
        /\ onext' = onext
    BY <2>1 DEF Created, Armed, Attached
  <2> HIDE DEF f
  <2>4. ~Rearmed(t)'  BY <1>0, <1>1, <2>2, <2>3 DEF Rearmed
  <2>5. ASSUME NEW u \in Timer, u # t
        PROVE  (Rearmed(u)' => Rearmed(u)) /\ tobj'[u] = tobj[u] /\ tfd'[u] = tfd[u]
    <3>1. tobj'[u] = tobj[u] /\ tfd'[u] = tfd[u]  BY <1>0, <2>3, <2>5
    <3>2. tobj[u] # Nil => tfd[u] \in open  BY <1>0 DEF FdsOwned
    <3>3. tobj[u] # Nil => remain'[tfd[u]] = remain[tfd[u]]
      BY <1>0, <2>2, <2>3, <3>2 DEF FdType
    <3> QED  BY <1>1, <3>1, <3>3 DEF Rearmed
  <2>6. \A u \in Timer : Rearmed(u)' => Rearmed(u) /\ tobj'[u] = tobj[u]  BY <2>4, <2>5
  <2>7. ASSUME NEW a, NEW b
        PROVE  /\ Before(timers[walk.ob], a, b) => Before(timers'[walk.ob], a, b)
               /\ Before(timers'[walk.ob], a, b) => Before(timers[walk.ob], a, b) \/ b = t
    <3>1. CASE walk.ob = o
      <4>1. timers'[walk.ob] = TailqInsertTail(timers[walk.ob], t) /\ timers[walk.ob] \in Seq(Timer)
        BY <1>0, <1>3, <2>3, <3>1
      <4> QED  BY <4>1, BeforeInsertTail
    <3>2. CASE walk.ob # o
      <4>1. timers'[walk.ob] = timers[walk.ob]  BY <1>0, <1>3, <2>3, <3>2
      <4> QED  BY <4>1
    <3> QED  BY <3>1, <3>2
  <2>8. ASSUME tobj'[walk.to] # Nil, tfd'[walk.to] \in rdFds'
        PROVE  /\ tobj'[walk.to] = tobj[walk.to] /\ tobj[walk.to] # Nil /\ tfd[walk.to] \in rdFds
    <3>1. walk.to # t  BY <1>0, <1>1, <2>2, <2>3, <2>8
    <3> QED  BY <1>1, <1>3, <2>5, <2>8, <3>1
  <2>9. ASSUME NEW V, U \subseteq V, \A p \in Object : p \in V => p \in U \/ timers[p] = << >>
        PROVE  Place(V)'
    BY <1>1, <1>4, <2>4, <2>6, <2>7, <2>8, <2>9, PlaceKept
  <2>10. CASE timers[o] # << >>
    <3>1. Ahead(U, R)'  BY <1>0, <1>4, <1>7, <2>3, <2>6, <2>10, AheadKept
    <3> QED  BY <2>9, <3>1
  <2>11. CASE timers[o] = << >>
    <3>1. o \notin Entries(objq)  BY <1>0, <2>11 DEF ObjectsQueued
    <3>2. \A u \in Timer : tobj[u] # o
      <4>1. Entries(timers[o]) = {}  BY <2>11, EmptySeq DEF Entries
      <4> QED  BY <1>0, <4>1 DEF TimersLinked
    <3>3. \A u \in Timer : Rearmed(u)' => tobj'[u] \notin U \cup {o}
      BY <1>7, <2>6, <3>2
    <3>4. PICK Q \in SUBSET (Object \X Object) : Ahead(U \cup {o}, Q)'
      BY <1>0, <1>4, <2>3, <2>11, <3>1, <3>3, AheadArrives
    <3>5. Place(U \cup {o})'  BY <2>9, <2>11
    <3> QED  BY <3>4, <3>5
  <2> QED  BY <2>10, <2>11
<1>9. ASSUME NEW o \in Object, NEW t \in Timer, NEW ival \in Ivals, ResetTimer(o, t, ival)
      PROVE  (Ahead(U, R) /\ Place(U))'
  <2>1. /\ UNCHANGED <<qvars, tfd>> /\ tobj[t] = o /\ o # Nil
        /\ remain' = [remain EXCEPT ![tfd[t]] = ival]
        /\ t # walk.to => tfd[t] \notin rdFds
    BY <1>9, NilAssumption DEF ResetTimer, Armed, OneThread
  <2>2. ASSUME NEW u \in Timer, Rearmed(u)'
        PROVE  Rearmed(u) \/ (u = walk.to /\ tobj[u] # Nil /\ tfd[u] \in rdFds)
    <3>1. tobj[u] # Nil /\ tfd[u] \in rdFds  BY <1>1, <2>1, <2>2 DEF Rearmed, qvars
    <3>2. CASE u = t  BY <2>1, <3>1, <3>2
    <3>3. CASE u # t
      <4>1. tfd[u] # tfd[t]  BY <1>6, <2>1, <3>1, <3>3
      <4>2. remain'[tfd[u]] = remain[tfd[u]]  BY <1>0, <2>1, <4>1 DEF FdType
      <4> QED  BY <1>1, <2>1, <2>2, <4>2 DEF Rearmed, qvars
    <3> QED  BY <3>2, <3>3
  <2>3. \A u \in Timer : Rearmed(u)' => tobj'[u] \notin U
    BY <1>4, <1>7, <2>1, <2>2 DEF Place, qvars
  <2>4. Ahead(U, R)'  BY <1>0, <1>4, <2>1, <2>3, AheadKept DEF qvars
  <2>5. Place(U)'
    BY <1>1, <1>4, <2>1, <2>2, PlaceKept DEF qvars
  <2> QED  BY <2>4, <2>5
<1>10. ASSUME NEW S \in SUBSET Timer, Closed(S), \A u \in Timer : tobj'[u] \in {Nil, tobj[u]},
              \A u \in S : tobj'[u] = Nil
       PROVE  /\ \A u \in Timer : Rearmed(u)' => Rearmed(u) /\ tobj'[u] = tobj[u]
              /\ \A u \in Timer : tobj'[u] # Nil => tfd'[u] = tfd[u]
  <2>1. \A u \in Timer : tobj'[u] # Nil => tfd'[u] = tfd[u]  BY <1>10 DEF Closed
  <2>2. \A f \in Fd : remain'[f] > 0 => remain'[f] = remain[f]  BY <1>10 DEF Closed
  <2>3. rdFds \subseteq Fd  BY <1>0 DEF FdType
  <2> QED  BY <1>1, <1>10, <2>1, <2>2, <2>3 DEF Rearmed
<1>11. ASSUME NEW o \in Object, NEW t \in Timer, DelTimer(o, t)
       PROVE  (Ahead(U, R) /\ Place(U))'
  <2>1. /\ t \in Entries(timers[o]) /\ tobj[t] = o /\ Closed({t}) /\ Detached(o, t)
        /\ t = walk.to \/ o # walk.ob
    BY <1>0, <1>3, <1>11 DEF DelTimer, Cancelled, TimersLinked, MayCancelTimer, NoPeers
  <2>2. /\ tobj' = [tobj EXCEPT ![t] = Nil] /\ timers' = [timers EXCEPT ![o] = TailqRemove(@, t)]
        /\ \/ objq' = objq /\ onext' = onext
           \/ /\ onext' = [onext EXCEPT ![o] = TailqNext(objq, o, Nil)]
              /\ objq' = TailqRemove(objq, o)
    BY <1>3, <2>1 DEF Detached, Stale
  <2>3. /\ \A u \in Timer : Rearmed(u)' => Rearmed(u) /\ tobj'[u] = tobj[u]
        /\ \A u \in Timer : tobj'[u] # Nil => tfd'[u] = tfd[u]
    BY <1>0, <1>10, <2>1, <2>2
  <2>4. o \in Entries(objq)
    <3>1. timers[o] # << >>  BY <1>0, <2>1, EntriesType
    <3> QED  BY <1>0, <3>1 DEF ObjectsQueued
  <2>5. Ahead(U, R)'  BY <1>0, <1>4, <1>7, <2>2, <2>3, <2>4, AheadKept
  <2>6. ASSUME NEW a, NEW b, Before(timers'[walk.ob], a, b)
        PROVE  Before(timers[walk.ob], a, b)
    <3>1. CASE walk.ob = o
      <4>1. timers'[walk.ob] = TailqRemove(timers[walk.ob], t)  BY <1>0, <1>3, <2>2, <3>1
      <4> QED  BY <1>0, <1>3, <2>1, <2>6, <3>1, <4>1, BeforeRemove
    <3>2. CASE walk.ob # o
      <4>1. timers'[walk.ob] = timers[walk.ob]  BY <1>0, <1>3, <2>2, <3>2
      <4> QED  BY <2>6, <4>1
    <3> QED  BY <3>1, <3>2
  <2>7. ASSUME tobj'[walk.to] # Nil, tfd'[walk.to] \in rdFds'
        PROVE  /\ tobj'[walk.to] = tobj[walk.to] /\ tobj[walk.to] # Nil /\ tfd[walk.to] \in rdFds
               /\ timers'[walk.ob] = timers[walk.ob]
    <3>1. walk.to # t  BY <1>0, <2>2, <2>7
    <3>2. timers'[walk.ob] = timers[walk.ob]  BY <1>0, <1>3, <2>1, <2>2, <3>1
    <3> QED  BY <1>0, <1>1, <1>3, <2>2, <2>3, <2>7, <3>1, <3>2
  <2>8. Place(U)'  BY <1>1, <1>4, <2>3, <2>6, <2>7, PlaceKept
  <2> QED  BY <2>5, <2>8
<1>12. ASSUME NEW o \in Object, DelTimers(o)
       PROVE  (Ahead(U, R) /\ Place(U))'
  <2>1. o # walk.ob /\ timers[o] # << >> /\ AllCancelled(o) /\ Closed(Entries(timers[o]))
    BY <1>3, <1>12 DEF DelTimers, MayCancelAll
  <2>2. /\ tobj' = [t \in Timer |-> IF t \in Entries(timers[o]) THEN Nil ELSE tobj[t]]
        /\ timers' = [timers EXCEPT ![o] = << >>]
        /\ onext' = [onext EXCEPT ![o] = TailqNext(objq, o, Nil)]
        /\ objq' = TailqRemove(objq, o)
    BY <1>3, <2>1 DEF AllCancelled, Stale
  <2>3. Entries(timers[o]) \in SUBSET Timer  BY <1>0, EntriesType
  <2>4. /\ \A u \in Timer : Rearmed(u)' => Rearmed(u) /\ tobj'[u] = tobj[u]
        /\ \A u \in Timer : tobj'[u] # Nil => tfd'[u] = tfd[u]
    <3>1. (\A u \in Timer : tobj'[u] \in {Nil, tobj[u]}) /\ \A u \in Entries(timers[o]) : tobj'[u] = Nil
      BY <2>2, <2>3
    <3> QED  BY <1>10, <2>1, <2>3, <3>1
  <2>5. o \in Entries(objq)  BY <1>0, <2>1 DEF ObjectsQueued
  <2>6. Ahead(U, R)'  BY <1>0, <1>4, <1>7, <2>2, <2>4, <2>5, AheadKept
  <2>7. timers'[walk.ob] = timers[walk.ob]  BY <1>0, <1>3, <2>1, <2>2
  <2>8. ASSUME tobj'[walk.to] # Nil, tfd'[walk.to] \in rdFds'
        PROVE  tobj'[walk.to] = tobj[walk.to] /\ tobj[walk.to] # Nil /\ tfd[walk.to] \in rdFds
    BY <1>1, <1>3, <2>2, <2>4, <2>8
  <2>9. Place(U)'  BY <1>1, <1>4, <2>4, <2>7, <2>8, PlaceKept
  <2> QED  BY <2>6, <2>9
<1>13. Application => \E o \in Object :
         \/ \E t \in Timer, ival \in Ivals :
              AddTimer(o, t, ival) \/ AddTimerAuto(o, t, ival) \/ ResetTimer(o, t, ival)
         \/ \E t \in Timer : DelTimer(o, t)
         \/ DelTimers(o)
  BY DEF Application
<1> QED  BY <1>8, <1>9, <1>11, <1>12, <1>13

\* The steps of a walk between callbacks keep its order.
LEMMA WalkKeepsOrder ==
  ASSUME IInv, WalkSafe, WalkOrder,
         BeginWalk \/ EnterObject \/ SkipTimer \/ CallTimer \/ LeaveObject
  PROVE  WalkOrder'
<1>0. /\ QueueInv /\ WalkInv /\ walk \in WalkType
      /\ objq \in Seq(Object) /\ NoRepeats(objq) /\ timers \in [Object -> Seq(Timer)]
      /\ onext \in [Object -> Object \cup {Nil}] /\ TimersLinked
  BY DEF IInv, WalkInv, QueueInv, QueueType, QueuesConsistent, ObjectsQueued
<1>1. CASE BeginWalk
  <2> PICK U, R : U = Entries(objq) /\ R = {p \in Object \X Object : Before(objq, p[1], p[2])}
    OBVIOUS
  <2>1. /\ sink = "ready" /\ walk.pc = "idle" /\ objq # << >>
        /\ walk' = [NoWalk EXCEPT !.pc = "object", !.ob = TailqFirst(objq, Nil)]
        /\ UNCHANGED <<qvars, fdvars, rdFds, sink>>
    BY <1>1 DEF BeginWalk, WalkBegins
  <2>2. \A x, y \in Object : <<x, y>> \in R <=> Before(objq, x, y)  OBVIOUS
  <2>3. U \in SUBSET Object /\ R \in SUBSET (Object \X Object)  BY <1>0, EntriesType
  <2>4. \A t \in Timer : ~Rearmed(t)  BY <2>1 DEF WalkOrder
  <2>5. Ahead(U, R)
    <3>1. \A x \in Object : <<x, x>> \notin R  BY <1>0, <2>2, BeforeIsOrder
    <3>2. \A x, y, z \in Object : <<x, y>> \in R /\ <<y, z>> \in R => <<x, z>> \in R
      BY <1>0, <2>2, BeforeIsOrder
    <3>3. \A x \in U, y \in Object : Before(objq, x, y) => y \in U /\ <<x, y>> \in R
      BY <1>0, <2>2, <2>3, BeforeIsOrder
    <3> QED  BY <2>4, <3>1, <3>2, <3>3 DEF Ahead
  <2>6. TailqFirst(objq, Nil) \in U
    <3>1. TailqFirst(objq, Nil) \in Object  BY <1>0, <2>1, TailqFirstNext
    <3>2. TailqFirst(objq, Nil) # Nil  BY <3>1, NilAssumption
    <3> QED  BY <1>0, <3>2, FirstNextQueued
  <2>7. Ahead(U, R)'  BY <2>1, <2>5 DEF Ahead, Rearmed, qvars, fdvars
  <2>8. walk'.pc = "object" /\ walk'.ob = TailqFirst(objq, Nil)  BY <2>1 DEF NoWalk
  <2>9. Place(U)'  BY <2>6, <2>8 DEF Place, AtTimer, InCallback
  <2> QED  BY <2>1, <2>3, <2>7, <2>8, <2>9 DEF WalkOrder
<1> SUFFICES ASSUME EnterObject \/ SkipTimer \/ CallTimer \/ LeaveObject
             PROVE  WalkOrder'
  BY <1>1
<1>2. walk.pc \in {"object", "timer"} /\ sink = "ready" /\ walk.ob \in Object
  BY <1>0 DEF EnterObject, SkipTimer, CallTimer, LeaveObject, WalkEntersObject, AtTimer,
              WalkLeavesObject, WalkOrder, WalkInv
<1>3. PICK U \in SUBSET Object, R \in SUBSET (Object \X Object) : Ahead(U, R) /\ Place(U)
  BY <1>2 DEF WalkOrder
<1>4. CASE EnterObject
  <2> DEFINE o == walk.ob
  <2> PICK V : V = {y \in U : <<o, y>> \in R}  OBVIOUS
  <2>1. /\ walk.pc = "object" /\ UNCHANGED <<qvars, fdvars, rdFds, sink>>
        /\ walk' = [walk EXCEPT !.pc = "timer", !.obNext = NextObj(o),
                                !.to = TailqFirst(timers[o], Nil)]
    BY <1>4 DEF EnterObject, WalkEntersObject
  <2>2. /\ walk'.pc = "timer" /\ walk'.ob = o /\ walk'.obNext = NextObj(o)
        /\ walk'.to = TailqFirst(timers[o], Nil)
    BY <1>0, <2>1 DEF WalkType
  <2>3. o \in U /\ o \in Object  BY <1>2, <1>3, <2>1 DEF Place
  <2>4. o \notin V  BY <1>3, <2>3 DEF Ahead
  <2>5. NextObj(o) \in V \cup {Nil}
    <3>1. CASE o \in Entries(objq)
      <4>1. TailqNext(objq, o, Nil) \in Object \cup {Nil}  BY <1>0, <3>1, TailqFirstNext
      <4>2. TailqNext(objq, o, Nil) # Nil => Before(objq, o, TailqNext(objq, o, Nil))
        BY <1>0, <3>1, NextIsAfter
      <4> HIDE DEF o
      <4> QED  BY <1>3, <2>3, <3>1, <4>1, <4>2 DEF Ahead, NextObj
    <3>2. CASE o \notin Entries(objq)
      BY <1>3, <2>3, <3>2 DEF Ahead, NextObj
    <3> QED  BY <3>1, <3>2
  <2>6. Ahead(V, R)
    <3>1. \A x \in V, y \in Object : Before(objq, x, y) => y \in V /\ <<x, y>> \in R
      BY <1>3, <2>3 DEF Ahead
    <3>2. \A x \in V : x \notin Entries(objq) /\ onext[x] # Nil =>
            onext[x] \in V /\ <<x, onext[x]>> \in R
      BY <1>3, <2>3 DEF Ahead
    <3>3. \A t \in Timer : Rearmed(t) => tobj[t] \notin V  BY <1>3 DEF Ahead
    <3> QED  BY <1>3, <3>1, <3>2, <3>3 DEF Ahead
  <2>7. ASSUME NEW t \in Entries(timers[o]) PROVE ~Rearmed(t)
    <3>1. t \in Timer  BY <1>0, <2>3, EntriesType
    <3>2. tobj[t] = o  BY <1>0, <2>3, <2>7, <3>1 DEF TimersLinked
    <3> QED  BY <1>3, <2>3, <3>1, <3>2 DEF Ahead
  <2>8. ASSUME walk'.to # Nil PROVE ClearFrom(walk.to)'
    <3>1. timers[o] \in Seq(Timer) /\ NoRepeats(timers[o])  BY <1>0, <2>3 DEF TimersLinked
    <3>2. walk'.to \in Entries(timers[o])  BY <2>2, <2>8, <3>1, FirstNextQueued
    <3>3. \A u \in Timer : Before(timers[o], walk'.to, u) => u \in Entries(timers[o])
      BY <3>1, BeforeIsOrder
    <3>4. \A t \in Timer : ~Rearmed(t) => ~Rearmed(t)'
      BY <2>1 DEF Rearmed, qvars, fdvars
    <3>5. walk'.to \in Timer  BY <3>1, <3>2, EntriesType
    <3>6. ~Rearmed(walk.to)'
      BY <2>1, <2>7, <3>2 DEF Rearmed, qvars, fdvars
    <3>7. \A u \in Timer : Before(timers[o], walk'.to, u) => ~Rearmed(u)'
      BY <2>7, <3>3, <3>4
    <3> QED  BY <2>1, <2>2, <3>6, <3>7 DEF ClearFrom, qvars
  <2>9. Ahead(V, R)'  BY <2>1, <2>6 DEF Ahead, Rearmed, qvars, fdvars
  <2>10. Place(V)'  BY <2>2, <2>4, <2>5, <2>8 DEF Place, AtTimer, InCallback
  <2>11. V \in SUBSET Object  OBVIOUS
  <2> QED  BY <1>2, <2>1, <2>2, <2>9, <2>10, <2>11 DEF WalkOrder
<1>5. ASSUME UNCHANGED <<qvars, fdvars, rdFds, sink>>, walk'.pc # "idle", Place(U)'
      PROVE  WalkOrder'
  <2>1. Ahead(U, R)'  BY <1>3, <1>5 DEF Ahead, Rearmed, qvars, fdvars
  <2> QED  BY <1>2, <1>5, <2>1 DEF WalkOrder
<1>6. ASSUME AtTimer, NextTimer(walk.ob, walk.to) # Nil
      PROVE  /\ Before(timers[walk.ob], walk.to, NextTimer(walk.ob, walk.to))
             /\ ClearFrom(NextTimer(walk.ob, walk.to))
  <2> DEFINE o == walk.ob
             t == walk.to
             n == NextTimer(o, t)
  <2>1. o \in Object /\ t \in Timer /\ tobj[t] = o /\ n \in Timer \cup {Nil}
    BY <1>0, <1>2, <1>6, NextTimerType DEF AtTimer, WalkSafe, WalkType
  <2>2. /\ timers[o] \in Seq(Timer) /\ NoRepeats(timers[o]) /\ t \in Entries(timers[o])
    BY <1>0, <2>1 DEF TimersLinked
  <2>3. n = TailqNext(timers[o], t, Nil)  BY <2>2 DEF NextTimer
  <2> HIDE DEF n, o, t
  <2>4. Before(timers[o], t, n)  BY <1>6, <2>2, <2>3, NextIsAfter DEF n, o, t
  <2>5. ClearFrom(t)  BY <1>3, <1>6 DEF Place, t
  <2>6. n \in Timer /\ ~Rearmed(n)  BY <1>6, <2>1, <2>4, <2>5 DEF ClearFrom, n, o, t
  <2>7. \A u \in Timer : Before(timers[o], n, u) => ~Rearmed(u)
    BY <2>2, <2>4, <2>5, BeforeIsOrder DEF ClearFrom, o
  <2>8. ClearFrom(n)  BY <2>6, <2>7 DEF ClearFrom, o
  <2> QED  BY <2>4, <2>8 DEF n, o, t
<1>7. CASE SkipTimer
  <2>1. /\ AtTimer /\ UNCHANGED <<qvars, fdvars, rdFds, sink>>
        /\ walk' = [walk EXCEPT !.to = NextTimer(walk.ob, walk.to)]
    BY <1>7 DEF SkipTimer, WalkSkipsTimer
  <2>2. /\ walk'.pc = "timer" /\ walk'.ob = walk.ob /\ walk'.obNext = walk.obNext
        /\ walk'.to = NextTimer(walk.ob, walk.to) /\ walk.pc = "timer"
    BY <1>0, <2>1 DEF WalkType, AtTimer
  <2>3. walk'.to # Nil => ClearFrom(walk.to)'
    BY <1>6, <2>1, <2>2 DEF ClearFrom, Rearmed, qvars, fdvars
  <2>4. Place(U)'  BY <1>3, <2>1, <2>2, <2>3 DEF Place, AtTimer, InCallback
  <2> QED  BY <1>5, <2>1, <2>2, <2>4
<1>8. CASE CallTimer
  <2>1. /\ AtTimer /\ UNCHANGED <<qvars, fdvars, rdFds, sink>>
        /\ walk' = [walk EXCEPT !.pc = "callback", !.toNext = NextTimer(walk.ob, walk.to)]
    BY <1>8 DEF CallTimer, WalkCallsTimer
  <2>2. /\ walk'.pc = "callback" /\ walk'.ob = walk.ob /\ walk'.obNext = walk.obNext
        /\ walk'.to = walk.to /\ walk'.toNext = NextTimer(walk.ob, walk.to) /\ walk.pc = "timer"
    BY <1>0, <2>1 DEF WalkType, AtTimer
  <2>3. walk'.toNext # Nil =>
          ClearFrom(walk.toNext)' /\ Before(timers'[walk.ob], walk'.to, walk'.toNext)
    BY <1>6, <2>1, <2>2 DEF ClearFrom, Rearmed, qvars, fdvars
  <2>4. tobj[walk.to] = walk.ob /\ walk.ob \notin U  BY <1>3, <2>1 DEF WalkSafe, Place
  <2>5. Place(U)'  BY <1>3, <2>1, <2>2, <2>3, <2>4 DEF Place, AtTimer, InCallback, qvars
  <2> QED  BY <1>5, <2>1, <2>2, <2>5
<1>9. CASE LeaveObject
  <2>1. CASE walk.obNext = Nil
    <3>1. walk'.pc = "idle" /\ sink' = "idle"
      BY <1>9, <2>1 DEF LeaveObject, WalkLeavesObject, NoWalk
    <3> QED  BY <3>1 DEF WalkOrder
  <2>2. CASE walk.obNext # Nil
    <3>1. /\ walk' = [walk EXCEPT !.pc = "object", !.ob = walk.obNext, !.obNext = Nil]
          /\ UNCHANGED <<qvars, fdvars>> /\ walk.pc = "timer"
      BY <1>9, <2>2 DEF LeaveObject, WalkLeavesObject, qvars
    <3>2. walk'.pc = "object" /\ walk'.ob = walk.obNext  BY <1>0, <3>1 DEF WalkType
    <3>3. UNCHANGED <<rdFds, sink>>  BY <1>9, <3>2 DEF LeaveObject
    <3>4. Place(U)'  BY <1>3, <2>2, <3>1, <3>2 DEF Place, AtTimer, InCallback
    <3> QED  BY <1>5, <3>1, <3>2, <3>3, <3>4
  <2> QED  BY <2>1, <2>2
<1> QED  BY <1>4, <1>7, <1>8, <1>9
\* The return of a callback keeps the order of the walk.
LEMMA ReturnKeepsOrder ==
  ASSUME IInv, WalkSafe, WalkOrder,
         (\E ival \in Ivals : CallbackRestarts(ival)) \/ CallbackCancels
  PROVE  WalkOrder'
<1>0. /\ QueueInv /\ WalkInv /\ walk \in WalkType /\ FdType /\ FdsOwned
      /\ QueueType /\ TimersLinked /\ ObjectsQueued
      /\ tobj \in [Timer -> Object \cup {Nil}] /\ timers \in [Object -> Seq(Timer)]
      /\ tfd \in [Timer -> Fd \cup {NoFd}] /\ remain \in [Fd -> Int]
  BY DEF IInv, WalkInv, QueueInv, QueueType, QueuesConsistent, FdType
<1>1. InCallback  BY DEF CallbackRestarts, CallbackCancels
<1>2. /\ walk.pc = "callback" /\ sink = "ready" /\ walk.ob \in Object /\ walk.to \in Timer
      /\ walk.ob # Nil /\ walk.toNext \in Timer \cup {Nil}
  BY <1>0, <1>1, NilAssumption DEF InCallback, WalkInv, WalkOrder, WalkType
<1>3. PICK U \in SUBSET Object, R \in SUBSET (Object \X Object) : Ahead(U, R) /\ Place(U)
  BY <1>2 DEF WalkOrder
<1>4. sink' = sink /\ WalkGoesOn(walk.toNext)  BY DEF CallbackRestarts, CallbackCancels
<1>5. /\ walk'.pc = "timer" /\ walk'.ob = walk.ob /\ walk'.obNext = walk.obNext
      /\ walk'.to = walk.toNext
  BY <1>0, <1>4 DEF WalkGoesOn, WalkType
<1> PICK n : n = walk.toNext  OBVIOUS
<1>6. ASSUME Ahead(U, R)', n # Nil => ClearFrom(n)'
      PROVE  WalkOrder'
  <2>1. walk.obNext \in U \cup {Nil} /\ (n # Nil => walk.ob \notin U)
    BY <1>1, <1>2, <1>3 DEF Place
  <2>2. walk'.to = n  BY <1>5
  <2>3. walk'.to # Nil => ClearFrom(walk.to)'  BY <1>6, <2>2 DEF ClearFrom
  <2>4. Place(U)'  BY <1>5, <2>1, <2>2, <2>3 DEF Place, AtTimer, InCallback
  <2> QED  BY <1>2, <1>4, <1>5, <1>6, <2>4 DEF WalkOrder
<1>7. ASSUME NEW ival \in Ivals, CallbackRestarts(ival)  PROVE WalkOrder'
  <2>1. /\ UNCHANGED <<qvars, tfd, rdFds>> /\ tobj[walk.to] = walk.ob
        /\ remain' = [remain EXCEPT ![tfd[walk.to]] = ival]
    BY <1>7 DEF CallbackRestarts, Armed
  <2>2. ASSUME NEW t \in Timer, Rearmed(t)'
        PROVE  Rearmed(t) \/ (t = walk.to /\ tfd[t] \in rdFds)
    <3>1. tobj[t] # Nil /\ tfd[t] \in rdFds  BY <2>1, <2>2 DEF Rearmed, qvars
    <3>2. CASE t # walk.to
      <4>1. tfd[t] # tfd[walk.to]  BY <1>0, <1>2, <2>1, <3>1, <3>2 DEF FdsOwned
      <4>2. remain'[tfd[t]] = remain[tfd[t]]  BY <1>0, <2>1, <4>1 DEF FdType
      <4> QED  BY <2>1, <2>2, <4>2 DEF Rearmed, qvars
    <3> QED  BY <3>1, <3>2
  <2>3. tfd[walk.to] \in rdFds =>
          /\ walk.ob \notin U
          /\ walk.toNext # Nil => Before(timers[walk.ob], walk.to, walk.toNext)
    BY <1>1, <1>2, <1>3, <2>1 DEF Place
  <2>4. \A t \in Timer : Rearmed(t)' => tobj[t] \notin U
    BY <1>3, <2>1, <2>2, <2>3 DEF Ahead
  <2>5. Ahead(U, R)'  BY <1>3, <2>1, <2>4 DEF Ahead, qvars
  <2>6. ASSUME n # Nil  PROVE ClearFrom(n)'
    <3>1. ClearFrom(n)  BY <1>1, <1>3, <2>6 DEF Place
    <3>2. timers[walk.ob] \in Seq(Timer) /\ NoRepeats(timers[walk.ob])
      BY <1>0, <1>2 DEF TimersLinked
    <3>3. tfd[walk.to] \in rdFds =>
            walk.to # n /\ ~Before(timers[walk.ob], n, walk.to)
      BY <2>3, <2>6, <3>2, BeforeIsOrder
    <3>4. ~Rearmed(n)'  BY <1>2, <2>2, <2>6, <3>1, <3>3 DEF ClearFrom
    <3>5. \A u \in Timer : Before(timers[walk.ob], n, u) => ~Rearmed(u)'
      BY <2>2, <3>1, <3>3 DEF ClearFrom
    <3> QED  BY <1>5, <2>1, <3>4, <3>5 DEF ClearFrom, Rearmed, qvars
  <2> QED  BY <1>6, <2>5, <2>6
<1>8. CASE CallbackCancels
  <2>1. /\ rdFds' \subseteq rdFds /\ Cancelled(walk.ob, walk.to)
        /\ walk.to \in Entries(timers[walk.ob]) <=> tobj[walk.to] = walk.ob
    BY <1>0, <1>2, <1>8 DEF CallbackCancels, Cleared, TimersLinked
  <2>2. ASSUME NEW t \in Timer, Rearmed(t)'  PROVE Rearmed(t) /\ tobj'[t] = tobj[t]
    <3>1. tobj'[t] # Nil /\ tfd'[t] \in rdFds /\ remain'[tfd'[t]] > 0
      BY <2>1, <2>2 DEF Rearmed
    <3>2. CASE tobj[walk.to] = walk.ob
      <4>1. tobj' = [tobj EXCEPT ![walk.to] = Nil] /\ Closed({walk.to})
        BY <1>8, <2>1, <3>2 DEF CallbackCancels, Cancelled, Detached
      <4>2. t # walk.to /\ tobj'[t] = tobj[t]  BY <1>0, <3>1, <4>1
      <4>3. tfd'[t] = tfd[t]  BY <4>1, <4>2 DEF Closed
      <4>4. tfd[t] \in Fd /\ remain'[tfd[t]] = remain[tfd[t]]
        BY <1>0, <3>1, <4>1, <4>3 DEF Closed, FdType
      <4> QED  BY <3>1, <4>2, <4>3, <4>4 DEF Rearmed
    <3>3. CASE tobj[walk.to] # walk.ob
      BY <1>8, <2>1, <3>1, <3>3 DEF CallbackCancels, Cancelled, Rearmed, qvars, fdvars
    <3> QED  BY <3>2, <3>3
  <2>3. \A t \in Timer : Rearmed(t)' => tobj'[t] \notin U  BY <1>3, <2>2 DEF Ahead
  <2>4. \/ UNCHANGED <<objq, onext>>
        \/ \E o \in Entries(objq) :
             /\ objq' = TailqRemove(objq, o)
             /\ onext' = [onext EXCEPT ![o] = TailqNext(objq, o, Nil)]
    <3>1. walk.to \in Entries(timers[walk.ob]) => walk.ob \in Entries(objq)
      <4>1. walk.to \in Entries(timers[walk.ob]) => timers[walk.ob] # << >>
        BY <1>0, <1>2, EntriesType
      <4> QED  BY <1>0, <1>2, <4>1 DEF ObjectsQueued
    <3> QED  BY <1>2, <2>1, <3>1 DEF Cancelled, Detached, Stale, qvars
  <2>5. Ahead(U, R)'  BY <1>0, <1>3, <2>3, <2>4, AheadKept
  <2>6. ASSUME NEW a, NEW b, Before(timers'[walk.ob], a, b)
        PROVE  Before(timers[walk.ob], a, b)
    <3>1. CASE walk.to \in Entries(timers[walk.ob])
      <4>1. timers'[walk.ob] = TailqRemove(timers[walk.ob], walk.to)
        BY <1>0, <1>2, <2>1, <3>1 DEF Cancelled, Detached
      <4> QED  BY <1>0, <1>2, <2>6, <3>1, <4>1, BeforeRemove DEF TimersLinked
    <3>2. CASE walk.to \notin Entries(timers[walk.ob])
      BY <2>1, <2>6, <3>2 DEF Cancelled, qvars
    <3> QED  BY <3>1, <3>2
  <2>7. ASSUME n # Nil  PROVE ClearFrom(n)'
    <3>1. ClearFrom(n)  BY <1>1, <1>3, <2>7 DEF Place
    <3>2. ~Rearmed(n)'  BY <1>2, <2>2, <2>7, <3>1 DEF ClearFrom
    <3>3. \A u \in Timer : Before(timers'[walk.ob], n, u) => ~Rearmed(u)'
      BY <2>2, <2>6, <3>1 DEF ClearFrom
    <3> QED  BY <1>5, <3>2, <3>3 DEF ClearFrom, Rearmed
  <2> QED  BY <1>6, <2>5, <2>7
<1> QED  BY <1>7, <1>8

\* Every step keeps the order of the walk.
LEMMA OrderNext ==
  ASSUME NoPeers, OneThread, IInv, WalkSafe, WalkOrder, [Next]_vars
  PROVE  WalkOrder'
<1>1. CASE Application  BY <1>1, CallsKeepOrder
<1>2. CASE BeginWalk \/ EnterObject \/ SkipTimer \/ CallTimer \/ LeaveObject
  BY <1>2, WalkKeepsOrder
<1>3. CASE (\E ival \in Ivals : CallbackRestarts(ival)) \/ CallbackCancels
  BY <1>3, ReturnKeepsOrder
<1>4. CASE BuildSets \/ SelectInterrupted \/ NothingToWalk
  <2>1. walk'.pc = "idle" /\ sink' # "ready"
    BY <1>4 DEF BuildSets, SelectInterrupted, NothingToWalk, WalkOrder
  <2> QED  BY <2>1 DEF WalkOrder
<1>5. CASE SelectReturns \/ SelectReturnsForIO
  <2>1. walk' = walk /\ walk.pc = "idle" /\ rdFds' = {f \in rdFds : Readable(f)}
        /\ UNCHANGED <<qvars, fdvars>>
    BY <1>5 DEF SelectReturns, SelectReturnsForIO, WalkOrder
  <2>2. \A f \in rdFds' : f \in Fd /\ remain'[f] <= 0 /\ remain'[f] \in Int
    BY <2>1 DEF Readable, fdvars, IInv, FdType
  <2>3. \A t \in Timer : ~Rearmed(t)'  BY <2>2 DEF Rearmed
  <2> QED  BY <2>1, <2>3 DEF WalkOrder
<1>6. ASSUME UNCHANGED <<qvars, walk, sink>>, \A t \in Timer : Rearmed(t)' => Rearmed(t),
             rdFds' = rdFds, tfd' = tfd
      PROVE  WalkOrder'
  <2>1. ASSUME walk.pc # "idle",
               NEW U \in SUBSET Object, NEW R \in SUBSET (Object \X Object), Ahead(U, R), Place(U)
        PROVE  Ahead(U, R)' /\ Place(U)'
    <3>1. Ahead(U, R)'  BY <1>6, <2>1 DEF Ahead, qvars
    <3>2. ASSUME NEW n \in Timer, ClearFrom(n)  PROVE ClearFrom(n)'
      <4>1. ~Rearmed(n)'  BY <1>6, <3>2 DEF ClearFrom
      <4> QED  BY <1>6, <3>2, <4>1 DEF ClearFrom, qvars
    <3>3. (AtTimer' => AtTimer) /\ (InCallback' => InCallback)  BY <1>6 DEF AtTimer, InCallback
    <3>4. walk.to \in Timer \cup {Nil} /\ walk.toNext \in Timer \cup {Nil}
      BY DEF IInv, WalkInv, WalkType
    <3>5. (AtTimer => walk.to \in Timer) /\ walk' = walk  BY <1>6, <3>4 DEF AtTimer
    <3>6. Place(U)'  BY <1>6, <2>1, <3>2, <3>3, <3>4, <3>5 DEF Place, qvars
    <3> QED  BY <3>1, <3>6
  <2> QED  BY <1>6, <2>1 DEF WalkOrder
<1>7. CASE Tick
  <2>1. \A f \in Fd : remain'[f] > 0 => remain[f] > 0  BY <1>7 DEF Tick, IInv, FdType
  <2>2. \A t \in Timer : tfd[t] \in rdFds => tfd[t] \in Fd  BY DEF IInv, FdType
  <2>3. \A t \in Timer : Rearmed(t)' => Rearmed(t)
    BY <1>7, <2>1, <2>2 DEF Tick, Rearmed, qvars
  <2> QED  BY <1>6, <1>7, <2>3 DEF Tick
<1>8. CASE UNCHANGED vars
  BY <1>6, <1>8 DEF vars, qvars, Rearmed
<1> QED  BY <1>1, <1>2, <1>3, <1>4, <1>5, <1>7, <1>8 DEF Next, EventSink
-----------------------------------------------------------------------------
(* The refinement *)

\* The ticks left to each timer: those of its descriptor.
Left == [t \in Timer |-> IF tobj[t] = Nil THEN Nil ELSE remain[tfd[t]]]

\* A timer that is started, or armed again, starts in the service.
LEMMA MapsToStart ==
  ASSUME IInv, IInv', NEW o \in Object, NEW t \in Timer, NEW ival \in Ivals,
         tobj' = [tobj EXCEPT ![t] = o], \A u \in Timer \ {t} : tfd'[u] = tfd[u],
         remain' = [remain EXCEPT ![tfd'[t]] = ival]
  PROVE  Left' = [Left EXCEPT ![t] = ival]
<1>0. /\ tobj \in [Timer -> Object \cup {Nil}] /\ remain \in [Fd -> Int] /\ o # Nil
      /\ FdsOwned /\ FdsOwned' /\ open' \subseteq Fd
  BY NilAssumption DEF IInv, QueueInv, QueueType, FdType
<1>1. ASSUME NEW u \in Timer
      PROVE  (IF tobj'[u] = Nil THEN Nil ELSE remain'[tfd'[u]]) = IF u = t THEN ival ELSE Left[u]
  <2>1. CASE u = t
    <3>1. tobj'[t] = o  BY <1>0
    <3>2. tfd'[t] \in Fd  BY <1>0, <3>1 DEF FdsOwned
    <3> QED  BY <1>0, <2>1, <3>1, <3>2
  <2>2. CASE u # t
    <3>1. tobj'[u] = tobj[u] /\ tfd'[u] = tfd[u] /\ tobj'[t] = o  BY <1>0, <2>2
    <3>2. tobj[u] # Nil => tfd'[u] # tfd'[t] /\ tfd'[u] \in Fd
      BY <1>0, <2>2, <3>1 DEF FdsOwned
    <3> QED  BY <1>0, <2>2, <3>1, <3>2 DEF Left
  <2> QED  BY <2>1, <2>2
<1>2. Left' = [u \in Timer |-> IF u = t THEN ival ELSE Left[u]]  BY <1>1 DEF Left
<1>3. Left = [u \in Timer |-> Left[u]]  BY DEF Left
<1> QED  BY <1>2, <1>3

\* Timers that are cancelled stop.
LEMMA MapsToStopped ==
  ASSUME IInv, IInv', NEW S \in SUBSET Timer, Closed(S),
         tobj' = [u \in Timer |-> IF u \in S THEN Nil ELSE tobj[u]]
  PROVE  Service!Stopped(S)
<1>1. ASSUME NEW u \in Timer, u \notin S, tobj[u] # Nil
      PROVE  remain'[tfd'[u]] = remain[tfd[u]]
  <2>1. tobj'[u] # Nil /\ tfd'[u] = tfd[u]  BY <1>1 DEF Closed
  <2>2. tfd'[u] \in open' /\ open' \subseteq Fd  BY <2>1 DEF IInv, FdsOwned, FdType
  <2> QED  BY <2>1, <2>2 DEF Closed
<1>2. Left' = [u \in Timer |-> IF u \in S THEN Nil ELSE Left[u]]
  BY <1>1 DEF Left
<1> QED  BY <1>2 DEF Service!Stopped, Left

\* A call of the application starts a timer or cancels some.
LEMMA ApplicationMaps ==
  ASSUME IInv, IInv', Application
  PROVE  Service!Next
<1>0. /\ tobj \in [Timer -> Object \cup {Nil}] /\ timers \in [Object -> Seq(Timer)]
      /\ tfd \in [Timer -> Fd \cup {NoFd}] /\ TimersLinked
  BY DEF IInv, QueueInv, QueueType, QueuesConsistent, FdType
<1>1. ASSUME NEW o \in Object, NEW t \in Timer, NEW ival \in Ivals,
             AddTimer(o, t, ival) \/ AddTimerAuto(o, t, ival) \/ ResetTimer(o, t, ival)
      PROVE  Service!Start(o, t, ival)
  <2>1. /\ tobj[t] \in {Nil, o} /\ tobj' = [tobj EXCEPT ![t] = o] /\ walk' = walk
        /\ \A u \in Timer \ {t} : tfd'[u] = tfd[u]
        /\ remain' = [remain EXCEPT ![tfd'[t]] = ival]
    <3>1. CASE AddTimer(o, t, ival) \/ AddTimerAuto(o, t, ival)
      BY <1>0, <3>1 DEF AddTimer, AddTimerAuto, Attached, Created, Armed, TimersLinked
    <3>2. CASE ResetTimer(o, t, ival)
      BY <1>0, <3>2 DEF ResetTimer, Armed, qvars
    <3> QED  BY <1>1, <3>1, <3>2
  <2>2. Left' = [Left EXCEPT ![t] = ival]  BY <2>1, MapsToStart
  <2> QED  BY <2>1, <2>2 DEF Service!Start, Left, InCallback
<1>2. ASSUME NEW o \in Object, NEW t \in Timer, DelTimer(o, t)
      PROVE  Service!Cancel(o, {t})
  <2>1. tobj[t] = o /\ tobj' = [u \in Timer |-> IF u \in {t} THEN Nil ELSE tobj[u]]
    BY <1>0, <1>2 DEF DelTimer, Cancelled, Detached, TimersLinked
  <2>2. Closed({t}) /\ walk' = walk  BY <1>2 DEF DelTimer
  <2>3. Service!Stopped({t})  BY <2>1, <2>2, MapsToStopped
  <2> QED  BY <2>1, <2>2, <2>3 DEF Service!Cancel, InCallback
<1>3. ASSUME NEW o \in Object, DelTimers(o)
      PROVE  \E S \in SUBSET Timer : Service!Cancel(o, S)
  <2> PICK S : S = Entries(timers[o])  OBVIOUS
  <2>1. S \in SUBSET Timer  BY <1>0, EntriesType
  <2>2. \A t \in S : tobj[t] = o  BY <1>0, <2>1 DEF TimersLinked
  <2>3. /\ tobj' = [u \in Timer |-> IF u \in S THEN Nil ELSE tobj[u]]
        /\ Closed(S) /\ walk' = walk
    BY <1>3 DEF DelTimers, AllCancelled
  <2>4. Service!Stopped(S)  BY <2>1, <2>3, MapsToStopped
  <2> QED  BY <2>1, <2>2, <2>3, <2>4 DEF Service!Cancel, InCallback
<1>4. ASSUME NEW o \in Object, NEW t \in Timer, DelTimer(o, t)
      PROVE  Service!Next
  <2>1. {t} \in SUBSET Timer  OBVIOUS
  <2> QED  BY <1>2, <1>4, <2>1 DEF Service!Next
<1> QED  BY <1>1, <1>3, <1>4 DEF Application, Service!Next

\* The steps of the sink call back timers that have expired, restart or cancel
\* them, or are no step of the service.
LEMMA SinkMaps ==
  ASSUME IInv, IInv', WalkSafe, WalkOrder, EventSink \/ SelectInterrupted \/ SelectReturnsForIO
  PROVE  Service!Next \/ UNCHANGED Service!svars
<1>0. /\ WalkInv /\ walk \in WalkType /\ FdType /\ FdsOwned /\ TimersLinked
      /\ tobj \in [Timer -> Object \cup {Nil}]
  BY DEF IInv, WalkInv, QueueInv, QueueType, QueuesConsistent
<1>1. ASSUME UNCHANGED <<tobj, tfd, remain>>, ~InCallback, ~InCallback'
      PROVE  UNCHANGED Service!svars
  BY <1>1 DEF Service!svars
<1>2. CASE BuildSets \/ SelectReturns \/ SelectReturnsForIO \/ SelectInterrupted \/ NothingToWalk
  BY <1>2 DEF BuildSets, SelectReturns, SelectReturnsForIO, SelectInterrupted, NothingToWalk,
              qvars, fdvars, Service!svars, InCallback
<1>3. CASE BeginWalk \/ EnterObject \/ SkipTimer
  BY <1>0, <1>1, <1>3 DEF BeginWalk, WalkBegins, NoWalk, EnterObject, SkipTimer, WalkEntersObject,
                          WalkSkipsTimer, AtTimer, qvars, fdvars, InCallback, WalkType
<1>4. CASE LeaveObject
  <2>1. walk'.pc # "callback"
    <3>1. CASE walk.obNext = Nil  BY <1>4, <3>1 DEF LeaveObject, WalkLeavesObject, NoWalk
    <3>2. CASE walk.obNext # Nil
      BY <1>0, <1>4, <3>2 DEF LeaveObject, WalkLeavesObject, WalkType
    <3> QED  BY <3>1, <3>2
  <2> QED  BY <1>1, <1>4, <2>1 DEF LeaveObject, WalkLeavesObject, InCallback, fdvars
<1>5. CASE CallTimer
  <2>1. /\ AtTimer /\ ~InCallback /\ tfd[walk.to] \in rdFds
        /\ UNCHANGED <<tobj, tfd, remain>>
    BY <1>5 DEF CallTimer, WalkCallsTimer, AtTimer, InCallback, qvars, fdvars
  <2>2. InCallback' /\ walk'.to = walk.to /\ walk'.ob = walk.ob
    BY <1>0, <1>5 DEF CallTimer, WalkCallsTimer, InCallback, WalkType
  <2>3. walk.to \in Timer /\ walk.to # Nil /\ tobj[walk.to] = walk.ob /\ walk.ob # Nil
    BY <1>0, <2>1, NilAssumption DEF WalkSafe, AtTimer, WalkInv, WalkType
  <2>4. ~Rearmed(walk.to)  BY <2>1 DEF WalkOrder, Place, AtTimer, ClearFrom
  <2>5. remain[tfd[walk.to]] <= 0
    <3>1. remain[tfd[walk.to]] \in Int  BY <1>0, <2>1 DEF FdType
    <3> QED  BY <2>1, <2>3, <2>4, <3>1 DEF Rearmed
  <2>6. Service!Fire(walk.to)
    BY <2>1, <2>2, <2>3, <2>5 DEF Service!Fire, Service!Running
  <2> QED  BY <2>3, <2>6 DEF Service!Next
<1>6. InCallback => walk.to \in Timer /\ walk.to # Nil /\ walk.ob \in Object /\ walk.ob # Nil
  BY <1>0, NilAssumption DEF InCallback, WalkInv
<1>7. ASSUME NEW ival \in Ivals, CallbackRestarts(ival)  PROVE Service!Restart(ival)
  <2>1. /\ InCallback /\ tobj[walk.to] = walk.ob /\ UNCHANGED <<tobj, tfd>>
        /\ remain' = [remain EXCEPT ![tfd'[walk.to]] = ival]
    BY <1>7 DEF CallbackRestarts, Armed, qvars
  <2>2. tobj' = [tobj EXCEPT ![walk.to] = walk.ob]  BY <1>0, <2>1
  <2>3. Left' = [Left EXCEPT ![walk.to] = ival]
    <3> PICK o, t : o = walk.ob /\ t = walk.to  OBVIOUS
    <3>1. /\ o \in Object /\ t \in Timer /\ tobj' = [tobj EXCEPT ![t] = o]
          /\ \A u \in Timer \ {t} : tfd'[u] = tfd[u]
          /\ remain' = [remain EXCEPT ![tfd'[t]] = ival]
      BY <1>6, <2>1, <2>2
    <3>2. Left' = [Left EXCEPT ![t] = ival]  BY <3>1, MapsToStart, ZenonT(30)
    <3> QED  BY <3>2
  <2>4. ~InCallback'
    BY <1>0, <1>7 DEF CallbackRestarts, WalkGoesOn, InCallback, WalkType
  <2> QED  BY <1>6, <2>1, <2>3, <2>4 DEF Service!Restart, Service!Return, Left
<1>8. CASE CallbackCancels
  <2> PICK S : S = {walk.to} \cap {t \in Timer : tobj[t] = walk.ob}  OBVIOUS
  <2>1. InCallback /\ Cancelled(walk.ob, walk.to)  BY <1>8 DEF CallbackCancels
  <2>2. walk.to \in Entries(timers[walk.ob]) <=> tobj[walk.to] = walk.ob
    BY <1>0, <1>6, <2>1 DEF TimersLinked
  <2>3. ~InCallback'
    BY <1>0, <1>8 DEF CallbackCancels, WalkGoesOn, InCallback, WalkType
  <2>4. Service!Stopped(S)
    <3>1. CASE tobj[walk.to] = walk.ob
      <4>1. S = {walk.to}  BY <1>6, <2>1, <3>1
      <4>2. tobj' = [u \in Timer |-> IF u \in S THEN Nil ELSE tobj[u]]
        BY <1>0, <2>1, <2>2, <3>1, <4>1 DEF Cancelled, Detached
      <4>3. Closed(S) /\ S \in SUBSET Timer
        BY <1>6, <1>8, <2>1, <3>1, <4>1 DEF CallbackCancels, Closed
      <4> QED  BY <4>2, <4>3, MapsToStopped
    <3>2. CASE tobj[walk.to] # walk.ob
      <4>1. S = {}  BY <3>2
      <4>2. UNCHANGED <<tobj, tfd, remain>>
        BY <1>8, <2>1, <2>2, <3>2 DEF CallbackCancels, Cancelled, qvars, fdvars
      <4>3. Left' = Left /\ tobj = [t \in Timer |-> tobj[t]] /\ Left = [t \in Timer |-> Left[t]]
        BY <1>0, <4>2 DEF Left
      <4> QED  BY <4>1, <4>2, <4>3 DEF Service!Stopped, Left
    <3> QED  BY <3>1, <3>2
  <2>5. Service!Expire
    BY <1>6, <2>1, <2>3, <2>4 DEF Service!Expire, Service!Return, Service!Stopped
  <2> QED  BY <2>5 DEF Service!Next
<1> QED
  BY <1>2, <1>3, <1>4, <1>5, <1>7, <1>8 DEF EventSink, Service!Next

\* The time that passes for the descriptors passes for the timers.
LEMMA TickMaps == ASSUME IInv, Tick PROVE Service!Tick
<1>1. \A t \in Timer : tobj[t] # Nil => tfd[t] \in open /\ tfd[t] \in Fd
  BY DEF IInv, FdsOwned, FdType
<1>2. Left' = [t \in Timer |-> IF t \in Service!Running THEN Left[t] - 1 ELSE Nil]
  BY <1>1 DEF Tick, Left, Service!Running, qvars
<1> QED  BY <1>2 DEF Tick, Service!Tick, Left, InCallback, qvars

\* The sink that has a timerfd per timer implements the timer service, whatever the
\* numbers of objects, timers and descriptors, provided that it is alone to start
\* timers (OneThread) and that callbacks cancel no peer: the timers that the walk
\* calls back have expired, because those that were armed again since select
\* returned lie behind it, whatever the callbacks do to the queues ahead.
THEOREM ImplementsTimerService ==
  NoPeers /\ OneThread => (Spec => ImplementsService)
<1> SUFFICES ASSUME NoPeers, OneThread  PROVE Spec => ImplementsService
  OBVIOUS
<1> DEFINE J == IInv /\ WalkSafe /\ WalkOrder
<1>1. Init => J
  BY InitInv DEF Init, QueueInit, NoWalk, WalkSafe, AtTimer, InCallback, WalkOrder
<1>2. J /\ [Next]_vars => J'  BY NextInv, NextSafe, OrderNext
<1>3. Init => Service!Init
  BY DEF Init, QueueInit, NoWalk, Service!Init, InCallback
<1>4. J /\ J' /\ [Next]_vars => [Service!Next]_(Service!svars)
  <2> SUFFICES ASSUME J, J', [Next]_vars  PROVE Service!Next \/ UNCHANGED Service!svars
    OBVIOUS
  <2>1. CASE Application  BY <2>1, ApplicationMaps
  <2>2. CASE EventSink \/ SelectInterrupted \/ SelectReturnsForIO  BY <2>2, SinkMaps
  <2>3. CASE Tick  BY <2>3, TickMaps DEF Service!Next
  <2>4. CASE UNCHANGED vars
    BY <2>4 DEF vars, Service!svars, InCallback
  <2> QED  BY <2>1, <2>2, <2>3, <2>4 DEF Next
<1> HIDE DEF J
<1> QED  BY <1>1, <1>2, <1>3, <1>4, PTL DEF Spec, ImplementsService, Service!Spec
=============================================================================
