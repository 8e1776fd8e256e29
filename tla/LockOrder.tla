----------------------------- MODULE LockOrder -----------------------------
(***************************************************************************)
(* The locks of Agar-Core: the recursive lock of each object, that of the  *)
(* root of a tree (AG_LockVFS) and agTimerLock.  Threads make calls of the *)
(* library, each of which takes and releases locks, and reads and writes   *)
(* what they protect, in an order of its own.                              *)
(*                                                                         *)
(* A call is the sequence of its steps.  What it computes is the matter of *)
(* the other modules; here only the locks and the accesses count.          *)
(***************************************************************************)
EXTENDS Program, Naturals, Sequences, SequencesExt

CONSTANTS
  Parent,         \* the parent of each object other than Root
  Timing,         \* agTimerLock
  Calls,          \* the calls the threads make: sequences of steps
  Depth,          \* for each call and step, how often each lock is held before it
  Level           \* the order of the locks: from higher levels to lower ones

Lock == Object \cup {Timing}
NoLock == [l \in Lock |-> 0]

ASSUME TimingAssumption == Timing \notin Object
ASSUME ParentAssumption == Parent \in [Object \ {Root} -> Object]

\* What the locks protect: agTimerObjQ and the timers of all objects, ob->events and
\* ob->children.
TimerQueues == <<"timers">>
Events(o) == <<"events", o>>
Children(o) == <<"children", o>>
Data == {TimerQueues} \cup {Events(o) : o \in Object} \cup {Children(o) : o \in Object}

Step == [op : {"lock", "unlock"}, on : Lock] \cup [op : {"read", "write"}, on : Data]

\* The locks held after a step.
After(step, depth) ==
  [depth EXCEPT ![step.on] = IF step.op = "lock" THEN @ + 1 ELSE @ - 1]

\* A call releases what it locked, and nothing else: Depth counts it.
ASSUME DepthAssumption ==
  \A c \in Calls :
    /\ c \in Seq(Step) /\ c # << >>
    /\ Depth[c] \in [1..(Len(c) + 1) -> [Lock -> Nat]]
    /\ Depth[c][1] = NoLock /\ Depth[c][Len(c) + 1] = NoLock
    /\ \A i \in DOMAIN c :
         IF c[i].op \in {"lock", "unlock"}
         THEN Depth[c][i + 1] = After(c[i], Depth[c][i])
         ELSE Depth[c][i + 1] = Depth[c][i]

ASSUME LevelAssumption == Level \in [Lock -> Nat]

VARIABLES
  call,       \* the call each thread is in, or << >>
  at,         \* the step of it that comes next
  held        \* how many times each thread has locked each lock

lockvars == <<call, at, held>>

-----------------------------------------------------------------------------
(* The calls *)

Acquire(l) == [op |-> "lock", on |-> l]
Release(l) == [op |-> "unlock", on |-> l]
Read(d) == [op |-> "read", on |-> d]
Write(d) == [op |-> "write", on |-> d]
With(l, body) == <<Acquire(l)>> \o body \o <<Release(l)>>

\* AG_LockTimers
WithTimers(o, body) == With(o, With(Timing, body))

\* AG_AddTimer, AG_ResetTimer
AddTimerCall(o) == WithTimers(o, <<Write(TimerQueues)>>)
\* (Mutant: the locks in the other order.)
DelTimerInvertedCall(o) == With(Timing, With(o, <<Read(TimerQueues), Write(TimerQueues)>>))
\* (Mutant: only the object is locked.)
DelTimerUnlockedCall(o) == With(o, <<Read(TimerQueues), Write(TimerQueues)>>)
DelTimerCall(o) == WithTimers(o, <<Read(TimerQueues), Write(TimerQueues)>>)

\* AG_DelTimers of an object with one timer
DelTimersCall(o) == With(Timing, <<Read(TimerQueues)>> \o DelTimerCall(o))

\* AG_ProcessTimeouts (AG_EventSinkTIMERFD likewise) that finds an expired timer of
\* o, the callback of which makes a call.
ProcessTimeoutsCall(o, callback) ==
  With(Timing, <<Read(TimerQueues)>> \o
    With(o, <<Read(TimerQueues)>> \o callback \o DelTimerCall(o) \o <<Read(TimerQueues)>>))

\* AG_SetEvent, AG_AddEvent, AG_UnsetEvent
SetEventCall(o) == With(o, <<Read(Events(o)), Write(Events(o))>>)

\* AG_PostEvent to a handler that does not propagate, and makes a call.
PostEventCall(o, callback) == With(o, <<Read(Events(o))>> \o callback \o <<Read(Events(o))>>)

\* AG_PostEvent to a handler that propagates, with "kids" the children of o.
PropagateCall(o, kids) ==
  With(o, <<Read(Events(o))>> \o
    With(Root, <<Read(Children(o))>> \o
      FlattenSeq([i \in DOMAIN kids |-> <<Read(Children(kids[i]))>> \o PostEventCall(kids[i], << >>)])) \o
    <<Read(Events(o))>>)

\* AG_SchedEvent
SchedEventCall(o) == With(Timing, With(o, AddTimerCall(o)))

\* AG_ObjectAttach and AG_ObjectDetach lock the tree, the parent and the object.
WithTree(o, body) == With(Root, With(Parent[o], With(o, body)))

AttachCall(o) ==
  WithTree(o, <<Write(Children(Parent[o]))>> \o PostEventCall(o, << >>) \o PostEventCall(Parent[o], << >>))

\* (Mutant: the lists are left to the caller's locks.)
DetachUnlockedCall(o) ==
  With(o, With(Timing, <<Read(TimerQueues)>> \o DelTimerCall(o)) \o <<Write(Children(Parent[o]))>>)
DetachCall(o) ==
  WithTree(o, With(Timing, <<Read(TimerQueues)>> \o DelTimerCall(o)) \o
              <<Write(Children(Parent[o]))>> \o PostEventCall(o, << >>) \o PostEventCall(Parent[o], << >>))

\* AG_ObjectFindChild
FindChildCall(o) == With(Root, <<Read(Children(o))>>)

\* AG_ObjectFreeChildren of an object with the one child "kid".
FreeChildrenCall(o, kid) ==
  With(o, <<Read(Children(o))>> \o With(kid, <<Read(Children(kid))>>) \o DetachCall(kid))

-----------------------------------------------------------------------------
(* The threads *)

LockInit ==
  /\ call = [th \in Thread |-> << >>]
  /\ at = [th \in Thread |-> 1]
  /\ held = [th \in Thread |-> NoLock]

Start(th, c) ==
  /\ call[th] = << >>
  /\ call' = [call EXCEPT ![th] = c]
  /\ UNCHANGED <<at, held>>

Here(th) == call[th][at[th]]
At(th, op) == call[th] # << >> /\ Here(th).op = op

\* The step is done: on to the next, or the call returns.
Done(th) ==
  IF at[th] = Len(call[th])
  THEN call' = [call EXCEPT ![th] = << >>] /\ at' = [at EXCEPT ![th] = 1]
  ELSE at' = [at EXCEPT ![th] = @ + 1] /\ UNCHANGED call

Free(th, l) == \A u \in Thread \ {th} : held[u][l] = 0
\* AG_MutexLock: the mutexes are recursive.
MutexLock(th) ==
  /\ At(th, "lock") /\ Free(th, Here(th).on)
  /\ held' = [held EXCEPT ![th] = After(Here(th), @)]
  /\ Done(th)

MutexUnlock(th) ==
  /\ At(th, "unlock")
  /\ held' = [held EXCEPT ![th] = After(Here(th), @)]
  /\ Done(th)

Access(th) ==
  /\ At(th, "read") \/ At(th, "write")
  /\ UNCHANGED held
  /\ Done(th)

Proceed(th) == MutexLock(th) \/ MutexUnlock(th) \/ Access(th)

LockNext == \E th \in Thread : (\E c \in Calls : Start(th, c)) \/ Proceed(th)

LockSpec == LockInit /\ [][LockNext]_lockvars

-----------------------------------------------------------------------------
(* Properties *)

\* The type of the state: each thread holds what the steps it has taken locked and
\* did not unlock, so nothing between calls.
LocksTypeOK ==
  /\ call \in [Thread -> Calls \cup {<< >>}]
  /\ at \in [Thread -> Nat]
  /\ held \in [Thread -> [Lock -> Nat]]
  /\ \A th \in Thread :
       IF call[th] = << >> THEN at[th] = 1 /\ held[th] = NoLock
       ELSE at[th] \in DOMAIN call[th] /\ held[th] = Depth[call[th]][at[th]]

\* Thread th waits for a lock that thread u holds.
WaitsFor(th, u) == At(th, "lock") /\ u # th /\ held[u][Here(th).on] > 0

\* "Agar is entirely thread-safe": no threads wait for each other in a circle,
\* whatever calls they are in.
NoDeadlock ==
  \A S \in (SUBSET Thread) \ {{}} : ~(\A th \in S : \E u \in S : WaitsFor(th, u))

\* Why: a thread that wants a lock it does not hold yet only holds locks of higher
\* levels (parents are locked before children, and agTimerLock last).
LockHierarchy ==
  \A th \in Thread : At(th, "lock") /\ held[th][Here(th).on] = 0 =>
    \A l \in Lock : held[th][l] > 0 => Level[l] > Level[Here(th).on]

\* Nothing is read or written while another thread is at a write of it.
NoRace ==
  \A th, u \in Thread :
    th # u /\ At(th, "write") /\ (At(u, "write") \/ At(u, "read")) => Here(th).on # Here(u).on

=============================================================================
