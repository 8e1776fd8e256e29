--------------------------- MODULE EventDispatch ---------------------------
(***************************************************************************)
(* Named events and their handlers (core/event.c): AG_SetEvent and its     *)
(* siblings edit the list of handlers of an object; AG_PostEvent,          *)
(* AG_PostEventByPtr, AG_ForwardEvent and the timer of AG_SchedEvent run   *)
(* the handlers, forward the event to the descendants of the object, and   *)
(* start threads for asynchronous handlers.                                *)
(*                                                                         *)
(* Handlers call these functions in turn, so each thread has a stack of    *)
(* frames.  A call holds the lock of the object it posts to while it walks *)
(* the handlers, and that of the root of the tree (AG_LockVFS) while it    *)
(* forwards.  The tree does not change here (ObjectTree is about that).    *)
(***************************************************************************)
EXTENDS Program, AgQueue, FiniteSets

CONSTANTS
  Kids,           \* the children of each object, in order
  Handler,        \* AG_Event structures
  Name,           \* names of events
  Flags,          \* for each object, the sets of flags its handlers may have
  SchedArgs,      \* the arguments given to AG_SchedEvent (sequences of values)
  MaxDepth        \* bound: handlers post events no deeper than this

VARIABLES
  events,     \* ob->events of each object
  hname,      \* ev->name, Nil when the structure is free
  hflags,     \* ev->flags
  stack,      \* the calls each thread is in, innermost first
  sched,      \* the timer of AG_SchedEvent (bound: one at a time), or Nil
  due,        \* of the event the loop's thread posted: the handlers there were
              \* for it, less those deleted since
  got,        \*   how often each was called (or given a thread) for it
  fwd         \*   whether it reached a handler with AG_EVENT_PROPAGATE

vars == <<events, hname, hflags, stack, sched, due, got, fwd>>

ASSUME NilAssumption == Nil \notin Object \cup Handler \cup Name
ASSUME TreeAssumption == Kids \in [Object -> Seq(Object)]

Init ==
  /\ events = [o \in Object |-> << >>]
  /\ hname = [h \in Handler |-> Nil] /\ hflags = [h \in Handler |-> {}]
  /\ stack = [th \in Thread |-> << >>]
  /\ sched = Nil
  /\ due = {} /\ got = [h \in Handler |-> 0] /\ fwd = FALSE

-----------------------------------------------------------------------------
(* Helpers *)

\* The descendants of an object in the order PropagateEvent forwards to them: an
\* object's children before the object.
Descendants == LET D[o \in Object] ==
                     FlattenSeq([i \in DOMAIN Kids[o] |-> Append(D[Kids[o][i]], Kids[o][i])])
               IN D

\* They are a tree: nothing is reached twice, or from itself.
ASSUME DescendantsAssumption ==
  \A o \in Object : Descendants[o] \in Seq(Object \ {o}) /\ NoRepeats(Descendants[o])

\* The first handler for n on o at a position beyond i.
ScanFrom(o, n, i) ==
  LET J == {j \in DOMAIN events[o] : j > i /\ hname[events[o][j]] = n}
  IN IF J = {} THEN Nil ELSE events[o][CHOOSE j \in J : \A k \in J : j <= k]
FirstMatch(o, n) == ScanFrom(o, n, 0)
NextMatch(o, n, h) == IF h \in Entries(events[o]) THEN ScanFrom(o, n, Pos(events[o], h)) ELSE Nil

Top(th) == Head(stack[th])
InFrame(th, pc) == stack[th] # << >> /\ Top(th).pc = pc

\* The locks a thread holds (they are recursive). EventThread takes none for the
\* handler it runs.
Held(th) ==
  {f.rcvr : f \in {g \in Entries(stack[th]) : g.kind # "async"}}
  \cup (IF \E f \in Entries(stack[th]) : f.pc = "forward" THEN {Root} ELSE {})
MayLock(th, o) == \A u \in Thread \ {th} : o \notin Held(u)

\* The application runs in a thread: a handler of it, or the loop's own code.
Runs(th) == InFrame(th, "call") \/ (th = Main /\ stack[th] = << >>)

Frame(kind, o, n, h, outer) ==
  [kind |-> kind, rcvr |-> o, name |-> n, ev |-> h, pc |-> "at",
   todo |-> << >>, propagated |-> FALSE, outer |-> outer]

Push(th, f) == stack' = [stack EXCEPT ![th] = <<f>> \o @]
Become(th, f) == stack' = [stack EXCEPT ![th] = <<f>> \o Tail(@)]
Pop(th) == stack' = [stack EXCEPT ![th] = Tail(@)]

ghosts == <<due, got, fwd>>
Counted(f) == got' = IF f.outer /\ f.ev # Nil THEN [got EXCEPT ![f.ev] = @ + 1] ELSE got

-----------------------------------------------------------------------------
(* The list of handlers *)

NewHandler(o, n, h, flags) ==
  /\ hname[h] = Nil /\ flags \in Flags[o]
  /\ events' = [events EXCEPT ![o] = TailqInsertTail(@, h)]
  /\ hname' = [hname EXCEPT ![h] = n]
  /\ hflags' = [hflags EXCEPT ![h] = flags]

\* AG_SetEvent: the first handler of the name is reused, and keeps its flags (to
\* which the caller adds "flags").
SetEvent(th, o, n, flags) ==
  /\ Runs(th) /\ MayLock(th, o)
  /\ LET old == FirstMatch(o, n) IN
     IF old # Nil
     THEN /\ hflags[old] \cup flags \in Flags[o]
          /\ hflags' = [hflags EXCEPT ![old] = @ \cup flags]
          /\ UNCHANGED <<events, hname>>
     ELSE \E h \in Handler : NewHandler(o, n, h, flags)
  /\ UNCHANGED <<stack, sched, ghosts>>

\* AG_AddEvent: a new handler inherits the flags of the first of its name.
AddEvent(th, o, n, flags) ==
  /\ Runs(th) /\ MayLock(th, o)
  /\ LET other == FirstMatch(o, n) IN
     \E h \in Handler :
       NewHandler(o, n, h, flags \cup IF other = Nil THEN {} ELSE hflags[other])
  /\ UNCHANGED <<stack, sched, ghosts>>

Unset(o, n) ==
  LET h == FirstMatch(o, n) IN
  /\ h # Nil
  /\ events' = [events EXCEPT ![o] = TailqRemove(@, h)]
  /\ hname' = [hname EXCEPT ![h] = Nil]
  /\ hflags' = [hflags EXCEPT ![h] = {}]
  /\ due' = due \ {h}
  /\ got' = [got EXCEPT ![h] = 0]
  /\ UNCHANGED <<stack, sched, fwd>>

\* A handler does not delete the one it is called through.
InUse(th, h) == \E f \in Entries(stack[th]) : f.ev = h

\* (Mutant: without the object's lock.)
UnsetEventUnlocked(th, o, n) ==
  /\ Runs(th) /\ ~InUse(th, FirstMatch(o, n))
  /\ Unset(o, n)

\* AG_UnsetEvent: the first handler of the name is removed, and freed.
UnsetEvent(th, o, n) ==
  /\ Runs(th) /\ MayLock(th, o) /\ ~InUse(th, FirstMatch(o, n))
  /\ Unset(o, n)

-----------------------------------------------------------------------------
(* Posting *)

\* Bounds on the events handlers post: the depth; and asynchronous handlers only
\* post where they start no further thread.
MayPost(th, o) ==
  /\ Runs(th) /\ MayLock(th, o) /\ Len(stack[th]) < MaxDepth
  /\ th = Main \/ \A r \in {o} \cup Entries(Descendants[o]) : "async" \notin UNION Flags[r]

\* AG_PostEvent. That of the loop's thread itself is followed (the ghosts).
PostEvent(th, o, n) ==
  /\ MayPost(th, o)
  /\ LET outer == stack[th] = << >> IN
     /\ Push(th, Frame("post", o, n, FirstMatch(o, n), outer))
     /\ IF outer
        THEN due' = {h \in Handler : hname[h] = n /\ \E r \in {o} \cup Entries(Descendants[o]) :
                                                        h \in Entries(events[r])}
        ELSE UNCHANGED due
  /\ UNCHANGED <<events, hname, hflags, sched, got, fwd>>

\* AG_PostEventByPtr, with a handler of the object.
PostEventByPtr(th, o, h) ==
  /\ MayPost(th, o) /\ h \in Entries(events[o])
  /\ Push(th, Frame("ptr", o, hname[h], h, FALSE))
  /\ UNCHANGED <<events, hname, hflags, sched, ghosts>>

\* AG_SchedEvent: the timer's argv holds the sender (here the thread) and the
\* name, and then the arguments of the caller over them.
SchedEvent(th, o, n, args) ==
  /\ Runs(th) /\ MayLock(th, o) /\ sched = Nil
  /\ sched' = [rcvr |-> o, name |-> n,
               argv |-> args \o SubSeq(<<th, n>>, Len(args) + 1, 2)]
  /\ UNCHANGED <<events, hname, hflags, stack, ghosts>>

\* EventTimeout, from the event loop: it runs the first handler of the name the
\* timer holds. The object's lock is held around it.
EventTimeout ==
  /\ sched # Nil /\ stack[Main] = << >> /\ MayLock(Main, sched.rcvr)
  /\ LET h == FirstMatch(sched.rcvr, sched.argv[2]) IN
     IF h = Nil THEN UNCHANGED stack
                ELSE Push(Main, Frame("timeout", sched.rcvr, sched.argv[2], h, FALSE))
  /\ sched' = Nil
  /\ UNCHANGED <<events, hname, hflags, ghosts>>

-----------------------------------------------------------------------------
(* Running the handlers *)

Loops(f) == f.kind \in {"post", "forward"}

\* (Mutant: the walk ends with the first handler.)
AdvanceOnce(th) == Pop(th)
\* On to the next handler of the name, or the call returns.
Advance(th) ==
  LET f == Top(th) IN
  IF Loops(f) THEN Become(th, [f EXCEPT !.ev = NextMatch(f.rcvr, f.name, f.ev), !.pc = "at"])
              ELSE Pop(th)

\* The handler at hand is to run in a thread of its own (EventTimeout ignores
\* the flag), or must be propagated first.
Async(f) == f.kind \in {"post", "ptr", "forward"} /\ "async" \in hflags[f.ev]

Propagates(f) ==
  CASE f.kind \in {"post", "ptr"} -> "propagate" \in hflags[f.ev] /\ ~f.propagated
    [] f.kind \in {"forward", "timeout"} -> "propagate" \in hflags[f.ev]
    [] f.kind = "async" -> ~f.propagated

\* The walk has a handler at hand, or is that of EventThread.
AtHandler(th) == InFrame(th, "at") /\ (Top(th).ev # Nil \/ Top(th).kind = "async")

\* A thread is started with a copy of the event. AG_PostEvent takes
\* AG_EVENT_PROPAGATE off the copy, and forwards the event no more itself.
Spawn(th, new) ==
  /\ AtHandler(th) /\ Top(th).kind # "async" /\ Async(Top(th))
  /\ new # Main /\ stack[new] = << >>
  /\ LET f == Top(th)
         prop == "propagate" \in hflags[f.ev]
         copied == f.kind = "forward" /\ prop
         g == [f EXCEPT !.propagated = @ \/ (f.kind # "forward" /\ prop)]
         thread == [Frame("async", f.rcvr, f.name, Nil, FALSE) EXCEPT !.propagated = ~copied]
         next == [g EXCEPT !.ev = NextMatch(f.rcvr, f.name, f.ev)]
     IN /\ stack' = [stack EXCEPT ![new] = <<thread>>,
                                  ![th] = IF Loops(f) THEN <<next>> \o Tail(@) ELSE Tail(@)]
        /\ Counted(f)
        /\ fwd' = (fwd \/ (f.outer /\ f.kind = "post" /\ prop))
  /\ UNCHANGED <<events, hname, hflags, sched, due>>

\* AG_LockVFS, and the event is to go to all the descendants.
Propagate(th) ==
  /\ AtHandler(th) /\ ~(Top(th).kind # "async" /\ Async(Top(th)))
  /\ Propagates(Top(th)) /\ MayLock(th, Root)
  /\ Become(th, [Top(th) EXCEPT !.pc = "forward", !.propagated = TRUE,
                                !.todo = Descendants[Top(th).rcvr]])
  /\ fwd' = (fwd \/ (Top(th).outer /\ Top(th).kind = "post"))
  /\ UNCHANGED <<events, hname, hflags, sched, due, got>>

\* AG_ForwardEvent to the next descendant.
Forward(th) ==
  /\ InFrame(th, "forward") /\ Top(th).todo # << >>
  /\ LET f == Top(th)
         r == Head(f.todo)
     IN /\ MayLock(th, r)
        /\ stack' = [stack EXCEPT ![th] =
             <<Frame("forward", r, f.name, FirstMatch(r, f.name), f.outer),
               [f EXCEPT !.todo = Tail(@)]>> \o Tail(@)]
  /\ UNCHANGED <<events, hname, hflags, sched, ghosts>>

\* The handler is called.
Call(th) ==
  /\ \/ AtHandler(th) /\ ~(Top(th).kind # "async" /\ Async(Top(th))) /\ ~Propagates(Top(th))
     \/ InFrame(th, "forward") /\ Top(th).todo = << >>
  /\ Become(th, [Top(th) EXCEPT !.pc = "call"])
  /\ Counted(Top(th))
  /\ UNCHANGED <<events, hname, hflags, sched, due, fwd>>

HandlerReturns(th) ==
  /\ InFrame(th, "call")
  /\ Advance(th)
  /\ UNCHANGED <<events, hname, hflags, sched, ghosts>>

\* There are no more handlers: AG_PostEvent or AG_ForwardEvent returns.
Return(th) ==
  /\ InFrame(th, "at") /\ ~AtHandler(th)
  /\ Pop(th)
  /\ IF stack'[th] = << >> /\ Top(th).outer
     THEN due' = {} /\ got' = [h \in Handler |-> 0] /\ fwd' = FALSE
     ELSE UNCHANGED ghosts
  /\ UNCHANGED <<events, hname, hflags, sched>>

Application(th) ==
  \E o \in Object :
    \/ \E n \in Name : \/ \E flags \in Flags[o] : SetEvent(th, o, n, flags) \/ AddEvent(th, o, n, flags)
                       \/ UnsetEvent(th, o, n) \/ PostEvent(th, o, n)
                       \/ \E args \in SchedArgs : SchedEvent(th, o, n, args)
    \/ \E h \in Handler : PostEventByPtr(th, o, h)

Dispatch(th) ==
  (\E new \in Thread : Spawn(th, new)) \/ Propagate(th) \/ Forward(th) \/ Call(th) \/ Return(th)

Next == EventTimeout \/ \E th \in Thread : Application(th) \/ Dispatch(th) \/ HandlerReturns(th)

Spec == Init /\ [][Next]_vars

-----------------------------------------------------------------------------
(* Properties *)

FrameType ==
  [kind : {"post", "ptr", "forward", "timeout", "async"}, rcvr : Object, name : Name,
   ev : Handler \cup {Nil}, pc : {"at", "forward", "call"}, todo : Seq(Object),
   propagated : BOOLEAN, outer : BOOLEAN]

\* The type of the state; the structures in use are those in the lists, each in
\* one list, and named.
TypeOK ==
  /\ events \in [Object -> Seq(Handler)]
  /\ \A o \in Object : NoRepeats(events[o])
  /\ \A h \in Handler : (hname[h] \in Name) <=> \E o \in Object : h \in Entries(events[o])
  /\ hflags \in [Handler -> SUBSET {"propagate", "async"}]
  /\ stack \in [Thread -> Seq(FrameType)]

\* No walk goes on from a handler that has been freed, by another thread or by a
\* handler it called.
NoUseAfterFree ==
  \A th \in Thread : \A f \in Entries(stack[th]) : f.ev # Nil => f.ev \in Entries(events[f.rcvr])

\* One event is delivered to no handler twice (AG_Event.3: AG_EVENT_PROPAGATE
\* forwards it to all the child objects).
\* (Not true of this code: see the README's Findings.)
DeliveredOnce == \A h \in Handler : got[h] <= 1

\* When AG_PostEvent returns, the handlers the receiver had for the event have
\* been called (or have a thread), unless they were deleted meanwhile; and if one
\* of them has AG_EVENT_PROPAGATE, so have the handlers of the descendants.
DeliveredToAll ==
  [][\A o \in Object :
       (stack[Main] # << >> /\ Top(Main).outer /\ stack'[Main] = << >> /\ Top(Main).rcvr = o) =>
         \A h \in due : (h \in Entries(events[o]) \/ fwd) => got[h] > 0]_vars
=============================================================================
