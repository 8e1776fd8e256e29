----------------------------- MODULE EventLoop -----------------------------
(***************************************************************************)
(* AG_EventLoop (core/event.c) and the event sources it runs: each thread  *)
(* has a source of its own, with lists of prologues, spinners, sinks and   *)
(* epilogues.  A pass of the loop calls the spinners, waits in select for  *)
(* the descriptors of the sinks, calls the timers that expired, then the   *)
(* sinks that are ready, then the epilogues, and ends the loop if it was   *)
(* asked to.                                                               *)
(*                                                                         *)
(* The waiting is that of AG_EventSinkTIMERFD, AG_EventSinkTIMEDSELECT     *)
(* (Blocking) and AG_EventSinkSELECT (not Blocking).  Each of them reads   *)
(* agEventSource, the source of the main thread, whichever thread runs it. *)
(***************************************************************************)
EXTENDS Program, AgQueue

CONSTANTS
  Sink,           \* the sinks that the application may register
  ListOf,         \* es->type: the list that a sink belongs to
  EventOf,        \* es->type and es->ident: what a sink of "sinks" waits for
  Event,          \* the descriptors and directions (read, write) there are
  Code,           \* the codes given to AG_Terminate
  Blocking,       \* whether select waits for ever, or not at all
  Liberties       \* what callbacks may do beyond the rules (see below)

Lists == {"prologues", "spinners", "sinks", "epilogues"}

ASSUME SinkAssumption ==
  ListOf \in [Sink -> Lists] /\ EventOf \in [Sink -> Event] /\ Nil \notin Sink \cup Thread
ASSUME CodeAssumption == Code \subseteq Int
ASSUME BlockingAssumption == Blocking \in BOOLEAN

VARIABLES
  source,     \* the threads that have an event source
  q,          \* the lists of each source
  breakReq,   \* src->breakReq
  returnCode, \* src->returnCode
  pc,         \* where the loop of a thread is: "idle", the list that it walks,
              \* "select" (asleep), "timers" (timer callbacks run)
  es,         \* the sink that the walk has reached
  calling,    \* the sink whose function is running
  rdFds,      \* the sinks select was given the descriptors of; the events it
              \* returned; and whether it waits for one
  result,     \* what AG_EventLoop returned last
  lock,       \* the thread that holds agTimerLock
  ready,      \* the events the kernel has for us
  owed        \* history: the sinks select reported, neither called nor deleted

srcvars == <<source, q, breakReq, returnCode>>
walkvars == <<pc, es, calling, result>>
loopvars == <<source, q, breakReq, returnCode, pc, es, calling, rdFds, result, lock, ready, owed>>

\* FD_ZERO
NoFds == [asked |-> {}, set |-> {}, wait |-> FALSE]

LoopInit ==
  /\ source = {Main}
  /\ q = [th \in Thread |-> [l \in Lists |-> << >>]]
  /\ breakReq = [th \in Thread |-> FALSE]
  /\ returnCode = [th \in Thread |-> 0]
  /\ pc = [th \in Thread |-> "idle"]
  /\ es = [th \in Thread |-> Nil]
  /\ calling = [th \in Thread |-> Nil]
  /\ rdFds = [th \in Thread |-> NoFds]
  /\ result = [th \in Thread |-> 0]
  /\ lock = Nil
  /\ ready = {}
  /\ owed = [th \in Thread |-> {}]

-----------------------------------------------------------------------------
(* What the program does between passes and in callbacks *)

\* A thread calls Agar outside of the loop, from a sink's function, and from the
\* callback of a timer; not after AG_DestroyEventSubsystem.
MayCall(th) ==
  /\ Main \in source
  /\ pc[th] = "idle" \/ calling[th] # Nil \/ pc[th] = "timers"

\* AG_GetEventSource: a thread that has no source gets one.
WithSource(th) == source' = source \cup {th}

Linked(s) == \E th \in Thread : s \in Entries(q[th][ListOf[s]])

\* Rule: no function adds, to the list it is called from, an entry that the same walk
\* would call ("grow").
MayAdd(th, s) ==
  /\ MayCall(th)
  /\ pc[th] = ListOf[s] /\ (ListOf[s] = "sinks" => EventOf[s] \in rdFds[th].set)
       => "grow" \in Liberties

\* AG_AddEventPrologue, AG_AddEventEpilogue, AG_AddEventSpinner, AG_AddEventSink (of
\* a type that the source supports: others are refused)
AddEventSink(th, s) ==
  /\ MayAdd(th, s) /\ ~Linked(s)
  /\ WithSource(th)
  /\ q' = [q EXCEPT ![th][ListOf[s]] = TailqInsertTail(@, s)]
  /\ UNCHANGED <<breakReq, returnCode, walkvars, rdFds, lock, ready, owed>>

\* What is left of a list when the entries in S are removed.
Without(list, S) ==
  LET Kept[i \in 0..Len(list)] ==
        IF i = 0 THEN << >>
        ELSE IF list[i] \in S THEN Kept[i - 1] ELSE Append(Kept[i - 1], list[i])
  IN Kept[Len(list)]

Deleted(th, S) ==
  /\ q' = [q EXCEPT ![th] = [l \in Lists |-> Without(@[l], S)]]
  /\ owed' = [u \in Thread |-> owed[u] \ S]

\* Rule: a function does not delete the entry it is called through ("self").
MayDel(th, s) ==
  /\ MayCall(th) /\ th \in source
  /\ s \in Entries(q[th][ListOf[s]])
  /\ calling[th] = s => "self" \in Liberties

\* AG_DelEventPrologue, AG_DelEventEpilogue, AG_DelEventSpinner, AG_DelEventSink
DelEventSink(th, s) ==
  /\ MayDel(th, s)
  /\ Deleted(th, {s})
  /\ UNCHANGED <<source, breakReq, returnCode, walkvars, rdFds, lock, ready>>

\* AG_DelEventSinksByIdent
DelEventSinksByIdent(th, e) ==
  LET S == {s \in Entries(q[th]["sinks"]) : EventOf[s] = e} IN
  /\ S # {} /\ \A s \in S : MayDel(th, s)
  /\ Deleted(th, S)
  /\ UNCHANGED <<source, breakReq, returnCode, walkvars, rdFds, lock, ready>>

\* AG_Terminate, AG_TerminateEv. Rule: from the loop, once it has begun to make
\* passes ("early").
Terminate(th, c) ==
  /\ MayCall(th)
  /\ pc[th] \in {"idle", "prologues"} => "early" \in Liberties
  /\ WithSource(th)
  /\ breakReq' = [breakReq EXCEPT ![th] = TRUE]
  /\ returnCode' = [returnCode EXCEPT ![th] = c]
  /\ UNCHANGED <<q, walkvars, rdFds, lock, ready, owed>>

\* DestroyEventSource, when a thread exits, and in AG_DestroyEventSubsystem, which
\* is called when no loop runs; after that one, it frees nothing.
Exit(th) ==
  /\ {th, Main} \subseteq source /\ pc[th] = "idle"
  /\ th = Main => \A u \in Thread : pc[u] = "idle"
  /\ source' = source \ {th}
  /\ q' = [q EXCEPT ![th] = [l \in Lists |-> << >>]]
  /\ breakReq' = [breakReq EXCEPT ![th] = FALSE]
  /\ returnCode' = [returnCode EXCEPT ![th] = 0]
  /\ owed' = [u \in Thread |-> owed[u] \ UNION {Entries(q[th][l]) : l \in Lists}]
  /\ UNCHANGED <<walkvars, rdFds, lock, ready>>

\* The function of a sink reads, or writes, all there is.
Drain(th) ==
  /\ calling[th] # Nil /\ ListOf[calling[th]] = "sinks"
  /\ ready' = ready \ {EventOf[calling[th]]}
  /\ UNCHANGED <<srcvars, walkvars, rdFds, lock, owed>>

\* Data arrives.
Arrive(e) ==
  /\ ready' = ready \cup {e}
  /\ UNCHANGED <<srcvars, walkvars, rdFds, lock, owed>>

-----------------------------------------------------------------------------
(* AG_EventLoop *)

\* The list that a walk in thread th follows: the sink functions take agEventSource.
Walked(th, l) == IF l = "sinks" THEN q[Main][l] ELSE q[th][l]

\* TAILQ_FOREACH begins.
Reaches(th, l) ==
  /\ pc' = [pc EXCEPT ![th] = l]
  /\ es' = [es EXCEPT ![th] = TailqFirst(Walked(th, l), Nil)]

\* Nothing resets breakReq. Rule: a loop that was asked to end is not run again
\* ("again"): it could sleep in select before it looks at breakReq.
StartLoop(th) ==
  /\ MayCall(th) /\ pc[th] = "idle"
  /\ breakReq[th] => "again" \in Liberties
  /\ WithSource(th)
  /\ Reaches(th, "prologues")
  /\ UNCHANGED <<q, breakReq, returnCode, calling, result, rdFds, lock, ready, owed>>

\* FD_ISSET, for the sinks; the other lists are called whole.
Called(th) == pc[th] # "sinks" \/ EventOf[es[th]] \in rdFds[th].set

\* The walk is at an entry that is still linked (the next step is undefined
\* otherwise).
OnEntry(th) == pc[th] \in Lists /\ es[th] \in Entries(Walked(th, pc[th]))
AtEntry(th) == OnEntry(th) /\ calling[th] = Nil
AtEnd(th, l) == pc[th] = l /\ calling[th] = Nil /\ es[th] = Nil

\* (Mutant: the next entry is saved before the function is called.)
CallSavingNext(th) ==
  /\ AtEntry(th) /\ Called(th)
  /\ calling' = [calling EXCEPT ![th] = es[th]]
  /\ es' = [es EXCEPT ![th] = TailqNext(Walked(th, pc[th]), @, Nil)]
  /\ owed' = [owed EXCEPT ![th] = @ \ {es[th]}]
  /\ UNCHANGED <<srcvars, pc, result, rdFds, lock, ready>>
CallFunction(th) ==
  /\ AtEntry(th) /\ Called(th)
  /\ calling' = [calling EXCEPT ![th] = es[th]]
  /\ owed' = [owed EXCEPT ![th] = @ \ {es[th]}]
  /\ UNCHANGED <<srcvars, pc, es, result, rdFds, lock, ready>>

\* TAILQ_NEXT, of the entry as it is when the function has returned.
MovesOn(th) ==
  /\ calling' = [calling EXCEPT ![th] = Nil]
  /\ es' = [es EXCEPT ![th] = TailqNext(Walked(th, pc[th]), @, Nil)]
  /\ UNCHANGED <<srcvars, pc, result, rdFds, lock, ready, owed>>

Skip(th) == AtEntry(th) /\ ~Called(th) /\ MovesOn(th)

\* (Mutant: one descriptor is served a pass.)
FunctionReturnsLast(th) ==
  /\ calling[th] # Nil
  /\ calling' = [calling EXCEPT ![th] = Nil]
  /\ es' = [es EXCEPT ![th] = Nil]
  /\ UNCHANGED <<srcvars, pc, result, rdFds, lock, ready, owed>>
FunctionReturns(th) == OnEntry(th) /\ calling[th] # Nil /\ MovesOn(th)

PrologueEnds(th) ==
  /\ AtEnd(th, "prologues")
  /\ Reaches(th, "spinners")
  /\ UNCHANGED <<srcvars, calling, result, rdFds, lock, ready, owed>>

\* (Mutant: the spinners do not shorten the wait.)
BuildSetsWaiting(th) ==
  rdFds' = [rdFds EXCEPT ![th] =
    [asked |-> Entries(q[Main]["sinks"]), set |-> {}, wait |-> Blocking]]
\* (Mutant: select is given nFds, not nFds+1: one descriptor is not looked at.)
BuildSetsShort(th) ==
  rdFds' = [rdFds EXCEPT ![th] =
    [asked |-> {s \in Entries(q[Main]["sinks"]) : EventOf[s] # CHOOSE e \in Event : TRUE},
     set |-> {},
     wait |-> Blocking /\ q[Main]["spinners"] = << >>]]
\* FD_ZERO, FD_SET for every sink, and the timeout: zero if there are spinners.
BuildSets(th) ==
  rdFds' = [rdFds EXCEPT ![th] =
    [asked |-> Entries(q[Main]["sinks"]),
     set |-> {},
     wait |-> Blocking /\ q[Main]["spinners"] = << >>]]

Poll(th) ==
  /\ AtEnd(th, "spinners")
  /\ pc' = [pc EXCEPT ![th] = "select"]
  /\ BuildSets(th)
  /\ UNCHANGED <<srcvars, es, calling, result, lock, ready, owed>>

\* The descriptors, of those select was given, that are ready.
Reported(th) == {EventOf[s] : s \in rdFds[th].asked} \cap ready

\* select returns, and AG_LockTiming: one step, since nothing looks at the sets in
\* between.
Wakes(th) ==
  /\ pc[th] = "select" /\ lock = Nil
  /\ lock' = th
  /\ pc' = [pc EXCEPT ![th] = "timers"]
  /\ rdFds' = [rdFds EXCEPT ![th].set = Reported(th)]
  /\ owed' = [owed EXCEPT ![th] = {s \in rdFds[th].asked : EventOf[s] \in ready /\ Linked(s)}]
  /\ UNCHANGED <<srcvars, es, calling, result, ready>>

SelectReturns(th) == (Reported(th) # {} \/ ~rdFds[th].wait) /\ Wakes(th)

\* A timer of the application expires: it may, or may not.
SelectReturnsForTimer(th) == Reported(th) = {} /\ rdFds[th].wait /\ Wakes(th)

\* A signal (EINTR): the sets are built again (AG_EventSinkSELECT, which never
\* sleeps, keeps them).
SelectInterrupted(th) ==
  /\ pc[th] = "select"
  /\ BuildSets(th)
  /\ UNCHANGED <<srcvars, walkvars, lock, ready, owed>>

\* The loop ends.
Ends(th, r) ==
  /\ pc' = [pc EXCEPT ![th] = "idle"]
  /\ result' = [result EXCEPT ![th] = r]
  /\ rdFds' = [rdFds EXCEPT ![th] = NoFds]

\* select fails: the loop ends at once.
SelectFails(th) ==
  /\ pc[th] = "select"
  /\ Ends(th, 1)
  /\ UNCHANGED <<srcvars, es, calling, lock, ready, owed>>

TimersDone(th) ==
  /\ pc[th] = "timers"
  /\ Reaches(th, "sinks")
  /\ UNCHANGED <<srcvars, calling, result, rdFds, lock, ready, owed>>

\* AG_UnlockTiming, and the sink function returns.
SinksEnd(th) ==
  /\ AtEnd(th, "sinks")
  /\ lock' = Nil
  /\ Reaches(th, "epilogues")
  /\ rdFds' = [rdFds EXCEPT ![th] = NoFds]
  /\ UNCHANGED <<srcvars, calling, result, ready, owed>>

EpiloguesEnd(th) ==
  /\ AtEnd(th, "epilogues")
  /\ IF breakReq[th]
     THEN Ends(th, returnCode[th]) /\ UNCHANGED es
     ELSE Reaches(th, "spinners") /\ UNCHANGED <<result, rdFds>>
  /\ UNCHANGED <<srcvars, calling, lock, ready, owed>>

-----------------------------------------------------------------------------

\* The steps of a pass that no one but the loop decides on.
Pass(th) ==
  \/ CallFunction(th) \/ Skip(th) \/ FunctionReturns(th)
  \/ PrologueEnds(th) \/ Poll(th) \/ SelectReturns(th)
  \/ TimersDone(th) \/ SinksEnd(th) \/ EpiloguesEnd(th)

LoopEdits(th) ==
  \/ StartLoop(th) \/ Drain(th) \/ Exit(th)
  \/ \E s \in Sink : AddEventSink(th, s) \/ DelEventSink(th, s)
  \/ \E e \in Event : DelEventSinksByIdent(th, e)
  \/ \E c \in Code : Terminate(th, c)

LoopNext ==
  \/ \E th \in Thread :
       Pass(th) \/ LoopEdits(th)
       \/ SelectReturnsForTimer(th) \/ SelectInterrupted(th) \/ SelectFails(th)
  \/ \E e \in Event : Arrive(e)

\* Functions return, and the loop goes on while its thread runs.
LoopFairness == \A th \in Thread : WF_loopvars(Pass(th))

LoopSpec == LoopInit /\ [][LoopNext]_loopvars
FairLoopSpec == LoopSpec /\ LoopFairness

-----------------------------------------------------------------------------
(* Properties *)

\* The type of the state.
LoopTypeOK ==
  /\ source \in SUBSET Thread
  /\ \A th \in Thread, l \in Lists :
       NoRepeats(q[th][l]) /\ Entries(q[th][l]) \subseteq {s \in Sink : ListOf[s] = l}
  /\ breakReq \in [Thread -> BOOLEAN]
  /\ returnCode \in [Thread -> Code \cup {0}]
  /\ pc \in [Thread -> Lists \cup {"idle", "select", "timers"}]
  /\ es \in [Thread -> Sink \cup {Nil}]
  /\ calling \in [Thread -> Sink \cup {Nil}]
  /\ rdFds \in [Thread -> [asked : SUBSET Sink, set : SUBSET Event, wait : BOOLEAN]]
  /\ result \in [Thread -> Code \cup {0, 1}]
  /\ lock \in Thread \cup {Nil}
  /\ ready \in SUBSET Event
  /\ owed \in [Thread -> SUBSET Sink]

\* The walks of AG_EventLoop and of the sink functions never stand on a sink that
\* has been deleted, whatever sinks functions and timers delete on the way.
NoFreedSink ==
  \A th \in Thread : pc[th] \in Lists /\ es[th] # Nil => es[th] \in Entries(Walked(th, pc[th]))

\* When the epilogues run, every sink that select reported has been called, unless
\* a callback deleted it: no deletion or insertion makes the walk miss a sink.
PassComplete == \A th \in Thread : pc[th] = "epilogues" => owed[th] = {}

\* A loop that is asked to end (from its own thread, by a callback) does so: it is
\* not left asleep in select.
TerminateHonoured ==
  \A th \in Thread : (pc[th] # "idle" /\ breakReq[th]) ~> pc[th] = "idle"

\* A sink registered in thread th, which runs AG_EventLoop, is called when its event
\* occurs, unless it is deleted, the event is over or the loop ends first.
SinksCalled(th) ==
  \A s \in Sink :
    (pc[th] # "idle" /\ s \in Entries(q[th]["sinks"]) /\ EventOf[s] \in ready)
      ~> (\/ calling[th] = s
          \/ pc[th] = "idle"
          \/ s \notin Entries(q[th]["sinks"])
          \/ EventOf[s] \notin ready)

\* The sinks of the main thread are called, whatever the spinners, the timers and the
\* other functions do between the event and its turn.
MainSinksCalled == SinksCalled(Main)

\* AG_EventLoop.3 says that different event sources may exist under different threads,
\* and that instances of AG_EventLoop run concurrently in them: then the sinks of
\* every thread are called.
\* (Not true of this code: see the README's Findings.)
ReadySinkCalled == \A th \in Thread : SinksCalled(th)
=============================================================================
