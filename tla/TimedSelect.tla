---------------------------- MODULE TimedSelect ----------------------------
(***************************************************************************)
(* AG_EventSinkTIMEDSELECT (core/event.c): the sink of builds without      *)
(* threads.  It waits in select, no longer than until the first timer      *)
(* expires, then calls AG_ProcessTimeouts with the time at which it        *)
(* started to wait.                                                        *)
(***************************************************************************)
EXTENDS TimerWheel, FiniteSetsExt

CONSTANTS
  Spinners    \* whether the event source has spinners: select does not block

ASSUME SpinnersAssumption == Spinners \in BOOLEAN

VARIABLES
  sink,       \* where the sink is: "idle", "select", "process"
  tSel,       \* t: the time given to AG_ProcessTimeouts (0 when the sink returned)
  timeo       \* what is left of the timeout given to select

selvars == <<sink, tSel, timeo>>
allvars == <<vars, selvars>>

SelInit ==
  /\ Init
  /\ sink = "idle" /\ tSel = 0 /\ timeo = 0

-----------------------------------------------------------------------------

\* (Mutant: objects that are not the first on agTimerObjQ are not looked at.)
SoonestOfFirst ==
  Min({(tSched[t] - ticks) % TickMod : t \in {u \in Timer : tobj[u] # Nil /\ tobj[u] = objq[1]}}
      \cup {TickMod - 2})
\* tSoonest: the time left to the first timer, as an Uint32.
Soonest ==
  Min({(tSched[t] - ticks) % TickMod : t \in {u \in Timer : tobj[u] # Nil}}
      \cup {TickMod - 2})

\* The sink computes the timeout. With spinners it is 0, and t is not assigned:
\* it holds any value.
Select ==
  /\ sink = "idle"
  /\ sink' = "select"
  /\ IF Spinners
     THEN timeo' = 0 /\ tSel' \in 0..(TickMod - 1)
     ELSE timeo' = Soonest /\ tSel' = ticks
  /\ UNCHANGED vars

\* select returns at the timeout.
SelectReturns ==
  /\ sink = "select" /\ timeo = 0
  /\ sink' = "process"
  /\ UNCHANGED <<vars, tSel, timeo>>

\* select returns earlier because of an I/O event; or a signal interrupts it, and
\* the timeout is computed again.
SelectReturnsForIO ==
  /\ sink = "select" /\ timeo > 0
  /\ sink' \in {"process", "idle"}
  /\ tSel' = IF sink' = "idle" THEN 0 ELSE tSel
  /\ timeo' = 0
  /\ UNCHANGED vars

BeginProcessing ==
  /\ sink = "process"
  /\ BeginWalk(tSel)
  /\ UNCHANGED selvars

\* AG_ProcessTimeouts returns, or has nothing to do.
Return ==
  /\ sink = "process"
  /\ sink' = "idle" /\ tSel' = 0 /\ timeo' = 0
  /\ \/ LeaveObject /\ walk'.pc = "idle"
     \/ walk.pc = "idle" /\ objq = << >> /\ UNCHANGED vars

Process ==
  /\ WalkSteps
  /\ ~(LeaveObject /\ walk'.pc = "idle")
  /\ UNCHANGED selvars

\* The application runs between two calls of the sink, and in callbacks.
Calls == sink # "select" /\ (sink = "process" => InCallback) /\ Application /\ UNCHANGED selvars

\* Time passes, while the sink sleeps, past the timeout, and while callbacks run.
SelTick ==
  /\ Tick
  /\ timeo' = IF sink = "select" /\ timeo > 0 THEN timeo - 1 ELSE timeo
  /\ UNCHANGED <<sink, tSel>>

EventSink == Select \/ SelectReturns \/ BeginProcessing \/ Process \/ Return

SelNext == Calls \/ EventSink \/ SelectReturnsForIO \/ SelTick

SelSpec == SelInit /\ [][SelNext]_allvars

-----------------------------------------------------------------------------
(* Properties *)

\* The type of the state.
SelTypeOK ==
  /\ TypeOK
  /\ sink \in {"idle", "select", "process"}
  /\ tSel \in 0..(TickMod - 1)
  /\ timeo \in 0..(TickMod - 2)

\* The sink never sleeps on past the expiry of a timer: what is left of its
\* timeout is no more than any timer has left, and nothing once one has expired.
\* (Not true of this code: see the README's Findings.)
SleepBounded ==
  sink = "select" =>
    \A t \in Timer : tobj[t] # Nil =>
      timeo <= IF Expired(t, ticks) THEN 0 ELSE Signed(tSched[t] - ticks)

\* Nor past the expiry of the next one, if others are overdue: when a timer
\* expires, nothing is left of the timeout.
SleepsToNext ==
  sink = "select" =>
    \A t \in Timer : tobj[t] # Nil /\ Signed(tSched[t] - ticks) >= 0 =>
      timeo <= Signed(tSched[t] - ticks)
=============================================================================
