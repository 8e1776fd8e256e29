---------------------------- MODULE TimerService ----------------------------
(***************************************************************************)
(* What AG_Timer(3) promises, whichever event source implements it.  A     *)
(* running timer has a number of ticks left; its callback may run once     *)
(* none is left, one callback at a time, and decides by its return value   *)
(* whether the timer is restarted or cancelled.                            *)
(***************************************************************************)
EXTENDS Integers

CONSTANTS Object,     \* objects that own timers
          Timer,      \* the AG_Timer structures of the application
          Ivals,      \* the intervals it asks for, in ticks
          Idle        \* neither a timer nor an object: nothing runs

VARIABLES owner,      \* the object each timer runs on, or Idle
          left,       \* ticks until it expires (<= 0: overdue), or Idle
          firing,     \* the timer whose callback is running, or Idle
          onObj       \* the object it was called back for, or Idle

svars == <<owner, left, firing, onObj>>

Running == {t \in Timer : owner[t] # Idle}

Init == /\ owner = [t \in Timer |-> Idle]
        /\ left = [t \in Timer |-> Idle]
        /\ firing = Idle
        /\ onObj = Idle

\* One tick of the clock.
Tick == /\ left' = [t \in Timer |-> IF t \in Running THEN left[t] - 1 ELSE Idle]
        /\ UNCHANGED <<owner, firing, onObj>>

\* A timer is started on an object, or one that runs there gets a new interval.
Start(o, t, ival) == /\ owner[t] \in {Idle, o}
                     /\ owner' = [owner EXCEPT ![t] = o]
                     /\ left' = [left EXCEPT ![t] = ival]
                     /\ UNCHANGED <<firing, onObj>>

Stopped(S) == /\ owner' = [t \in Timer |-> IF t \in S THEN Idle ELSE owner[t]]
              /\ left' = [t \in Timer |-> IF t \in S THEN Idle ELSE left[t]]

\* Any number of the timers of an object are cancelled at once.
Cancel(o, S) == /\ \A t \in S : owner[t] = o
                /\ Stopped(S)
                /\ UNCHANGED <<firing, onObj>>

\* The callback of an expired, running timer is invoked.
Fire(t) == /\ firing = Idle
           /\ t \in Running
           /\ left[t] <= 0
           /\ firing' = t
           /\ onObj' = owner[t]
           /\ UNCHANGED <<owner, left>>

\* It returns the interval to restart the timer with, or 0 to cancel it, unless
\* it has itself cancelled the timer (and started it on another object).
Return == /\ firing # Idle
          /\ firing' = Idle
          /\ onObj' = Idle

Restart(ival) == /\ Return
                 /\ owner[firing] = onObj
                 /\ left' = [left EXCEPT ![firing] = ival]
                 /\ UNCHANGED owner

Expire == /\ Return
          /\ Stopped({firing} \cap {t \in Timer : owner[t] = onObj})

Next == \/ Tick
        \/ \E o \in Object, t \in Timer, ival \in Ivals : Start(o, t, ival)
        \/ \E o \in Object, S \in SUBSET Timer : Cancel(o, S)
        \/ \E t \in Timer : Fire(t)
        \/ \E ival \in Ivals : Restart(ival)
        \/ Expire

Spec == Init /\ [][Next]_svars
=============================================================================
