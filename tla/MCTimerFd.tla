----------------------------- MODULE MCTimerFd -----------------------------
(***************************************************************************)
(* The instance of TimerFd that TLC checks: two timers, one of them        *)
(* auto-allocated, on two objects.                                         *)
(***************************************************************************)
EXTENDS TimerFd

CONSTANTS o1, o2, t1, a1

MCObject == {o1, o2}
MCTimer == {t1, a1}
MCAutoTimer == {a1}
=============================================================================
