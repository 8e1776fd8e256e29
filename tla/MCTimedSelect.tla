--------------------------- MODULE MCTimedSelect ---------------------------
(***************************************************************************)
(* The instance of TimedSelect that TLC checks: two timers, one of them    *)
(* auto-allocated, on two objects that are interchangeable.                *)
(***************************************************************************)
EXTENDS TimedSelect

CONSTANTS o1, o2, t1, a1

MCObject == {o1, o2}
MCTimer == {t1, a1}
MCAutoTimer == {a1}
Symmetry == Permutations(MCObject)
=============================================================================
