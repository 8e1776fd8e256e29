-------------------------- MODULE MCEventDispatch --------------------------
(* Instances of EventDispatch: a window, a box in it and, in some, a button in the box. *)
EXTENDS EventDispatch, TLC

CONSTANTS win, box, button, x, h1, h2, h3

\* The tree win - box - button, or its upper part.
MCKids == [o \in Object |-> CASE o = win -> <<box>>
                              [] o = box /\ button \in Object -> <<button>>
                              [] OTHER -> << >>]

\* Handlers of the window propagate or run in a thread of their own, not both; those of
\* the box propagate, as every AG_Widget's do that set AG_EVENT_PROPAGATE.
MCFlags == [o \in Object |-> CASE o = win -> {{"propagate"}, {"async"}}
                               [] o = box -> {{"propagate"}}
                               [] OTHER -> {{}}]

\* Handlers of the window have both flags.
BothFlags == [o \in Object |-> IF o = win THEN {{"propagate", "async"}} ELSE {{}}]

\* Rule: AG_SchedEvent is called without arguments (they would take the places of
\* the sender and of the name).
NoArgs == {<< >>}

\* Which structure malloc returns makes no difference.
MCHandler == {h1, h2, h3}
Symmetry == Permutations(MCHandler)
=============================================================================
