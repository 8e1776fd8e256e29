---------------------------- MODULE MCLockOrder ----------------------------
(* The calls of LockOrder on a tree of a root, a child and its child. *)
EXTENDS LockOrder

CONSTANTS win, box, lab

MCParent == [o \in {box, lab} |-> IF o = box THEN win ELSE box]

\* The calls that lock a parent before its child and agTimerLock last.
TopDown ==
  UNION {{AddTimerCall(o), DelTimerCall(o), SetEventCall(o), PostEventCall(o, DelTimerCall(o)), FindChildCall(o)} : o \in Object}
  \cup UNION {{AttachCall(o), DetachCall(o)} : o \in {box, lab}}
  \cup {PostEventCall(box, SetEventCall(lab)), PropagateCall(win, <<lab, box>>), FreeChildrenCall(win, box)}

\* Calls of one object alone: those on its timers, and the event loop's.
OneObject == {AddTimerCall(win), SetEventCall(win), SchedEventCall(win), DelTimersCall(win),
              ProcessTimeoutsCall(win, << >>)}

\* A handler of the box that propagates to the label in it, and the calls that lock the
\* tree from the root down.
Propagating == {PropagateCall(box, <<lab>>), AttachCall(lab), DetachCall(lab)}

\* Depth, step by step.
MCDepth ==
  [c \in Calls |->
    LET D[i \in 1..(Len(c) + 1)] ==
          IF i = 1 THEN NoLock
          ELSE IF c[i - 1].op \in {"lock", "unlock"} THEN After(c[i - 1], D[i - 1]) ELSE D[i - 1]
    IN D]

MCLevel == [l \in Lock |-> CASE l = win -> 3 [] l = box -> 2 [] l = lab -> 1 [] l = Timing -> 0]
=============================================================================
