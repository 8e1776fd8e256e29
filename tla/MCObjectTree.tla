---------------------------- MODULE MCObjectTree ----------------------------
(* Instances of ObjectTree. *)
EXTENDS ObjectTree, TLC

CONSTANTS a, b, c

MCObject == {a, b, c}

\* One object refers to others; it has not AG_OBJECT_PRESERVE_DEPS.
MCHolder == {a}
MCPreserving == {}

\* Another starts timers.
MCTicking == {c}
=============================================================================
