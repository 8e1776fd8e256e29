------------------------------ MODULE Program ------------------------------
(* The threads of a program and the objects they share, which the models   *)
(* of the event handlers, of the event loop and of the locks are about.    *)

CONSTANTS
  Object, Root,   \* the objects of a tree, and its root
  Thread, Main,   \* the threads, and the one that initialised Agar and runs
                  \* the event loop
  Nil             \* the NULL pointer

ASSUME RootAssumption == Root \in Object
ASSUME ThreadAssumption == Main \in Thread
=============================================================================
