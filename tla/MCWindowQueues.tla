--------------------------- MODULE MCWindowQueues ---------------------------
(* WindowQueues with a main window, a modal dialog and a tool window that fades. *)
EXTENDS WindowQueues, TLC

CONSTANTS main, dialog, tool

MCWindow == {main, dialog, tool}
MCMain == {main}
MCModal == {dialog}
MCFade == {tool}
MCMade == <<main, dialog>>
=============================================================================
