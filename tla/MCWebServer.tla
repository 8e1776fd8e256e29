---------------------------- MODULE MCWebServer -----------------------------
(* WebServer with two frontends and a session left on disk. *)
EXTENDS WebServer, TLC

CONSTANTS f1, f2, old, new

MCFrontend == {f1, f2}
MCSession == {old, new}
MCSaved == {old}
=============================================================================
