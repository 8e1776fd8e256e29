--------------------------- MODULE MCObjectStore ----------------------------
(* ObjectStore for a root and its children. *)
EXTENDS ObjectStore, TLC

CONSTANTS root, k1, k2

TwoKids == {k1, k2}
MCLinks == {<<k1, root>>, <<k1, k2>>}
MCStarted == <<k1>>
OneKid == {k1}
NoLinks == {}
NoKid == <<>>
=============================================================================
