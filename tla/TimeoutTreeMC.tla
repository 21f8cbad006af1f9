--------------------------- MODULE TimeoutTreeMC ---------------------------
(* TimeoutTree on a small pool; the sessions are interchangeable.          *)
EXTENDS TimeoutTree, TLC

Sessions == Permutations(Session)
=============================================================================
