---------------------------- MODULE MCAsideCache ----------------------------
(* Two readers and two writers: a reader that lost its lease and one that took *)
(* over, or one that waits, and two commits around them.                       *)
EXTENDS AsideCache, TLC
=============================================================================
