---------------------------- MODULE MCSystemInfo ----------------------------
(***************************************************************************)
(* Counters that stand still, move by one or three ticks, or go back by one. *)
(***************************************************************************)
EXTENDS SystemInfo

TestSteps == {-1, 0, 1, 3}
=============================================================================
