-------------------------- MODULE MCRuntimeWorker ---------------------------
(***************************************************************************)
(* Two clients that may both start, stop, post and wait; three tasks, so    *)
(* that one can be running, one drained and one posted; one loop failure.   *)
(***************************************************************************)
EXTENDS RuntimeWorker, TLC
=============================================================================
