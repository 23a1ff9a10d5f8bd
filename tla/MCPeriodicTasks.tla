-------------------------- MODULE MCPeriodicTasks ---------------------------
(***************************************************************************)
(* Two tasks, one twice as fast as the other; three registrations, so that *)
(* a name can be replaced while the other task is due too.                 *)
(***************************************************************************)
EXTENDS PeriodicTasks

CONSTANTS fast, slow

TaskIntervals == [n \in {fast, slow} |-> IF n = fast THEN 1 ELSE 2]
=============================================================================
