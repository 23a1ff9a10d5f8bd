--------------------------- MODULE MCServiceHost ----------------------------
(***************************************************************************)
(* Three services, so that one has a neighbour on both sides, and two calls *)
(* in any order: stop after start, start after a start that failed.         *)
(***************************************************************************)
EXTENDS ServiceHost, TLC

CONSTANTS first, second, third

\* Sound: all properties are invariants and name no service.
Symmetry == Permutations(Services)
=============================================================================
