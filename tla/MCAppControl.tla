---------------------------- MODULE MCAppControl ----------------------------
(* AppControl as it is: the io queue and the self-tests asked for are bounded. *)
EXTENDS AppControl
=============================================================================
