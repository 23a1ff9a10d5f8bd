---------------------------- MODULE MCLifecycle -----------------------------
(***************************************************************************)
(* The lifecycle with two devices: one can fail while the other recovers.  *)
(***************************************************************************)
EXTENDS Lifecycle
=============================================================================
