---------------------------- MODULE MCRingBuffer ----------------------------
(***************************************************************************)
(* Three slots, so that an index wraps with a full, an empty and a partly   *)
(* filled buffer.                                                           *)
(***************************************************************************)
EXTENDS RingBuffer
=============================================================================
