------------------------------ MODULE MCReply ------------------------------
(* Reply on a slab of two units.                                           *)
EXTENDS Reply
=============================================================================
