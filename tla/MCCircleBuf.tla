----------------------------- MODULE MCCircleBuf -----------------------------
(* Instances of CircleBuf for TLC. *)
EXTENDS CircleBuf

Bits == {0, 1}
=============================================================================
