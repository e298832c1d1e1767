----------------------------- MODULE MCSelfNode -----------------------------
(***************************************************************************)
(* One node among arbitrary frames: two keys besides the unset one, three  *)
(* addresses, queues of two frames, switches that may fail or, in the      *)
(* other behaviours, do not.                                               *)
(***************************************************************************)
EXTENDS SelfNode

MCNodes == {0}
MCKeys == 0 .. 2
=============================================================================
