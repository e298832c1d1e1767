----------------------------- MODULE MCHostLink -----------------------------
(***************************************************************************)
(* The host's link with two commands and a few writes.                     *)
(***************************************************************************)
EXTENDS HostLink
=============================================================================
