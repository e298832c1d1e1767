----------------------------- MODULE MCHeadTask -----------------------------
(***************************************************************************)
(* The head task on a small instance: one address, one key, a host that    *)
(* writes durations that fit and that do not, and asks for pairing again.  *)
(***************************************************************************)
EXTENDS HeadTask

MCKeys == {0}
MCDurations == {0, 1}
MCPhases == {"SUNDAY"}
MCHostRequests ==
  {PairingRequest, [type |-> "WRITE_CONF_TIME"],
   [type |-> "WRITE_NODE_DURATION", addr |-> 0, duration |-> 1]}
=============================================================================
