------------------------------ MODULE MCSystem ------------------------------
(***************************************************************************)
(* The system on small instances: the head with its own node and one or    *)
(* two nodes down the line.                                                *)
(***************************************************************************)
EXTENDS System

MCKeys == {0, 1}
MCDurations == {0, 1, 2}
MCPhases == {"SUNDAY"}
OneRemote == {0, 1}
TwoRemotes == {0, 1, 2}
EverybodyWaters == [a \in Addr |-> [duration |-> 1, cycle |-> {"SUNDAY"}]]
NoRequests == {}
\* The host asks for another pairing.
PairAgain == {PairingRequest}

Duration(a, d) == [type |-> "WRITE_NODE_DURATION", addr |-> a, duration |-> d]
\* ... or takes a node out of the round.
PairOrReschedule == PairAgain \cup {Duration(0, 0)}
\* The host asks for more than the phase has.
Overlong == {Duration(0, 2)}
=============================================================================
