----------------------------- MODULE MCFraming -----------------------------
(***************************************************************************)
(* The framing with the real constants and checksum, and three messages:   *)
(* an acknowledgement, a water command, and an address for a key of which  *)
(* one byte is a start bit.                                                *)
(***************************************************************************)
EXTENDS Serial, Crc16

\* The check value of CRC-16/MODBUS, for the digits 1 to 9.
ASSUME CheckValue == crc16_modbus([k \in 1 .. 9 |-> 48 + k]) = 19255

\* The module Protocol says what the bytes do, at the ends of the ranges too.
ASSUME ProtocolIsFaithful ==
  \A a \in {0, 1, 11}, key \in {0, 170, 65535, 65536, 7 * 65536 + 170} :
    /\ Faithful(P!DiscoveryFrame(key, 0)) /\ Faithful(P!DiscoveryFrame(key, 2))
    /\ Faithful(P!AddressingFrame(key, a))
    /\ \A d \in {0, 255, 256, 65535} : Faithful(P!WateringFrame(a, d))
    /\ Faithful(P!StatusFrame(a)) /\ Faithful(P!AckFrame(a))
    /\ \A s \in DOMAIN NodeStatus : Faithful(P!StatusReply(a, s))

MCMessages ==
  {encode(P!AckFrame(1)), encode(P!WateringFrame(1, 300)),
   encode(P!AddressingFrame(7 * 65536 + 170, 2))}

\* A byte, as long a burst as the shortest frame, and the start of a frame that
\* is longer than any.
MCBursts == {<<18>>, [k \in 1 .. 6 |-> 0], <<170, 0, 0, 200>>}
=============================================================================
