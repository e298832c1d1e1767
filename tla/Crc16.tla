------------------------------- MODULE Crc16 -------------------------------
(***************************************************************************)
(* The checksum of a frame, CRC-16/MODBUS (crc16_modbus).  The eight       *)
(* shifts that follow a byte depend on the low byte of what they start     *)
(* from, up to an exclusive or with the high one.                          *)
(***************************************************************************)
EXTENDS Naturals, Sequences, Bitwise

shift(crc) == IF crc % 2 = 1 THEN (crc \div 2) ^^ 40961 ELSE crc \div 2

shifted == [b \in 0 .. 255 |->
  LET from[crc \in 0 .. 65535, j \in 0 .. 8] ==
        IF j = 8 THEN crc ELSE from[shift(crc), j + 1]
  IN  from[b, 0]]

crc16_modbus(data) ==
  LET from[crc \in 0 .. 65535, i \in 0 .. Len(data)] ==
        IF i = Len(data) THEN crc
        ELSE from[shifted[(crc % 256) ^^ data[i + 1]] ^^ (crc \div 256), i + 1]
  IN  from[65535, 0]
=============================================================================
