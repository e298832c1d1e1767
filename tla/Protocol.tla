------------------------------ MODULE Protocol ------------------------------
(***************************************************************************)
(* The frames of the RS485 protocol (core/include/protocol.hpp).  A frame  *)
(* is named by its command; in place of the data array it has the field    *)
(* that command uses: a key, a duration or a status.  data_length is the   *)
(* number of words that go over the wire, whatever the data array holds.   *)
(***************************************************************************)
EXTENDS Integers

CONSTANT MaxNodes       \* config::max_nodes

\* No node has this address.
ADDR_UNSET == MaxNodes

NoFrame == [command |-> "NONE"]

DiscoveryFrame(key, len) ==
  [command |-> "DISCOVERY", address |-> ADDR_UNSET, key |-> key,
   data_length |-> len]
AddressingFrame(key, addr) ==
  [command |-> "ADDRESSING", address |-> addr, key |-> key, data_length |-> 2]
WateringFrame(addr, duration) ==
  [command |-> "INIT_WATER_DURATIONS", address |-> addr,
   duration |-> duration, data_length |-> 1]
StatusFrame(addr) == [command |-> "STATUS", address |-> addr, data_length |-> 0]
StatusReply(addr, status) ==
  [command |-> "STATUS", address |-> addr, status |-> status,
   data_length |-> 1]
AckFrame(addr) == [command |-> "ACK", address |-> addr, data_length |-> 0]

\* The bytes of a frame: its data only as far as data_length says.
prepare_bytes(frame) ==
  LET fields == IF frame.data_length = 0 THEN DOMAIN frame \ {"key"}
                ELSE DOMAIN frame
  IN  [f \in fields |-> frame[f]]

\* The message made of the bytes that arrive: data that is not there reads as 0.
reconstruct_uart_message(bytes) ==
  LET fields == IF bytes.command = "DISCOVERY" THEN DOMAIN bytes \cup {"key"}
                ELSE DOMAIN bytes
  IN  [f \in fields |-> IF f \in DOMAIN bytes THEN bytes[f] ELSE 0]

\* What arrives of a frame that has been put on the wire.
OnWire(frame) == reconstruct_uart_message(prepare_bytes(frame))
=============================================================================
