------------------------------- MODULE Serial -------------------------------
(***************************************************************************)
(* The frames of Protocol as messages of Framing: which words the data of  *)
(* a command holds, and what the receiver makes of the words it gets.      *)
(***************************************************************************)
EXTENDS Framing

P == INSTANCE Protocol WITH MaxNodes <- 12

\* Protocol::Command and NodeStatus.
Command == [DISCOVERY |-> 0, ADDRESSING |-> 1, INIT_WATER_DURATIONS |-> 2,
            ACK |-> 3, STATUS |-> 4]
NodeStatus == [INITIALIZING |-> 0, READY |-> 1, WATERING |-> 4, ERR |-> 5]

\* A key of 32 bits is two words, the low one first.
serialize_key(key) == <<key % 65536, key \div 65536>>
deserialize_key(data) == data[1] + 65536 * data[2]

\* The words the sender puts in the data array, and the ones that count.
data_array(frame) ==
  CASE "key" \in DOMAIN frame      -> serialize_key(frame.key)
    [] "duration" \in DOMAIN frame -> <<frame.duration>>
    [] "status" \in DOMAIN frame   -> <<NodeStatus[frame.status]>>
    [] OTHER                       -> <<>>
encode(frame) ==
  [address |-> frame.address, command |-> Command[frame.command],
   data |-> SubSeq(data_array(frame), 1, frame.data_length)]

\* The receiver reads the words of a command from an array that is 0 elsewhere.
decode(m) ==
  LET data == [k \in 1 .. MAX_DATA_LEN |-> IF k \in DOMAIN m.data THEN m.data[k] ELSE 0]
      n    == Len(m.data)
      command == CHOOSE c \in DOMAIN Command : Command[c] = m.command
      header == [command |-> command, address |-> m.address, data_length |-> n]
      with(field, value) ==
        [f \in DOMAIN header \cup {field} |-> IF f = field THEN value ELSE header[f]]
  IN  CASE command \in {"DISCOVERY", "ADDRESSING"} -> with("key", deserialize_key(data))
        [] command = "INIT_WATER_DURATIONS" -> with("duration", data[1])
        [] command = "STATUS" /\ n = 1 ->
             with("status", CHOOSE s \in DOMAIN NodeStatus : NodeStatus[s] = data[1])
        [] OTHER -> header

\* The bytes of a frame are those of the frame that Protocol says arrives: its
\* key, duration or status as it was sent, and a key of 0 where the data does
\* not count.
Faithful(frame) ==
  decode(reconstruct_uart_message(prepare_bytes(encode(frame)))) = P!OnWire(frame)
=============================================================================
