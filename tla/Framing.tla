------------------------------ MODULE Framing ------------------------------
(***************************************************************************)
(* Frames as bytes: how UartProtocol (core/src/protocol.cpp) makes bytes   *)
(* of a message, and how the receiving half of UartTask (tasks/            *)
(* uart_task.cpp) finds the messages in whatever the driver has read.      *)
(*                                                                         *)
(* The line holds the bytes that have arrived and have not been read.  A   *)
(* read takes any number of them, so it may begin and end in the middle    *)
(* of a frame.  Frames lose bytes and bytes of no frame come in between.   *)
(* Indexes into a read count from 0, as in the code.                       *)
(***************************************************************************)
EXTENDS Naturals, Sequences, FiniteSets

CONSTANTS
  Messages,      \* the messages that are sent: address, command, data (words)
  Crc(_),        \* crc16_modbus
  start_bit,     \* Protocol::start_bit
  MAX_DATA_LEN,  \* the words a frame can carry
  BufferLength,  \* the size of a LocalReadBuffer
  QueueLength,   \* the capacity of the incoming queue
  Bursts,        \* noise: bytes that belong to no frame
  MaxNoise       \* how many bursts, and how many damaged frames, there can be

Byte == 0 .. 255
Word == 0 .. 256 * 256 - 1
HEADER_LENGTH == 4
CRC_LENGTH == 2
FrameLength == HEADER_LENGTH + 2 * MAX_DATA_LEN + CRC_LENGTH
UartMessage == [address : Byte, command : Byte, data : Seq(Word)]

ASSUME StartBitAssumption == start_bit \in Byte
ASSUME SizesAssumption ==
  MAX_DATA_LEN \in Nat /\ BufferLength \in Nat \ {0} /\ QueueLength \in Nat \ {0}
\* The length of the data is a byte of the frame.
ASSUME DataLengthAssumption == 2 * MAX_DATA_LEN \in Byte
ASSUME MessagesAssumption ==
  \A m \in Messages : m \in UartMessage /\ Len(m.data) <= MAX_DATA_LEN
ASSUME NoiseAssumption ==
  MaxNoise \in Nat /\ \A burst \in Bursts : burst \in Seq(Byte)

VARIABLES
  line,         \* the bytes the driver holds
  buffer,       \* what the last read took
  start_index,  \* where the search for the next frame begins
  parsing,      \* whether the loop over the buffer is running
  found,        \* the messages found in this buffer
  incoming,     \* the queue of the head or node task
  sent,         \* history: the messages sent
  received,     \* history: the messages put in the queue
  panicked,     \* an assert has failed, and the receiver has ended
  noise         \* bursts and damaged frames so far

vars == <<line, buffer, start_index, parsing, found, incoming, sent, received,
          panicked, noise>>

-----------------------------------------------------------------------------
(***************************************************************************)
(* The sender.                                                             *)
(***************************************************************************)
low(word) == word % 256
high(word) == word \div 256

data_bytes(data) ==
  [k \in 1 .. 2 * Len(data) |->
     IF k % 2 = 1 THEN low(data[(k + 1) \div 2]) ELSE high(data[k \div 2])]

\* What the checksum is taken of.
body(m) == <<m.address, m.command, 2 * Len(m.data)>> \o data_bytes(m.data)

prepare_bytes(m) ==
  <<start_bit>> \o body(m) \o <<low(Crc(body(m))), high(Crc(body(m)))>>

ASSUME CrcAssumption == \A m \in Messages : Crc(body(m)) \in Word

frames == [m \in Messages |-> prepare_bytes(m)]

-----------------------------------------------------------------------------
(***************************************************************************)
(* The receiver.  An optional is the set of its value.                     *)
(***************************************************************************)
content(i) == buffer[i + 1]
merge_uint8(first, second) == first + 256 * second

\* The least index from start_index on that holds a start bit.
first_start ==
  LET ahead == {i \in start_index .. Len(buffer) - 1 : content(i) = start_bit}
  IN  {i \in ahead : \A j \in ahead : i <= j}

\* Mutant: a frame that ends with the read is not taken for complete.
create_indexed_frame_mutant(i) ==
  LET length == HEADER_LENGTH + content(i + 3) + CRC_LENGTH IN
  IF i + 3 >= Len(buffer) \/ i + length >= Len(buffer) \/ length > FrameLength
  THEN {}
  ELSE {[length |-> length, frame |-> SubSeq(buffer, i + 1, i + length)]}
\* The frame that begins at i, if all of it is there and it is not longer than
\* a frame can be.  A length beyond the end of the read is a zero of the buffer
\* or lies behind it; no length makes a frame of the bytes before it.
create_indexed_frame(i) ==
  LET length == HEADER_LENGTH + content(i + 3) + CRC_LENGTH IN
  IF i + 3 >= Len(buffer) \/ i + length > Len(buffer) \/ length > FrameLength
  THEN {}
  ELSE {[length |-> length, frame |-> SubSeq(buffer, i + 1, i + length)]}

parse_uart_read == UNION {create_indexed_frame(i) : i \in first_start}

\* Mutant: the checksum is not compared.
validate_frame_mutant(frame) == frame[1] = start_bit
\* The start bit and the length have been looked at.
validate_frame(frame) ==
  LET crc_start == Len(frame) - 1 IN
  Crc(SubSeq(frame, 2, crc_start - 1))
    = merge_uint8(frame[crc_start], frame[crc_start + 1])

reconstruct_uart_message(frame) ==
  [address |-> frame[2], command |-> frame[3],
   data |-> [k \in 1 .. frame[4] \div 2 |->
               merge_uint8(frame[3 + 2 * k], frame[4 + 2 * k])]]

\* assert(data_length % 2 == 0): the data is made of words.
assert_fails(frame) == validate_frame(frame) /\ frame[4] % 2 # 0

build_uart_message(frame) ==
  IF validate_frame(frame) /\ ~assert_fails(frame)
  THEN {reconstruct_uart_message(frame)} ELSE {}

-----------------------------------------------------------------------------
Init ==
  /\ line = <<>>
  /\ buffer = <<>> /\ start_index = 0 /\ parsing = FALSE /\ found = <<>>
  /\ incoming = <<>>
  /\ sent = <<>> /\ received = <<>>
  /\ panicked = FALSE
  /\ noise = 0

readVars == <<buffer, start_index, parsing, found, incoming, received, panicked>>

unsent(m) == \A k \in DOMAIN sent : sent[k] # m

send(m) ==
  /\ unsent(m)
  /\ sent' = Append(sent, m)
  /\ line' = line \o frames[m]
  /\ UNCHANGED <<readVars, noise>>

\* A byte of the frame is lost.
send_damaged(m) ==
  /\ unsent(m) /\ noise < MaxNoise
  /\ sent' = Append(sent, m)
  /\ \E k \in DOMAIN frames[m] :
       line' = line \o SubSeq(frames[m], 1, k - 1)
                    \o SubSeq(frames[m], k + 1, Len(frames[m]))
  /\ noise' = noise + 1
  /\ UNCHANGED readVars

disturb(burst) ==
  /\ noise < MaxNoise
  /\ line' = line \o burst
  /\ noise' = noise + 1
  /\ UNCHANGED <<readVars, sent>>

\* UartDriver::receive, if there is anything to read; it waits a little for
\* more, and takes what has come.
receive ==
  /\ ~parsing /\ ~panicked
  /\ \E n \in 0 .. Len(line) :
       /\ n <= BufferLength
       /\ n = 0 => line = <<>>
       /\ buffer' = SubSeq(line, 1, n)
       /\ line' = SubSeq(line, n + 1, Len(line))
       /\ parsing' = (n > 0)
  /\ start_index' = 0
  /\ found' = <<>>
  /\ UNCHANGED <<incoming, sent, received, panicked, noise>>

\* A message for the queue, which is dropped if there is no room.
enqueue(m) ==
  IF Len(incoming) < QueueLength
  THEN incoming' = Append(incoming, m) /\ received' = Append(received, m)
  ELSE UNCHANGED <<incoming, received>>

frame_found(frame) ==
  /\ panicked' = assert_fails(frame)
  /\ \/ \E m \in build_uart_message(frame) : found' = Append(found, m) /\ enqueue(m)
     \/ build_uart_message(frame) = {} /\ UNCHANGED <<found, incoming, received>>

\* Mutant: the place of the frame is counted in, which is an index already.
parse_frame_overrun_mutant ==
  \E i \in first_start : \E indexed \in create_indexed_frame(i) :
    /\ start_index' = start_index + i + indexed.length
    /\ frame_found(indexed.frame)
\* Mutant: the checksum is not counted where the next search begins.
parse_frame_mutant ==
  \E indexed \in parse_uart_read :
    /\ start_index' = start_index + indexed.length - CRC_LENGTH
    /\ frame_found(indexed.frame)
\* One turn of the loop that finds a frame.  The index moves by the length of
\* the frame, from where the search began and not from where the frame began.
parse_frame ==
  \E indexed \in parse_uart_read :
    /\ start_index' = start_index + indexed.length
    /\ frame_found(indexed.frame)

parse ==
  /\ parsing /\ ~panicked
  /\ \/ parse_frame /\ UNCHANGED parsing
     \/ /\ parse_uart_read = {}
        /\ parsing' = FALSE
        /\ UNCHANGED <<start_index, found, incoming, received, panicked>>
  /\ UNCHANGED <<line, buffer, sent, noise>>

\* The task behind the queue.
take ==
  /\ incoming # <<>> /\ ~panicked
  /\ incoming' = Tail(incoming)
  /\ UNCHANGED <<line, buffer, start_index, parsing, found, sent, received, panicked,
                 noise>>

Next ==
  \/ \E m \in Messages : send(m) \/ send_damaged(m)
  \/ \E burst \in Bursts : disturb(burst)
  \/ receive
  \/ parse
  \/ take

Spec == Init /\ [][Next]_vars
-----------------------------------------------------------------------------
(***************************************************************************)
(* Properties.                                                             *)
(***************************************************************************)
\* Type correctness; the search stays inside the read, and whatever bytes have
\* come, a message that is made of them fits in the data array of UartMessage.
TypeOK ==
  /\ line \in Seq(Byte)
  /\ buffer \in Seq(Byte) /\ Len(buffer) <= BufferLength
  /\ start_index \in 0 .. Len(buffer)
  /\ parsing \in BOOLEAN
  /\ found \in Seq(UartMessage) /\ incoming \in Seq(UartMessage)
  /\ \A k \in DOMAIN found : Len(found[k].data) <= MAX_DATA_LEN
  /\ Len(incoming) <= QueueLength
  /\ panicked \in BOOLEAN
  /\ noise \in 0 .. MaxNoise

\* The line of bytes implements the wire of messages: whatever is damaged, cut
\* in two by a read or found twice after noise (uart_task.cpp:22), no message
\* overtakes another, and nothing arrives that was not sent.
Line == INSTANCE Wire
ImplementsWire == Line!Spec

\* Where the read has start bits, how long a frame there would be, and whether
\* each of them begins a frame that is there as a whole.
starts == {i \in 0 .. Len(buffer) - 1 : content(i) = start_bit}
extent(i) == HEADER_LENGTH + content(i + 3) + CRC_LENGTH
whole(i, m) ==
  \A k \in DOMAIN frames[m] :
    i + k \in DOMAIN buffer /\ buffer[i + k] = frames[m][k]
orderly ==
  \A i \in starts : /\ \E m \in Messages : whole(i, m)
                    /\ \A j \in starts : i < j => i + extent(i) <= j

\* However much noise comes with it, a frame that lies in a read is found, as
\* long as no start bit in the read is any other byte than the first of a frame:
\* the index kept by UartTask::run is never ahead of the end of the last frame.
NoFrameIsSkipped ==
  ~parsing /\ orderly =>
    \A i \in starts : \E k \in DOMAIN found : whole(i, found[k])

\* Such a read finds no frame twice, unless it has as many bytes outside of its
\* frames as the shortest frame has: tests/transport_test.cpp:70 skips two, and
\* what the index lags behind is their number (uart_task.cpp:22).
NoFrameIsRepeated ==
  LET inside == UNION {i .. i + extent(i) - 1 : i \in starts} IN
  /\ ~parsing /\ orderly
  /\ Len(buffer) - Cardinality(inside) < HEADER_LENGTH + CRC_LENGTH
  => Len(found) = Cardinality(starts)

\* Every turn of the loop ends it or leaves at least an empty frame behind, so
\* that it comes to an end.
LoopAdvances ==
  [][parse /\ parsing' =>
       start_index' >= start_index + HEADER_LENGTH + CRC_LENGTH]_vars
=============================================================================
