--------------------------- MODULE FramingProofs ---------------------------
(***************************************************************************)
(* Framing, for any messages, noise and sizes, and for any checksum: the   *)
(* search stays inside the read, every turn of the loop advances it, and   *)
(* no frame that can be told from what surrounds it is skipped, or, where  *)
(* there is little else, found twice.                                      *)
(***************************************************************************)
EXTENDS Framing, SequenceTheorems, FiniteSetTheorems, TLAPS

-----------------------------------------------------------------------------
\* The bytes of a word, and the word made of them again (merge_uint8).
LEMMA Bytes ==
  ASSUME NEW w \in Word
  PROVE  low(w) \in Byte /\ high(w) \in Byte /\ merge_uint8(low(w), high(w)) = w
BY DEF Word, Byte, low, high, merge_uint8

\* Two bytes make a word (merge_uint8).
LEMMA MergedBytes ==
  ASSUME NEW lo \in Byte, NEW hi \in Byte
  PROVE  merge_uint8(lo, hi) \in Word
<1>1. lo \in 0 .. 255 /\ hi \in 0 .. 255
  BY DEF Byte
<1>2. lo + 256 * hi \in 0 .. 256 * 256 - 1
  <2>1. lo \in Nat /\ lo <= 255 /\ 256 * hi \in Nat /\ 256 * hi <= 65280
    BY <1>1
  <2>2. lo + 256 * hi \in Nat /\ lo + 256 * hi <= 256 * 256 - 1
    BY <2>1
  <2>3. \A k, top \in Nat : k <= top => k \in 0 .. top
    OBVIOUS
  <2>4. 256 * 256 - 1 \in Nat
    OBVIOUS
  <2> QED BY <2>2, <2>3, <2>4, Zenon
<1> QED BY <1>2, Zenon DEF Word, merge_uint8

\* The bytes of the data, two for each word (prepare_bytes).
LEMMA DataBytes ==
  ASSUME NEW m \in Messages
  PROVE  /\ m.data \in Seq(Word) /\ Len(m.data) \in Nat /\ Len(m.data) <= MAX_DATA_LEN
         /\ data_bytes(m.data) \in Seq(Byte)
         /\ Len(data_bytes(m.data)) = 2 * Len(m.data)
         /\ \A k \in 1 .. Len(m.data) :
              /\ data_bytes(m.data)[2 * k - 1] = low(m.data[k])
              /\ data_bytes(m.data)[2 * k] = high(m.data[k])
<1> DEFINE d == m.data
           n == Len(d)
<1>1. d \in Seq(Word) /\ n \in Nat /\ n <= MAX_DATA_LEN /\ \A k \in 1 .. n : d[k] \in Word
  BY MessagesAssumption DEF UartMessage
<1>2. \A k \in 1 .. 2 * n : data_bytes(d)[k] =
        IF k % 2 = 1 THEN low(d[(k + 1) \div 2]) ELSE high(d[k \div 2])
  BY DEF data_bytes
<1>3. ASSUME NEW k \in 1 .. 2 * n  PROVE data_bytes(d)[k] \in Byte
  <2>1. CASE k % 2 = 1
    <3>1. (k + 1) \div 2 \in 1 .. n
      BY <1>1, <2>1
    <3> QED BY <1>1, <1>2, <2>1, <3>1, Bytes
  <2>2. CASE k % 2 # 1
    <3>1. k \div 2 \in 1 .. n
      BY <1>1, <2>2
    <3> QED BY <1>1, <1>2, <2>2, <3>1, Bytes
  <2> QED BY <2>1, <2>2
<1>4. data_bytes(d) \in [1 .. 2 * n -> Byte]
  <2>1. data_bytes(d) = [k \in 1 .. 2 * n |-> data_bytes(d)[k]]
    BY DEF data_bytes
  <2> QED BY <1>3, <2>1
<1>5. data_bytes(d) \in Seq(Byte) /\ Len(data_bytes(d)) = 2 * n
  BY <1>1, <1>4
<1>6. ASSUME NEW k \in 1 .. n
      PROVE  data_bytes(d)[2 * k - 1] = low(d[k]) /\ data_bytes(d)[2 * k] = high(d[k])
  <2>1. /\ 2 * k - 1 \in 1 .. 2 * n /\ 2 * k \in 1 .. 2 * n
        /\ (2 * k - 1) % 2 = 1 /\ (2 * k) % 2 # 1
        /\ ((2 * k - 1) + 1) \div 2 = k /\ (2 * k) \div 2 = k
    BY <1>1
  <2> QED BY <1>2, <2>1
<1> QED BY <1>1, <1>5, <1>6

\* A frame, byte by byte (prepare_bytes).
LEMMA FrameShape ==
  ASSUME NEW m \in Messages
  PROVE  LET f == frames[m]
             n == Len(m.data) IN
         /\ f \in Seq(Byte) /\ n \in Nat /\ Len(f) = 2 * n + 6 /\ Len(f) <= FrameLength
         /\ f[1] = start_bit /\ f[2] = m.address /\ f[3] = m.command /\ f[4] = 2 * n
         /\ \A k \in 1 .. n : f[3 + 2 * k] = low(m.data[k]) /\ f[4 + 2 * k] = high(m.data[k])
         /\ SubSeq(f, 2, Len(f) - 2) = body(m)
         /\ f[Len(f) - 1] = low(Crc(body(m))) /\ f[Len(f)] = high(Crc(body(m)))
<1> DEFINE n == Len(m.data)
           d == data_bytes(m.data)
           h == <<m.address, m.command, 2 * n>>
           c == <<low(Crc(body(m))), high(Crc(body(m)))>>
           s == <<start_bit>>
           sb == s \o body(m)
           f == sb \o c
<1>1. frames[m] = f
  BY DEF frames, prepare_bytes
<1>2. /\ n \in Nat /\ n <= MAX_DATA_LEN /\ d \in Seq(Byte) /\ Len(d) = 2 * n
      /\ m.address \in Byte /\ m.command \in Byte
      /\ \A k \in 1 .. n : d[2 * k - 1] = low(m.data[k]) /\ d[2 * k] = high(m.data[k])
  BY DataBytes, MessagesAssumption DEF UartMessage
<1>3. start_bit \in Byte /\ low(Crc(body(m))) \in Byte /\ high(Crc(body(m))) \in Byte
  BY StartBitAssumption, CrcAssumption, Bytes
<1> HIDE DEF n, d, h, c, s, sb, f
<1>4. 2 * n \in Byte
  BY <1>2, DataLengthAssumption, SizesAssumption DEF Byte
<1>5. h \in Seq(Byte) /\ Len(h) = 3 /\ h[1] = m.address /\ h[2] = m.command /\ h[3] = 2 * n
  BY <1>2, <1>4 DEF h
<1>6. /\ body(m) = h \o d /\ body(m) \in Seq(Byte) /\ Len(body(m)) = 2 * n + 3
      /\ \A k \in 1 .. 3 : body(m)[k] = h[k]
      /\ \A k \in 1 .. 2 * n : body(m)[3 + k] = d[k]
  <2>1. body(m) = h \o d
    BY DEF body, h, d, n
  <2>2. /\ h \o d \in Seq(Byte) /\ Len(h \o d) = Len(h) + Len(d)
        /\ \A k \in 1 .. Len(h) + Len(d) :
             (h \o d)[k] = IF k <= Len(h) THEN h[k] ELSE d[k - Len(h)]
    BY <1>2, <1>5, ConcatProperties
  <2> QED BY <1>2, <1>5, <2>1, <2>2
<1>7. c \in Seq(Byte) /\ Len(c) = 2 /\ c[1] = low(Crc(body(m))) /\ c[2] = high(Crc(body(m)))
  BY <1>3 DEF c
<1>8. /\ f \in Seq(Byte) /\ Len(f) = 2 * n + 6
      /\ \A k \in 1 .. 2 * n + 6 :
           f[k] = IF k = 1 THEN start_bit
                  ELSE IF k <= 2 * n + 4 THEN body(m)[k - 1] ELSE c[k - (2 * n + 4)]
  <2>1. s \in Seq(Byte) /\ Len(s) = 1 /\ s[1] = start_bit
    BY <1>3 DEF s
  <2>2. /\ sb \in Seq(Byte) /\ Len(sb) = 2 * n + 4
        /\ \A k \in 1 .. 2 * n + 4 : sb[k] = IF k = 1 THEN start_bit ELSE body(m)[k - 1]
    <3>1. /\ sb \in Seq(Byte) /\ Len(sb) = Len(s) + Len(body(m))
          /\ \A k \in 1 .. Len(s) + Len(body(m)) :
               sb[k] = IF k <= Len(s) THEN s[k] ELSE body(m)[k - Len(s)]
      BY <1>6, <2>1, ConcatProperties DEF sb
    <3>2. Len(s) = 1 /\ Len(body(m)) = 2 * n + 3 /\ n \in Nat
      BY <1>2, <1>6, <2>1
    <3>3. Len(sb) = 2 * n + 4
      BY <3>1, <3>2
    <3>4. ASSUME NEW k \in 1 .. 2 * n + 4
          PROVE  sb[k] = IF k = 1 THEN start_bit ELSE body(m)[k - 1]
      <4>1. k \in 1 .. Len(s) + Len(body(m))
        BY <3>2
      <4>2. CASE k = 1
        BY <2>1, <3>1, <3>2, <4>1, <4>2
      <4>3. CASE k # 1
        BY <3>1, <3>2, <4>1, <4>3
      <4> QED BY <4>2, <4>3
    <3> QED BY <3>1, <3>3, <3>4
  <2>3. /\ sb \o c \in Seq(Byte) /\ Len(sb \o c) = Len(sb) + Len(c)
        /\ \A k \in 1 .. Len(sb) + Len(c) :
             (sb \o c)[k] = IF k <= Len(sb) THEN sb[k] ELSE c[k - Len(sb)]
    BY <1>7, <2>2, ConcatProperties
  <2>4. Len(sb) = 2 * n + 4 /\ Len(c) = 2 /\ n \in Nat
    BY <1>2, <1>7, <2>2
  <2>5. Len(f) = 2 * n + 6 /\ f \in Seq(Byte)
    BY <2>3, <2>4 DEF f
  <2>6. ASSUME NEW k \in 1 .. 2 * n + 6
        PROVE  f[k] = IF k = 1 THEN start_bit
                      ELSE IF k <= 2 * n + 4 THEN body(m)[k - 1] ELSE c[k - (2 * n + 4)]
    <3>1. f[k] = IF k <= 2 * n + 4 THEN sb[k] ELSE c[k - (2 * n + 4)]
      BY <2>3, <2>4 DEF f
    <3>2. CASE k <= 2 * n + 4
      <4>1. k \in 1 .. 2 * n + 4
        BY <2>4, <3>2
      <4> QED BY <2>2, <3>1, <3>2, <4>1
    <3>3. CASE ~ (k <= 2 * n + 4)
      BY <2>4, <3>1, <3>3
    <3> QED BY <3>2, <3>3
  <2> QED BY <2>5, <2>6
<1>9. f[1] = start_bit /\ f[2] = m.address /\ f[3] = m.command /\ f[4] = 2 * n
  BY <1>2, <1>5, <1>6, <1>8
<1>10. ASSUME NEW k \in 1 .. n
       PROVE  f[3 + 2 * k] = low(m.data[k]) /\ f[4 + 2 * k] = high(m.data[k])
  <2>1. /\ 2 * k - 1 \in 1 .. 2 * n /\ 2 * k \in 1 .. 2 * n
        /\ 3 + 2 * k \in 1 .. 2 * n + 6 /\ 3 + 2 * k # 1 /\ 3 + 2 * k <= 2 * n + 4
        /\ 4 + 2 * k \in 1 .. 2 * n + 6 /\ 4 + 2 * k # 1 /\ 4 + 2 * k <= 2 * n + 4
        /\ (3 + 2 * k) - 1 = 3 + (2 * k - 1) /\ (4 + 2 * k) - 1 = 3 + 2 * k
    BY <1>2
  <2>2. f[3 + 2 * k] = body(m)[3 + (2 * k - 1)] /\ f[4 + 2 * k] = body(m)[3 + 2 * k]
    BY <1>8, <2>1
  <2> QED BY <1>2, <1>6, <2>1, <2>2
<1>11. SubSeq(f, 2, Len(f) - 2) = body(m)
  <2>1. /\ SubSeq(f, 2, 2 * n + 4) \in Seq(Byte) /\ Len(SubSeq(f, 2, 2 * n + 4)) = 2 * n + 3
        /\ \A k \in 1 .. 2 * n + 3 : SubSeq(f, 2, 2 * n + 4)[k] = f[k + 1]
    BY <1>2, <1>8
  <2>2. \A k \in 1 .. 2 * n + 3 : f[k + 1] = body(m)[k]
    BY <1>2, <1>8
  <2>3. SubSeq(f, 2, 2 * n + 4) = body(m)
    BY <1>2, <1>6, <2>1, <2>2, SeqEqual
  <2>4. Len(f) - 2 = 2 * n + 4
    BY <1>2, <1>8
  <2> QED BY <2>3, <2>4
<1>12. f[2 * n + 5] = c[1] /\ f[2 * n + 6] = c[2]
  BY <1>2, <1>8
<1>13. 2 * n + 6 <= FrameLength
  BY <1>2, SizesAssumption DEF FrameLength, HEADER_LENGTH, CRC_LENGTH
<1> QED
  BY <1>1, <1>2, <1>7, <1>8, <1>9, <1>10, <1>11, <1>12, <1>13 DEF n

\* What was sent is what is made of its frame (build_uart_message).
LEMMA FrameIsRead ==
  ASSUME NEW m \in Messages
  PROVE  build_uart_message(frames[m]) = {m}
<1> DEFINE f == frames[m]
           n == Len(m.data)
<1>1. /\ f \in Seq(Byte) /\ n \in Nat /\ Len(f) = 2 * n + 6
      /\ f[2] = m.address /\ f[3] = m.command /\ f[4] = 2 * n
      /\ \A k \in 1 .. n : f[3 + 2 * k] = low(m.data[k]) /\ f[4 + 2 * k] = high(m.data[k])
      /\ SubSeq(f, 2, Len(f) - 2) = body(m)
      /\ f[Len(f) - 1] = low(Crc(body(m))) /\ f[Len(f)] = high(Crc(body(m)))
  BY FrameShape
<1>2. m \in UartMessage
  BY MessagesAssumption
<1>3. m.data \in Seq(Word) /\ m = [address |-> m.address, command |-> m.command, data |-> m.data]
  BY <1>2 DEF UartMessage
<1>4. validate_frame(f)
  <2>1. (Len(f) - 1) - 1 = Len(f) - 2 /\ (Len(f) - 1) + 1 = Len(f)
    BY <1>1
  <2>2. merge_uint8(f[Len(f) - 1], f[Len(f)]) = Crc(body(m))
    BY <1>1, CrcAssumption, Bytes
  <2> HIDE DEF f
  <2> QED BY <1>1, <2>1, <2>2 DEF validate_frame
<1> HIDE DEF f, n
<1>5. reconstruct_uart_message(f) = m
  <2> DEFINE words == [k \in 1 .. f[4] \div 2 |-> merge_uint8(f[3 + 2 * k], f[4 + 2 * k])]
  <2>1. f[4] \div 2 = n
    BY <1>1
  <2>2. \A k \in 1 .. n : m.data[k] \in Word
    BY <1>1, <1>3 DEF n
  <2>3. \A k \in 1 .. n : words[k] = m.data[k]
    BY <1>1, <2>1, <2>2, Bytes
  <2>4. words \in [1 .. n -> Word]
    BY <2>1, <2>2, <2>3
  <2>5. words \in Seq(Word) /\ Len(words) = n
    BY <1>1, <2>4
  <2> HIDE DEF words
  <2>6. words = m.data
    BY <1>3, <2>3, <2>5, SeqEqual DEF n
  <2> QED BY <1>1, <1>3, <2>6 DEF reconstruct_uart_message, words
<1>6. f[4] % 2 = 0
  BY <1>1
<1> QED BY <1>4, <1>5, <1>6 DEF build_uart_message, assert_fails, f

\* What create_indexed_frame makes of the bytes from i on lies in the read, and
\* has the length that it says.
LEMMA IndexedFrame ==
  ASSUME buffer \in Seq(Byte), NEW i \in 0 .. Len(buffer) - 1,
         NEW indexed \in create_indexed_frame(i)
  PROVE  /\ indexed.length = HEADER_LENGTH + content(i + 3) + CRC_LENGTH
         /\ content(i + 3) \in Byte
         /\ i + indexed.length <= Len(buffer) /\ indexed.length <= FrameLength
         /\ indexed.frame \in Seq(Byte) /\ Len(indexed.frame) = indexed.length
         /\ \A k \in 1 .. indexed.length : indexed.frame[k] = buffer[i + k]
<1> DEFINE b == content(i + 3)
           length == HEADER_LENGTH + b + CRC_LENGTH
<1>1. /\ ~(i + 3 >= Len(buffer)) /\ ~(i + length > Len(buffer)) /\ ~(length > FrameLength)
      /\ indexed = [length |-> length, frame |-> SubSeq(buffer, i + 1, i + length)]
  BY DEF create_indexed_frame
<1>2. Len(buffer) \in Nat /\ i \in Nat
  OBVIOUS
<1>3. b \in Byte
  BY <1>1, <1>2 DEF content
<1> HIDE DEF b
<1>4. length \in Nat /\ length >= 6
  BY <1>3 DEF Byte, HEADER_LENGTH, CRC_LENGTH
<1>5. indexed.length = HEADER_LENGTH + b + CRC_LENGTH
  BY <1>1
<1> HIDE DEF length
<1>6. i + length <= Len(buffer) /\ length <= FrameLength
  BY <1>1, <1>2, <1>4, SizesAssumption DEF FrameLength, HEADER_LENGTH, CRC_LENGTH
<1>7. \A k \in i + 1 .. i + length : buffer[k] \in Byte
  BY <1>2, <1>4, <1>6
<1>8. /\ SubSeq(buffer, i + 1, i + length) \in Seq(Byte)
      /\ Len(SubSeq(buffer, i + 1, i + length)) = length
      /\ \A k \in 1 .. length : SubSeq(buffer, i + 1, i + length)[k] = buffer[i + k]
  <2>1. i + 1 \in Int /\ i + length \in Int /\ i + 1 <= i + length
    BY <1>2, <1>4
  <2>2. /\ SubSeq(buffer, i + 1, i + length) \in Seq(Byte)
        /\ Len(SubSeq(buffer, i + 1, i + length)) = (i + length) - (i + 1) + 1
        /\ \A k \in 1 .. (i + length) - (i + 1) + 1 :
             SubSeq(buffer, i + 1, i + length)[k] = buffer[(i + 1) + k - 1]
    BY <1>7, <2>1, SubSeqProperties
  <2> QED BY <1>2, <1>4, <2>2
<1> QED BY <1>1, <1>3, <1>5, <1>6, <1>8 DEF b

\* Whatever the bytes are, the message made of them has a type, and its words fit
\* in the array they are put in (reconstruct_uart_message).
LEMMA MessageFits ==
  ASSUME buffer \in Seq(Byte), NEW i \in 0 .. Len(buffer) - 1,
         NEW indexed \in create_indexed_frame(i),
         NEW m \in build_uart_message(indexed.frame)
  PROVE  m \in UartMessage /\ Len(m.data) <= MAX_DATA_LEN
<1> DEFINE f == indexed.frame
           n == f[4] \div 2
           words == [k \in 1 .. n |-> merge_uint8(f[3 + 2 * k], f[4 + 2 * k])]
<1> DEFINE b == content(i + 3)
<1>1. /\ indexed.length = HEADER_LENGTH + b + CRC_LENGTH /\ b \in Byte
      /\ indexed.length <= FrameLength
      /\ f \in Seq(Byte) /\ Len(f) = indexed.length
      /\ \A k \in 1 .. indexed.length : f[k] = buffer[i + k]
  BY IndexedFrame
<1>2. f[4] = b /\ b \in Nat /\ Len(f) = b + 6 /\ b <= 2 * MAX_DATA_LEN /\ MAX_DATA_LEN \in Nat
  <2> HIDE DEF b, f, n, words
  <2>0. /\ indexed.length = HEADER_LENGTH + b + CRC_LENGTH /\ b \in Byte
        /\ indexed.length <= FrameLength
    BY <1>1
  <2>1. b \in Nat /\ indexed.length = b + 6 /\ b <= 2 * MAX_DATA_LEN /\ MAX_DATA_LEN \in Nat
    <3>1. MAX_DATA_LEN \in Nat
      BY SizesAssumption
    <3>2. b \in Nat /\ indexed.length = b + 6 /\ b + 6 <= 2 * MAX_DATA_LEN + 6
      BY <2>0, <3>1 DEF Byte, FrameLength, HEADER_LENGTH, CRC_LENGTH
    <3> QED BY <3>1, <3>2
  <2>2. f[4] = buffer[i + 4]
    BY <1>1, <2>1
  <2>3. (i + 3) + 1 = i + 4
    OBVIOUS
  <2> QED BY <1>1, <2>1, <2>2, <2>3 DEF b, content
<1> HIDE DEF b
<1>3. m = [address |-> f[2], command |-> f[3], data |-> words]
  BY DEF build_uart_message, reconstruct_uart_message
<1>4. f[2] \in Byte /\ f[3] \in Byte
  BY <1>1, <1>2
<1>5. n \in Nat /\ n <= MAX_DATA_LEN /\ 2 * n + 4 <= Len(f)
  BY <1>2
<1> HIDE DEF f, n
<1>6. ASSUME NEW k \in 1 .. n  PROVE merge_uint8(f[3 + 2 * k], f[4 + 2 * k]) \in Word
  <2>1. 3 + 2 * k \in 1 .. Len(f) /\ 4 + 2 * k \in 1 .. Len(f)
    BY <1>1, <1>5
  <2>2. f[3 + 2 * k] \in Byte /\ f[4 + 2 * k] \in Byte
    BY <1>1, <2>1
  <2> QED BY <2>2, MergedBytes
<1>7. words \in [1 .. n -> Word]
  BY <1>6
<1>8. words \in Seq(Word) /\ Len(words) = n
  BY <1>5, <1>7
<1> HIDE DEF words
<1> QED BY <1>3, <1>4, <1>5, <1>8 DEF UartMessage

-----------------------------------------------------------------------------
\* The frame that the loop looks at begins where the search does or behind.
LEMMA FirstStart ==
  ASSUME TypeOK, NEW i \in first_start
  PROVE  /\ i \in 0 .. Len(buffer) - 1 /\ start_index <= i /\ content(i) = start_bit
         /\ \A j \in starts : start_index <= j => i <= j
<1>1. Len(buffer) \in Nat /\ start_index \in Nat
  BY DEF TypeOK
<1>2. i \in start_index .. Len(buffer) - 1 /\ content(i) = start_bit
  BY DEF first_start
<1>3. ASSUME NEW j \in starts, start_index <= j  PROVE i <= j
  <2>1. j \in start_index .. Len(buffer) - 1 /\ content(j) = start_bit
    BY <1>1, <1>3 DEF starts
  <2> QED BY <2>1 DEF first_start
<1> QED BY <1>1, <1>2, <1>3

\* A turn of the loop that finds a frame leaves the search inside the read.
LEMMA IndexAdvances ==
  ASSUME TypeOK, NEW i \in first_start, NEW indexed \in create_indexed_frame(i)
  PROVE  /\ start_index + indexed.length \in 0 .. Len(buffer)
         /\ start_index + indexed.length >= start_index + HEADER_LENGTH + CRC_LENGTH
<1>1. buffer \in Seq(Byte) /\ Len(buffer) \in Nat /\ start_index \in Nat
  BY DEF TypeOK
<1>2. i \in 0 .. Len(buffer) - 1 /\ start_index <= i
  BY FirstStart
<1> DEFINE b == content(i + 3)
<1>3. indexed.length = HEADER_LENGTH + b + CRC_LENGTH /\ b \in Byte
      /\ i + indexed.length <= Len(buffer)
  BY <1>1, <1>2, IndexedFrame
<1> HIDE DEF b
<1>4. indexed.length = b + 6 /\ b \in Nat
  BY <1>3 DEF Byte, HEADER_LENGTH, CRC_LENGTH
<1> QED BY <1>1, <1>2, <1>3, <1>4 DEF HEADER_LENGTH, CRC_LENGTH

\* Type correctness: the search never leaves the read (UartTask::run), and a
\* message of any bytes fits in its array (reconstruct_uart_message).
THEOREM TypeCorrect == Spec => []TypeOK
<1>1. Init => TypeOK
  <2> SUFFICES ASSUME Init  PROVE TypeOK
    OBVIOUS
  <2>1. \A S : <<>> \in Seq(S) /\ Len(<<>>) = 0 /\ DOMAIN <<>> = {}
    OBVIOUS
  <2>2. start_index \in 0 .. Len(buffer) /\ Len(buffer) <= BufferLength
    BY <2>1, SizesAssumption DEF Init
  <2>3. Len(incoming) <= QueueLength /\ noise \in 0 .. MaxNoise
    BY <2>1, SizesAssumption, NoiseAssumption DEF Init
  <2> QED BY <2>1, <2>2, <2>3 DEF Init, TypeOK
<1>2. TypeOK /\ [Next]_vars => TypeOK'
  <2> SUFFICES ASSUME TypeOK, [Next]_vars  PROVE TypeOK'
    OBVIOUS
  <2> USE DEF TypeOK
  <2>1. ASSUME NEW m \in Messages, send(m)  PROVE TypeOK'
    <3>1. line' \in Seq(Byte)
      BY <2>1, FrameShape, ConcatProperties DEF send
    <3> QED BY <2>1, <3>1 DEF send, readVars
  <2>2. ASSUME NEW m \in Messages, send_damaged(m)  PROVE TypeOK'
    <3> DEFINE f == frames[m]
    <3>1. f \in Seq(Byte)
      BY FrameShape
    <3> HIDE DEF f
    <3>2. \A j, k \in Int : 1 <= j /\ k <= Len(f) => SubSeq(f, j, k) \in Seq(Byte)
      BY <3>1, SubSeqProperties
    <3>3. PICK k \in DOMAIN f : line' = line \o SubSeq(f, 1, k - 1) \o SubSeq(f, k + 1, Len(f))
      BY <2>2 DEF send_damaged, f
    <3>4. SubSeq(f, 1, k - 1) \in Seq(Byte) /\ SubSeq(f, k + 1, Len(f)) \in Seq(Byte)
      BY <3>1, <3>2
    <3>5. line' \in Seq(Byte)
      BY <3>3, <3>4, ConcatProperties
    <3>6. noise' \in 0 .. MaxNoise
      BY <2>2, NoiseAssumption DEF send_damaged
    <3> QED BY <2>2, <3>5, <3>6 DEF send_damaged, readVars
  <2>3. ASSUME NEW burst \in Bursts, disturb(burst)  PROVE TypeOK'
    <3>1. line' \in Seq(Byte)
      BY <2>3, NoiseAssumption, ConcatProperties DEF disturb
    <3>2. noise' \in 0 .. MaxNoise
      BY <2>3, NoiseAssumption DEF disturb
    <3> QED BY <2>3, <3>1, <3>2 DEF disturb, readVars
  <2>4. CASE receive
    <3>1. PICK n \in 0 .. Len(line) :
            /\ n <= BufferLength
            /\ buffer' = SubSeq(line, 1, n)
            /\ line' = SubSeq(line, n + 1, Len(line))
            /\ parsing' = (n > 0)
      BY <2>4 DEF receive
    <3>2. /\ buffer' \in Seq(Byte) /\ Len(buffer') = n /\ line' \in Seq(Byte)
          /\ n \in Nat /\ parsing' \in BOOLEAN
      BY <3>1
    <3>3. start_index' \in 0 .. Len(buffer')
      BY <2>4, <3>2 DEF receive
    <3>4. found' = <<>>
      BY <2>4 DEF receive
    <3>5. found' \in Seq(UartMessage) /\ \A k \in DOMAIN found' : Len(found'[k].data) <= MAX_DATA_LEN
      BY <3>4
    <3> QED BY <2>4, <3>1, <3>2, <3>3, <3>5 DEF receive
  <2>5. CASE parse
    <3>1. UNCHANGED <<line, buffer, noise>>
      BY <2>5 DEF parse
    <3>2. CASE parse_frame /\ UNCHANGED parsing
      <4>1. PICK indexed \in parse_uart_read :
              /\ start_index' = start_index + indexed.length
              /\ panicked' = assert_fails(indexed.frame)
              /\ \/ \E m \in build_uart_message(indexed.frame) :
                      found' = Append(found, m) /\ enqueue(m)
                 \/ UNCHANGED <<found, incoming>>
        BY <3>2 DEF parse_frame, frame_found
      <4>2. PICK i \in first_start : indexed \in create_indexed_frame(i)
        BY DEF parse_uart_read
      <4>3. start_index' \in 0 .. Len(buffer)
        BY <4>1, <4>2, IndexAdvances
      <4>4. /\ found' \in Seq(UartMessage) /\ incoming' \in Seq(UartMessage)
            /\ \A k \in DOMAIN found' : Len(found'[k].data) <= MAX_DATA_LEN
            /\ Len(incoming') <= QueueLength
        <5>1. ASSUME NEW m \in build_uart_message(indexed.frame),
                     found' = Append(found, m), enqueue(m)
              PROVE  /\ found' \in Seq(UartMessage) /\ incoming' \in Seq(UartMessage)
                     /\ \A k \in DOMAIN found' : Len(found'[k].data) <= MAX_DATA_LEN
                     /\ Len(incoming') <= QueueLength
          <6>1. m \in UartMessage /\ Len(m.data) <= MAX_DATA_LEN
            BY <4>2, FirstStart, MessageFits
          <6>2. \/ Len(incoming) < QueueLength /\ incoming' = Append(incoming, m)
                \/ incoming' = incoming
            BY <5>1 DEF enqueue
          <6>3. /\ found' \in Seq(UartMessage)
                /\ \A k \in DOMAIN found' : Len(found'[k].data) <= MAX_DATA_LEN
            BY <5>1, <6>1
          <6>4. incoming' \in Seq(UartMessage) /\ Len(incoming') <= QueueLength
            <7>1. CASE Len(incoming) < QueueLength /\ incoming' = Append(incoming, m)
              BY <6>1, <7>1, SizesAssumption
            <7>2. CASE incoming' = incoming
              BY <7>2
            <7> QED BY <6>2, <7>1, <7>2
          <6> QED BY <6>3, <6>4
        <5> QED BY <4>1, <5>1
      <4>5. panicked' \in BOOLEAN
        BY <4>1 DEF assert_fails
      <4> QED BY <3>1, <3>2, <4>3, <4>4, <4>5
    <3>3. CASE /\ parsing' = FALSE
               /\ UNCHANGED <<start_index, found, incoming, received, panicked>>
      BY <3>1, <3>3
    <3> QED BY <2>5, <3>2, <3>3 DEF parse
  <2>6. CASE take
    <3>1. incoming' \in Seq(UartMessage) /\ Len(incoming') <= QueueLength
      BY <2>6, SizesAssumption DEF take
    <3> QED BY <2>6, <3>1 DEF take
  <2>7. CASE UNCHANGED vars
    BY <2>7 DEF vars
  <2> QED BY <2>1, <2>2, <2>3, <2>4, <2>5, <2>6, <2>7 DEF Next
<1> QED BY <1>1, <1>2, PTL DEF Spec

\* Every turn of the loop of UartTask::run ends it, or moves the search by the
\* length of an empty frame at least; so the loop comes to an end.
THEOREM LoopComesToAnEnd == Spec => LoopAdvances
<1>1. TypeOK /\ [Next]_vars =>
        [parse /\ parsing' => start_index' >= start_index + HEADER_LENGTH + CRC_LENGTH]_vars
  <2> SUFFICES ASSUME TypeOK, parse, parsing'
               PROVE  start_index' >= start_index + HEADER_LENGTH + CRC_LENGTH
    OBVIOUS
  <2>1. parse_frame
    BY DEF parse
  <2>2. PICK i \in first_start : \E indexed \in create_indexed_frame(i) :
          start_index' = start_index + indexed.length
    BY <2>1 DEF parse_frame, parse_uart_read
  <2> QED BY <2>2, IndexAdvances
<1> QED BY <1>1, TypeCorrect, PTL DEF Spec, LoopAdvances

-----------------------------------------------------------------------------
\* A frame that lies in the read as a whole is indexed as it is.
LEMMA WholeFrame ==
  ASSUME buffer \in Seq(Byte), NEW i \in Nat, NEW m \in Messages, whole(i, m)
  PROVE  /\ extent(i) = Len(frames[m])
         /\ create_indexed_frame(i) = {[length |-> Len(frames[m]), frame |-> frames[m]]}
<1> DEFINE f == frames[m]
           n == Len(m.data)
<1>1. f \in Seq(Byte) /\ n \in Nat /\ Len(f) = 2 * n + 6 /\ Len(f) <= FrameLength /\ f[4] = 2 * n
  BY FrameShape
<1>2. \A k \in DOMAIN f : i + k \in DOMAIN buffer /\ buffer[i + k] = f[k]
  BY DEF whole
<1> HIDE DEF f, n
<1>3. \A k \in 1 .. 2 * n + 6 : i + k \in 1 .. Len(buffer) /\ buffer[i + k] = f[k]
  <2>1. DOMAIN f = 1 .. 2 * n + 6 /\ DOMAIN buffer = 1 .. Len(buffer)
    BY <1>1
  <2> QED BY <1>2, <2>1
<1>4. Len(buffer) \in Nat
  OBVIOUS
<1>5. i + 4 <= Len(buffer) /\ buffer[i + 4] = 2 * n /\ i + (2 * n + 6) <= Len(buffer)
  BY <1>1, <1>3, <1>4
<1>6. content(i + 3) = 2 * n
  BY <1>5 DEF content
<1>7. HEADER_LENGTH + content(i + 3) + CRC_LENGTH = Len(f)
  BY <1>1, <1>6 DEF HEADER_LENGTH, CRC_LENGTH
<1>8. SubSeq(buffer, i + 1, i + Len(f)) = f
  <2> DEFINE g == SubSeq(buffer, i + 1, i + Len(f))
  <2>1. \A k \in i + 1 .. i + Len(f) : buffer[k] \in Byte
    BY <1>1, <1>4, <1>5
  <2>2. /\ g \in Seq(Byte)
        /\ Len(g) = IF i + 1 <= i + Len(f) THEN (i + Len(f)) - (i + 1) + 1 ELSE 0
        /\ \A k \in 1 .. (i + Len(f)) - (i + 1) + 1 : g[k] = buffer[(i + 1) + k - 1]
    <3>1. i + 1 \in Int /\ i + Len(f) \in Int
      BY <1>1
    <3> QED BY <2>1, <3>1, SubSeqProperties
  <2> HIDE DEF g
  <2>3. Len(g) = Len(f) /\ \A k \in 1 .. Len(g) : g[k] = f[k]
    <3>1. (i + Len(f)) - (i + 1) + 1 = Len(f) /\ Len(f) \in Nat /\ Len(f) = 2 * n + 6
      BY <1>1
    <3>2. Len(g) = Len(f)
      BY <2>2, <3>1
    <3>3. ASSUME NEW k \in 1 .. Len(f)  PROVE g[k] = f[k]
      <4>1. (i + 1) + k - 1 = i + k
        BY <3>1
      <4> QED BY <1>3, <2>2, <3>1, <4>1
    <3> QED BY <3>2, <3>3
  <2>4. g = f
    BY <1>1, <2>2, <2>3, SeqEqual
  <2> QED BY <2>4 DEF g
<1>9. ~(i + 3 >= Len(buffer)) /\ ~(i + Len(f) > Len(buffer)) /\ ~(Len(f) > FrameLength)
  BY <1>1, <1>4, <1>5, SizesAssumption DEF FrameLength, HEADER_LENGTH, CRC_LENGTH
<1>10. create_indexed_frame(i) = {[length |-> Len(f), frame |-> f]}
  BY <1>7, <1>8, <1>9 DEF create_indexed_frame
<1> QED BY <1>7, <1>10 DEF f, extent

\* If a start bit lies ahead there is a first one.
LEMMA ThereIsAFirst ==
  ASSUME TypeOK, NEW j \in starts, start_index <= j
  PROVE  first_start # {}
<1> DEFINE ahead == {i \in start_index .. Len(buffer) - 1 : content(i) = start_bit}
           less == OpToRel(<, Nat)
<1>1. start_index \in Nat /\ Len(buffer) \in Nat
  BY DEF TypeOK
<1>2. ahead \subseteq Nat
  BY <1>1
<1>3. j \in ahead
  BY <1>1 DEF starts
<1> HIDE DEF ahead
<1>4. \A x, y \in Nat : <<y, x>> \in less <=> y < x
  BY DEF OpToRel
<1>5. IsWellFoundedOn(less, Nat)
  BY NatLessThanWellFounded
<1> HIDE DEF less
<1>6. PICK i \in ahead : \A k \in ahead : ~ (<<k, i>> \in less)
  <2>1. ahead # {}
    BY <1>3
  <2> QED BY <1>2, <1>5, <2>1, WFMin, Zenon
<1>7. ASSUME NEW k \in ahead  PROVE i <= k
  <2>1. i \in Nat /\ k \in Nat
    BY <1>2
  <2>2. ~ (k < i)
    BY <1>4, <1>6, <2>1, Zenon
  <2> QED BY <2>1, <2>2
<1> QED BY <1>6, <1>7 DEF first_start, ahead

\* A frame that starts in the read has been found, or the search has not come
\* to it.
Scanned ==
  orderly =>
    \A i \in starts :
      \/ \E k \in DOMAIN found : found[k] \in Messages /\ whole(i, found[k])
      \/ parsing /\ start_index <= i

\* A turn of the loop does not pass by a frame that it has not found.
LEMMA ScannedByParse ==
  ASSUME TypeOK, Scanned, parse
  PROVE  Scanned'
<1>1. /\ buffer' = buffer /\ parsing /\ buffer \in Seq(Byte)
      /\ start_index \in Nat /\ Len(buffer) \in Nat /\ found \in Seq(UartMessage)
  BY DEF parse, TypeOK
<1>2. /\ starts' = starts /\ (orderly' <=> orderly)
      /\ \A i, m : whole(i, m)' <=> whole(i, m)
  BY <1>1 DEF starts, orderly, whole, extent, content
<1>3. starts \subseteq Nat
  BY <1>1 DEF starts
<1> SUFFICES ASSUME orderly, NEW i \in starts
             PROVE  \/ \E k \in DOMAIN found' : found'[k] \in Messages /\ whole(i, found'[k])
                    \/ parsing' /\ start_index' <= i
  BY <1>2 DEF Scanned
<1>4. \/ \E k \in DOMAIN found : found[k] \in Messages /\ whole(i, found[k])
      \/ start_index <= i
  BY DEF Scanned
<1>5. CASE parse_frame /\ UNCHANGED parsing
  <2>1. PICK j \in first_start : \E indexed \in create_indexed_frame(j) :
          /\ start_index' = start_index + indexed.length
          /\ \/ \E m \in build_uart_message(indexed.frame) : found' = Append(found, m)
             \/ build_uart_message(indexed.frame) = {} /\ found' = found
    BY <1>5 DEF parse_frame, parse_uart_read, frame_found
  <2>2. j \in Nat /\ j \in starts /\ start_index <= j /\ (start_index <= i => j <= i)
    BY <1>1, FirstStart DEF starts
  <2>3. PICK m \in Messages : whole(j, m)
    BY <2>2 DEF orderly
  <2>4. /\ extent(j) = Len(frames[m])
        /\ create_indexed_frame(j) = {[length |-> Len(frames[m]), frame |-> frames[m]]}
    BY <1>1, <2>2, <2>3, WholeFrame
  <2>5. start_index' = start_index + extent(j) /\ found' = Append(found, m)
    <3>1. PICK indexed \in create_indexed_frame(j) :
            /\ start_index' = start_index + indexed.length
            /\ \/ \E r \in build_uart_message(indexed.frame) : found' = Append(found, r)
               \/ build_uart_message(indexed.frame) = {}
      BY <2>1
    <3>2. indexed.length = extent(j) /\ indexed.frame = frames[m]
      BY <2>4, <3>1
    <3>3. build_uart_message(indexed.frame) = {m}
      BY <3>2, FrameIsRead
    <3> QED BY <3>1, <3>2, <3>3
  <2>6. m \in UartMessage
    BY MessagesAssumption
  <2>7. /\ \A k \in DOMAIN found : k \in DOMAIN found' /\ found'[k] = found[k]
        /\ Len(found) + 1 \in DOMAIN found' /\ found'[Len(found) + 1] = m
    BY <1>1, <2>5, <2>6
  <2>8. CASE \E k \in DOMAIN found : found[k] \in Messages /\ whole(i, found[k])
    BY <2>7, <2>8
  <2>9. CASE i = j
    BY <2>3, <2>7, <2>9
  <2>10. CASE start_index <= i /\ i # j
    <3>1. j < i
      BY <1>3, <2>2, <2>10
    <3>2. j + extent(j) <= i
      BY <2>2, <3>1 DEF orderly
    <3>3. extent(j) \in Nat
      BY <2>4, FrameShape
    <3>4. start_index' <= i
      BY <1>1, <1>3, <2>2, <2>5, <3>2, <3>3
    <3> QED BY <1>1, <1>5, <3>4
  <2> QED BY <1>4, <2>8, <2>9, <2>10
<1>6. CASE /\ parse_uart_read = {}
           /\ UNCHANGED found
  <2>1. CASE start_index <= i
    <3>1. PICK j : j \in first_start
      BY <2>1, ThereIsAFirst
    <3>2. j \in Nat /\ j \in starts
      BY <1>1, <3>1, FirstStart DEF starts
    <3>3. PICK m \in Messages : whole(j, m)
      BY <3>2 DEF orderly
    <3>4. create_indexed_frame(j) # {}
      BY <1>1, <3>2, <3>3, WholeFrame
    <3> QED BY <1>6, <3>1, <3>4 DEF parse_uart_read
  <2>2. CASE \E k \in DOMAIN found : found[k] \in Messages /\ whole(i, found[k])
    BY <1>6, <2>2
  <2> QED BY <1>4, <2>1, <2>2
<1> QED BY <1>5, <1>6 DEF parse

\* As long as no start bit in a read is anything but the first byte of a whole
\* frame, the index of UartTask::run never passes by one: every frame is found.
THEOREM NothingIsSkipped == Spec => []NoFrameIsSkipped
<1>1. Init => Scanned
  BY DEF Init, Scanned, starts
<1>2. TypeOK /\ Scanned /\ [Next]_vars => Scanned'
  <2> SUFFICES ASSUME TypeOK, Scanned, [Next]_vars  PROVE Scanned'
    OBVIOUS
  <2>1. CASE UNCHANGED <<buffer, start_index, parsing, found>>
    BY <2>1 DEF Scanned, starts, orderly, whole, extent, content
  <2>2. CASE receive
    <3>1. PICK n \in 0 .. Len(line) :
            buffer' = SubSeq(line, 1, n) /\ (n > 0 => parsing') /\ start_index' = 0
      BY <2>2 DEF receive
    <3>2. Len(line) \in Nat /\ line \in Seq(Byte)
      BY DEF TypeOK
    <3>3. Len(buffer') = n
      BY <3>1, <3>2
    <3>4. \A i \in starts' : i \in Nat /\ i < n
      BY <3>1, <3>2, <3>3 DEF starts
    <3>5. \A i \in starts' : parsing' /\ start_index' <= i
      BY <3>1, <3>2, <3>4
    <3> QED BY <3>5 DEF Scanned
  <2>3. CASE parse
    BY <2>3, ScannedByParse
  <2>4. \A m \in Messages : send(m) \/ send_damaged(m) =>
          UNCHANGED <<buffer, start_index, parsing, found>>
    BY DEF send, send_damaged, readVars
  <2>5. \A burst \in Bursts : disturb(burst) => UNCHANGED <<buffer, start_index, parsing, found>>
    BY DEF disturb, readVars
  <2>6. take \/ UNCHANGED vars => UNCHANGED <<buffer, start_index, parsing, found>>
    BY DEF take, vars
  <2> QED BY <2>1, <2>2, <2>3, <2>4, <2>5, <2>6 DEF Next
<1>3. Scanned => NoFrameIsSkipped
  BY DEF Scanned, NoFrameIsSkipped
<1> QED BY <1>1, <1>2, <1>3, TypeCorrect, PTL DEF Spec

-----------------------------------------------------------------------------
\* The bytes of the frames that begin at some places; the frames the index has
\* passed; and a read with fewer other bytes than the shortest frame has.
occupied(places) == UNION {i .. i + extent(i) - 1 : i \in places}
passed == {i \in starts : i < start_index}
dense == Len(buffer) - Cardinality(occupied(starts)) < HEADER_LENGTH + CRC_LENGTH

\* A message has been found for each frame that the index has passed, and the
\* index stands as far as these frames are long.
Counted ==
  orderly /\ dense =>
    /\ Len(found) = Cardinality(passed)
    /\ start_index = Cardinality(occupied(passed))
    /\ ~parsing => passed = starts

\* The frames that the index has passed.
LEMMA Passed == \A i : i \in passed <=> i \in starts /\ i < start_index
BY Zenon DEF passed

\* As many places as lie between two.
LEMMA Places ==
  ASSUME NEW a \in Nat, NEW b \in Nat, a <= b
  PROVE  IsFiniteSet(a .. b - 1) /\ Cardinality(a .. b - 1) = b - a
<1>1. a \in Int /\ b - 1 \in Int
  OBVIOUS
<1>2. /\ IsFiniteSet(a .. b - 1)
      /\ Cardinality(a .. b - 1) = IF a > b - 1 THEN 0 ELSE (b - 1) - a + 1
  BY <1>1, FS_Interval, Zenon
<1> QED BY <1>2

\* A frame has as many bytes as it is long.
LEMMA BytesOfAFrame ==
  ASSUME NEW i \in Nat, NEW length \in Nat
  PROVE  /\ IsFiniteSet(i .. i + length - 1)
         /\ Cardinality(i .. i + length - 1) = length
<1> DEFINE end == i + length
<1>1. end \in Nat /\ i <= end /\ end - i = length
  OBVIOUS
<1> HIDE DEF end
<1>2. IsFiniteSet(i .. end - 1) /\ Cardinality(i .. end - 1) = length
  BY <1>1, Places, Zenon
<1> QED BY <1>2 DEF end

\* The frames of an orderly read are at least as long as an empty one, and lie
\* in the read one behind the other (create_indexed_frame).
LEMMA OrderlyFrames ==
  ASSUME TypeOK, orderly, NEW i \in starts
  PROVE  /\ i \in Nat /\ extent(i) \in Nat /\ extent(i) >= 6
         /\ i + extent(i) <= Len(buffer)
         /\ \A j \in starts : i < j => i + extent(i) <= j
<1>1. buffer \in Seq(Byte) /\ Len(buffer) \in Nat /\ i \in 0 .. Len(buffer) - 1
  BY DEF TypeOK, starts
<1>2. PICK m \in Messages : whole(i, m)
  BY DEF orderly
<1>3. extent(i) = Len(frames[m])
  BY <1>1, <1>2, WholeFrame
<1>4. frames[m] \in Seq(Byte) /\ Len(frames[m]) \in Nat /\ Len(frames[m]) >= 6
  BY FrameShape
<1>5. i + Len(frames[m]) \in DOMAIN buffer
  BY <1>2, <1>4 DEF whole
<1> QED BY <1>1, <1>3, <1>4, <1>5 DEF orderly

\* The frames of an orderly read and their bytes are finitely many.
LEMMA OccupiedIsFinite ==
  ASSUME TypeOK, orderly, NEW places \in SUBSET starts
  PROVE  /\ IsFiniteSet(places) /\ Cardinality(places) \in Nat
         /\ occupied(places) \subseteq 0 .. Len(buffer) - 1
         /\ IsFiniteSet(occupied(places)) /\ Cardinality(occupied(places)) \in Nat
<1>1. Len(buffer) \in Nat
  BY DEF TypeOK
<1>2. IsFiniteSet(0 .. Len(buffer) - 1)
  <2>1. 0 \in Nat /\ 0 <= Len(buffer)
    BY <1>1
  <2> QED BY <1>1, <2>1, Places, Zenon
<1>3. places \subseteq 0 .. Len(buffer) - 1
  BY DEF starts
<1>4. occupied(places) \subseteq 0 .. Len(buffer) - 1
  BY <1>1, OrderlyFrames DEF occupied
<1> QED BY <1>2, <1>3, <1>4, FS_Subset, FS_CardinalityType

\* In a dense read the next frame lies no further ahead of the index than the
\* bytes of no frame are many; so the index that moves by its length passes it
\* and no other frame (uart_task.cpp:22).
LEMMA IndexPassesOne ==
  ASSUME TypeOK, orderly, dense, start_index = Cardinality(occupied(passed)),
         NEW j \in first_start
  PROVE  /\ j \in starts /\ j \notin passed
         /\ {i \in starts : i < start_index + extent(j)} = passed \cup {j}
<1>1. /\ start_index \in Nat /\ Len(buffer) \in Nat
      /\ j \in Nat /\ j \in starts /\ j < Len(buffer) /\ start_index <= j
      /\ \A i \in starts : start_index <= i => j <= i
  BY FirstStart DEF TypeOK, starts
<1>2. passed \subseteq starts
  BY DEF passed
<1> DEFINE read == 0 .. Len(buffer) - 1
           before == 0 .. j - 1
           gap == read \ occupied(starts)
<1>3. /\ IsFiniteSet(read) /\ Cardinality(read) = Len(buffer)
      /\ IsFiniteSet(before) /\ Cardinality(before) = j
  <2>1. 0 \in Nat /\ 0 <= Len(buffer) /\ 0 <= j /\ Len(buffer) - 0 = Len(buffer) /\ j - 0 = j
    BY <1>1
  <2> QED BY <1>1, <2>1, Places, Zenon
<1> HIDE DEF read, before
<1>4. IsFiniteSet(gap) /\ Cardinality(gap) \in Nat /\ Cardinality(gap) < 6
  <2>1. occupied(starts) \subseteq read /\ Cardinality(occupied(starts)) \in Nat
    BY OccupiedIsFinite DEF read
  <2>2. read \cap occupied(starts) = occupied(starts)
    BY <2>1
  <2>3. IsFiniteSet(gap) /\ Cardinality(gap) = Len(buffer) - Cardinality(occupied(starts))
    <3>1. /\ IsFiniteSet(read \ occupied(starts))
          /\ Cardinality(read \ occupied(starts))
               = Cardinality(read) - Cardinality(read \cap occupied(starts))
      BY <1>3, FS_Difference, Zenon
    <3> QED BY <1>3, <2>2, <3>1, Zenon
  <2>4. Cardinality(gap) \in Nat
    BY <2>3, FS_CardinalityType
  <2> QED BY <2>3, <2>4 DEF dense, HEADER_LENGTH, CRC_LENGTH
<1>5. before \subseteq occupied(passed) \cup gap
  <2> SUFFICES ASSUME NEW x \in before, x \in occupied(starts)
               PROVE  x \in occupied(passed)
    BY <1>1 DEF read, before
  <2>1. PICK i \in starts : x \in i .. i + extent(i) - 1
    BY DEF occupied
  <2>2. i \in Nat /\ i < j
    BY <1>1, <2>1, OrderlyFrames DEF before
  <2>3. i \in passed
    <3>1. i < start_index
      BY <1>1, <2>2
    <3> QED BY <3>1, Passed, Zenon
  <2> QED BY <2>1, <2>3 DEF occupied
<1> HIDE DEF gap
<1>6. j <= start_index + Cardinality(gap)
  <2>1. IsFiniteSet(occupied(passed))
    BY <1>2, OccupiedIsFinite
  <2>2. /\ IsFiniteSet(occupied(passed) \cup gap)
        /\ Cardinality(occupied(passed) \cup gap)
             = start_index + Cardinality(gap) - Cardinality(occupied(passed) \cap gap)
    BY <1>4, <2>1, FS_Union
  <2>3. Cardinality(occupied(passed) \cap gap) \in Nat
    BY <2>1, FS_Intersection, FS_CardinalityType
  <2>4. Cardinality(before) <= Cardinality(occupied(passed) \cup gap)
    BY <1>5, <2>2, FS_Subset
  <2> QED BY <1>1, <1>3, <1>4, <2>2, <2>3, <2>4
<1>7. extent(j) \in Nat /\ extent(j) >= 6 /\ \A i \in starts : j < i => j + extent(j) <= i
  BY <1>1, OrderlyFrames
<1>8. j < start_index + extent(j)
  BY <1>1, <1>4, <1>6, <1>7
<1>9. \A i \in starts : i \in Nat
  BY OrderlyFrames
<1>10. j \notin passed
  <2>1. ~ (j < start_index)
    BY <1>1
  <2> QED BY <2>1, Passed, Zenon
<1>11. ASSUME NEW i \in starts  PROVE i < start_index + extent(j) <=> i \in passed \/ i = j
  <2>1. i \in passed <=> i < start_index
    BY Passed, Zenon
  <2>2. CASE i < start_index
    BY <1>1, <1>7, <1>9, <2>1, <2>2
  <2>3. CASE ~ (i < start_index)
    BY <1>1, <1>7, <1>8, <1>9, <2>1, <2>3
  <2> QED BY <2>2, <2>3
<1> QED BY <1>1, <1>2, <1>10, <1>11, Zenon

\* The frame that the index passes lies behind those it has passed.
LEMMA PassedByOne ==
  ASSUME TypeOK, orderly, NEW j \in starts, start_index <= j
  PROVE  /\ Cardinality(passed \cup {j}) = Cardinality(passed) + 1
         /\ Cardinality(occupied(passed \cup {j})) = Cardinality(occupied(passed)) + extent(j)
<1>1. passed \subseteq starts /\ start_index \in Nat
  BY DEF passed, TypeOK
<1>2. j \in Nat /\ extent(j) \in Nat /\ extent(j) >= 6
  BY OrderlyFrames
<1>3. j \notin passed
  <2>1. ~ (j < start_index)
    BY <1>1, <1>2
  <2> QED BY <2>1, Passed, Zenon
<1>4. Cardinality(passed \cup {j}) = Cardinality(passed) + 1
  BY <1>1, <1>3, OccupiedIsFinite, FS_AddElement
<1> DEFINE own == j .. j + extent(j) - 1
<1>5. occupied(passed \cup {j}) = occupied(passed) \cup own
  BY DEF occupied
<1>6. occupied(passed) \cap own = {}
  <2> SUFFICES ASSUME NEW x \in occupied(passed), x \in own  PROVE FALSE
    OBVIOUS
  <2>1. PICK i \in passed : x \in i .. i + extent(i) - 1
    BY DEF occupied
  <2>2. i \in starts /\ i < start_index
    BY <2>1 DEF passed
  <2>3. i \in Nat /\ extent(i) \in Nat
    BY <2>2, OrderlyFrames
  <2>4. i < j
    BY <1>1, <1>2, <2>2, <2>3
  <2>5. i + extent(i) <= j
    BY <2>2, <2>4, OrderlyFrames
  <2> QED BY <1>2, <2>1, <2>3, <2>5
<1>7. IsFiniteSet(own) /\ Cardinality(own) = extent(j)
  BY <1>2, BytesOfAFrame, Zenon
<1>8. IsFiniteSet(occupied(passed)) /\ Cardinality(occupied(passed)) \in Nat
  BY <1>1, OccupiedIsFinite
<1>9. Cardinality(occupied(passed) \cup own) = Cardinality(occupied(passed)) + extent(j)
  <2>1. Cardinality(occupied(passed) \cup own)
          = Cardinality(occupied(passed)) + Cardinality(own) - Cardinality(occupied(passed) \cap own)
    BY <1>7, <1>8, FS_Union
  <2>2. Cardinality(occupied(passed) \cap own) = 0
    BY <1>6, FS_EmptySet
  <2> QED BY <1>2, <1>7, <1>8, <2>1, <2>2
<1> QED BY <1>4, <1>5, <1>9

\* A turn of the loop counts the frame it finds, and the last one finds that
\* there is none left.
LEMMA CountedByParse ==
  ASSUME TypeOK, Counted, parse
  PROVE  Counted'
<1>1. /\ buffer' = buffer /\ parsing /\ buffer \in Seq(Byte)
      /\ start_index \in Nat /\ Len(buffer) \in Nat /\ found \in Seq(UartMessage)
  BY DEF parse, TypeOK
<1>2. /\ starts' = starts /\ (orderly' <=> orderly) /\ (dense' <=> dense)
      /\ \A places : occupied(places)' = occupied(places)
  BY <1>1 DEF starts, orderly, dense, occupied, whole, extent, content
<1> SUFFICES ASSUME orderly, dense
             PROVE  /\ Len(found') = Cardinality(passed')
                    /\ start_index' = Cardinality(occupied(passed'))
                    /\ ~parsing' => passed' = starts
  BY <1>2 DEF Counted
<1>3. Len(found) = Cardinality(passed) /\ start_index = Cardinality(occupied(passed))
  BY DEF Counted
<1>4. passed' = {i \in starts : i < start_index'}
  BY <1>2 DEF passed
<1>5. CASE parse_frame /\ UNCHANGED parsing
  <2>1. PICK j \in first_start : \E indexed \in create_indexed_frame(j) :
          /\ start_index' = start_index + indexed.length
          /\ \/ \E m \in build_uart_message(indexed.frame) : found' = Append(found, m)
             \/ build_uart_message(indexed.frame) = {}
    BY <1>5 DEF parse_frame, parse_uart_read, frame_found
  <2>2. j \in Nat /\ j \in starts /\ start_index <= j
    BY <1>1, FirstStart DEF starts
  <2>3. PICK m \in Messages : whole(j, m)
    BY <2>2 DEF orderly
  <2>4. start_index' = start_index + extent(j) /\ found' = Append(found, m)
    <3>1. PICK indexed \in create_indexed_frame(j) :
            /\ start_index' = start_index + indexed.length
            /\ \/ \E r \in build_uart_message(indexed.frame) : found' = Append(found, r)
               \/ build_uart_message(indexed.frame) = {}
      BY <2>1
    <3>2. indexed.length = extent(j) /\ indexed.frame = frames[m]
      BY <1>1, <2>2, <2>3, <3>1, WholeFrame
    <3>3. build_uart_message(indexed.frame) = {m}
      BY <3>2, FrameIsRead
    <3> QED BY <3>1, <3>2, <3>3
  <2>5. Len(found') = Len(found) + 1
    BY <1>1, <2>4, MessagesAssumption
  <2>6. passed' = passed \cup {j}
    BY <1>3, <1>4, <2>4, IndexPassesOne
  <2>7. /\ Cardinality(passed \cup {j}) = Cardinality(passed) + 1
        /\ Cardinality(occupied(passed \cup {j})) = Cardinality(occupied(passed)) + extent(j)
    BY <2>2, PassedByOne
  <2> QED BY <1>1, <1>3, <1>5, <2>4, <2>5, <2>6, <2>7
<1>6. CASE parse_uart_read = {} /\ UNCHANGED <<start_index, found>>
  <2>1. passed' = passed
    BY <1>4, <1>6 DEF passed
  <2>2. ASSUME NEW i \in starts  PROVE i < start_index
    <3> SUFFICES ASSUME start_index <= i  PROVE FALSE
      BY <1>1 DEF starts
    <3>1. PICK j : j \in first_start
      BY ThereIsAFirst
    <3>2. j \in Nat /\ j \in starts
      BY <1>1, <3>1, FirstStart DEF starts
    <3>3. PICK m \in Messages : whole(j, m)
      BY <3>2 DEF orderly
    <3>4. create_indexed_frame(j) # {}
      BY <1>1, <3>2, <3>3, WholeFrame
    <3> QED BY <1>6, <3>1, <3>4 DEF parse_uart_read
  <2>3. passed = starts
    BY <2>2 DEF passed
  <2> QED BY <1>3, <1>6, <2>1, <2>3
<1> QED BY <1>5, <1>6 DEF parse

\* A read that has fewer bytes outside of its frames than the shortest frame has
\* finds none of them twice, although the index of UartTask::run lags behind.
THEOREM NothingIsRepeated == Spec => []NoFrameIsRepeated
<1>1. occupied({}) = {} /\ Cardinality({}) = 0
  BY FS_EmptySet DEF occupied
<1>2. Init => Counted
  <2> SUFFICES ASSUME Init  PROVE Counted
    OBVIOUS
  <2>1. starts = {} /\ start_index = 0 /\ Len(found) = 0
    BY DEF Init, starts
  <2>2. passed = {}
    BY <2>1 DEF passed
  <2> QED BY <1>1, <2>1, <2>2 DEF Counted
<1>3. TypeOK /\ Counted /\ [Next]_vars => Counted'
  <2> SUFFICES ASSUME TypeOK, Counted, [Next]_vars  PROVE Counted'
    OBVIOUS
  <2>1. CASE UNCHANGED <<buffer, start_index, parsing, found>>
    BY <2>1 DEF Counted, starts, passed, occupied, dense, orderly, whole, extent, content
  <2>2. CASE receive
    <3>1. PICK n \in 0 .. Len(line) :
            buffer' = SubSeq(line, 1, n) /\ (n > 0 => parsing') /\ start_index' = 0
      BY <2>2 DEF receive
    <3>2. Len(line) \in Nat /\ line \in Seq(Byte)
      BY DEF TypeOK
    <3>3. Len(buffer') = n
      BY <3>1, <3>2
    <3>4. starts' \subseteq Nat /\ (n = 0 => starts' = {})
      BY <3>1, <3>2, <3>3 DEF starts
    <3>5. passed' = {}
      <4>1. \A i \in Nat : ~ (i < 0)
        OBVIOUS
      <4> QED BY <3>1, <3>4, <4>1, Zenon DEF passed
    <3>6. occupied({})' = {}
      BY DEF occupied
    <3>7. found' = <<>> /\ Len(found') = 0
      BY <2>2 DEF receive
    <3>8. ~parsing' => passed' = starts'
      BY <3>1, <3>4, <3>5
    <3>9. occupied(passed)' = {}
      BY <3>5 DEF occupied
    <3> QED BY <1>1, <3>1, <3>5, <3>7, <3>8, <3>9 DEF Counted
  <2>3. CASE parse
    BY <2>3, CountedByParse
  <2>4. \A m \in Messages : send(m) \/ send_damaged(m) =>
          UNCHANGED <<buffer, start_index, parsing, found>>
    BY DEF send, send_damaged, readVars
  <2>5. \A burst \in Bursts : disturb(burst) => UNCHANGED <<buffer, start_index, parsing, found>>
    BY DEF disturb, readVars
  <2>6. take \/ UNCHANGED vars => UNCHANGED <<buffer, start_index, parsing, found>>
    BY DEF take, vars
  <2> QED BY <2>1, <2>2, <2>3, <2>4, <2>5, <2>6 DEF Next
<1>4. Counted => NoFrameIsRepeated
  BY DEF Counted, NoFrameIsRepeated, dense, occupied
<1> QED BY <1>2, <1>3, <1>4, TypeCorrect, PTL DEF Spec

=============================================================================
