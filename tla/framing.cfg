SPECIFICATION Spec
CONSTANTS
  Messages <- MCMessages
  Crc <- crc16_modbus
  start_bit = 170
  MAX_DATA_LEN = 5
  BufferLength = 20
  QueueLength = 2
  Bursts <- MCBursts
  MaxNoise = 1
INVARIANTS
  TypeOK
  NoFrameIsSkipped
  NoFrameIsRepeated
PROPERTY
  ImplementsWire
