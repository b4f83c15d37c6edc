SPECIFICATION FairSpec
CONSTANTS
  Script <- Infos
  WordSize = 4
  Byte <- TwoBits
  Bytes <- LittleEndian
  Capacity = 7
  BufferSize = 6
  MaxSignals = 3
INVARIANT TypeOK
PROPERTIES ImplementsChannel Arrives
CHECK_DEADLOCK FALSE
