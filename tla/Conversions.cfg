SPECIFICATION ConversionsSpec
CONSTANTS
  ByteRange = 4
  ClientRange = 2
  IdRange = 2
  LengthRange = 2
  CodeRange = 8
  MaxCode = 11
  Inputs <- SomeInputs
  Capacity = 3
INVARIANTS
  CodecTypeOK
  ParsedByLayout
  EncodeInverts
  BuffersTypeOK
  ReadsBackWritten
CHECK_DEADLOCK FALSE
