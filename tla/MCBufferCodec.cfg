SPECIFICATION CodecSpec
CONSTANTS
  GroupBits = 2
  Width = 5
  LengthBytes = 2
  Fields <- SomeFields
  MaxFields = 3
INVARIANTS
  OffsetInside
  ReadBack
  ArrivedIsReadable
CHECK_DEADLOCK FALSE
