SPECIFICATION Spec
CONSTANTS
  Initial = 2
  Junk = Junk
  Zero = Zero
  SizeMod = 256
  MaxLength = 3
  MaxBytes = 6
  MaxCapacity = 7
INVARIANTS
  TypeOK
  ByteQueue
CHECK_DEADLOCK FALSE
