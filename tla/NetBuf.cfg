SPECIFICATION Spec
CONSTANTS
  Byte = {b1, b2}
  Junk = junk
  Count = {0, 1, 2}
  NewSize = 2
  MaxSize = 3
INVARIANTS Layout IInv
PROPERTY DequeSpec
