SPECIFICATION Spec
CONSTANTS
  LineKind <- LongLines
  Option <- Everything
  MaxLines = 2
  Window = 1  Capacity = 1  Buffer = 2
CHECK_DEADLOCK FALSE
INVARIANT DeliversInOrder
