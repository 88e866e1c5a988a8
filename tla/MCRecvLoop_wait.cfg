SPECIFICATION Spec
INVARIANT ExtraWaitRead
CONSTANTS
  Byte <- MCByte
  Messages <- MCText
  Nul = 0
  BuffSize = 3
  Timeout = 3
  MaxLate = 0
CHECK_DEADLOCK FALSE
