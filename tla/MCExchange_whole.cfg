SPECIFICATION FairExchange
INVARIANTS TypeOK NothingLost EmptyAfterTimeout ResponseInOrder PromptExchangeWhole
PROPERTIES ReadsInOrder ExchangeEnds
CONSTANTS
  Byte <- MCByte
  Messages <- MCMessages
  Responses <- MCResponses
  Nul = 0
  BuffSize = 3
  Timeout = 3
  MaxLate = 2
  SndBuf = 2
CHECK_DEADLOCK FALSE
