CONSTANTS
  MaxRequests = 2
  MaxFrames = 2
CHECK_DEADLOCK FALSE
SPECIFICATION ExchangeSpec
INVARIANT ExchangeTypeOK
INVARIANT PooledIsQuiet
INVARIANT OwnReplies
INVARIANT OkIsComplete
PROPERTY CancelledReturns
