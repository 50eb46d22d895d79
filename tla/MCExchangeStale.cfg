CONSTANTS
  MaxRequests = 2
  MaxFrames = 2
CHECK_DEADLOCK FALSE
SPECIFICATION ExchangeSpec
INVARIANT NobodysReplies
