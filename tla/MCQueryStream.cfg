CONSTANTS
  NumRows = 4
  Parts = 2
  Lobs <- MCLobs
CHECK_DEADLOCK FALSE
SPECIFICATION StreamSpec
INVARIANT StreamTypeOK
INVARIANT NoFetchAfterEnd
INVARIANT CommitAfterEnd
INVARIANT CursorReleased
PROPERTY ImplementsResult
