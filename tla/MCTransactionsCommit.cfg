CONSTANTS
  MaxWrites = 4
  MaxUnits = 2
  BatchRows = 2
CHECK_DEADLOCK FALSE
SPECIFICATION TransactionsSpec
INVARIANT CommitDurable
