CONSTANTS
  MaxWrites = 4
  MaxUnits = 2
  BatchRows = 2
CHECK_DEADLOCK FALSE
SPECIFICATION TransactionsSpec
INVARIANT TransactionsTypeOK
INVARIANT NothingUnasked
INVARIANT AllOrNothing
INVARIANT NothingDangling
INVARIANT IsolationTracked
PROPERTY CheckoutIsFresh
