CONSTANTS
  Mechanisms <- MCMechanisms
  MaxSets = 2
  MaxRows = 2
  MaxObjects = 1
SPECIFICATION SessionSpec
INVARIANT SessionTypeOK
INVARIANT AcceptedByServer
INVARIANT NothingLeftBehind
INVARIANT ErrorsReported
INVARIANT AnswersAreRead
INVARIANT QueryIsWhole
