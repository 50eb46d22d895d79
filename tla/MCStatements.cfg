CONSTANTS
  MaxDrdaSections = 3
  WordBits = 2
  Words = 2
  MaxSections = 3
  Callers = {p, q}
  Slots = {s1, s2, s3}
  Nobody = Nobody
SYMMETRY Symmetry
SPECIFICATION StatementsSpec
INVARIANT StatementsTypeOK
INVARIANT SectionsMatchStatements
INVARIANT RunsOwnText
INVARIANT ExecMatchesText
PROPERTY ImplementsPool
PROPERTY RotatesAway
