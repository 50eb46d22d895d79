CONSTANTS
  MaxDrdaSections = 3
  WordBits = 2
  Words = 2
  MaxSections = 3
  Callers = {p, q}
  Slots = {s1, s2, s3}
  Nobody = Nobody
VIEW Observed
SPECIFICATION StatementsSpec
INVARIANT BatchMatchesText
