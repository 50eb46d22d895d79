CONSTANTS
  MaxSegment = 15
  MaxPayload = 40
  Sizes <- MCSizes
  MaxExternal = 2
  ReplySizes <- MCReplySizes
  MaxReplies = 2
  Pieces <- MCPieces
  Window = 8
SPECIFICATION ChainsSpec
INVARIANT ChainsTypeOK
INVARIANT ReadsWhatWasWritten
INVARIANT TurnsAlternate
INVARIANT ObjectsFollowTheirCommand
