\* The widths of the code, but for lengths: a CLOB is inline up to 4 bytes (16383),
\* a value with a two-byte length up to 8 (65535), a stream up to 12 (2 GiB), and a
\* BLOB of up to 4 bytes (16383) makes a text be rewritten.
SPECIFICATION ParametersSpec
CONSTANTS
  Cases <- MCCases
  InlineUnits = 4
  MaxInline = 8
  MaxStream = 12
  LittleEndian = TRUE
  ShortBlob = 4
  NoDest = "nodest"
INVARIANT ParametersTypeOK
INVARIANT RowsArrive
INVARIANT TextKeepsItsTokens
INVARIANT OutputsReachTheirs
