CONSTANTS
  NumRegisters = 3
  Wrkstn = 2
  Values = {"", "app", "other"}
  Empty = ""
  Hostname = "host"
  Base <- MCBase
  Users = {"alice", "bob"}
  BaseUser = "alice"
CHECK_DEADLOCK FALSE
SPECIFICATION RegistersSpec
PROPERTY NoForeignRegisters
