SPECIFICATION Spec
CONSTANTS
  Handle = {h, u}
  Unknown = u
  Client = {k}
  Note = {w}
  NoRole = NoRole
  NoFile = NoFile
  MaxWrites = 2
CHECK_DEADLOCK FALSE
PROPERTIES AppendsKeepText
