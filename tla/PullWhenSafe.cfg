SPECIFICATION Spec
CONSTANTS
  Replica = {A, B}
  Name = {p}
  Guarded = {}
  Text = {blank, hash}
  Blank = blank
  HashText = hash
  Task = {t}
  PushLimit = 1
  MaxRequests = 3
  NoRow = NoRow
CHECK_DEADLOCK FALSE
PROPERTIES AppliedWhenSafe
