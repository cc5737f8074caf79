SPECIFICATION Spec
CONSTANTS
  Path = {p}
  Content = {a, b}
  Binary = {b}
  Task = {t1}
  MaxRequests = 3
  MaxFaults = 1
  CascadeOn = FALSE
  NoFile = NoFile
  NoContent = NoContent
  Empty = Empty
  Torn = Torn
CHECK_DEADLOCK FALSE
INVARIANT BlobsPreserveBytes
