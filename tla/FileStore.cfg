SPECIFICATION Spec
CONSTANTS
  Path = {p, q}
  Content = {a, b}
  Binary = {}
  Task = {t1, t2}
  MaxRequests = 3
  MaxFaults = 1
  CascadeOn = FALSE
  NoFile = NoFile
  NoContent = NoContent
  Empty = Empty
  Torn = Torn
SYMMETRY TextSymmetry
CHECK_DEADLOCK FALSE
INVARIANTS TypeOK NothingNamesALostBlob BlobsAreWhole CleanPathsAgree
