SPECIFICATION Spec
CONSTANTS
  Path = {p}
  Content = {a, b}
  Binary = {b}
  Task = {t1, t2}
  MaxRequests = 3
  MaxFaults = 1
  CascadeOn = FALSE
  NoFile = NoFile
  NoContent = NoContent
  Empty = Empty
  Torn = Torn
SYMMETRY Symmetry
CHECK_DEADLOCK FALSE
PROPERTIES ImplementsAtomicFiles OnlyTheFileSeenIsDropped FileIdsAreStable
