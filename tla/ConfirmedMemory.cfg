SPECIFICATION Spec
CONSTANTS
  Node = {n1, n2}
  MaxPromos = 2
  File = {s, t}
  Scratch = {s}
  Runs = {}
  Drafts = {s}
  Protected = {t}
  Task = {t1}
  MaxRequests = 2
  MaxCrashes = 0
  Handlers = {"propose", "stale", "confirm"}
  ReviewOptional = FALSE
  Absent = Absent
  NoNode = NoNode
  NoFile = NoFile
CHECK_DEADLOCK FALSE
PROPERTY ConfirmedIsCurrent
