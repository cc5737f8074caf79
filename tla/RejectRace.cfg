SPECIFICATION Spec
CONSTANTS
  Node = {n1, n2}
  MaxPromos = 2
  File = {s, t}
  Scratch = {s}
  Runs = {}
  Drafts = {s}
  Protected = {t}
  Task = {t1, t2}
  MaxRequests = 3
  MaxCrashes = 0
  Handlers = {"approve", "reject"}
  ReviewOptional = TRUE
  Absent = Absent
  NoNode = NoNode
  NoFile = NoFile
CHECK_DEADLOCK FALSE
PROPERTY RejectedIsFinal
