SPECIFICATION Spec
CONSTANTS
  Node = {n1, n2}
  MaxPromos = 2
  File = {r, t}
  Scratch = {}
  Runs = {r}
  Drafts = {r}
  Protected = {t}
  Task = {t1, t2}
  MaxRequests = 2
  MaxCrashes = 1
  Handlers = {"propose", "promote", "approve", "apply", "ingest", "edit", "resolve", "reject", "stale", "confirm", "supersede"}
  ReviewOptional = TRUE
  Absent = Absent
  NoNode = NoNode
  NoFile = NoFile
SYMMETRY Symmetry
CHECK_DEADLOCK FALSE
INVARIANTS TypeOK RetiredStaysOut ProtectedTextWasApproved DuplicatesAreNotVetted
PROPERTIES RejectionsStand AppendKeepsBlocks
