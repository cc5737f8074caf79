SPECIFICATION Spec
CONSTANTS
  Replica = {A, B}
  Name = {p, g}
  Guarded = {g}
  Text = {blank, hash}
  Blank = blank
  HashText = hash
  Task = {t, u}
  PushLimit = 2
  MaxRequests = 4
  NoRow = NoRow
  Place = {x, y}
  Word = {w, b}
  Defaults = {y}
  Raw = {b}
  Mangled = mangled
  Memo = {m, n}
  Roller = {i, j}
  Cascades = FALSE
  MaxSnapshots = 1
  MaxEdits = 2
  MaxRollbacks = 2
  Nothing = Nothing
  Run = {r}
  Line = {k, l}
  Durable = {l}
  Lesson = {o}
  Worker = {v, z}
  MaxJobs = 3
  MaxBreaks = 1
  GNode = {1, 2, 3, 4}
  Spare = {3, 4}
  Source = {1, 2}
  Relation = {"supersedes", "contradicts"}
  EditedTo = {"candidate", "duplicate", "superseded"}
  Overscan = 1
  RelationFilter = {{"related_to", "contradicts", "supersedes", "duplicates", "derived_from"}}
  SearchDepth = {2}
  SearchLimit = {2}
  MaxEdges = 4
  MaxStart = 3
  MaxGraphMoves = 2
  NoNode = NoNode
  Asker = {ask}
  MaxAsks = 1
  MaxAnswers = 2
  Model = {ma, mb}
  Caller = {ca, cb}
  MaxLoads = 2
  Limit = 5
  MaxLines = 8
  Handle = {ha, hu}
  Unknown = hu
  Client = {cl}
  Note = {note}
  NoRole = NoRole
  NoFile = NoFile
  MaxWrites = 2
  Paper = {pa}
  Speech = {sa, sb, sx}
  Secret = {sx}
  Readme = readme
  Archivist = {aa, ab}
  NoPaper = NoPaper
  MaxPieces = 2
  MaxTouches = 1
  Record = {ra, rb}
  Earlier = {ra}
  Torn = Torn
  MaxStops = 2
  Wording = {{}, {"secret"}, {"orders"}, {"explicit"}}
  Malformed = Malformed
CHECK_DEADLOCK FALSE
INVARIANTS TypeOK OneOpenConflict RollbackRestores EventsTellStatus OneLessonPerKey SearchesAreExact WithdrawnIsNotRecalled SupersededIsWithheld OnePipelinePerModel ChunksKeepText ArchiveIsVerbatim CandidatesQuoteTheirSource OpenedIsCurrent AcknowledgedSurvive ReadRisksAreFlagged
PROPERTIES NoSilentOverwrite ProtectedNotApplied EveryEventAccounted AppendKeepsLines RemoteAppendsKeepText
