SPECIFICATION FairSpec
CONSTANTS
  Path <- MCPath
  Folder <- MCFolder
  Protected <- MCProtected
  Query = {k}
  Byte = {x}
  Zero = zero
  MaxSize = 2
  MaxOffset = 1
  MaxOps = 2
  MaxFd = 2
  MaxRequests = 3
  MaxEvents = 1
  NoFile = NoFile
  NoHandle = NoHandle
  NoCall = NoCall
CHECK_DEADLOCK FALSE
INVARIANTS TypeOK CleanHandlesAreSaved RenameKeepsTheText ListedIffFound
PROPERTIES SuccessMeansStored EveryRequestIsAnswered
